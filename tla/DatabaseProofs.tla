--------------------------- MODULE DatabaseProofs ---------------------------
(* Proofs about the two programs that write the database outside of the api: *)
(* the migration runner, for any files that can be interrupted and any       *)
(* number of interruptions, and the seed, for any numbers of rows, batch     *)
(* size and bounds.                                                          *)
EXTENDS Migrate, Seed, SequenceTheorems, FiniteSetTheorems, TLAPS

-----------------------------------------------------------------------------
(* Migrate.  Of the files only this is used: they are sequences of           *)
(* statements that each make an object and, by RunsConverge alone, that      *)
(* there are five and that the objects of a file differ.                     *)

FilesAreSequences ==
    /\ Len(Files) \in Nat
    /\ \A v \in Versions :
        /\ Len(Files[v]) \in Nat \ {0}
        /\ DOMAIN Files[v] = 1..Len(Files[v])
        /\ \A n \in 1..Len(Files[v]) : Files[v][n].object \in Objects

(* The object of statement n of file v is there and, if the statement remakes *)
(* it, as that file or a later one has made it.                               *)
Made(v, n) ==
    LET s == Files[v][n]
    IN  schema[s.object] # 0 /\ (s.on # "kept" => schema[s.object] >= v)

Applied(v) == \A n \in 1..Len(Files[v]) : Made(v, n)

(* The ledger and the place of the runner tell what is in the schema.  A file  *)
(* makes an object only when all files before it are recorded, so that nothing *)
(* in the schema is later than the file being applied.                         *)
LedgerInv ==
    /\ \A v \in recorded : Applied(v)
    /\ \A o \in Objects : \A v \in 1..schema[o] - 1 : v \in recorded
    /\ pc \in {"apply", "record"} => file \notin recorded
    /\ pc \in {"apply", "record"} => file <= release
    /\ pc = "apply" => \A n \in 1..statement - 1 : Made(file, n)
    /\ pc = "record" => Applied(file)

(* The runner passes a file only when it is recorded, and an api that compose *)
(* up started has all files of its release.                                   *)
ApiInv ==
    /\ pc \in {"ledger"} \cup Stopped => file = 1
    /\ pc \in {"check", "apply", "record"} => 1..file - 1 \subseteq recorded
    /\ api /\ ~bypassed => 1..release \subseteq recorded

MigrateIInv == MigrateTypeOK /\ LedgerInv /\ ApiInv

-----------------------------------------------------------------------------
WellFormed(f) == Len(f) \in Nat \ {0} /\ DOMAIN f = 1..Len(f)

LEMMA FilesFact == FilesAreSequences
<1>1. Len(Files) = 5 /\ Versions = 1..5
    BY DEF Files, Versions
<1>2. /\ WellFormed(Init001) /\ WellFormed(Indexes002) /\ WellFormed(Feed003)
      /\ WellFormed(Preaggregate004) /\ WellFormed(Utf8mb4005)
    BY DEF WellFormed, Init001, Indexes002, Feed003, Preaggregate004, Utf8mb4005
<1>3. /\ Files[1] = Init001 /\ Files[2] = Indexes002 /\ Files[3] = Feed003
      /\ Files[4] = Preaggregate004 /\ Files[5] = Utf8mb4005
    BY DEF Files
<1>4. ASSUME NEW v \in Versions
      PROVE  WellFormed(Files[v])
    <2>1. v = 1 \/ v = 2 \/ v = 3 \/ v = 4 \/ v = 5
        BY <1>1
    <2> QED BY <1>2, <1>3, <2>1, Zenon
<1>5. \A v \in Versions : \A n \in 1..Len(Files[v]) : Files[v][n].object \in Objects
    BY <1>4 DEF WellFormed, Objects, Range
<1> QED
    BY <1>1, <1>4, <1>5 DEF FilesAreSequences, WellFormed

(* migrations/*.sql: a statement takes no object away, leaves its own, and   *)
(* makes none older, of objects no later than its file.                       *)
LEMMA EffectOnlyAdds ==
    ASSUME NEW s, s.object \in Objects,
           NEW f \in Versions,
           schema \in [Objects -> {0} \cup Versions],
           schema[s.object] <= f,
           schema' = Effect(schema, s, f)
    PROVE  /\ schema' \in [Objects -> {0} \cup Versions]
           /\ schema'[s.object] # 0
           /\ s.on # "kept" => schema'[s.object] = f
           /\ \A o \in Objects : schema'[o] = schema[o] \/ (schema'[o] = f /\ schema[o] <= f)
<1>1. 0 \notin Versions /\ Versions \subseteq Nat
    BY FilesFact DEF FilesAreSequences, Versions
<1>2. schema' = [schema EXCEPT ![s.object] =
                    IF s.on = "kept" /\ schema[s.object] # 0 THEN schema[s.object] ELSE f]
    BY DEF Effect
<1> QED
    BY <1>1, <1>2

-----------------------------------------------------------------------------
LEMMA InitMigrateIInv == MigrateInit => MigrateIInv
<1> SUFFICES ASSUME MigrateInit PROVE MigrateIInv
    OBVIOUS
<1>1. 1 \in 1..release + 1
    BY FilesFact DEF MigrateInit, FilesAreSequences, Versions
<1>2. MigrateTypeOK
    <2>1. schema \in [Objects -> {0} \cup Versions] /\ 0 \in 0..MaxInterrupts
        BY MigrateAssumption DEF MigrateInit
    <2> QED BY <1>1, <2>1 DEF MigrateInit, MigrateTypeOK, Stopped
<1>3. LedgerInv /\ ApiInv
    BY DEF MigrateInit, LedgerInv, ApiInv, Stopped
<1> QED
    BY <1>2, <1>3 DEF MigrateIInv

(* A step that only moves the runner on, or ends it, keeps the schema. *)
LEMMA NextMigrateIInv == MigrateIInv /\ [MigrateNext]_migrateVars => MigrateIInv'
<1> SUFFICES ASSUME MigrateIInv, [MigrateNext]_migrateVars
             PROVE  MigrateIInv'
    OBVIOUS
<1> USE FilesFact, MigrateAssumption
        DEF MigrateIInv, MigrateTypeOK, LedgerInv, ApiInv, Stopped, FilesAreSequences, Versions
<1>1. CASE CreateLedger
    <2>1. MigrateTypeOK'
        BY <1>1 DEF CreateLedger
    <2>2. LedgerInv'
        BY <1>1 DEF CreateLedger, Applied, Made
    <2>3. ApiInv'
        BY <1>1 DEF CreateLedger
    <2> QED BY <2>1, <2>2, <2>3
<1>2. CASE Check
    <2>1. CASE file \in recorded
        BY <1>2, <2>1 DEF Check, Applied, Made
    <2>2. CASE file \notin recorded
        BY <1>2, <2>2 DEF Check, Applied, Made
    <2> QED BY <2>1, <2>2
<1>3. CASE Apply
    <2> DEFINE s == Files[file][statement]
    <2>1. file \in Versions /\ statement \in 1..Len(Files[file]) /\ s.object \in Objects
        BY <1>3 DEF Apply
    <2>2. CASE StatementFails(s)
        BY <1>3, <2>2 DEF Apply, Exit, Applied, Made
    <2>3. CASE ~StatementFails(s)
        <3>1. schema' = Effect(schema, s, file)
            BY <1>3, <2>3 DEF Apply
        <3>2. /\ schema' \in [Objects -> {0} \cup Versions]
              /\ schema'[s.object] # 0
              /\ s.on # "kept" => schema'[s.object] = file
              /\ \A o \in Objects : \/ schema'[o] = schema[o]
                                    \/ schema'[o] = file /\ schema[o] <= file
            <4>1. file \notin recorded /\ file \in Nat \ {0} /\ schema[s.object] \in Nat
                BY <1>3, <2>1 DEF Apply
            <4>2. schema[s.object] <= file
                BY <2>1, <4>1
            <4> QED BY <2>1, <3>1, <4>2, EffectOnlyAdds
        <3>3. \A v \in Versions : \A n \in 1..Len(Files[v]) : Made(v, n) => Made(v, n)'
            <4>1. SUFFICES ASSUME NEW v \in Versions, NEW n \in 1..Len(Files[v]), Made(v, n)
                           PROVE  Made(v, n)'
                OBVIOUS
            <4>2. Files[v][n].object \in Objects
                OBVIOUS
            <4>3. PICK was \in Nat : was = schema[Files[v][n].object]
                BY <4>2
            <4>4. PICK is \in Nat : is = schema'[Files[v][n].object]
                BY <3>2, <4>2
            <4>5. is = was \/ (is = file /\ was <= file /\ file # 0)
                BY <2>1, <3>2, <4>2, <4>3, <4>4
            <4>6. is # 0 /\ (Files[v][n].on # "kept" => is >= v)
                BY <2>1, <4>1, <4>3, <4>5 DEF Made
            <4> QED BY <4>4, <4>6 DEF Made
        <3>4. PICK f \in Versions : f = file
            BY <2>1
        <3>5. PICK k \in 1..Len(Files[f]) : k = statement
            BY <2>1, <3>4
        <3>6. /\ file' = f /\ UNCHANGED <<release, recorded>> /\ pc = "apply"
              /\ \/ pc' = "apply" /\ statement' = k + 1 /\ k < Len(Files[f])
                 \/ pc' = "record" /\ statement' = 1 /\ k = Len(Files[f])
            <4>1. k \in Nat /\ Len(Files[f]) \in Nat /\ k <= Len(Files[f])
                BY <3>5
            <4> QED BY <1>3, <2>3, <3>4, <3>5, <4>1 DEF Apply
        <3>7. LedgerInv'
            <4>1. \A v \in recorded' : Applied(v)'
                BY <3>3, <3>6 DEF Applied
            <4>2. \A o \in Objects : \A v \in 1..schema'[o] - 1 : v \in recorded'
                BY <2>1, <3>2, <3>6
            <4>3. \A n \in 1..k : Made(f, n)'
                <5>1. Made(f, k)'
                    BY <2>1, <3>2, <3>4, <3>5 DEF Made
                <5>2. \A n \in 1..k - 1 : n \in 1..Len(Files[f]) /\ Made(f, n)
                    BY <3>4, <3>5, <3>6
                <5>3. \A n \in 1..k - 1 : Made(f, n)'
                    BY <3>3, <5>2
                <5>4. \A n \in 1..k : n = k \/ n \in 1..k - 1
                    OBVIOUS
                <5> QED BY <5>1, <5>3, <5>4
            <4>4. pc' \in {"apply", "record"} => file' <= release' /\ file' \notin recorded'
                BY <3>4, <3>6
            <4>5. pc' = "apply" => \A n \in 1..statement' - 1 : Made(f, n)'
                BY <3>6, <4>3
            <4>6. pc' = "record" => Applied(f)'
                BY <3>6, <4>3 DEF Applied
            <4> QED BY <3>6, <4>1, <4>2, <4>4, <4>5, <4>6 DEF Applied, Made
        <3>8. MigrateTypeOK'
            BY <1>3, <2>1, <2>3, <3>2 DEF Apply
        <3>9. ApiInv'
            BY <1>3, <2>3 DEF Apply
        <3> QED BY <3>7, <3>8, <3>9
    <2> QED BY <2>2, <2>3
<1>4. CASE Record
    BY <1>4 DEF Record, Applied, Made
<1>5. CASE Finish
    BY <1>5 DEF Finish, Exit, Applied, Made
<1>6. CASE Interrupt
    BY <1>6 DEF Interrupt, Exit, Applied, Made
<1>7. CASE Deploy
    <2>1. MigrateTypeOK'
        <3>1. file = 1 /\ statement = 1
            BY <1>7 DEF Deploy
        <3>2. release' \in Versions /\ 1 \in 1..release' + 1
            <4>1. ASSUME NEW l \in Nat, NEW a \in 1..l, NEW b \in a..l
                  PROVE  b \in 1..l /\ 1 \in 1..b + 1
                OBVIOUS
            <4>2. Len(Files) \in Nat /\ release \in 1..Len(Files) /\ release' \in release..Len(Files)
                BY <1>7 DEF Deploy
            <4> QED BY <4>1, <4>2, Zenon
        <3> QED BY <1>7, <3>1, <3>2 DEF Deploy
    <2>2. LedgerInv'
        BY <1>7 DEF Deploy, Applied, Made
    <2>3. ApiInv'
        BY <1>7 DEF Deploy
    <2> QED BY <2>1, <2>2, <2>3
<1>8. CASE Up
    BY <1>8 DEF Up, Applied, Made
<1>9. CASE SwitchVariant
    BY <1>9 DEF SwitchVariant, Applied, Made
<1>10. CASE UNCHANGED migrateVars
    BY <1>10 DEF migrateVars, Applied, Made
<1> QED
    BY <1>1, <1>2, <1>3, <1>4, <1>5, <1>6, <1>7, <1>8, <1>9, <1>10 DEF MigrateNext, Script

LEMMA MigrateInvariance == MigrateSpec => []MigrateIInv
BY InitMigrateIInv, NextMigrateIInv, PTL DEF MigrateSpec

-----------------------------------------------------------------------------
(* Every variable of the runner keeps its type, whatever is interrupted. *)
THEOREM MigrateTypeCorrect == MigrateSpec => []MigrateTypeOK
<1>1. MigrateIInv => MigrateTypeOK
    BY DEF MigrateIInv
<1> QED BY <1>1, MigrateInvariance, PTL

(* migrate.sh:26-38: whatever was interrupted and however often, a file in    *)
(* schema_migrations has taken effect with every statement: the objects it     *)
(* makes are there, and those it remakes are of that file or a later one.      *)
THEOREM LedgerIsTrue == MigrateSpec => []RecordedIsApplied
<1>1. MigrateIInv => RecordedIsApplied
    BY FilesFact DEF MigrateIInv, MigrateTypeOK, LedgerInv, RecordedIsApplied, Applied, Made, Range,
        FilesAreSequences, Versions
<1> QED BY <1>1, MigrateInvariance, PTL

(* compose.reg.yml:28-30: compose up starts api on all files of its release,   *)
(* and it has them for as long as it runs; not so an api that was started by   *)
(* switch-variant.sh before migrate had completed.                             *)
THEOREM ApiHasItsSchema == MigrateSpec => []ApiSeesSchema
<1>1. MigrateIInv => ApiSeesSchema
    BY DEF MigrateIInv, ApiInv, ApiSeesSchema
<1> QED BY <1>1, MigrateInvariance, PTL

-----------------------------------------------------------------------------
(* Converges.  The ledger names a prefix of the files, and the schema is what *)
(* a fresh run of them leaves, with a part of the next file made over it.     *)

Half(r, k) ==
    [o \in Objects |-> IF \E i \in 1..k : Files[r + 1][i].object = o
                       THEN Once(Fresh[r], r + 1)[o] ELSE Fresh[r][o]]

Place(r, k) ==
    /\ recorded = 1..r
    /\ schema = Half(r, k)
    /\ k # 0 => r < release /\ k <= Len(Files[r + 1])
    /\ pc \in {"apply", "record"} => file = r + 1
    /\ pc = "apply" => statement - 1 <= k
    /\ pc = "record" => k = Len(Files[file])
    /\ pc = "check" => file <= r + 1
    /\ pc = "done" => r = release

ConvergeInv == \E r \in 0..release, k \in Nat : Place(r, k)

(* Fresh is the function its equation defines: written out, the five files   *)
(* give one that satisfies it.                                              *)
LEMMA FreshIs ==
    /\ Fresh[0] = [o \in Objects |-> 0]
    /\ \A n \in Versions : Fresh[n] = Once(Fresh[n - 1], n)
<1>1. Len(Files) = 5 /\ Versions = 1..5
    BY DEF Files, Versions
<1> DEFINE Equation(g) == g = [n \in 0..5 |-> IF n = 0 THEN [o \in Objects |-> 0] ELSE Once(g[n - 1], n)]
           zero == [o \in Objects |-> 0]
           one == Once(zero, 1)
           two == Once(one, 2)
           three == Once(two, 3)
           four == Once(three, 4)
           five == Once(four, 5)
           all == [n \in 0..5 |-> IF n = 0 THEN zero ELSE IF n = 1 THEN one ELSE IF n = 2 THEN two
                                  ELSE IF n = 3 THEN three ELSE IF n = 4 THEN four ELSE five]
<1>2. Equation(all)
    <2> HIDE DEF zero, one, two, three, four, five
    <2>1. /\ all[0] = zero /\ all[1] = one /\ all[2] = two /\ all[3] = three /\ all[4] = four
          /\ all[5] = five
        OBVIOUS
    <2> HIDE DEF all
    <2>2. ASSUME NEW n \in 0..5
          PROVE  all[n] = IF n = 0 THEN zero ELSE Once(all[n - 1], n)
        <3>1. CASE n = 0
            BY <2>1, <3>1
        <3>2. CASE n = 1
            BY <2>1, <3>2 DEF one
        <3>3. CASE n = 2
            BY <2>1, <3>3 DEF two
        <3>4. CASE n = 3
            BY <2>1, <3>4 DEF three
        <3>5. CASE n = 4
            BY <2>1, <3>5 DEF four
        <3>6. CASE n = 5
            BY <2>1, <3>6 DEF five
        <3>7. QED
            BY <3>1, <3>2, <3>3, <3>4, <3>5, <3>6
    <2>3. all = [n \in 0..5 |-> all[n]]
        BY DEF all
    <2>4. QED
        BY <2>2, <2>3 DEF zero
<1>3. Fresh = CHOOSE g : Equation(g)
    BY <1>1 DEF Fresh
<1>4. Equation(Fresh)
    BY <1>2, <1>3
<1>5. QED
    BY <1>1, <1>4

LEMMA ObjectsDiffer ==
    \A v \in Versions : \A i, j \in 1..Len(Files[v]) :
        Files[v][i].object = Files[v][j].object => i = j
<1> DEFINE Differ(f) == \A i, j \in 1..Len(f) : f[i].object = f[j].object => i = j
<1>1. Versions = 1..5
    BY DEF Files, Versions
<1>2. /\ Files[1] = Init001 /\ Files[2] = Indexes002 /\ Files[3] = Feed003
      /\ Files[4] = Preaggregate004 /\ Files[5] = Utf8mb4005
    BY DEF Files
<1>3. Differ(Init001)
    BY DEF Init001, IfAbsent
<1>4. Differ(Indexes002)
    BY DEF Indexes002, Strict
<1>5. Differ(Feed003)
    BY DEF Feed003, IfAbsent, Overwrite
<1>6. Differ(Preaggregate004)
    BY DEF Preaggregate004, Overwrite
<1>7. Differ(Utf8mb4005)
    BY DEF Utf8mb4005, Overwrite
<1>8. ASSUME NEW v \in Versions PROVE Differ(Files[v])
    <2>1. v = 1 \/ v = 2 \/ v = 3 \/ v = 4 \/ v = 5
        BY <1>1
    <2> HIDE DEF Differ
    <2> QED BY <1>2, <1>3, <1>4, <1>5, <1>6, <1>7, <2>1
<1> QED
    BY <1>8

(* What a statement's own file makes of its object. *)
LEMMA OnceAt ==
    ASSUME NEW t, NEW v \in Versions, NEW i \in 1..Len(Files[v])
    PROVE  Once(t, v)[Files[v][i].object] =
                IF Files[v][i].on = "kept" /\ t[Files[v][i].object] # 0
                THEN t[Files[v][i].object] ELSE v
<1> DEFINE o == Files[v][i].object
<1>1. o \in Objects /\ DOMAIN Files[v] = 1..Len(Files[v])
    BY FilesFact DEF FilesAreSequences
<1>2. \A s \in Range(Files[v]) : s.object = o => s = Files[v][i]
    BY <1>1, ObjectsDiffer DEF Range
<1>3. Files[v][i] \in Range(Files[v])
    BY <1>1 DEF Range
<1>4. QED
    BY <1>1, <1>2, <1>3 DEF Once

(* All of a file made is what a fresh run goes on to. *)
LEMMA WholeFile ==
    ASSUME NEW r \in Nat, r + 1 \in Versions
    PROVE  Half(r, Len(Files[r + 1])) = Half(r + 1, 0)
<1>1. Fresh[r + 1] = Once(Fresh[r], r + 1)
    BY FreshIs
<1>2. DOMAIN Files[r + 1] = 1..Len(Files[r + 1])
    BY FilesFact DEF FilesAreSequences
<1>3. ASSUME NEW o \in Objects, ~(\E i \in 1..Len(Files[r + 1]) : Files[r + 1][i].object = o)
      PROVE  Once(Fresh[r], r + 1)[o] = Fresh[r][o]
    BY <1>2, <1>3 DEF Once, Range
<1>4. QED
    BY <1>1, <1>3 DEF Half

(* A statement of the file that is next: it goes one further, or it makes     *)
(* again what it or an earlier run has made, and nothing changes.             *)
LEMMA OneStatement ==
    ASSUME NEW r \in Nat, NEW v \in Versions, v = r + 1, NEW k \in Nat,
           NEW j \in 1..Len(Files[v]), j - 1 <= k, k <= Len(Files[v]),
           schema = Half(r, k), ~StatementFails(Files[v][j]),
           schema' = Effect(schema, Files[v][j], v)
    PROVE  \E m \in Nat : j <= m /\ m <= Len(Files[v]) /\ schema' = Half(r, m)
<1> DEFINE s == Files[v][j]
           o == s.object
<1>1. o \in Objects /\ v # 0
    BY FilesFact DEF FilesAreSequences, Versions
<1>2. schema' = [schema EXCEPT ![o] = IF s.on = "kept" /\ schema[o] # 0 THEN schema[o] ELSE v]
    BY DEF Effect
<1>3. /\ schema[o] = IF \E i \in 1..k : Files[v][i].object = o
                     THEN Once(Fresh[r], v)[o] ELSE Fresh[r][o]
      /\ DOMAIN schema = Objects
    BY <1>1 DEF Half
<1>4. Once(Fresh[r], v)[o] = IF s.on = "kept" /\ Fresh[r][o] # 0 THEN Fresh[r][o] ELSE v
    BY OnceAt
<1>5. CASE k = j - 1
    <2>1. ~(\E i \in 1..k : Files[v][i].object = o)
        <3>1. \A i \in 1..k : i \in 1..Len(Files[v]) /\ i # j
            BY <1>5
        <3>2. QED
            BY <3>1, ObjectsDiffer
    <2>2. schema' = [schema EXCEPT ![o] = Once(Fresh[r], v)[o]]
        BY <1>2, <1>3, <1>4, <2>1
    <2>3. \A x \in Objects : (\E i \in 1..j : Files[v][i].object = x)
                                <=> x = o \/ (\E i \in 1..k : Files[v][i].object = x)
        <3>1. 1..j = (1..k) \cup {j}
            BY <1>5
        <3>2. QED
            BY <3>1
    <2>4. schema' = Half(r, j)
        <3>1. schema = [x \in Objects |-> schema[x]]
            BY DEF Half
        <3>2. schema' = [x \in Objects |-> IF x = o THEN Once(Fresh[r], v)[o] ELSE schema[x]]
            BY <2>2, <3>1
        <3>3. ASSUME NEW x \in Objects
              PROVE  schema[x] = IF \E i \in 1..k : Files[v][i].object = x
                                 THEN Once(Fresh[r], v)[x] ELSE Fresh[r][x]
            BY DEF Half
        <3>4. schema' = [x \in Objects |-> IF \E i \in 1..j : Files[v][i].object = x
                                            THEN Once(Fresh[r], v)[x] ELSE Fresh[r][x]]
            BY <2>3, <3>2, <3>3
        <3>5. QED
            BY <3>4 DEF Half
    <2>5. j \in Nat /\ j <= Len(Files[v])
        BY FilesFact DEF FilesAreSequences
    <2>6. QED
        BY <2>4, <2>5
<1>6. CASE k # j - 1
    <2>1. j \in 1..k /\ j <= k
        BY <1>6, FilesFact DEF FilesAreSequences
    <2>2. schema[o] = Once(Fresh[r], v)[o] /\ schema[o] # 0
        BY <1>1, <1>3, <1>4, <2>1
    <2>3. schema' = schema
        <3>1. schema' = [schema EXCEPT ![o] = schema[o]]
            BY <1>2, <1>4, <2>2
        <3>2. schema = [x \in Objects |-> schema[x]]
            BY DEF Half
        <3>3. QED
            BY <3>1, <3>2
    <2>4. QED
        BY <2>1, <2>3
<1>7. QED
    BY <1>5, <1>6

LEMMA InitConverges == MigrateInit => ConvergeInv
<1> SUFFICES ASSUME MigrateInit PROVE ConvergeInv
    OBVIOUS
<1>1. recorded = 1..0 /\ pc = "ledger" /\ release \in Nat /\ 0 \in 0..release
    BY FilesFact DEF MigrateInit, FilesAreSequences, Versions
<1>2. schema = Half(0, 0)
    BY FreshIs DEF MigrateInit, Half
<1>3. Place(0, 0)
    BY <1>1, <1>2 DEF Place
<1>4. QED
    BY <1>1, <1>3 DEF ConvergeInv

LEMMA NextConverges ==
    ASSUME MigrateIInv, ConvergeInv, [MigrateNext]_migrateVars
    PROVE  ConvergeInv'
<1>1. PICK r \in 0..release, k \in Nat : Place(r, k)
    BY DEF ConvergeInv
<1>2. /\ release \in Nat \ {0} /\ r \in Nat /\ r <= release /\ release \in Versions
      /\ recorded = 1..r /\ schema = Half(r, k)
      /\ file \in Nat \ {0} /\ file <= release + 1 /\ Len(Files) \in Nat
    BY <1>1, FilesFact DEF Place, MigrateIInv, MigrateTypeOK, FilesAreSequences, Versions
<1>3. CASE UNCHANGED migrateVars
    BY <1>1, <1>3 DEF migrateVars, Place, ConvergeInv
<1>4. CASE CreateLedger
    <2>1. file = 1
        BY <1>4 DEF CreateLedger, MigrateIInv, ApiInv
    <2>2. Place(r, k)' /\ release' = release
        BY <1>1, <1>2, <1>4, <2>1 DEF CreateLedger, Place
    <2>3. QED
        BY <2>2 DEF ConvergeInv
<1>5. CASE Check
    <2>1. pc = "check" /\ file <= r + 1 /\ statement = 1
        BY <1>1, <1>5 DEF Check, Place, MigrateIInv, MigrateTypeOK
    <2>2. CASE file \in recorded
        <3>1. file + 1 <= r + 1
            BY <1>2, <2>2
        <3>2. Place(r, k)' /\ release' = release
            BY <1>1, <1>5, <2>1, <2>2, <3>1 DEF Check, Place
        <3>3. QED
            BY <3>2 DEF ConvergeInv
    <2>3. CASE file \notin recorded
        <3>1. file = r + 1
            BY <1>2, <2>1, <2>3
        <3>2. Place(r, k)' /\ release' = release
            BY <1>1, <1>5, <2>1, <2>3, <3>1 DEF Check, Place
        <3>3. QED
            BY <3>2 DEF ConvergeInv
    <2>4. QED
        BY <2>2, <2>3
<1>6. CASE Apply
    <2>1. /\ pc = "apply" /\ file = r + 1 /\ file <= release /\ statement - 1 <= k
          /\ statement \in 1..Len(Files[file])
        BY <1>1, <1>6 DEF Apply, Place, MigrateIInv, MigrateTypeOK, LedgerInv
    <2>2. file \in Versions /\ Len(Files[file]) \in Nat /\ k <= Len(Files[file])
        BY <1>1, <1>2, <2>1, FilesFact DEF Place, Versions, FilesAreSequences
    <2>3. CASE StatementFails(Files[file][statement])
        <3>1. Place(r, k)' /\ release' = release
            BY <1>1, <1>6, <2>3 DEF Apply, Exit, Place
        <3>2. QED
            BY <3>1 DEF ConvergeInv
    <2>4. CASE ~StatementFails(Files[file][statement])
        <3>1. /\ schema' = Effect(schema, Files[file][statement], file)
              /\ UNCHANGED <<release, recorded, file>>
              /\ IF statement < Len(Files[file])
                 THEN statement' = statement + 1 /\ pc' = "apply" ELSE pc' = "record"
            BY <1>6, <2>1, <2>4 DEF Apply
        <3>2. PICK m \in Nat : statement <= m /\ m <= Len(Files[file]) /\ schema' = Half(r, m)
            BY <1>2, <2>1, <2>2, <2>4, <3>1, OneStatement
        <3>3. r < release
            BY <1>2, <2>1
        <3>4. Place(r, m)'
            BY <1>2, <2>1, <2>2, <3>1, <3>2, <3>3 DEF Place
        <3>5. QED
            BY <3>1, <3>4 DEF ConvergeInv
    <2>5. QED
        BY <2>3, <2>4
<1>7. CASE Record
    <2>1. /\ file = r + 1 /\ file <= release /\ k = Len(Files[file])
          /\ recorded' = recorded \cup {file} /\ pc' = "check" /\ file' = file + 1
          /\ UNCHANGED <<release, schema>>
        BY <1>1, <1>7 DEF Record, Place, MigrateIInv, LedgerInv
    <2>2. recorded' = 1..r + 1
        BY <1>2, <2>1
    <2>3. schema' = Half(r + 1, 0)
        <3>1. r + 1 \in Versions
            BY <1>2, <2>1 DEF Versions
        <3>2. QED
            BY <1>2, <2>1, <3>1, WholeFile
    <2>4. r + 1 \in 0..release' /\ file' <= (r + 1) + 1
        BY <1>2, <2>1
    <2>5. Place(r + 1, 0)'
        BY <2>1, <2>2, <2>3, <2>4 DEF Place
    <2>6. QED
        BY <2>4, <2>5 DEF ConvergeInv
<1>8. CASE Finish
    <2>1. r = release
        BY <1>1, <1>2, <1>8 DEF Finish, Place
    <2>2. Place(r, k)' /\ release' = release
        BY <1>1, <1>8, <2>1 DEF Finish, Exit, Place
    <2>3. QED
        BY <2>2 DEF ConvergeInv
<1>9. CASE Interrupt
    <2>1. Place(r, k)' /\ release' = release
        BY <1>1, <1>9 DEF Interrupt, Exit, Place
    <2>2. QED
        BY <2>1 DEF ConvergeInv
<1>10. CASE Up
    <2>1. Place(r, k)' /\ release' = release
        BY <1>1, <1>10 DEF Up, Place
    <2>2. QED
        BY <2>1 DEF ConvergeInv
<1>11. CASE SwitchVariant
    <2>1. Place(r, k)' /\ release' = release
        BY <1>1, <1>11 DEF SwitchVariant, Place
    <2>2. QED
        BY <2>1 DEF ConvergeInv
<1>12. CASE Deploy
    <2>1. release' \in Nat /\ release <= release'
        BY <1>2, <1>12 DEF Deploy
    <2>2. r \in 0..release' /\ (r < release => r < release')
        BY <1>2, <2>1
    <2>3. Place(r, k)'
        BY <1>1, <1>12, <2>2 DEF Deploy, Place
    <2>4. QED
        BY <2>2, <2>3 DEF ConvergeInv
<1>13. QED
    BY <1>3, <1>4, <1>5, <1>6, <1>7, <1>8, <1>9, <1>10, <1>11, <1>12 DEF MigrateNext, Script

(* migrations/003:19, 004:13: however often the runner was cut short and     *)
(* whatever was shipped meanwhile, a completed run leaves the schema that    *)
(* one run of the release's files on an empty database leaves.               *)
THEOREM RunsConverge == MigrateSpec => []Converges
<1>1. MigrateIInv /\ ConvergeInv /\ [MigrateNext]_migrateVars => ConvergeInv'
    BY NextConverges
<1>2. MigrateIInv /\ ConvergeInv => Converges
    <2> SUFFICES ASSUME MigrateIInv, ConvergeInv, pc = "done" PROVE schema = Fresh[release]
        BY DEF Converges
    <2>1. PICK r \in 0..release, k \in Nat : Place(r, k)
        BY DEF ConvergeInv
    <2>2. r = release /\ schema = Half(r, k) /\ ~(r < release) /\ k = 0
        BY <2>1 DEF Place
    <2>3. schema = [o \in Objects |-> Fresh[release][o]]
        BY <2>2 DEF Half
    <2>4. QED
        <3>1. release \in Versions
            BY DEF MigrateIInv, MigrateTypeOK
        <3>2. Fresh[release] = Once(Fresh[release - 1], release)
            BY <3>1, FreshIs
        <3>3. Fresh[release] = [o \in Objects |-> Fresh[release][o]]
            BY <3>2 DEF Once
        <3>4. QED
            BY <2>3, <3>3
<1>3. QED
    BY <1>1, <1>2, InitConverges, MigrateInvariance, PTL DEF MigrateSpec

-----------------------------------------------------------------------------
(* Seed. *)

Fields == {"stage", "inserted", "userIDs", "postIDs", "depth", "targets", "created", "seen",
           "again"}

Ids == 1..nextPost - 1

(* What TypeOK leaves open: the program's variables refer to rows that were *)
(* inserted, by ids that are never used again.                              *)
SeedType ==
    /\ DOMAIN seed = Fields
    /\ seed.userIDs \subseteq DOMAIN users
    /\ seed.postIDs \subseteq Ids /\ seed.created \subseteq Ids
    /\ seed.targets \in Seq(Ids)
    /\ seed.again \in BOOLEAN
    /\ seed.stage = "users" => seed.inserted \in 0..NumUsers - 1
    /\ seed.stage = "posts" => seed.inserted \in 0..NumPosts - 1
    /\ nextUser \in Nat \ {0} /\ nextPost \in Nat \ {0}
    /\ \A u \in DOMAIN users : users[u] \in 0..NumUsers
    /\ \A p \in DOMAIN posts : posts[p].seeded \in BOOLEAN
    /\ DOMAIN tables = Drawn

(* The posts of this run and of earlier ones that are still there. *)
Seeded == {p \in DOMAIN posts : posts[p].seeded}

(* Names are taken before anything else is written, and never given back; a *)
(* run that started beside a name of the seed has one still to come.        *)
NamesInv ==
    /\ seed.stage \notin {"users", "failed", "done"} => Names # {}
    /\ Seeded # {} => Names # {}
    /\ seed.again /\ seed.stage = "users" => Names \cap (seed.inserted + 1..NumUsers) # {}

(* A first run has notified none of its replies before it notifies all.     *)
ToldInv == ~seed.again /\ seed.stage # "done" => Seeded \cap DOMAIN told = {}

IInv == TypeOK /\ SeedType /\ NamesInv /\ RerunStops /\ ToldInv /\ RepliesNotified

-----------------------------------------------------------------------------
(* A table keeps its rows and gets the new ones. *)
LEMMA Extension ==
    ASSUME NEW table, NEW new
    PROVE  /\ DOMAIN With(table, new) = (DOMAIN table) \cup (DOMAIN new)
           /\ \A x \in DOMAIN table : With(table, new)[x] = table[x]
           /\ \A x \in (DOMAIN new) \ (DOMAIN table) : With(table, new)[x] = new[x]
BY DEF With

LEMMA Bounds ==
    /\ NumUsers \in Nat \ {0} /\ NumPosts \in Nat \ {0} /\ BatchSize \in Nat \ {0}
    /\ MaxFanout \in Nat \ {0} /\ MaxReplyDepth \in Nat /\ MaxUsers \in Nat /\ MaxPosts \in Nat
    /\ MaxWrites \in Nat /\ MaxRuns \in Nat \ {0}
BY SeedAssumption

LEMMA InitIInv == Init => IInv
<1> SUFFICES ASSUME Init PROVE IInv
    OBVIOUS
<1>1. /\ DOMAIN users = {} /\ DOMAIN posts = {} /\ DOMAIN told = {} /\ Names = {}
      /\ nextUser = 1 /\ nextPost = 1 /\ 1..nextUser - 1 = {} /\ Ids = {}
    BY DEF Init, Names, Ids
<1>2. /\ DOMAIN seed = Fields /\ seed.stage = "users" /\ seed.inserted = 0 /\ seed.userIDs = {}
      /\ seed.postIDs = {} /\ seed.depth = 1 /\ seed.targets = <<>> /\ seed.created = {}
      /\ seed.again = FALSE
    BY <1>1 DEF Init, Started, Fields
<1>3. /\ DOMAIN tables = Drawn /\ \A t \in Drawn : tables[t] = {}
    BY DEF Init
<1>4. TypeOK
    <2>1. seed.stage \in Stages /\ seed.depth \in 1..MaxReplyDepth + 1
        BY <1>2, Bounds DEF Stages, After
    <2>2. writes \in 0..MaxWrites /\ runs \in 1..MaxRuns
        BY Bounds DEF Init
    <2>3. \A t \in {"follows", "footprints", "notifications", "likes", "reposts"} : tables[t] = {}
        BY <1>3 DEF Drawn
    <2>4. QED
        BY <1>1, <2>1, <2>2, <2>3 DEF TypeOK
<1>5. SeedType
    <2>1. seed.targets \in Seq(Ids)
        BY <1>2
    <2>2. 0 \in 0..NumUsers - 1
        BY Bounds
    <2>3. /\ nextUser \in Nat \ {0} /\ nextPost \in Nat \ {0}
        BY <1>1
    <2>4. QED
        BY <1>1, <1>2, <1>3, <2>1, <2>2, <2>3 DEF SeedType
<1>6. NamesInv /\ RerunStops /\ ToldInv /\ RepliesNotified
    BY <1>1, <1>2 DEF NamesInv, RerunStops, ToldInv, RepliesNotified, Seeded
<1>7. QED
    BY <1>4, <1>5, <1>6 DEF IInv

-----------------------------------------------------------------------------
(* What the steps do to the tables. *)

UsersGrow ==
    /\ DOMAIN users' = 1..nextUser' - 1 /\ nextUser' \in Nat \ {0}
    /\ DOMAIN users \subseteq DOMAIN users'
    /\ \A u \in DOMAIN users : users'[u] = users[u]
    /\ \A u \in DOMAIN users' : users'[u] \in 0..NumUsers

PostsGrow ==
    /\ nextPost' \in Nat \ {0} /\ nextPost <= nextPost'
    /\ DOMAIN posts \subseteq DOMAIN posts'
    /\ \A p \in DOMAIN posts : posts'[p] = posts[p]
    /\ \A p \in (DOMAIN posts') \ (DOMAIN posts) :
        /\ p \in nextPost..nextPost' - 1
        /\ posts'[p].author \in DOMAIN users' /\ posts'[p].parent \in 0..p - 1
        /\ posts'[p].seeded \in BOOLEAN

TablesOK ==
    /\ DOMAIN tables = Drawn
    /\ \A t \in {"follows", "footprints", "notifications"} : tables[t] \subseteq Others
    /\ \A t \in {"likes", "reposts"} : tables[t] \subseteq (DOMAIN users) \X Ids

LEMMA SameUsers ==
    ASSUME IInv, UNCHANGED <<users, nextUser>>
    PROVE  UsersGrow /\ Names' = Names
BY DEF IInv, TypeOK, SeedType, UsersGrow, Names

LEMMA SamePosts ==
    ASSUME IInv, UNCHANGED <<posts, nextPost>>
    PROVE  PostsGrow
BY DEF IInv, SeedType, PostsGrow

LEMMA NamesGrow ==
    ASSUME IInv, UsersGrow
    PROVE  Names \subseteq Names' /\ Names' \subseteq 1..NumUsers /\ Names \subseteq 1..NumUsers
<1>1. Names \subseteq Names'
    BY DEF UsersGrow, Names
<1>2. Names' \subseteq 1..NumUsers
    <2>1. NumUsers \in Nat
        BY SeedAssumption
    <2>2. \A n \in 0..NumUsers : n # 0 => n \in 1..NumUsers
        BY <2>1
    <2>3. Names' = {users'[u] : u \in DOMAIN users'} \ {0}
        BY DEF Names
    <2>4. QED
        BY <2>2, <2>3 DEF UsersGrow
<1>3. QED
    BY <1>1, <1>2

LEMMA IdsGrow ==
    ASSUME IInv, PostsGrow
    PROVE  Ids \subseteq Ids'
<1>1. nextPost \in Nat /\ nextPost' \in Nat /\ nextPost <= nextPost'
    BY DEF PostsGrow, IInv, SeedType
<1>2. \A a, b \in Nat : a <= b => 1..a - 1 \subseteq 1..b - 1
    OBVIOUS
<1>3. 1..nextPost - 1 \subseteq 1..nextPost' - 1
    BY <1>1, <1>2
<1>4. QED
    BY <1>3 DEF Ids

LEMMA SameTables ==
    ASSUME IInv, UsersGrow, PostsGrow, UNCHANGED tables
    PROVE  TablesOK'
<1>1. Others \subseteq Others'
    BY DEF Others, UsersGrow
<1>2. Ids \subseteq Ids'
    BY IdsGrow
<1>3. TablesOK
    BY DEF IInv, TypeOK, SeedType, TablesOK, Ids
<1>4. (DOMAIN users) \X Ids \subseteq (DOMAIN users') \X Ids'
    BY <1>2 DEF UsersGrow
<1>5. QED
    BY <1>1, <1>3, <1>4 DEF TablesOK

(* The typing of the rows after a step. *)
LEMMA GrownTypes ==
    ASSUME IInv, UsersGrow, PostsGrow
    PROVE  /\ DOMAIN posts' \subseteq 1..nextPost' - 1
           /\ \A p \in DOMAIN posts' : /\ posts'[p].author \in DOMAIN users'
                                       /\ posts'[p].parent \in 0..p - 1
                                       /\ posts'[p].seeded \in BOOLEAN
           /\ DOMAIN users' = 1..nextUser' - 1 /\ Names' \subseteq 1..NumUsers
           /\ Ids \subseteq Ids'
<1>1. Ids \subseteq Ids'
    BY IdsGrow
<1>2. DOMAIN posts' \subseteq 1..nextPost' - 1
    BY <1>1 DEF Ids, PostsGrow, IInv, TypeOK, SeedType
<1>3. ASSUME NEW p \in DOMAIN posts'
      PROVE  /\ posts'[p].author \in DOMAIN users' /\ posts'[p].parent \in 0..p - 1
             /\ posts'[p].seeded \in BOOLEAN
    BY DEF PostsGrow, UsersGrow, IInv, TypeOK, SeedType
<1>4. QED
    BY <1>1, <1>2, <1>3, NamesGrow DEF UsersGrow

(* A parent that was there cannot come back, and new posts are no parents of *)
(* old ones: what is true of the seeded replies stays true.                  *)
LEMMA NotifiedStays ==
    ASSUME IInv, PostsGrow, RepliesNotified, seed.stage = "done",
           \A p \in (DOMAIN posts') \ (DOMAIN posts) : ~posts'[p].seeded,
           \A p \in Ids : (p \in DOMAIN told' <=> p \in DOMAIN told)
                          /\ (p \in DOMAIN told => told'[p] = told[p])
    PROVE  RepliesNotified'
<1> SUFFICES ASSUME NEW p \in DOMAIN posts', posts'[p].seeded, posts'[p].parent \in DOMAIN posts'
             PROVE  IF posts'[posts'[p].parent].author # posts'[p].author
                    THEN p \in DOMAIN told' /\ told'[p] = 1 ELSE p \notin DOMAIN told'
    BY DEF RepliesNotified
<1>1. p \in DOMAIN posts /\ posts'[p] = posts[p]
    BY DEF PostsGrow
<1>2. p \in Ids /\ p \in Nat /\ p < nextPost
    BY <1>1 DEF Ids, IInv, TypeOK, SeedType
<1>3. posts[p].parent \in 0..p - 1
    BY <1>1 DEF IInv, TypeOK
<1>4. posts[p].parent \in DOMAIN posts
    BY <1>1, <1>2, <1>3 DEF PostsGrow, IInv, SeedType
<1>5. posts'[posts[p].parent] = posts[posts[p].parent]
    BY <1>4 DEF PostsGrow
<1>6. QED
    BY <1>1, <1>2, <1>4, <1>5 DEF RepliesNotified

-----------------------------------------------------------------------------
(* The program between its first batch of users and its last statement. *)
Carries ==
    /\ DOMAIN seed' = Fields /\ seed'.again = seed.again /\ seed'.userIDs = seed.userIDs
    /\ seed'.postIDs \subseteq Ids' /\ seed'.created \subseteq Ids' /\ seed'.targets \in Seq(Ids')
    /\ seed.stage \notin {"users", "failed", "done"}
    /\ seed'.stage \in Stages \ {"users", "failed", "done"}
    /\ seed'.stage = "posts" => seed'.inserted \in 0..NumPosts - 1
    /\ seed'.depth \in 1..MaxReplyDepth + 1

LEMMA Carried ==
    ASSUME IInv, Carries, PostsGrow, TablesOK', UNCHANGED <<users, told, nextUser, writes, runs>>
    PROVE  IInv'
<1>1. UsersGrow /\ Names' = Names
    BY SameUsers
<1>2. seed.again = FALSE /\ seed'.again = FALSE /\ Names # {}
    BY DEF Carries, IInv, SeedType, RerunStops, NamesInv
<1>3. TypeOK'
    <2>1. DOMAIN told' \subseteq 1..nextPost' - 1
        BY GrownTypes, <1>1 DEF IInv, TypeOK, Ids
    <2>2. seed'.stage \in Stages /\ seed'.depth \in 1..MaxReplyDepth + 1
        BY DEF Carries
    <2>3. writes' \in 0..MaxWrites /\ runs' \in 1..MaxRuns
        BY DEF IInv, TypeOK
    <2>4. /\ \A t \in {"follows", "footprints", "notifications"} : tables'[t] \subseteq Others'
          /\ \A t \in {"likes", "reposts"} : tables'[t] \subseteq (DOMAIN users') \X (1..nextPost' - 1)
        BY DEF TablesOK, Ids
    <2>5. QED
        BY <1>1, <2>1, <2>2, <2>3, <2>4, GrownTypes DEF TypeOK
<1>4. SeedType'
    <2>1. seed'.userIDs \subseteq DOMAIN users'
        BY DEF Carries, IInv, SeedType
    <2>2. seed'.again \in BOOLEAN
        BY <1>2
    <2>3. nextUser' \in Nat \ {0} /\ nextPost' \in Nat \ {0}
        BY <1>1 DEF UsersGrow, PostsGrow
    <2>4. /\ \A u \in DOMAIN users' : users'[u] \in 0..NumUsers
          /\ \A p \in DOMAIN posts' : posts'[p].seeded \in BOOLEAN
          /\ DOMAIN tables' = Drawn
        BY <1>1, GrownTypes DEF UsersGrow, TablesOK
    <2>5. QED
        BY <2>1, <2>2, <2>3, <2>4 DEF Carries, SeedType
<1>5. NamesInv' /\ RerunStops' /\ RepliesNotified'
    BY <1>1, <1>2 DEF NamesInv, RerunStops, RepliesNotified, Carries
<1>6. ToldInv'
    <2>1. \A p \in DOMAIN told : p < nextPost
        <3>1. \A p \in 1..nextPost - 1 : p < nextPost
            BY DEF IInv, SeedType
        <3>2. QED
            BY <3>1 DEF IInv, TypeOK
    <2>2. ASSUME NEW p \in Seeded', p \in DOMAIN told'
          PROVE  FALSE
        <3>1. p \in DOMAIN posts
            <4>1. CASE p \in nextPost..nextPost' - 1
                <5>1. p \in DOMAIN told /\ p \in Int /\ nextPost <= p /\ nextPost \in Int
                    BY <2>2, <4>1 DEF IInv, SeedType
                <5>2. QED
                    BY <2>1, <5>1
            <4>2. QED
                BY <2>2, <4>1 DEF PostsGrow, Seeded
        <3>2. p \in Seeded
            BY <2>2, <3>1 DEF PostsGrow, Seeded
        <3>3. seed.stage # "done"
            BY DEF Carries
        <3>4. QED
            BY <1>2, <2>2, <3>2, <3>3 DEF IInv, ToldInv
    <2>3. QED
        BY <2>2 DEF ToldInv
<1>7. QED
    BY <1>3, <1>4, <1>5, <1>6 DEF IInv

(* A stage goes on or gives way to the next one. *)
LEMMA Advances ==
    ASSUME NEW local, DOMAIN local = Fields, NEW n,
           local.stage \in DOMAIN After
    PROVE  LET next == Advance(local, n)
           IN  /\ DOMAIN next = Fields
               /\ next.userIDs = local.userIDs /\ next.postIDs = local.postIDs
               /\ next.created = local.created /\ next.targets = local.targets
               /\ next.depth = local.depth /\ next.again = local.again
               /\ local.inserted < n => next.stage = local.stage /\ next.inserted = local.inserted
               /\ ~(local.inserted < n) => next.stage = After[local.stage] /\ next.inserted = 0
BY DEF Advance, Fields

LEMMA AfterIs ==
    /\ DOMAIN After = {"users", "posts", "follows", "likes", "reposts", "footprints",
                       "notifications"}
    /\ After["users"] = "posts" /\ After["posts"] = "parents"
    /\ \A t \in {"follows", "likes", "reposts", "footprints", "notifications"} :
            After[t] \in {"likes", "reposts", "footprints", "notifications", "replyNotifications"}
BY DEF After

LEMMA DrawSteps ==
    ASSUME IInv, DrawParents \/ NextDepth
    PROVE  IInv'
<1>1. UNCHANGED <<users, posts, tables, told, nextUser, nextPost, writes, runs>>
    BY DEF DrawParents, NextDepth, database
<1>2. PostsGrow /\ UsersGrow
    BY <1>1, SamePosts, SameUsers
<1>3. TablesOK'
    BY <1>1, <1>2, SameTables
<1>4. /\ DOMAIN seed = Fields /\ seed.postIDs \subseteq Ids /\ seed.created \subseteq Ids
      /\ seed.targets \in Seq(Ids) /\ seed.depth \in 1..MaxReplyDepth + 1 /\ Ids' = Ids
      /\ seed.stage \in {"parents", "replies"}
    BY <1>1 DEF IInv, TypeOK, SeedType, DrawParents, NextDepth, Ids
<1>5. PICK from \in SUBSET Ids, depth \in Nat \ {0} : DrawTargets(from, depth)
    <2>1. seed.depth + 1 \in Nat \ {0}
        BY <1>4
    <2>2. QED
        BY <1>4, <2>1 DEF DrawParents, NextDepth
<1>6. PICK parents \in SUBSET from :
        IF parents = {} \/ depth > MaxReplyDepth
        THEN seed' = [seed EXCEPT !.stage = "follows", !.created = {}, !.depth = 1]
        ELSE \E n \in 1..MaxFanout * Cardinality(parents) : \E targets \in [1..n -> parents] :
                seed' = [seed EXCEPT !.stage = "replies", !.created = {}, !.depth = depth,
                         !.targets = targets]
    BY <1>5 DEF DrawTargets
<1>7. CASE parents = {} \/ depth > MaxReplyDepth
    <2>1. /\ DOMAIN seed' = Fields /\ seed'.again = seed.again /\ seed'.userIDs = seed.userIDs
          /\ seed'.postIDs = seed.postIDs /\ seed'.created = {} /\ seed'.targets = seed.targets
          /\ seed'.stage = "follows" /\ seed'.depth = 1
        BY <1>4, <1>6, <1>7 DEF Fields
    <2>2. Carries
        BY <1>4, <2>1, Bounds, AfterIs DEF Carries, Stages
    <2>3. QED
        BY <1>1, <1>2, <1>3, <2>2, Carried
<1>8. CASE ~(parents = {} \/ depth > MaxReplyDepth)
    <2>1. PICK n \in 1..MaxFanout * Cardinality(parents) : \E targets \in [1..n -> parents] :
                seed' = [seed EXCEPT !.stage = "replies", !.created = {}, !.depth = depth,
                         !.targets = targets]
        BY <1>6, <1>8
    <2>2. PICK targets \in [1..n -> parents] :
                seed' = [seed EXCEPT !.stage = "replies", !.created = {}, !.depth = depth,
                         !.targets = targets]
        BY <2>1
    <2>3. n \in Nat
        OBVIOUS
    <2>4. targets \in [1..n -> Ids]
        OBVIOUS
    <2>5. targets \in Seq(Ids)
        BY <2>3, <2>4
    <2>6. /\ DOMAIN seed' = Fields /\ seed'.again = seed.again /\ seed'.userIDs = seed.userIDs
          /\ seed'.postIDs = seed.postIDs /\ seed'.created = {} /\ seed'.targets = targets
          /\ seed'.stage = "replies" /\ seed'.depth = depth
        BY <1>4, <2>2 DEF Fields
    <2>7. depth \in 1..MaxReplyDepth + 1
        BY <1>8, Bounds
    <2>8. Carries
        BY <1>4, <2>5, <2>6, <2>7 DEF Carries, Stages
    <2>9. QED
        BY <1>1, <1>2, <1>3, <2>8, Carried
<1>9. QED
    BY <1>7, <1>8

-----------------------------------------------------------------------------
(* The rows of a statement. *)
LEMMA RowsInserted ==
    ASSUME IInv, NEW parents \in Seq(Ids \cup {0}), InsertRows(parents)
    PROVE  /\ PostsGrow /\ UsersGrow /\ TablesOK'
           /\ nextPost' = nextPost + Len(parents)
           /\ UNCHANGED <<users, told, nextUser, writes, runs>>
<1>1. /\ UNCHANGED <<users, told, tables, nextUser, writes, runs>>
      /\ nextPost' = nextPost + Len(parents)
    BY DEF InsertRows
<1>2. Len(parents) \in Nat /\ nextPost \in Nat \ {0}
    BY DEF IInv, SeedType
<1>3. PICK author \in [nextPost..nextPost + Len(parents) - 1 -> seed.userIDs] :
        posts' = With(posts, [p \in nextPost..nextPost + Len(parents) - 1 |->
                                [author |-> author[p], seeded |-> TRUE,
                                 parent |-> parents[p - nextPost + 1]]])
    BY DEF InsertRows
<1> DEFINE new == [p \in nextPost..nextPost + Len(parents) - 1 |->
                        [author |-> author[p], seeded |-> TRUE,
                         parent |-> parents[p - nextPost + 1]]]
<1>4. DOMAIN new = nextPost..nextPost + Len(parents) - 1
    OBVIOUS
<1>5. ASSUME NEW p \in DOMAIN new
      PROVE  /\ new[p].author \in DOMAIN users /\ new[p].parent \in 0..p - 1
             /\ new[p].seeded \in BOOLEAN
    <2>1. p \in nextPost..nextPost + Len(parents) - 1 /\ p - nextPost + 1 \in 1..Len(parents)
        BY <1>2, <1>4
    <2>2. new[p] = [author |-> author[p], seeded |-> TRUE, parent |-> parents[p - nextPost + 1]]
        BY <2>1
    <2>3. author[p] \in DOMAIN users
        BY <2>1 DEF IInv, SeedType
    <2>4. parents[p - nextPost + 1] \in Ids \cup {0}
        BY <2>1
    <2>5. Ids \cup {0} \subseteq 0..p - 1
        BY <1>2, <2>1 DEF Ids
    <2>6. QED
        BY <2>2, <2>3, <2>4, <2>5
<1> HIDE DEF new
<1>6. posts' = With(posts, new)
    BY <1>3 DEF new
<1>7. /\ DOMAIN posts' = (DOMAIN posts) \cup (DOMAIN new)
      /\ \A p \in DOMAIN posts : posts'[p] = posts[p]
      /\ \A p \in (DOMAIN new) \ (DOMAIN posts) : posts'[p] = new[p]
    <2>1. /\ DOMAIN With(posts, new) = (DOMAIN posts) \cup (DOMAIN new)
          /\ \A p \in DOMAIN posts : With(posts, new)[p] = posts[p]
          /\ \A p \in (DOMAIN new) \ (DOMAIN posts) : With(posts, new)[p] = new[p]
        BY Extension
    <2>2. QED
        BY <1>6, <2>1
<1>8. DOMAIN new = nextPost..nextPost' - 1 /\ nextPost' \in Nat \ {0} /\ nextPost <= nextPost'
    BY <1>1, <1>2, <1>4
<1>9. PostsGrow
    BY <1>1, <1>5, <1>7, <1>8 DEF PostsGrow
<1>10. UsersGrow
    BY <1>1, SameUsers
<1>11. QED
    BY <1>1, <1>9, <1>10, SameTables

LEMMA NewIds ==
    ASSUME IInv, NEW n \in Nat, nextPost' = nextPost + n
    PROVE  IdsFrom(nextPost, n) \subseteq Ids' /\ Ids \subseteq Ids'
<1>1. nextPost \in Nat \ {0}
    BY DEF IInv, SeedType
<1>2. \A a \in Nat \ {0} : /\ a..a + n - 1 \subseteq 1..(a + n) - 1
                           /\ 1..a - 1 \subseteq 1..(a + n) - 1
    OBVIOUS
<1>3. /\ nextPost..nextPost + n - 1 \subseteq 1..(nextPost + n) - 1
      /\ 1..nextPost - 1 \subseteq 1..(nextPost + n) - 1
    BY <1>1, <1>2
<1>4. QED
    BY <1>3 DEF IdsFrom, Ids

LEMMA SeqGrows ==
    ASSUME NEW S, NEW T, S \subseteq T, NEW s \in Seq(S)
    PROVE  s \in Seq(T)
OBVIOUS

LEMMA PostsStep ==
    ASSUME IInv, InsertPosts
    PROVE  IInv'
<1>1. /\ seed.stage = "posts" /\ DOMAIN seed = Fields /\ seed.inserted \in 0..NumPosts - 1
      /\ seed.postIDs \subseteq Ids /\ seed.created \subseteq Ids /\ seed.targets \in Seq(Ids)
      /\ seed.depth \in 1..MaxReplyDepth + 1
    BY DEF InsertPosts, IInv, TypeOK, SeedType
<1>2. PICK n : n = BatchOf(NumPosts)
    OBVIOUS
<1>3. n \in Nat \ {0} /\ seed.inserted + n \in 0..NumPosts
    BY <1>1, <1>2, Bounds DEF BatchOf, Small
<1>4. PICK parents : parents = [k \in 1..n |-> 0]
    OBVIOUS
<1>5. parents \in Seq(Ids \cup {0}) /\ Len(parents) = n
    <2>1. n \in Nat /\ DOMAIN parents = 1..n /\ \A k \in 1..n : parents[k] = 0
        BY <1>3, <1>4
    <2>2. parents \in [1..n -> Ids \cup {0}]
        BY <1>4
    <2>3. parents \in Seq(Ids \cup {0})
        BY <2>1, <2>2, SeqDef, Zenon
    <2>4. QED
        BY <2>1, <2>3, LenProperties
<1>6. InsertRows(parents)
    BY <1>2, <1>4 DEF InsertPosts
<1>7. /\ PostsGrow /\ TablesOK' /\ nextPost' = nextPost + n
      /\ UNCHANGED <<users, told, nextUser, writes, runs>>
    BY <1>5, <1>6, RowsInserted
<1>8. PICK local : local = [seed EXCEPT !.inserted = @ + n,
                            !.postIDs = @ \cup IdsFrom(nextPost, n)]
    OBVIOUS
<1>9. /\ DOMAIN local = Fields /\ local.stage = "posts" /\ local.inserted = seed.inserted + n
      /\ local.postIDs = seed.postIDs \cup IdsFrom(nextPost, n) /\ local.userIDs = seed.userIDs
      /\ local.created = seed.created /\ local.targets = seed.targets
      /\ local.depth = seed.depth /\ local.again = seed.again
    BY <1>1, <1>8 DEF Fields
<1>10. seed' = Advance(local, NumPosts)
    BY <1>2, <1>8 DEF InsertPosts
<1>11. /\ DOMAIN seed' = Fields
       /\ seed'.userIDs = local.userIDs /\ seed'.postIDs = local.postIDs
       /\ seed'.created = local.created /\ seed'.targets = local.targets
       /\ seed'.depth = local.depth /\ seed'.again = local.again
       /\ local.inserted < NumPosts => seed'.stage = "posts" /\ seed'.inserted = local.inserted
       /\ ~(local.inserted < NumPosts) => seed'.stage = "parents" /\ seed'.inserted = 0
    BY <1>9, <1>10, Advances, AfterIs
<1>12. IdsFrom(nextPost, n) \subseteq Ids' /\ Ids \subseteq Ids'
    BY <1>3, <1>7, NewIds
<1>13. seed'.targets \in Seq(Ids')
    BY <1>1, <1>9, <1>11, <1>12, SeqGrows
<1>14. seed'.stage = "posts" => seed'.inserted \in 0..NumPosts - 1
    BY <1>3, <1>9, <1>11, Bounds
<1>15. Carries
    BY <1>1, <1>9, <1>11, <1>12, <1>13, <1>14, AfterIs DEF Carries, Stages
<1>16. QED
    BY <1>7, <1>15, Carried

LEMMA RepliesStep ==
    ASSUME IInv, InsertReplies
    PROVE  IInv'
<1>1. /\ seed.stage = "replies" /\ seed.targets # <<>> /\ DOMAIN seed = Fields
      /\ seed.postIDs \subseteq Ids /\ seed.created \subseteq Ids /\ seed.targets \in Seq(Ids)
      /\ seed.depth \in 1..MaxReplyDepth + 1
    BY DEF InsertReplies, IInv, TypeOK, SeedType
<1>2. PICK n : n = Small(BatchSize, Len(seed.targets))
    OBVIOUS
<1>3. n \in 1..Len(seed.targets) /\ n \in Nat
    BY <1>1, <1>2, Bounds DEF Small
<1>4. PICK parents : parents = SubSeq(seed.targets, 1, n)
    OBVIOUS
<1>5. parents \in Seq(Ids) /\ Len(parents) = n /\ SubSeq(seed.targets, n + 1, Len(seed.targets)) \in Seq(Ids)
    BY <1>1, <1>3, <1>4, SubSeqProperties
<1>6. parents \in Seq(Ids \cup {0})
    BY <1>5, SeqGrows
<1>7. InsertRows(parents)
    BY <1>2, <1>4 DEF InsertReplies
<1>8. /\ PostsGrow /\ TablesOK' /\ nextPost' = nextPost + n
      /\ UNCHANGED <<users, told, nextUser, writes, runs>>
    BY <1>5, <1>6, <1>7, RowsInserted
<1>9. seed' = [seed EXCEPT !.targets = SubSeq(@, n + 1, Len(@)),
                           !.created = @ \cup IdsFrom(nextPost, n)]
    BY <1>2 DEF InsertReplies
<1>10. /\ DOMAIN seed' = Fields /\ seed'.again = seed.again /\ seed'.userIDs = seed.userIDs
       /\ seed'.postIDs = seed.postIDs /\ seed'.created = seed.created \cup IdsFrom(nextPost, n)
       /\ seed'.targets = SubSeq(seed.targets, n + 1, Len(seed.targets))
       /\ seed'.stage = "replies" /\ seed'.depth = seed.depth
    BY <1>1, <1>9 DEF Fields
<1>11. IdsFrom(nextPost, n) \subseteq Ids' /\ Ids \subseteq Ids'
    BY <1>3, <1>8, NewIds
<1>12. seed'.targets \in Seq(Ids')
    BY <1>5, <1>10, <1>11, SeqGrows
<1>13. Carries
    BY <1>1, <1>10, <1>11, <1>12 DEF Carries, Stages
<1>14. QED
    BY <1>8, <1>13, Carried

-----------------------------------------------------------------------------
(* The stages of the other tables. *)
LEMMA PairsAreTyped ==
    ASSUME IInv, NEW table \in Drawn, NEW drawn \in SUBSET Pairs(table),
           tables' = [tables EXCEPT ![table] = @ \cup drawn],
           UNCHANGED <<users, posts, nextUser, nextPost>>
    PROVE  PostsGrow /\ UsersGrow /\ TablesOK'
<1>1. PostsGrow /\ UsersGrow
    BY SamePosts, SameUsers
<1>2. Others' = Others /\ Ids' = Ids
    BY DEF Others, Ids
<1>3. /\ DOMAIN tables = Drawn
      /\ \A t \in {"follows", "footprints", "notifications"} : tables[t] \subseteq Others
      /\ \A t \in {"likes", "reposts"} : tables[t] \subseteq (DOMAIN users) \X Ids
    BY DEF IInv, TypeOK, SeedType, Ids
<1>4. seed.userIDs \subseteq DOMAIN users /\ seed.postIDs \subseteq Ids
    BY DEF IInv, SeedType
<1>5. /\ DOMAIN tables' = Drawn /\ tables'[table] = tables[table] \cup drawn
      /\ \A t \in Drawn \ {table} : tables'[t] = tables[t]
    BY <1>3
<1>6. CASE table \in {"likes", "reposts"}
    <2>1. drawn \subseteq (DOMAIN users) \X Ids
        BY <1>4, <1>6 DEF Pairs
    <2>2. QED
        BY <1>1, <1>2, <1>3, <1>5, <1>6, <2>1 DEF TablesOK, Drawn
<1>7. CASE table \notin {"likes", "reposts"}
    <2>1. drawn \subseteq Others
        BY <1>4, <1>7 DEF Pairs, Others
    <2>2. QED
        BY <1>1, <1>2, <1>3, <1>5, <1>7, <2>1 DEF TablesOK, Drawn
<1>8. QED
    BY <1>6, <1>7

LEMMA DrawnStep ==
    ASSUME IInv, NEW table \in Drawn, seed.stage = table,
           PostsGrow, TablesOK', UNCHANGED <<users, posts, told, nextUser, nextPost, writes, runs>>,
           NEW local, DOMAIN local = Fields, seed' = Advance(local, Rows[table]),
           \A f \in {"stage", "userIDs", "postIDs", "created", "targets", "depth", "again"} :
                local[f] = seed[f]
    PROVE  IInv'
<1>1. /\ local.stage = table /\ local.userIDs = seed.userIDs /\ local.postIDs = seed.postIDs
      /\ local.created = seed.created /\ local.targets = seed.targets
      /\ local.depth = seed.depth /\ local.again = seed.again
    OBVIOUS
<1>2. /\ table \in DOMAIN After
      /\ After[table] \in {"likes", "reposts", "footprints", "notifications", "replyNotifications"}
    BY AfterIs DEF Drawn
<1>3. /\ DOMAIN seed' = Fields
      /\ seed'.userIDs = seed.userIDs /\ seed'.postIDs = seed.postIDs
      /\ seed'.created = seed.created /\ seed'.targets = seed.targets
      /\ seed'.depth = seed.depth /\ seed'.again = seed.again
      /\ seed'.stage \in {table, After[table]}
    BY <1>1, <1>2, Advances
<1>4. seed'.stage \in Drawn \cup {"replyNotifications"}
    BY <1>2, <1>3 DEF Drawn
<1>5. /\ seed.postIDs \subseteq Ids' /\ seed.created \subseteq Ids' /\ seed.targets \in Seq(Ids')
      /\ seed.depth \in 1..MaxReplyDepth + 1
    BY DEF IInv, TypeOK, SeedType, Ids
<1>6. seed'.stage \in Stages \ {"users", "failed", "done"} /\ seed'.stage # "posts"
    BY <1>4, AfterIs DEF Drawn, Stages
<1>7. seed.stage \notin {"users", "failed", "done"}
    BY DEF Drawn
<1>8. Carries
    BY <1>3, <1>5, <1>6, <1>7 DEF Carries
<1>9. QED
    BY <1>8, Carried

LEMMA PairsStep ==
    ASSUME IInv, NEW table \in Drawn, InsertPairs(table)
    PROVE  IInv'
<1>1. PICK drawn \in kSubset(BatchOf(Rows[table]), Pairs(table) \ seed.seen) :
        /\ tables' = [tables EXCEPT ![table] = @ \cup drawn]
        /\ seed' = Advance([seed EXCEPT !.seen = @ \cup drawn,
                            !.inserted = @ + Cardinality(drawn)], Rows[table])
    BY DEF InsertPairs
<1>2. drawn \in SUBSET Pairs(table)
    BY <1>1 DEF kSubset
<1>3. seed.stage = table /\ UNCHANGED <<users, posts, told, nextUser, nextPost, writes, runs>>
    BY DEF InsertPairs
<1>4. PostsGrow /\ TablesOK'
    BY <1>1, <1>2, <1>3, PairsAreTyped
<1>5. PICK local : local = [seed EXCEPT !.seen = @ \cup drawn, !.inserted = @ + Cardinality(drawn)]
    OBVIOUS
<1>6. DOMAIN seed = Fields
    BY DEF IInv, SeedType
<1>7. /\ DOMAIN local = Fields
      /\ \A f \in {"stage", "userIDs", "postIDs", "created", "targets", "depth", "again"} :
            local[f] = seed[f]
    BY <1>5, <1>6 DEF Fields
<1>8. seed' = Advance(local, Rows[table])
    BY <1>1, <1>5
<1>9. QED
    BY <1>3, <1>4, <1>7, <1>8, DrawnStep

LEMMA RecordsStep ==
    ASSUME IInv, NEW table \in Drawn, InsertRecords(table)
    PROVE  IInv'
<1>1. PICK drawn \in [1..BatchOf(Rows[table]) -> Pairs(table)] :
        /\ tables' = [tables EXCEPT ![table] = @ \cup Range(drawn)]
        /\ seed' = Advance([seed EXCEPT !.inserted = @ + Len(drawn)], Rows[table])
    BY DEF InsertRecords
<1>2. PICK new : new = Range(drawn)
    OBVIOUS
<1>3. new \in SUBSET Pairs(table)
    BY <1>2 DEF Range
<1>4. seed.stage = table /\ UNCHANGED <<users, posts, told, nextUser, nextPost, writes, runs>>
    BY DEF InsertRecords
<1>5. tables' = [tables EXCEPT ![table] = @ \cup new]
    BY <1>1, <1>2
<1>6. PostsGrow /\ TablesOK'
    BY <1>3, <1>4, <1>5, PairsAreTyped
<1>7. PICK local : local = [seed EXCEPT !.inserted = @ + Len(drawn)]
    OBVIOUS
<1>8. DOMAIN seed = Fields
    BY DEF IInv, SeedType
<1>9. /\ DOMAIN local = Fields
      /\ \A f \in {"stage", "userIDs", "postIDs", "created", "targets", "depth", "again"} :
            local[f] = seed[f]
    BY <1>7, <1>8 DEF Fields
<1>10. seed' = Advance(local, Rows[table])
    BY <1>1, <1>7
<1>11. QED
    BY <1>4, <1>6, <1>9, <1>10, DrawnStep

-----------------------------------------------------------------------------
(* The other steps: of the typing, only what a step touches. *)
SeedOK ==
    /\ DOMAIN seed = Fields
    /\ seed.userIDs \subseteq DOMAIN users
    /\ seed.postIDs \subseteq Ids /\ seed.created \subseteq Ids
    /\ seed.targets \in Seq(Ids)
    /\ seed.again \in BOOLEAN /\ seed.stage \in Stages /\ seed.depth \in 1..MaxReplyDepth + 1
    /\ seed.stage = "users" => seed.inserted \in 0..NumUsers - 1
    /\ seed.stage = "posts" => seed.inserted \in 0..NumPosts - 1

LEMMA Typed ==
    ASSUME IInv, UsersGrow, PostsGrow, TablesOK', SeedOK', DOMAIN told' \subseteq Ids',
           writes' \in 0..MaxWrites, runs' \in 1..MaxRuns
    PROVE  TypeOK' /\ SeedType'
<1>1. TypeOK'
    <2>1. DOMAIN told' \subseteq 1..nextPost' - 1
        BY DEF Ids
    <2>2. /\ \A t \in {"follows", "footprints", "notifications"} : tables'[t] \subseteq Others'
          /\ \A t \in {"likes", "reposts"} : tables'[t] \subseteq (DOMAIN users') \X (1..nextPost' - 1)
        BY DEF TablesOK, Ids
    <2>3. seed'.stage \in Stages /\ seed'.depth \in 1..MaxReplyDepth + 1
        BY DEF SeedOK
    <2>4. QED
        BY <2>1, <2>2, <2>3, GrownTypes DEF TypeOK
<1>2. SeedType'
    <2>1. nextUser' \in Nat \ {0} /\ nextPost' \in Nat \ {0}
        BY DEF UsersGrow, PostsGrow
    <2>2. /\ \A u \in DOMAIN users' : users'[u] \in 0..NumUsers
          /\ \A p \in DOMAIN posts' : posts'[p].seeded \in BOOLEAN
          /\ DOMAIN tables' = Drawn
        BY GrownTypes DEF UsersGrow, TablesOK
    <2>3. QED
        BY <2>1, <2>2 DEF SeedOK, SeedType
<1>3. QED
    BY <1>1, <1>2

LEMMA SameSeed ==
    ASSUME IInv, UsersGrow, PostsGrow, UNCHANGED seed
    PROVE  SeedOK'
<1>1. Ids \subseteq Ids'
    BY IdsGrow
<1>2. seed.targets \in Seq(Ids)
    BY DEF IInv, SeedType
<1>3. seed.targets \in Seq(Ids')
    BY <1>1, <1>2, SeqGrows
<1>4. QED
    BY <1>1, <1>3 DEF SeedOK, IInv, TypeOK, SeedType, UsersGrow

(* A run ends: with its variables as a new one would have them. *)
LEMMA EndIs ==
    ASSUME NEW stage, End(stage), stage \in {"failed", "done"}, seed.again \in BOOLEAN
    PROVE  SeedOK' /\ seed'.stage = stage /\ seed'.again = seed.again
<1>1. /\ DOMAIN seed' = Fields /\ seed'.stage = stage /\ seed'.again = seed.again
      /\ seed'.userIDs = {} /\ seed'.postIDs = {} /\ seed'.created = {} /\ seed'.targets = <<>>
      /\ seed'.depth = 1
    BY DEF End, Started, Fields
<1>2. seed'.targets \in Seq(Ids')
    BY <1>1
<1>3. 1 \in 1..MaxReplyDepth + 1 /\ stage \in Stages
    BY Bounds DEF Stages
<1>4. QED
    BY <1>1, <1>2, <1>3 DEF SeedOK

LEMMA SameDatabase ==
    ASSUME IInv, UNCHANGED database
    PROVE  /\ UsersGrow /\ PostsGrow /\ TablesOK' /\ DOMAIN told' \subseteq Ids'
           /\ Names' = Names /\ Seeded' = Seeded
<1>1. UNCHANGED <<users, posts, tables, told, nextUser, nextPost>>
    BY DEF database
<1>2. UsersGrow /\ PostsGrow /\ Names' = Names
    BY <1>1, SameUsers, SamePosts
<1>3. TablesOK'
    BY <1>1, <1>2, SameTables
<1>4. DOMAIN told' \subseteq Ids'
    BY <1>1 DEF IInv, TypeOK, Ids
<1>5. Seeded' = Seeded
    BY <1>1 DEF Seeded
<1>6. QED
    BY <1>2, <1>3, <1>4, <1>5

LEMMA FailStep ==
    ASSUME IInv, seed.stage # "done", End("failed"), UNCHANGED <<database, writes, runs>>
    PROVE  IInv'
<1>1. /\ UsersGrow /\ PostsGrow /\ TablesOK' /\ DOMAIN told' \subseteq Ids'
      /\ Names' = Names /\ Seeded' = Seeded
    BY SameDatabase
<1>2. SeedOK' /\ seed'.stage = "failed" /\ seed'.again = seed.again
    BY EndIs DEF IInv, SeedType
<1>3. writes' \in 0..MaxWrites /\ runs' \in 1..MaxRuns /\ UNCHANGED told
    BY DEF IInv, TypeOK, database
<1>4. TypeOK' /\ SeedType'
    BY <1>1, <1>2, <1>3, Typed
<1>5. NamesInv' /\ RerunStops' /\ ToldInv' /\ RepliesNotified'
    BY <1>1, <1>2, <1>3 DEF IInv, NamesInv, RerunStops, ToldInv, RepliesNotified
<1>6. QED
    BY <1>4, <1>5 DEF IInv

LEMMA RunStep ==
    ASSUME IInv, Run
    PROVE  IInv'
<1>1. UNCHANGED <<database, writes>> /\ seed' = Started /\ runs' = runs + 1 /\ runs < MaxRuns
    BY DEF Run
<1>2. /\ UsersGrow /\ PostsGrow /\ TablesOK' /\ DOMAIN told' \subseteq Ids'
      /\ Names' = Names /\ Seeded' = Seeded
    BY <1>1, SameDatabase
<1>3. /\ DOMAIN seed' = Fields /\ seed'.stage = "users" /\ seed'.again = (Names # {})
      /\ seed'.userIDs = {} /\ seed'.postIDs = {} /\ seed'.created = {} /\ seed'.targets = <<>>
      /\ seed'.depth = 1 /\ seed'.inserted = 0
    BY <1>1 DEF Started, Fields
<1>4. SeedOK'
    <2>1. seed'.targets \in Seq(Ids')
        BY <1>3
    <2>2. 1 \in 1..MaxReplyDepth + 1 /\ 0 \in 0..NumUsers - 1 /\ "users" \in Stages
        BY Bounds, AfterIs DEF Stages
    <2>3. QED
        BY <1>3, <2>1, <2>2 DEF SeedOK
<1>5. writes' \in 0..MaxWrites /\ runs' \in 1..MaxRuns
    BY <1>1, Bounds DEF IInv, TypeOK
<1>6. TypeOK' /\ SeedType'
    BY <1>2, <1>4, <1>5, Typed
<1>7. NamesInv'
    <2>1. Names # {} => Names \cap (0 + 1..NumUsers) # {}
        <3>1. 0 + 1..NumUsers = 1..NumUsers
            BY Bounds
        <3>2. Names \subseteq 1..NumUsers
            BY DEF IInv, TypeOK
        <3>3. QED
            BY <3>1, <3>2
    <2>2. QED
        BY <1>2, <1>3, <2>1 DEF IInv, NamesInv
<1>8. ToldInv'
    <2>1. ~seed'.again => Seeded' = {}
        BY <1>2, <1>3 DEF IInv, NamesInv
    <2>2. QED
        BY <2>1 DEF ToldInv
<1>9. RerunStops' /\ RepliesNotified'
    BY <1>3 DEF RerunStops, RepliesNotified
<1>10. QED
    BY <1>6, <1>7, <1>8, <1>9 DEF IInv

LEMMA NotifyStep ==
    ASSUME IInv, InsertReplyNotifications
    PROVE  IInv'
<1>1. /\ seed.stage = "replyNotifications" /\ End("done")
      /\ UNCHANGED <<users, posts, tables, nextUser, nextPost, writes, runs>>
    BY DEF InsertReplyNotifications
<1>2. seed.again = FALSE /\ Names # {} /\ Seeded \cap DOMAIN told = {}
    BY <1>1 DEF IInv, SeedType, RerunStops, NamesInv, ToldInv
<1>3. UsersGrow /\ PostsGrow /\ Names' = Names
    BY <1>1, SameUsers, SamePosts
<1>4. TablesOK'
    BY <1>1, <1>3, SameTables
<1>5. SeedOK' /\ seed'.stage = "done" /\ seed'.again = FALSE
    BY <1>1, <1>2, EndIs
<1> DEFINE new == [p \in ToNotify |-> IF p \in DOMAIN told THEN told[p] + 1 ELSE 1]
<1>6. DOMAIN new = ToNotify /\ \A p \in ToNotify : p \notin DOMAIN told => new[p] = 1
    OBVIOUS
<1>7. told' = With(new, told)
    BY DEF InsertReplyNotifications
<1> HIDE DEF new
<1>8. /\ DOMAIN told' = ToNotify \cup DOMAIN told
      /\ \A p \in ToNotify : told'[p] = new[p]
    <2>1. /\ DOMAIN With(new, told) = (DOMAIN new) \cup (DOMAIN told)
          /\ \A p \in DOMAIN new : With(new, told)[p] = new[p]
        BY Extension
    <2>2. QED
        BY <1>6, <1>7, <2>1
<1>9. DOMAIN told' \subseteq Ids'
    BY <1>1, <1>8 DEF ToNotify, IInv, TypeOK, Ids
<1>10. TypeOK' /\ SeedType'
    <2>1. writes' \in 0..MaxWrites /\ runs' \in 1..MaxRuns
        BY <1>1 DEF IInv, TypeOK
    <2>2. QED
        BY <1>3, <1>4, <1>5, <1>9, <2>1, Typed
<1>11. NamesInv' /\ RerunStops' /\ ToldInv'
    BY <1>2, <1>3, <1>5 DEF NamesInv, RerunStops, ToldInv
<1>12. RepliesNotified'
    <2> SUFFICES ASSUME NEW p \in DOMAIN posts, posts[p].seeded, posts[p].parent \in DOMAIN posts
                 PROVE  IF posts[posts[p].parent].author # posts[p].author
                        THEN p \in DOMAIN told' /\ told'[p] = 1 ELSE p \notin DOMAIN told'
        BY <1>1 DEF RepliesNotified
    <2>1. p \notin DOMAIN told
        BY <1>2 DEF Seeded
    <2>2. p \in ToNotify <=> posts[posts[p].parent].author # posts[p].author
        BY DEF ToNotify
    <2>3. QED
        BY <1>6, <1>8, <2>1, <2>2
<1>13. QED
    BY <1>10, <1>11, <1>12 DEF IInv

LEMMA UsersStep ==
    ASSUME IInv, InsertUsers
    PROVE  IInv'
<1>1. seed.stage = "users" /\ UNCHANGED <<posts, tables, told, nextPost, writes, runs>>
    BY DEF InsertUsers
<1>2. PICK n : n = BatchOf(NumUsers)
    OBVIOUS
<1>3. PICK first : first = seed.inserted
    OBVIOUS
<1>4. /\ first \in 0..NumUsers - 1 /\ nextUser \in Nat \ {0} /\ DOMAIN users = 1..nextUser - 1
      /\ \A u \in DOMAIN users : users[u] \in 0..NumUsers
    BY <1>1, <1>3 DEF IInv, TypeOK, SeedType
<1>5. n \in Nat \ {0} /\ first + n \in 1..NumUsers
    BY <1>2, <1>3, <1>4, Bounds DEF BatchOf, Small
<1>6. CASE Names \cap (first + 1..first + n) # {}
    <2>1. End("failed") /\ UNCHANGED <<users, nextUser>>
        BY <1>2, <1>3, <1>6 DEF InsertUsers
    <2>2. QED
        BY <1>1, <2>1, FailStep DEF database
<1>7. CASE Names \cap (first + 1..first + n) = {}
    <2> DEFINE new == [u \in nextUser..nextUser + n - 1 |-> first + u - nextUser + 1]
    <2>1. /\ users' = With(users, new)
          /\ nextUser' = nextUser + n
          /\ seed' = Advance([seed EXCEPT !.inserted = @ + n,
                              !.userIDs = @ \cup IdsFrom(nextUser, n)], NumUsers)
        BY <1>2, <1>3, <1>7 DEF InsertUsers, IdsFrom
    <2>2. /\ DOMAIN new = nextUser..nextUser + n - 1
          /\ \A u \in DOMAIN new : new[u] \in 0..NumUsers
          /\ new[nextUser] = first + 1
        <3>1. \A u \in nextUser..nextUser + n - 1 : first + u - nextUser + 1 \in 1..first + n
            BY <1>4, <1>5
        <3>2. 1..first + n \subseteq 0..NumUsers
            BY <1>4, <1>5, Bounds
        <3>3. nextUser \in nextUser..nextUser + n - 1 /\ first + nextUser - nextUser + 1 = first + 1
            BY <1>4, <1>5
        <3>4. QED
            BY <3>1, <3>2, <3>3
    <2> HIDE DEF new
    <2>3. /\ DOMAIN users' = (DOMAIN users) \cup (DOMAIN new)
          /\ \A u \in DOMAIN users : users'[u] = users[u]
          /\ \A u \in (DOMAIN new) \ (DOMAIN users) : users'[u] = new[u]
        <3>1. /\ DOMAIN With(users, new) = (DOMAIN users) \cup (DOMAIN new)
              /\ \A u \in DOMAIN users : With(users, new)[u] = users[u]
              /\ \A u \in (DOMAIN new) \ (DOMAIN users) : With(users, new)[u] = new[u]
            BY Extension
        <3>2. QED
            BY <2>1, <3>1
    <2>4. DOMAIN users' = 1..nextUser' - 1 /\ nextUser' \in Nat \ {0}
        <3>1. \A a, b \in Nat \ {0} : (1..a - 1) \cup (a..a + b - 1) = 1..(a + b) - 1
            OBVIOUS
        <3>2. (1..nextUser - 1) \cup (nextUser..nextUser + n - 1) = 1..(nextUser + n) - 1
            BY <1>4, <1>5, <3>1
        <3>3. QED
            BY <1>4, <1>5, <2>1, <2>2, <2>3, <3>2
    <2>5. UsersGrow
        BY <1>4, <2>2, <2>3, <2>4 DEF UsersGrow
    <2>6. PostsGrow /\ TablesOK'
        BY <1>1, <2>5, SamePosts, SameTables
    <2>7. Names \subseteq Names' /\ Names' # {}
        <3>1. nextUser \in (DOMAIN new) \ (DOMAIN users)
            BY <1>4, <1>5, <2>2
        <3>2. users'[nextUser] = first + 1 /\ first + 1 # 0 /\ nextUser \in DOMAIN users'
            BY <1>4, <2>2, <2>3, <3>1
        <3>3. QED
            BY <2>5, <3>2, NamesGrow DEF Names
    <2>8. PICK local : local = [seed EXCEPT !.inserted = @ + n,
                                !.userIDs = @ \cup IdsFrom(nextUser, n)]
        OBVIOUS
    <2>9. DOMAIN seed = Fields
        BY DEF IInv, SeedType
    <2>10. /\ DOMAIN local = Fields /\ local.stage = "users" /\ local.inserted = first + n
           /\ local.userIDs = seed.userIDs \cup IdsFrom(nextUser, n)
           /\ local.postIDs = seed.postIDs /\ local.created = seed.created
           /\ local.targets = seed.targets /\ local.depth = seed.depth /\ local.again = seed.again
        BY <1>1, <1>3, <2>8, <2>9 DEF Fields
    <2>11. seed' = Advance(local, NumUsers)
        BY <2>1, <2>8
    <2>12. /\ DOMAIN seed' = Fields
           /\ seed'.userIDs = local.userIDs /\ seed'.postIDs = local.postIDs
           /\ seed'.created = local.created /\ seed'.targets = local.targets
           /\ seed'.depth = local.depth /\ seed'.again = local.again
           /\ local.inserted < NumUsers => seed'.stage = "users" /\ seed'.inserted = local.inserted
           /\ ~(local.inserted < NumUsers) => seed'.stage = "posts" /\ seed'.inserted = 0
        BY <2>10, <2>11, Advances, AfterIs
    <2>13. SeedOK'
        <3>1. seed'.userIDs \subseteq DOMAIN users'
            BY <2>2, <2>3, <2>10, <2>12 DEF IdsFrom, IInv, SeedType
        <3>2. /\ seed'.postIDs \subseteq Ids' /\ seed'.created \subseteq Ids'
              /\ seed'.targets \in Seq(Ids') /\ seed'.again \in BOOLEAN
              /\ seed'.depth \in 1..MaxReplyDepth + 1
            BY <1>1, <2>10, <2>12 DEF IInv, TypeOK, SeedType, Ids
        <3>3. CASE first + n < NumUsers
            <4>1. first + n \in 0..NumUsers - 1
                BY <1>4, <1>5, <3>3, Bounds
            <4>2. QED
                BY <2>10, <2>12, <3>1, <3>2, <3>3, <4>1, AfterIs DEF SeedOK, Stages
        <3>4. CASE ~(first + n < NumUsers)
            <4>1. 0 \in 0..NumPosts - 1
                BY Bounds
            <4>2. QED
                BY <2>10, <2>12, <3>1, <3>2, <3>4, <4>1, AfterIs DEF SeedOK, Stages
        <3>5. QED
            BY <3>3, <3>4
    <2>14. TypeOK' /\ SeedType'
        <3>1. DOMAIN told' \subseteq Ids' /\ writes' \in 0..MaxWrites /\ runs' \in 1..MaxRuns
            BY <1>1 DEF IInv, TypeOK, Ids
        <3>2. QED
            BY <2>5, <2>6, <2>13, <3>1, Typed
    <2>15. seed.again => Names \cap (first + n + 1..NumUsers) # {}
        <3>1. SUFFICES ASSUME seed.again PROVE Names \cap (first + n + 1..NumUsers) # {}
            OBVIOUS
        <3>2. PICK name \in Names : name \in first + 1..NumUsers
            BY <1>1, <1>3, <3>1 DEF IInv, NamesInv
        <3>3. name \notin first + 1..first + n
            BY <1>7, <3>2
        <3>4. name \in first + n + 1..NumUsers
            BY <1>4, <1>5, <3>2, <3>3, Bounds
        <3>5. QED
            BY <3>2, <3>4
    <2>16. seed.again => first + n < NumUsers
        <3>1. \A a \in Nat : ~(a < NumUsers) => a + 1..NumUsers = {}
            BY Bounds
        <3>2. QED
            BY <1>4, <1>5, <2>15, <3>1
    <2>17. NamesInv'
        BY <2>7, <2>10, <2>12, <2>15 DEF NamesInv
    <2>18. RerunStops' /\ RepliesNotified'
        BY <2>10, <2>12, <2>16 DEF RerunStops, RepliesNotified
    <2>19. ToldInv'
        BY <1>1, <2>10, <2>12 DEF ToldInv, IInv, Seeded
    <2>20. QED
        BY <2>14, <2>17, <2>18, <2>19 DEF IInv
<1>8. QED
    BY <1>6, <1>7

-----------------------------------------------------------------------------
(* The requests of others insert no posts of the seed and notify of no post *)
(* that is there already.                                                   *)
LEMMA OtherStep ==
    ASSUME IInv, UNCHANGED seed, UsersGrow, PostsGrow, TablesOK',
           \A p \in (DOMAIN posts') \ (DOMAIN posts) : ~posts'[p].seeded,
           DOMAIN told' \subseteq Ids',
           \A p \in Ids : (p \in DOMAIN told' <=> p \in DOMAIN told)
                          /\ (p \in DOMAIN told => told'[p] = told[p]),
           writes' \in 0..MaxWrites, runs' \in 1..MaxRuns
    PROVE  IInv'
<1>1. TypeOK' /\ SeedType'
    BY SameSeed, Typed
<1>2. Seeded' = Seeded /\ Seeded \subseteq Ids
    BY DEF Seeded, PostsGrow, IInv, TypeOK, Ids
<1>3. Names \subseteq Names'
    BY NamesGrow
<1>4. NamesInv' /\ RerunStops' /\ ToldInv'
    BY <1>2, <1>3 DEF IInv, NamesInv, RerunStops, ToldInv
<1>5. RepliesNotified'
    <2>1. CASE seed.stage = "done"
        BY <2>1, NotifiedStays DEF IInv
    <2>2. CASE seed.stage # "done"
        BY <2>2 DEF RepliesNotified
    <2>3. QED
        BY <2>1, <2>2
<1>6. QED
    BY <1>1, <1>4, <1>5 DEF IInv

LEMMA WriteIs ==
    ASSUME IInv, Write
    PROVE  writes' \in 0..MaxWrites /\ runs' \in 1..MaxRuns /\ UNCHANGED seed
BY Bounds DEF Write, IInv, TypeOK

LEMMA RegisterStep ==
    ASSUME IInv, Register
    PROVE  IInv'
<1>1. /\ UNCHANGED <<posts, tables, told, nextPost>> /\ nextUser' = nextUser + 1
      /\ writes' \in 0..MaxWrites /\ runs' \in 1..MaxRuns /\ UNCHANGED seed
    BY WriteIs DEF Register
<1>2. PICK name \in 0..NumUsers : users' = With(users, [u \in {nextUser} |-> name])
    BY DEF Register
<1>3. nextUser \in Nat \ {0} /\ DOMAIN users = 1..nextUser - 1
      /\ \A u \in DOMAIN users : users[u] \in 0..NumUsers
    BY DEF IInv, TypeOK, SeedType
<1>4. PICK new : new = [u \in {nextUser} |-> name]
    OBVIOUS
<1>5. DOMAIN new = {nextUser} /\ new[nextUser] = name
    BY <1>4
<1>6. /\ DOMAIN users' = (DOMAIN users) \cup {nextUser}
      /\ \A u \in DOMAIN users : users'[u] = users[u]
      /\ \A u \in {nextUser} \ (DOMAIN users) : users'[u] = name
    <2>1. /\ DOMAIN With(users, new) = (DOMAIN users) \cup (DOMAIN new)
          /\ \A u \in DOMAIN users : With(users, new)[u] = users[u]
          /\ \A u \in (DOMAIN new) \ (DOMAIN users) : With(users, new)[u] = new[u]
        BY Extension
    <2>2. QED
        BY <1>2, <1>4, <1>5, <2>1
<1>7. DOMAIN users' = 1..nextUser' - 1 /\ nextUser' \in Nat \ {0}
    <2>1. \A a \in Nat \ {0} : (1..a - 1) \cup {a} = 1..(a + 1) - 1
        OBVIOUS
    <2>2. (1..nextUser - 1) \cup {nextUser} = 1..(nextUser + 1) - 1
        BY <1>3, <2>1
    <2>3. QED
        BY <1>1, <1>3, <1>6, <2>2
<1>8. UsersGrow
    BY <1>3, <1>6, <1>7 DEF UsersGrow
<1>9. PostsGrow /\ TablesOK'
    BY <1>1, <1>8, SamePosts, SameTables
<1>10. DOMAIN told' \subseteq Ids'
    BY <1>1 DEF IInv, TypeOK, Ids
<1>11. QED
    BY <1>1, <1>8, <1>9, <1>10, OtherStep

LEMMA PublishStep ==
    ASSUME IInv, Publish
    PROVE  IInv'
<1>1. /\ UNCHANGED <<users, tables, nextUser>> /\ nextPost' = nextPost + 1
      /\ writes' \in 0..MaxWrites /\ runs' \in 1..MaxRuns /\ UNCHANGED seed
    BY WriteIs DEF Publish
<1>2. nextPost \in Nat \ {0} /\ nextPost' \in Nat \ {0} /\ nextPost <= nextPost'
      /\ nextPost \in nextPost..nextPost' - 1
    BY <1>1 DEF IInv, SeedType
<1>3. PICK u \in DOMAIN users, parent \in {0} \cup DOMAIN posts :
        /\ posts' = With(posts, [p \in {nextPost} |->
                                    [author |-> u, parent |-> parent, seeded |-> FALSE]])
        /\ told' = IF parent # 0 /\ posts[parent].author # u
                   THEN With(told, [p \in {nextPost} |-> 1]) ELSE told
    BY DEF Publish
<1>4. PICK row : row = [author |-> u, parent |-> parent, seeded |-> FALSE]
    OBVIOUS
<1>5. row.author = u /\ row.parent = parent /\ row.seeded = FALSE
    BY <1>4
<1>6. PICK new : new = [p \in {nextPost} |-> row]
    OBVIOUS
<1>7. DOMAIN new = {nextPost} /\ new[nextPost] = row
    BY <1>6
<1>8. /\ DOMAIN posts' = (DOMAIN posts) \cup {nextPost}
      /\ \A p \in DOMAIN posts : posts'[p] = posts[p]
      /\ \A p \in {nextPost} \ (DOMAIN posts) : posts'[p] = row
    <2>1. /\ DOMAIN With(posts, new) = (DOMAIN posts) \cup (DOMAIN new)
          /\ \A p \in DOMAIN posts : With(posts, new)[p] = posts[p]
          /\ \A p \in (DOMAIN new) \ (DOMAIN posts) : With(posts, new)[p] = new[p]
        BY Extension
    <2>2. posts' = With(posts, new)
        BY <1>3, <1>4, <1>6
    <2>3. QED
        BY <1>7, <2>1, <2>2
<1>9. parent \in 0..nextPost - 1
    BY <1>2, <1>3 DEF IInv, TypeOK
<1>10. PostsGrow
    BY <1>1, <1>2, <1>3, <1>5, <1>8, <1>9 DEF PostsGrow
<1>11. UsersGrow /\ TablesOK'
    BY <1>1, <1>10, SameUsers, SameTables
<1>12. \A p \in (DOMAIN posts') \ (DOMAIN posts) : ~posts'[p].seeded
    BY <1>5, <1>8
<1>13. Ids' = Ids \cup {nextPost} /\ nextPost \notin Ids
    <2>1. \A a \in Nat \ {0} : (1..a - 1) \cup {a} = 1..(a + 1) - 1 /\ a \notin 1..a - 1
        OBVIOUS
    <2>2. /\ (1..nextPost - 1) \cup {nextPost} = 1..(nextPost + 1) - 1
          /\ nextPost \notin 1..nextPost - 1
        BY <1>2, <2>1
    <2>3. QED
        BY <1>1, <2>2 DEF Ids
<1>14. /\ DOMAIN told' \subseteq (DOMAIN told) \cup {nextPost} /\ DOMAIN told \subseteq DOMAIN told'
       /\ \A p \in DOMAIN told : told'[p] = told[p]
    <2>1. PICK note : note = [p \in {nextPost} |-> 1]
        OBVIOUS
    <2>2. DOMAIN note = {nextPost}
        BY <2>1
    <2>3. /\ DOMAIN With(told, note) = (DOMAIN told) \cup (DOMAIN note)
          /\ \A p \in DOMAIN told : With(told, note)[p] = told[p]
        BY Extension
    <2>4. told' = With(told, note) \/ told' = told
        BY <1>3, <2>1
    <2>5. QED
        BY <2>2, <2>3, <2>4
<1>15. DOMAIN told \subseteq Ids
    BY DEF IInv, TypeOK, Ids
<1>16. DOMAIN told' \subseteq Ids'
    BY <1>13, <1>14, <1>15
<1>17. \A p \in Ids : (p \in DOMAIN told' <=> p \in DOMAIN told)
                      /\ (p \in DOMAIN told => told'[p] = told[p])
    BY <1>13, <1>14
<1>18. QED
    BY <1>1, <1>10, <1>11, <1>12, <1>16, <1>17, OtherStep

LEMMA MarkStep ==
    ASSUME IInv, Mark
    PROVE  IInv'
<1>1. /\ UNCHANGED <<users, posts, told, nextUser, nextPost>>
      /\ writes' \in 0..MaxWrites /\ runs' \in 1..MaxRuns /\ UNCHANGED seed
    BY WriteIs DEF Mark
<1>2. UsersGrow /\ PostsGrow /\ Others' = Others /\ Ids' = Ids
    BY <1>1, SameUsers, SamePosts DEF Others, Ids
<1>3. TablesOK
    BY DEF IInv, TypeOK, SeedType, TablesOK, Ids
<1>4. TablesOK'
    <2>1. CASE \E p \in Others : tables' = [tables EXCEPT !["follows"] = @ \cup {p}]
        BY <1>1, <1>2, <1>3, <2>1 DEF TablesOK, Drawn
    <2>2. CASE \E p \in (DOMAIN users) \X (DOMAIN posts) :
                    tables' = [tables EXCEPT !["likes"] = @ \cup {p}]
        <3>1. DOMAIN posts \subseteq Ids
            BY DEF IInv, TypeOK, Ids
        <3>2. QED
            BY <1>1, <1>2, <1>3, <2>2, <3>1 DEF TablesOK, Drawn
    <2>3. QED
        BY <2>1, <2>2 DEF Mark
<1>5. DOMAIN told' \subseteq Ids'
    BY <1>1 DEF IInv, TypeOK, Ids
<1>6. QED
    BY <1>1, <1>2, <1>4, <1>5, OtherStep

(* The id of a post that is deleted is not used again. *)
LEMMA DeleteStep ==
    ASSUME IInv, DeletePost
    PROVE  IInv'
<1>1. /\ UNCHANGED <<users, tables, told, nextUser, nextPost>>
      /\ writes' \in 0..MaxWrites /\ runs' \in 1..MaxRuns /\ UNCHANGED seed
    BY WriteIs DEF DeletePost
<1>2. /\ DOMAIN posts' \subseteq DOMAIN posts /\ \A p \in DOMAIN posts' : posts'[p] = posts[p]
    BY DEF DeletePost
<1>3. Names' = Names /\ Others' = Others /\ Ids' = Ids /\ Seeded' \subseteq Seeded
    BY <1>1, <1>2 DEF Names, Others, Ids, Seeded
<1>4. TypeOK'
    BY <1>1, <1>2, <1>3 DEF IInv, TypeOK
<1>5. SeedType'
    BY <1>1, <1>2, <1>3 DEF IInv, SeedType
<1>6. NamesInv' /\ RerunStops' /\ ToldInv'
    BY <1>1, <1>3 DEF IInv, NamesInv, RerunStops, ToldInv
<1>7. RepliesNotified'
    BY <1>1, <1>2 DEF IInv, RepliesNotified
<1>8. QED
    BY <1>4, <1>5, <1>6, <1>7 DEF IInv

LEMMA NextIInv == IInv /\ [Next]_vars => IInv'
<1> SUFFICES ASSUME IInv, [Next]_vars PROVE IInv'
    OBVIOUS
<1>1. CASE SeedStep
    BY <1>1, UsersStep, PostsStep, DrawSteps, RepliesStep, PairsStep, RecordsStep, NotifyStep
       DEF SeedStep
<1>2. CASE Fails
    BY <1>2, FailStep DEF Fails, Ended
<1>3. CASE Run \/ Register \/ Publish \/ DeletePost \/ Mark
    BY <1>3, RunStep, RegisterStep, PublishStep, DeleteStep, MarkStep
<1>4. CASE UNCHANGED vars
    <2>1. UNCHANGED database /\ UNCHANGED <<seed, posts, told, writes, runs>>
        BY <1>4 DEF vars, database
    <2>2. UsersGrow /\ PostsGrow /\ TablesOK' /\ DOMAIN told' \subseteq Ids'
        BY <2>1, SameDatabase
    <2>3. writes' \in 0..MaxWrites /\ runs' \in 1..MaxRuns
        BY <2>1 DEF IInv, TypeOK
    <2>4. QED
        BY <2>1, <2>2, <2>3, OtherStep
<1>5. QED
    BY <1>1, <1>2, <1>3, <1>4 DEF Next

LEMMA Invariance == Spec => []IInv
<1>1. Init => IInv
    BY InitIInv
<1>2. IInv /\ [Next]_vars => IInv'
    BY NextIInv
<1>3. QED
    BY <1>1, <1>2, PTL DEF Spec

-----------------------------------------------------------------------------
(* The rows of every table refer to rows that are there or were there, ids   *)
(* are never used twice, and the program is in one of its stages (main.go).  *)
THEOREM TypeCorrect == Spec => []TypeOK
<1>1. IInv => TypeOK
    BY DEF IInv
<1>2. QED
    BY <1>1, Invariance, PTL

(* main.go:151-155, 166-168: a run that starts beside a name of the seed     *)
(* fails with the users, however many batches of users go well before.       *)
THEOREM RerunsStop == Spec => []RerunStops
<1>1. IInv => RerunStops
    BY DEF IInv
<1>2. QED
    BY <1>1, Invariance, PTL

(* main.go:265-276: a complete run has notified each of its replies once,    *)
(* whatever others publish and delete meanwhile and afterwards.              *)
THEOREM RepliesAreNotified == Spec => []RepliesNotified
<1>1. IInv => RepliesNotified
    BY DEF IInv
<1>2. QED
    BY <1>1, Invariance, PTL
=============================================================================
