------------------------- MODULE NotificationsProofs -------------------------
(* Proofs about Notifications, for any users, workers, page size and bounds. *)
EXTENDS Notifications, Functions, SequenceTheorems, FiniteSetTheorems, TLAPS

Unread == {i \in Mine("all") : ~notes[i].read}

(* x is still listed, with at least place entries ahead of it. *)
ToCome(x, place) ==
    x \in Entries(client.list) /\ place <= Cardinality(Ahead(client.list, x))

(* While the client turns the pages, what was there when it began has come, *)
(* belongs to a visitor who came again, or is on a page that is to come:    *)
(* entries only ever get ahead of others, and none disappears.              *)
PagesInv ==
    \A x \in client.begun :
        \/ x \in client.got \cup client.again
        \/ client.at = "rest"
        \/ client.at = "rows" /\ ToCome(x, (client.page - 1) * PerPage)
        \/ client.at \in {"unread", "total"} /\ ToCome(x, client.page * PerPage)

(* The unread rows of the page are still unread when unread_count is read.  *)
UnreadInv ==
    /\ client.at = "unread" => client.list # "visitors"
    /\ client.at = "unread" /\ ~client.marked => client.unreadRows <= Cardinality(Unread)

ClientType ==
    [list : Lists \cup {"none"}, at : {"rest", "rows", "unread", "total"},
     page : Nat \ {0}, got : SUBSET Entry, begun : SUBSET Entry,
     unreadRows : Nat, unread : Nat, marked : BOOLEAN, uncounted : BOOLEAN,
     again : SUBSET Users]

-----------------------------------------------------------------------------
(* The tables only grow, apart from the mark. *)

Listed(i) == [user |-> notes[i].user, type |-> notes[i].type]

Grown ==
    /\ DOMAIN notes \subseteq DOMAIN notes'
    /\ \A i \in DOMAIN notes : notes'[i].user = notes[i].user /\ notes'[i].type = notes[i].type
    /\ DOMAIN footprints \subseteq DOMAIN footprints'
    /\ \A i \in DOMAIN footprints : footprints'[i] = footprints[i]

(* x has no visit that was not there before. *)
NoVisit(x) == Visits(x)' = Visits(x)

LEMMA Domains ==
    ASSUME TypeOK
    PROVE  /\ DOMAIN notes = 1..Len(notes) /\ Len(notes) \in Nat
           /\ DOMAIN footprints = 1..Len(footprints) /\ Len(footprints) \in Nat
           /\ \A i \in DOMAIN notes : notes[i] \in Note
           /\ \A i \in DOMAIN footprints : footprints[i] \in FootprintRow
BY DEF TypeOK

FiniteLists == IsFiniteSet(Visitors) /\ \A list : IsFiniteSet(Entries(list))

LEMMA FiniteEntries == TypeOK => FiniteLists
<1> SUFFICES ASSUME TypeOK PROVE FiniteLists
    OBVIOUS
<1>1. IsFiniteSet(DOMAIN notes) /\ IsFiniteSet(DOMAIN footprints)
    <2>1. /\ DOMAIN notes = 1..Len(notes) /\ Len(notes) \in Nat
          /\ DOMAIN footprints = 1..Len(footprints) /\ Len(footprints) \in Nat
        BY Domains
    <2>2. \A n \in Nat : IsFiniteSet(1..n)
        BY FS_Interval
    <2>3. QED
        BY <2>1, <2>2
<1>2. ASSUME NEW list
      PROVE  IsFiniteSet(Mine(list))
    <2>1. Mine(list) \subseteq DOMAIN notes
        BY DEF Mine
    <2>2. QED
        BY <1>1, <2>1, FS_Subset
<1>3. IsFiniteSet(Visitors)
    <2> DEFINE D == {j \in DOMAIN footprints : footprints[j].user = Reader}
               f == [i \in D |-> footprints[i].visitor]
    <2>1. IsFiniteSet(D)
        <3>1. D \subseteq DOMAIN footprints
            OBVIOUS
        <3>2. QED
            BY <1>1, <3>1, FS_Subset
    <2>2. f \in Surjection(D, Visitors)
        BY DEF Visitors, Surjection
    <2>3. QED
        BY <2>1, <2>2, FS_Surjection
<1>4. QED
    BY <1>2, <1>3 DEF Entries, FiniteLists

LEMMA EntryTypes ==
    ASSUME TypeOK, NEW list
    PROVE  Entries(list) \subseteq Entry /\ (list # "visitors" => Entries(list) \subseteq Nat)
<1>1. Mine(list) \subseteq Nat
    BY Domains DEF Mine
<1>2. Visitors \subseteq Users
    BY Domains DEF Visitors, FootprintRow
<1>3. QED
    BY <1>1, <1>2 DEF Entries, Entry

LEMMA FiniteAhead ==
    ASSUME TypeOK, NEW list, NEW x
    PROVE  IsFiniteSet(Ahead(list, x)) /\ Cardinality(Ahead(list, x)) \in Nat
<1>1. Ahead(list, x) \subseteq Entries(list)
    BY DEF Ahead, Entries
<1>2. IsFiniteSet(Ahead(list, x))
    BY <1>1, FiniteEntries, FS_Subset DEF FiniteLists
<1>3. QED
    BY <1>2, FS_CardinalityType

(* The entries ahead of x are entries other than x: less than their number. *)
LEMMA AheadOfLast ==
    ASSUME TypeOK, NEW list, NEW x \in Entries(list)
    PROVE  Cardinality(Ahead(list, x)) < Cardinality(Entries(list))
<1>1. Ahead(list, x) \subseteq Entries(list)
    BY DEF Ahead, Entries
<1>2. x \notin Ahead(list, x)
    <2>1. CASE list = "visitors"
        <3>1. Visits(x) \subseteq Nat
            BY Domains DEF Visits
        <3>2. QED
            BY <2>1, <3>1 DEF Ahead
    <2>2. CASE list # "visitors"
        <3>1. x \in Nat
            BY <2>2, EntryTypes
        <3>2. QED
            BY <2>2, <3>1 DEF Ahead
    <2>3. QED
        BY <2>1, <2>2
<1>3. Ahead(list, x) # Entries(list)
    BY <1>2
<1>4. IsFiniteSet(Entries(list))
    BY FiniteEntries DEF FiniteLists
<1>5. IsFiniteSet(Ahead(list, x)) /\ Cardinality(Ahead(list, x)) <= Cardinality(Entries(list))
        /\ (Cardinality(Ahead(list, x)) = Cardinality(Entries(list)) =>
                Ahead(list, x) = Entries(list))
    BY <1>1, <1>4, FS_Subset
<1>6. Cardinality(Ahead(list, x)) \in Nat /\ Cardinality(Entries(list)) \in Nat
    BY <1>4, <1>5, FS_CardinalityType
<1>7. QED
    BY <1>3, <1>5, <1>6

(* What was listed stays listed, and what was ahead stays ahead. *)
LEMMA GrownLists ==
    ASSUME TypeOK, TypeOK', Grown, NEW list, NEW x \in Entries(list),
           list = "visitors" => NoVisit(x)
    PROVE  /\ x \in Entries(list)'
           /\ Cardinality(Ahead(list, x)) <= Cardinality(Ahead(list, x)')
<1>1. Mine(list) \subseteq Mine(list)'
    BY DEF Mine, Grown
<1>2. Visitors \subseteq Visitors'
    BY DEF Visitors, Grown
<1>3. \A v : Visits(v) \subseteq Visits(v)'
    BY DEF Visits, Grown
<1>4. Ahead(list, x) \subseteq Ahead(list, x)'
    <2>1. CASE list = "visitors"
        BY <1>2, <1>3, <2>1 DEF Ahead, NoVisit
    <2>2. CASE list # "visitors"
        BY <1>1, <2>2 DEF Ahead
    <2>3. QED
        BY <2>1, <2>2
<1>5. IsFiniteSet(Ahead(list, x)')
    <2>1. Ahead(list, x)' \subseteq Entries(list)'
        BY DEF Ahead, Entries
    <2>2. TypeOK' => FiniteLists'
        BY FiniteEntries, PTL
    <2>3. QED
        BY <2>1, <2>2, FS_Subset DEF FiniteLists
<1>6. QED
    BY <1>1, <1>2, <1>4, <1>5, FS_Subset DEF Entries

-----------------------------------------------------------------------------
(* Types. *)

LEMMA StatementTypes ==
    ASSUME TypeOK, NEW w \in Workers, NEW label \in {"follow", "footprint", "note"}, NEW o,
           NEW next \in {"idle", "note"}, Statement(w, label, o, next)
    PROVE  /\ failures' \in 0..MaxFailures
           /\ pc' \in [Workers -> {"idle", "follow", "footprint", "note"}]
           /\ DOMAIN req' = Workers
           /\ \A v \in Workers : pc'[v] # "idle" =>
                req'[v] \in [type : Types, me : Users, other : Users] /\ req'[v].me # req'[v].other
           /\ req[w].type \in Types /\ req[w].me \in Users /\ req[w].other \in Users
<1>1. failures' \in 0..MaxFailures
    BY NotificationsAssumption DEF TypeOK, Statement
<1>2. pc' \in [Workers -> {"idle", "follow", "footprint", "note"}] /\ DOMAIN req' = Workers
    BY DEF TypeOK, Statement
<1>3. \A v \in Workers : pc'[v] # "idle" => pc[v] # "idle" /\ req'[v] = req[v]
    BY DEF TypeOK, Statement
<1>4. pc[w] # "idle"
    BY DEF Statement
<1>5. QED
    BY <1>1, <1>2, <1>3, <1>4 DEF TypeOK

LEMMA InitType == Init => TypeOK
BY NotificationsAssumption DEF Init, TypeOK, AtRest, Lists, Types, Entry

LEMMA MarkTypes ==
    ASSUME TypeOK, NEW me \in Users, MarkNotificationsRead(me)
    PROVE  /\ notes' \in Seq(Note) /\ DOMAIN notes' = DOMAIN notes
           /\ \A i \in DOMAIN notes :
                /\ notes'[i].user = notes[i].user /\ notes'[i].type = notes[i].type
                /\ notes[i].user # me => notes'[i] = notes[i]
<1>1. \A i \in DOMAIN notes : notes[i] \in Note
    BY Domains
<1>2. PICK n \in Nat : n = Len(notes)
    BY Domains
<1>3. DOMAIN notes = 1..n
    BY <1>2, Domains
<1>4. ASSUME NEW i \in DOMAIN notes
      PROVE  /\ [notes[i] EXCEPT !.read = TRUE] \in Note
             /\ [notes[i] EXCEPT !.read = TRUE].user = notes[i].user
             /\ [notes[i] EXCEPT !.read = TRUE].type = notes[i].type
    BY <1>1 DEF Note
<1>5. /\ DOMAIN notes' = DOMAIN notes
      /\ \A i \in DOMAIN notes :
            notes'[i] = IF notes[i].user = me THEN [notes[i] EXCEPT !.read = TRUE] ELSE notes[i]
    BY DEF MarkNotificationsRead
<1>6. notes' \in [1..n -> Note]
    BY <1>1, <1>3, <1>4 DEF MarkNotificationsRead
<1>7. notes' \in Seq(Note)
    BY <1>6
<1>8. QED
    BY <1>4, <1>5, <1>7

LEMMA PageTypes ==
    ASSUME TypeOK, NEW list, NEW page
    PROVE  PageOf(list, page) \subseteq Entries(list)
BY DEF PageOf

LEMMA SelectedTypes ==
    ASSUME TypeOK, NEW o, Selected(o) PROVE failures' \in 0..MaxFailures
BY NotificationsAssumption DEF TypeOK, Selected

LEMMA ReadTypes == ASSUME TypeOK, Read PROVE TypeOK'
<1> USE DEF TypeOK
<1>1. ASSUME NEW list \in OpenLists, Open(list)
      PROVE  TypeOK'
    <2>1. Entries(list) \in SUBSET Entry /\ list \in Lists
        BY <1>1, EntryTypes, NotificationsAssumption
    <2>2. AtRest \in ClientType
        BY DEF AtRest, ClientType, Entry
    <2>3. client' \in ClientType
        BY <1>1, <2>1, <2>2 DEF Open, ClientType
    <2>4. QED
        BY <1>1, <2>3 DEF Open, ClientType
<1>2. CASE ListRows
    <2> DEFINE page == PageOf(client.list, client.page)
    <2>1. PICK dropped \in SUBSET page :
            /\ failures + Cardinality(dropped) <= MaxFailures
            /\ failures' = failures + Cardinality(dropped)
            /\ client' = [client EXCEPT
                    !.at = IF client.list = "visitors" THEN "total" ELSE "unread",
                    !.got = @ \cup page,
                    !.unreadRows = IF client.list = "visitors" THEN 0
                                   ELSE Cardinality({i \in page \ dropped : ~notes[i].read}),
                    !.marked = FALSE]
        BY <1>2 DEF ListRows
    <2>2. IsFiniteSet(page)
        BY PageTypes, FiniteEntries, FS_Subset DEF FiniteLists
    <2>3. Cardinality(dropped) \in Nat /\ Cardinality({i \in page \ dropped : ~notes[i].read}) \in Nat
        BY <2>2, FS_Subset, FS_CardinalityType
    <2>4. failures' \in 0..MaxFailures
        BY <2>1, <2>3, NotificationsAssumption
    <2>5. page \in SUBSET Entry
        BY PageTypes, EntryTypes
    <2> HIDE DEF page
    <2>6. client' \in ClientType
        BY <2>1, <2>3, <2>5 DEF ClientType
    <2>7. QED
        BY <1>2, <2>4, <2>6 DEF ListRows, ClientType
<1>3. ASSUME NEW o, ListUnread(o)
      PROVE  TypeOK'
    <2>1. {i \in Mine("all") : ~notes[i].read} \subseteq Entries("all")
        BY DEF Entries
    <2>2. Cardinality({i \in Mine("all") : ~notes[i].read}) \in Nat
        BY <2>1, FiniteEntries, FS_Subset, FS_CardinalityType DEF FiniteLists
    <2>3. client' \in ClientType
        BY <1>3, <2>2 DEF ListUnread, ClientType
    <2>4. QED
        BY <1>3, <2>3, SelectedTypes DEF ListUnread, ClientType
<1>4. ASSUME NEW o, ListTotal(o)
      PROVE  TypeOK'
    <2>1. AtRest \in ClientType
        BY DEF AtRest, ClientType, Entry
    <2>2. client.page + 1 \in Nat \ {0}
        OBVIOUS
    <2>3. client' \in ClientType
        BY <1>4, <2>1, <2>2 DEF ListTotal, ClientType
    <2>4. QED
        BY <1>4, <2>3, SelectedTypes DEF ListTotal, ClientType
<1>5. CASE ListRefused
    <2>1. AtRest \in ClientType
        BY DEF AtRest, ClientType, Entry
    <2>2. QED
        BY <1>5, <2>1, SelectedTypes DEF ListRefused, ClientType
<1>6. QED
    BY <1>1, <1>2, <1>3, <1>4, <1>5 DEF Read

LEMMA WriteTypes == ASSUME TypeOK, Write PROVE TypeOK'
<1>1. ASSUME NEW w \in Workers, NEW m \in Meetings, Follow(w, m[1], m[2]) \/ GetProfile(w, m[1], m[2])
      PROVE  TypeOK'
    <2>1. m[1] \in Users /\ m[2] \in Users
        BY NotificationsAssumption
    <2>2. PICK label \in {"follow", "footprint"} :
            Start(w, label, label, m[1], m[2]) /\ m[1] # m[2]
        BY <1>1 DEF Follow, GetProfile
    <2>3. pc' \in [Workers -> {"idle", "follow", "footprint", "note"}] /\ DOMAIN req' = Workers
        BY <2>2 DEF TypeOK, Start
    <2>4. \A v \in Workers : pc'[v] # "idle" =>
            req'[v] \in [type : Types, me : Users, other : Users] /\ req'[v].me # req'[v].other
        BY <2>1, <2>2 DEF TypeOK, Start, Types
    <2>5. UNCHANGED <<follows, footprints, notes, failures, client>>
        BY <2>2 DEF Start
    <2>6. QED
        BY <2>3, <2>4, <2>5 DEF TypeOK
<1>2. ASSUME NEW w \in Workers, NEW o \in Outcomes, InsertFollow(w, o)
      PROVE  TypeOK'
    <2>1. Statement(w, "follow", o, IF o = "ok" THEN "note" ELSE "idle")
        BY <1>2 DEF InsertFollow
    <2>2. QED
        BY <1>2, <2>1, StatementTypes DEF TypeOK, InsertFollow
<1>3. ASSUME NEW w \in Workers, NEW o \in Outcomes, InsertFootprint(w, o)
      PROVE  TypeOK'
    <2>1. Statement(w, "footprint", o, "note")
        BY <1>3 DEF InsertFootprint
    <2>2. req[w].me \in Users /\ req[w].other \in Users
        BY <2>1, StatementTypes
    <2>3. footprints' \in Seq(FootprintRow)
        <3>1. [user |-> req[w].other, visitor |-> req[w].me] \in FootprintRow
            BY <2>2 DEF FootprintRow
        <3>2. QED
            BY <1>3, <3>1 DEF TypeOK, InsertFootprint
    <2>4. client' \in ClientType
        BY <1>3, <2>2 DEF TypeOK, InsertFootprint, ClientType
    <2>5. QED
        BY <1>3, <2>1, <2>3, <2>4, StatementTypes DEF TypeOK, InsertFootprint, ClientType
<1>4. ASSUME NEW w \in Workers, NEW o \in Outcomes, InsertNote(w, o)
      PROVE  TypeOK'
    <2>1. Statement(w, "note", o, "idle")
        BY <1>4 DEF InsertNote
    <2>2. req[w].me \in Users /\ req[w].other \in Users /\ req[w].type \in Types
        BY <2>1, StatementTypes
    <2>3. notes' \in Seq(Note)
        <3>1. [user |-> req[w].other, type |-> req[w].type, actor |-> req[w].me, read |-> FALSE] \in Note
            BY <2>2 DEF Note
        <3>2. QED
            BY <1>4, <3>1 DEF TypeOK, InsertNote
    <2>4. QED
        BY <1>4, <2>1, <2>3, StatementTypes DEF TypeOK, InsertNote
<1>5. ASSUME NEW m \in Meetings, Unfollow(m[1], m[2])
      PROVE  TypeOK'
    BY <1>5 DEF TypeOK, Unfollow
<1>6. ASSUME NEW me \in Users, MarkNotificationsRead(me)
      PROVE  TypeOK'
    <2>1. client' \in ClientType
        BY <1>6 DEF TypeOK, MarkNotificationsRead, ClientType
    <2>2. QED
        BY <1>6, <2>1, MarkTypes DEF TypeOK, MarkNotificationsRead, ClientType
<1>7. QED
    BY <1>1, <1>2, <1>3, <1>4, <1>5, <1>6 DEF Write

(* Every variable keeps its type. *)
THEOREM TypeCorrect == Spec => []TypeOK
<1>1. TypeOK /\ UNCHANGED vars => TypeOK'
    BY DEF TypeOK, vars
<1>2. TypeOK /\ [Next]_vars => TypeOK'
    BY <1>1, ReadTypes, WriteTypes DEF Next
<1>3. QED
    BY <1>2, InitType, PTL DEF Spec

-----------------------------------------------------------------------------
(* What a writing request does to the client: nothing but history. *)
SameRequest ==
    /\ client'.list = client.list /\ client'.at = client.at /\ client'.page = client.page
    /\ client'.got = client.got /\ client'.begun = client.begun
    /\ client'.unreadRows = client.unreadRows /\ client'.unread = client.unread
    /\ client'.uncounted = client.uncounted
    /\ client.again \subseteq client'.again /\ (client.marked => client'.marked)

LEMMA WritesGrow ==
    ASSUME TypeOK, Write
    PROVE  /\ Grown /\ SameRequest
           /\ \A x : client.list = "visitors" => NoVisit(x) \/ x \in client'.again
<1> USE DEF SameRequest
<1>0. client \in ClientType
    BY DEF TypeOK, ClientType
<1>1. CASE UNCHANGED <<footprints, notes, client>>
    BY <1>1 DEF Grown, NoVisit, Visits
<1>2. ASSUME NEW w \in Workers, NEW o \in Outcomes, InsertFootprint(w, o)
      PROVE  /\ Grown /\ SameRequest
             /\ \A x : client.list = "visitors" => NoVisit(x) \/ x \in client'.again
    <2> DEFINE row == [user |-> req[w].other, visitor |-> req[w].me]
    <2>1. UNCHANGED notes /\ SameRequest
        BY <1>0, <1>2 DEF InsertFootprint, ClientType
    <2>2. CASE o = "failed"
        BY <1>2, <2>1, <2>2 DEF InsertFootprint, Grown, NoVisit, Visits
    <2>3. CASE o # "failed"
        <3>1. Statement(w, "footprint", o, "note")
            BY <1>2 DEF InsertFootprint
        <3>2. row \in FootprintRow /\ req[w].me \in Users
            BY <3>1, StatementTypes DEF FootprintRow
        <3>3. footprints' = Append(footprints, row) /\ footprints \in Seq(FootprintRow)
            BY <1>2, <2>3 DEF InsertFootprint, TypeOK
        <3> HIDE DEF row
        <3>4. /\ DOMAIN footprints' = DOMAIN footprints \cup {Len(footprints) + 1}
              /\ footprints'[Len(footprints) + 1] = row
              /\ \A i \in DOMAIN footprints : footprints'[i] = footprints[i]
            BY <3>2, <3>3
        <3>5. Grown
            BY <2>1, <3>4 DEF Grown
        <3>6. ASSUME NEW x, client.list = "visitors"
              PROVE  NoVisit(x) \/ x \in client'.again
            <4>1. CASE row = [user |-> Reader, visitor |-> x]
                <5>1. req[w].other = Reader /\ req[w].me = x
                    BY <4>1 DEF row
                <5>2. client' = [client EXCEPT !.again = @ \cup {req[w].me}]
                    BY <1>2, <2>3, <3>6, <5>1 DEF InsertFootprint
                <5>3. QED
                    BY <1>0, <5>1, <5>2 DEF ClientType
            <4>2. CASE row # [user |-> Reader, visitor |-> x]
                BY <3>4, <4>2 DEF NoVisit, Visits
            <4>3. QED
                BY <4>1, <4>2
        <3>7. QED
            BY <2>1, <3>5, <3>6
    <2>4. QED
        BY <2>2, <2>3
<1>3. ASSUME NEW w \in Workers, NEW o \in Outcomes, InsertNote(w, o)
      PROVE  Grown /\ UNCHANGED <<footprints, client>>
    <2> DEFINE row == [user |-> req[w].other, type |-> req[w].type, actor |-> req[w].me,
                       read |-> FALSE]
    <2>1. Statement(w, "note", o, "idle") /\ UNCHANGED <<footprints, client>>
        BY <1>3 DEF InsertNote
    <2>2. row \in Note
        BY <2>1, StatementTypes DEF Note
    <2>3. notes' = notes \/ notes' = Append(notes, row)
        BY <1>3 DEF InsertNote
    <2> HIDE DEF row
    <2>4. notes \in Seq(Note)
        BY DEF TypeOK
    <2>5. DOMAIN notes \subseteq DOMAIN notes' /\ \A i \in DOMAIN notes : notes'[i] = notes[i]
        <3>1. CASE notes' = notes
            BY <3>1
        <3>2. CASE notes' = Append(notes, row)
            BY <2>2, <2>4, <3>2
        <3>3. QED
            BY <2>3, <3>1, <3>2
    <2>6. QED
        BY <2>1, <2>5 DEF Grown
<1>4. ASSUME NEW me \in Users, MarkNotificationsRead(me)
      PROVE  Grown /\ SameRequest /\ UNCHANGED footprints
    <2>1. Grown
        BY <1>4, MarkTypes DEF MarkNotificationsRead, Grown
    <2>2. SameRequest
        BY <1>0, <1>4 DEF MarkNotificationsRead, ClientType
    <2>3. QED
        BY <1>4, <2>1, <2>2 DEF MarkNotificationsRead
<1>5. QED
    BY <1>1, <1>2, <1>3, <1>4
    DEF Write, Follow, GetProfile, Start, InsertFollow, Unfollow, NoVisit, Visits

LEMMA WritesKeepPages ==
    ASSUME TypeOK, TypeOK', PagesInv, Write PROVE PagesInv'
<1> SUFFICES ASSUME NEW x \in client'.begun
             PROVE  \/ x \in client'.got \cup client'.again
                    \/ client'.at = "rest"
                    \/ client'.at = "rows" /\ ToCome(x, (client.page - 1) * PerPage)'
                    \/ client'.at \in {"unread", "total"} /\ ToCome(x, client.page * PerPage)'
    BY DEF PagesInv, ToCome
<1>1. Grown /\ SameRequest
    BY WritesGrow
<1>2. x \in client.begun
    BY <1>1 DEF SameRequest
<1>3. PICK list : list = client.list
    OBVIOUS
<1>4. CASE x \in client'.again \/ client.list # "visitors" \/ NoVisit(x)
    <2>1. ASSUME NEW place \in Int, ToCome(x, place), x \notin client'.again
          PROVE  x \in Entries(client.list)' /\ place <= Cardinality(Ahead(client.list, x))'
        <3>1. x \in Entries(list) /\ place <= Cardinality(Ahead(list, x))
            BY <1>3, <2>1 DEF ToCome
        <3>2. x \in Entries(list)' /\ Cardinality(Ahead(list, x)) <= Cardinality(Ahead(list, x)')
            BY <1>1, <1>3, <1>4, <2>1, <3>1, GrownLists
        <3>3. Cardinality(Ahead(list, x)) \in Nat /\ Cardinality(Ahead(list, x)') \in Nat
            <4>1. Cardinality(Ahead(list, x)) \in Nat
                BY FiniteAhead
            <4>2. IsFiniteSet(Entries(list)')
                <5>1. TypeOK' => FiniteLists'
                    BY FiniteEntries, PTL
                <5>2. QED
                    BY <5>1 DEF FiniteLists
            <4>3. Ahead(list, x)' \subseteq Entries(list)'
                BY DEF Ahead, Entries
            <4>4. QED
                BY <4>1, <4>2, <4>3, FS_Subset, FS_CardinalityType
        <3>4. place <= Cardinality(Ahead(list, x)')
            BY <3>1, <3>2, <3>3
        <3>5. client'.list = list
            BY <1>1, <1>3 DEF SameRequest
        <3>6. Entries(client.list)' = Entries(list)' /\ Ahead(client.list, x)' = Ahead(list, x)'
            BY <3>5 DEF Entries, Ahead, Mine
        <3>7. QED
            BY <3>2, <3>4, <3>6
    <2>2. (client.page - 1) * PerPage \in Int /\ client.page * PerPage \in Int
        BY NotificationsAssumption DEF TypeOK
    <2>3. QED
        BY <1>1, <1>2, <2>1, <2>2 DEF PagesInv, SameRequest, ToCome
<1>5. QED
    BY <1>4, WritesGrow

(* What a page does not have is on one of the next pages. *)
LEMMA NotOnPage ==
    ASSUME TypeOK, NEW x \in Entries(client.list),
           (client.page - 1) * PerPage <= Cardinality(Ahead(client.list, x)),
           x \notin PageOf(client.list, client.page)
    PROVE  client.page * PerPage <= Cardinality(Ahead(client.list, x))
<1> DEFINE offset == (client.page - 1) * PerPage
           ahead == Cardinality(Ahead(client.list, x))
<1>1. PerPage \in Nat /\ client.page \in Nat
    BY NotificationsAssumption DEF TypeOK
<1>2. offset \in Int /\ ahead \in Nat
    BY <1>1, FiniteAhead
<1>3. client.page * PerPage = offset + PerPage
    BY <1>1
<1>4. ahead \notin offset..offset + PerPage - 1
    BY DEF PageOf
<1> HIDE DEF offset, ahead
<1>5. offset + PerPage <= ahead
    BY <1>1, <1>2, <1>4 DEF offset, ahead
<1>6. QED
    BY <1>3, <1>5 DEF ahead

LEMMA SameLists ==
    ASSUME UNCHANGED <<notes, footprints>>, client'.list = client.list, NEW x
    PROVE  /\ Entries(client.list)' = Entries(client.list)
           /\ Ahead(client.list, x)' = Ahead(client.list, x)
<1>1. PICK list : list = client.list
    OBVIOUS
<1>2. Entries(list)' = Entries(list) /\ Ahead(list, x)' = Ahead(list, x)
    BY DEF Entries, Ahead, Mine, Visitors, Visits
<1>3. Entries(client.list)' = Entries(list)' /\ Ahead(client.list, x)' = Ahead(list, x)'
    BY <1>1 DEF Entries, Ahead, Mine
<1>4. QED
    BY <1>1, <1>2, <1>3

LEMMA ReadsKeepPages ==
    ASSUME TypeOK, TypeOK', PagesInv, Read PROVE PagesInv'
<1> USE DEF PagesInv
<1>0. client \in ClientType /\ PerPage \in Nat
    BY NotificationsAssumption DEF TypeOK, ClientType
<1>1. UNCHANGED <<notes, footprints>>
    BY DEF Read, Open, ListRows, ListRefused, ListUnread, ListTotal
<1>2. \A list, x : Entries(list)' = Entries(list) /\ Ahead(list, x)' = Ahead(list, x)
    BY <1>1 DEF Entries, Ahead, Mine, Visitors, Visits
<1>3. ASSUME NEW list \in OpenLists, Open(list)
      PROVE  PagesInv'
    <2>1. /\ client'.list = list /\ client'.at = "rows" /\ client'.page = 1
          /\ client'.begun = Entries(list)
        BY <1>3 DEF Open, AtRest
    <2>2. ASSUME NEW x \in client'.begun
          PROVE  ToCome(x, (client.page - 1) * PerPage)'
        <3>1. x \in Entries(client.list)'
            BY <1>2, <2>1, <2>2 DEF Entries
        <3>2. (client'.page - 1) * PerPage = 0
            BY <1>0, <2>1
        <3>3. 0 <= Cardinality(Ahead(client.list, x)')
            <4>1. Ahead(client.list, x)' = Ahead(list, x)
                BY <1>1, <2>1 DEF Ahead, Mine, Visitors, Visits
            <4>2. QED
                BY <4>1, FiniteAhead
        <3>4. QED
            BY <3>1, <3>2, <3>3 DEF ToCome
    <2>3. QED
        BY <2>1, <2>2
<1>4. CASE ListRows
    <2>1. /\ client'.list = client.list /\ client'.page = client.page
          /\ client'.begun = client.begun /\ client'.again = client.again
          /\ client'.got = client.got \cup PageOf(client.list, client.page)
          /\ client'.at \in {"unread", "total"} /\ client.at = "rows"
        BY <1>0, <1>4 DEF ListRows, ClientType
    <2>2. ASSUME NEW x \in client'.begun, x \notin client'.got \cup client'.again
          PROVE  ToCome(x, client.page * PerPage)'
        <3>1. ToCome(x, (client.page - 1) * PerPage) /\ x \notin PageOf(client.list, client.page)
            BY <2>1, <2>2
        <3>2. ToCome(x, client.page * PerPage)
            BY <3>1, NotOnPage DEF ToCome
        <3>3. QED
            BY <1>1, <2>1, <3>2 DEF ToCome, Entries, Ahead, Mine, Visitors, Visits
    <2>3. QED
        BY <2>1, <2>2
<1>5. ASSUME NEW o, ListUnread(o)
      PROVE  PagesInv'
    <2>1. /\ client'.list = client.list /\ client'.page = client.page
          /\ client'.begun = client.begun /\ client'.again = client.again
          /\ client'.got = client.got /\ client'.at = "total" /\ client.at = "unread"
        BY <1>0, <1>5 DEF ListUnread, ClientType
    <2>2. QED
        BY <1>1, <2>1, SameLists DEF ToCome
<1>6. ASSUME NEW o, ListTotal(o)
      PROVE  PagesInv'
    <2>1. CASE client'.at # "rest"
        <3>1. /\ client'.list = client.list /\ client'.page = client.page + 1
              /\ client'.begun = client.begun /\ client'.again = client.again
              /\ client'.got = client.got /\ client'.at = "rows" /\ client.at = "total"
            BY <1>0, <1>6, <2>1 DEF ListTotal, ClientType, AtRest
        <3>2. (client'.page - 1) * PerPage = client.page * PerPage
            BY <1>0, <3>1 DEF ClientType
        <3>3. QED
            BY <1>1, <3>1, <3>2, SameLists DEF ToCome
    <2>2. CASE client'.at = "rest"
        BY <2>2
    <2>3. QED
        BY <2>1, <2>2
<1>7. CASE ListRefused
    BY <1>7 DEF ListRefused, AtRest
<1>8. QED
    BY <1>3, <1>4, <1>5, <1>6, <1>7 DEF Read

LEMMA PagesInvariant == Spec => []PagesInv
<1>1. Init => PagesInv
    BY DEF Init, PagesInv, AtRest
<1>2. PagesInv /\ UNCHANGED vars => PagesInv'
    BY SameLists DEF PagesInv, ToCome, vars
<1>3. TypeOK /\ TypeOK' /\ PagesInv /\ [Next]_vars => PagesInv'
    BY <1>2, WritesKeepPages, ReadsKeepPages DEF Next
<1>4. QED
    BY <1>1, <1>3, TypeCorrect, PTL DEF Spec

(* notification.go:24-30, 96-101, footprint.go:25-32, 63-66: whatever is      *)
(* written between its requests, a client that turns the pages until total    *)
(* has received every entry that was there when it began, but those of        *)
(* visitors who came again; a count that failed ends the list early.          *)
THEOREM PagesMissNothing == Spec => PagingSkipsNothing
<1> DEFINE Complete == client.at = "total" /\ client'.at = "rest" /\ failures' = failures =>
                            client.begun \subseteq client.got \cup client.again
<1>1. ASSUME TypeOK, PagesInv, [Next]_vars
      PROVE  [Complete]_vars
    <2> SUFFICES ASSUME client.at = "total", client'.at = "rest", failures' = failures, NEW x \in client.begun,
                        x \notin client.got \cup client.again
                 PROVE  FALSE
        OBVIOUS
    <2>1. client \in ClientType /\ PerPage \in Nat
        BY <1>1, NotificationsAssumption DEF TypeOK, ClientType
    <2>2. ToCome(x, client.page * PerPage)
        BY <1>1 DEF PagesInv
    <2>3. client' # client
        OBVIOUS
    <2>4. ~Write
        BY <1>1, WritesGrow DEF SameRequest
    <2>5. ListTotal("ok")
        <3>1. PICK o \in {"ok", "failed"} : ListTotal(o)
            BY <1>1, <2>3, <2>4 DEF Next, Read, vars, Open, ListRows, ListRefused, ListUnread
        <3>2. failures \in Nat
            BY <1>1 DEF TypeOK
        <3>3. o = "ok"
            BY <3>1, <3>2 DEF ListTotal, Selected
        <3>4. QED
            BY <3>1, <3>3
    <2>6. ~(client.page * PerPage < Cardinality(Entries(client.list)))
        BY <2>1, <2>5 DEF ListTotal, ClientType
    <2>7. Cardinality(Ahead(client.list, x)) < Cardinality(Entries(client.list))
        BY <1>1, <2>2, AheadOfLast DEF ToCome
    <2>8. Cardinality(Ahead(client.list, x)) \in Nat /\ Cardinality(Entries(client.list)) \in Nat
        BY <1>1, FiniteAhead, FiniteEntries, FS_CardinalityType DEF FiniteLists
    <2>9. client.page * PerPage \in Nat
        BY <2>1 DEF ClientType
    <2>10. QED
        BY <2>2, <2>6, <2>7, <2>8, <2>9 DEF ToCome
<1>2. TypeOK /\ PagesInv /\ [Next]_vars => [Complete]_vars
    BY <1>1
<1>3. QED
    BY <1>2, TypeCorrect, PagesInvariant, PTL DEF Spec, PagingSkipsNothing

-----------------------------------------------------------------------------
CountInv == UnreadInv /\ UnreadCoversPage

LEMMA UnreadFinite ==
    ASSUME TypeOK PROVE IsFiniteSet(Unread) /\ Cardinality(Unread) \in Nat
<1>1. Unread \subseteq Entries("all")
    BY DEF Unread, Entries
<1>2. QED
    BY <1>1, FiniteEntries, FS_Subset, FS_CardinalityType DEF FiniteLists

(* A row that is unread stays so unless its user marks it. *)
LEMMA UnreadStays ==
    ASSUME TypeOK, Write
    PROVE  \/ Unread \subseteq Unread'
           \/ client'.marked
           \/ client.at \notin {"unread", "total"}
<1>0. client \in ClientType
    BY DEF TypeOK, ClientType
<1>1. CASE UNCHANGED notes
    BY <1>1 DEF Unread, Mine
<1>2. ASSUME NEW w \in Workers, NEW o \in Outcomes, InsertNote(w, o)
      PROVE  Unread \subseteq Unread'
    <2> DEFINE row == [user |-> req[w].other, type |-> req[w].type, actor |-> req[w].me,
                       read |-> FALSE]
    <2>1. Statement(w, "note", o, "idle")
        BY <1>2 DEF InsertNote
    <2>2. row \in Note /\ notes \in Seq(Note)
        BY <2>1, StatementTypes DEF Note, TypeOK
    <2>3. notes' = notes \/ notes' = Append(notes, row)
        BY <1>2 DEF InsertNote
    <2> HIDE DEF row
    <2>4. DOMAIN notes \subseteq DOMAIN notes' /\ \A i \in DOMAIN notes : notes'[i] = notes[i]
        <3>1. CASE notes' = notes
            BY <3>1
        <3>2. CASE notes' = Append(notes, row)
            BY <2>2, <3>2
        <3>3. QED
            BY <2>3, <3>1, <3>2
    <2>5. QED
        BY <2>4 DEF Unread, Mine
<1>3. ASSUME NEW me \in Users, MarkNotificationsRead(me)
      PROVE  \/ Unread \subseteq Unread'
             \/ client'.marked
             \/ client.at \notin {"unread", "total"}
    <2>1. CASE me = Reader
        BY <1>0, <1>3, <2>1 DEF MarkNotificationsRead, ClientType
    <2>2. CASE me # Reader
        BY <1>3, <2>2, MarkTypes DEF Unread, Mine
    <2>3. QED
        BY <2>1, <2>2
<1>4. QED
    BY <1>1, <1>2, <1>3
    DEF Write, Follow, GetProfile, Start, InsertFollow, InsertFootprint, Unfollow

LEMMA WritesKeepCount ==
    ASSUME TypeOK, TypeOK', CountInv, Write PROVE CountInv'
<1>1. SameRequest
    BY WritesGrow
<1>2. UnreadCoversPage'
    BY <1>1 DEF SameRequest, CountInv, UnreadCoversPage
<1>3. ASSUME client'.at = "unread", ~client'.marked
      PROVE  client'.unreadRows <= Cardinality(Unread')
    <2>1. Unread \subseteq Unread' /\ client.at = "unread" /\ ~client.marked
        BY <1>1, <1>3, UnreadStays DEF SameRequest
    <2>2. client'.unreadRows <= Cardinality(Unread)
        BY <1>1, <2>1 DEF SameRequest, CountInv, UnreadInv
    <2>3. IsFiniteSet(Unread')
        <3>1. Unread' \subseteq Entries("all")'
            BY DEF Unread, Entries
        <3>2. TypeOK' => FiniteLists'
            BY FiniteEntries, PTL
        <3>3. QED
            BY <3>1, <3>2, FS_Subset DEF FiniteLists
    <2>4. Cardinality(Unread) <= Cardinality(Unread')
        BY <2>1, <2>3, FS_Subset
    <2>5. /\ Cardinality(Unread) \in Nat /\ Cardinality(Unread') \in Nat
          /\ client'.unreadRows \in Nat
        BY <2>3, UnreadFinite, FS_CardinalityType DEF TypeOK
    <2>6. QED
        BY <2>2, <2>4, <2>5
<1>4. QED
    BY <1>1, <1>2, <1>3 DEF CountInv, UnreadInv, SameRequest

LEMMA ReadsKeepCount ==
    ASSUME TypeOK, CountInv, Read PROVE CountInv'
<1> USE DEF CountInv, UnreadInv, UnreadCoversPage
<1>0. client \in ClientType
    BY DEF TypeOK, ClientType
<1>1. Unread' = Unread
    BY DEF Read, Open, ListRows, ListRefused, ListUnread, ListTotal, Unread, Mine
<1>2. ASSUME NEW list \in OpenLists, Open(list)
      PROVE  CountInv'
    BY <1>2 DEF Open, AtRest
<1>3. CASE ListRows
    <2>1. PICK dropped \in SUBSET PageOf(client.list, client.page) :
            client' = [client EXCEPT
                    !.at = IF client.list = "visitors" THEN "total" ELSE "unread",
                    !.got = @ \cup PageOf(client.list, client.page),
                    !.unreadRows = IF client.list = "visitors" THEN 0
                                   ELSE Cardinality({i \in PageOf(client.list, client.page) \ dropped :
                                                        ~notes[i].read}),
                    !.marked = FALSE]
        BY <1>3 DEF ListRows
    <2> DEFINE rows == {i \in PageOf(client.list, client.page) \ dropped : ~notes[i].read}
    <2>2. client.list # "visitors" => rows \subseteq Unread
        BY PageTypes DEF Entries, Unread, Mine
    <2>3. client.list # "visitors" => Cardinality(rows) <= Cardinality(Unread)
        BY <2>2, UnreadFinite, FS_Subset
    <2>4. /\ client'.list = client.list
          /\ client'.at = IF client.list = "visitors" THEN "total" ELSE "unread"
          /\ client.list # "visitors" => client'.unreadRows = Cardinality(rows)
        BY <1>0, <2>1 DEF ClientType
    <2> HIDE DEF rows
    <2>5. QED
        BY <1>1, <2>3, <2>4
<1>4. ASSUME NEW o, ListUnread(o)
      PROVE  CountInv'
    <2>1. /\ client.at = "unread" /\ client'.at = "total" /\ client'.marked = client.marked
          /\ client'.unreadRows = client.unreadRows
          /\ ~client'.uncounted => client'.unread = Cardinality(Unread)
        BY <1>0, <1>4 DEF ListUnread, ClientType, Unread
    <2>2. client.unreadRows \in Nat /\ Cardinality(Unread) \in Nat
        BY <1>0, UnreadFinite DEF ClientType
    <2>3. QED
        BY <2>1, <2>2
<1>5. ASSUME NEW o, ListTotal(o)
      PROVE  CountInv'
    <2>1. client'.at \in {"rows", "rest"}
        BY <1>0, <1>5 DEF ListTotal, AtRest, ClientType
    <2>2. QED
        BY <2>1
<1>6. CASE ListRefused
    BY <1>6 DEF ListRefused, AtRest
<1>7. QED
    BY <1>2, <1>3, <1>4, <1>5, <1>6 DEF Read

(* notification.go:81-94: unread_count is never less than the unread rows of  *)
(* the page it is answered with, whatever the filter and whatever is written  *)
(* between the two SELECTs, unless the user marks them meanwhile or the       *)
(* second one fails.                                                          *)
THEOREM CountCoversPage == Spec => []UnreadCoversPage
<1>1. Init => CountInv
    BY DEF Init, CountInv, UnreadInv, UnreadCoversPage, AtRest
<1>2. CountInv /\ UNCHANGED vars => CountInv'
    BY DEF CountInv, UnreadInv, UnreadCoversPage, Unread, Mine, vars
<1>3. TypeOK /\ TypeOK' /\ CountInv /\ [Next]_vars => CountInv'
    BY <1>2, WritesKeepCount, ReadsKeepCount DEF Next
<1>4. Spec => []CountInv
    BY <1>1, <1>3, TypeCorrect, PTL DEF Spec
<1>5. QED
    BY <1>4, PTL DEF CountInv
=============================================================================
