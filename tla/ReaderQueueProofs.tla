------------------------- MODULE ReaderQueueProofs --------------------------
(***************************************************************************)
(* ReaderQueue for any lane, requests and bounds.                          *)
(***************************************************************************)
EXTENDS ReaderQueue, FiniteSetTheorems, WellFoundedInduction, TLAPS

Adding == {"place", "write", "commit"}

Steps == {"idle", "place", "write", "commit", "near", "first", "second"}
Asking == [at : Steps, whole : BOOLEAN, list : Seq(Items), next : Nat, excluded : Nat,
           here : Entry, near : Entry, up : BOOLEAN]
Cuts == [at : {"idle", "delete", "commit"}, list : Seq(Items), onlyDone : BOOLEAN, gone : SUBSET Items]

\* What a request knows at each step.
Known(q) ==
    /\ q.at \in {"place", "write"} => q.next \in 1 .. Len(q.list)
    /\ q.at = "write" => q.excluded # 0
    /\ q.at = "commit" => q.next = Len(q.list) + 1
    /\ q.at \in {"near", "first", "second"} => q.here # Nobody
    /\ q.at \in {"first", "second"} => q.near # Nobody
    /\ q.whole => q.at \in Adding
    /\ q.at = "commit" => q.whole

\* What a transaction has written: rows of its own list, waiting, held by it alone,
\* and where they were if they were waiting already.
Held(r) ==
    \A i \in Items : Present(tx[r][i]) =>
        /\ req[r].whole
        /\ \E m \in 1 .. Len(req[r].list) : m < req[r].next /\ req[r].list[m] = i
        /\ ~tx[r][i].done
        /\ \A s \in Requests \ {r} : ~Present(tx[s][i])
        /\ Pending(lane[i]) => tx[r][i].position = lane[i].position

\* A batch's entries so far stand in order, before the place it is about to write.
InOrder(r) ==
    req[r].whole =>
        /\ \A m, n \in 1 .. Len(req[r].list) : req[r].list[m] = req[r].list[n] => m = n
        /\ \A m \in 1 .. Len(req[r].list) : m < req[r].next => Present(tx[r][req[r].list[m]])
        /\ req[r].at = "write" => \A m \in 1 .. Len(req[r].list) :
              m < req[r].next => tx[r][req[r].list[m]].position < req[r].excluded
        /\ \A m, n \in 1 .. Len(req[r].list) :
              m < n /\ n < req[r].next /\ ~Pending(lane[req[r].list[m]])
                    /\ ~Pending(lane[req[r].list[n]])
                => tx[r][req[r].list[m]].position < tx[r][req[r].list[n]].position

ReqInv == \A r \in Requests : Known(req[r])
TxInv == \A r \in Requests : Held(r)
OrderInv == \A r \in Requests : InOrder(r)

\* A removal has a next row, and what it deleted is in no batch's hands.
CutInv == \A q \in Removers :
    /\ cut[q].at = "delete" => cut[q].list # <<>>
    /\ \A i \in cut[q].gone : \A s \in Requests : ~Present(tx[s][i])

Inv == TypeOK /\ ReqInv /\ TxInv /\ OrderInv /\ CutInv

\* No two entries ever have one id, shown or about to be, whoever is adding them.
Ids(i) == {lane[i].id} \cup {tx[r][i].id : r \in Requests}
IdInv ==
    /\ \A i \in Items : Ids(i) \subseteq 0 .. issued
    /\ \A i, j \in Items : i # j => Ids(i) \cap Ids(j) \subseteq {0}

\* No two rows of a lane share a place.
Apart(rows) ==
    \A i, j \in Items : i # j /\ Present(rows[i]) /\ Present(rows[j])
        => rows[i].position # rows[j].position

\* What a move has read still says which row has the place, if the row is there.
Marks(rows, e) ==
    \A i \in Items : Present(rows[i]) => (rows[i].id = e.id <=> rows[i].position = e.position)

\* Between a move's two updates both entries stand at the neighbour's place.
Halfway(rows, here, near) ==
    /\ here.position # near.position
    /\ \A i \in Items : Present(rows[i]) =>
          /\ rows[i].position # here.position
          /\ rows[i].id \in {here.id, near.id} <=> rows[i].position = near.position
    /\ \A i, j \in Items :
          i # j /\ Present(rows[i]) /\ Present(rows[j]) /\ rows[i].position = rows[j].position
            => rows[i].position = near.position

\* A request at work alone sees the rows apart, its next place beyond them all.
Working(r) ==
    /\ \A s \in Requests \ {r} : req[s].at = "idle"
    /\ req[r].at \in Adding => Apart(View(r)) /\ Apart(lane)
    /\ req[r].at = "write" => \A i \in Items : View(r)[i].position < req[r].excluded
    /\ req[r].at \in {"near", "first"} => Apart(lane) /\ Marks(lane, req[r].here)
    /\ req[r].at = "first" => Marks(lane, req[r].near) /\ req[r].here.position # req[r].near.position
    /\ req[r].at = "second" => Halfway(lane, req[r].here, req[r].near)

PlaceInv ==
    /\ AtRest => Apart(lane)
    /\ \A r \in Requests : req[r].at # "idle" => Working(r)

Apartness == ~crossed => PlaceInv

-----------------------------------------------------------------------------
(* Rows, and the end of a lane.                                            *)

LEMMA RowFacts ==
    ASSUME NEW row \in Row
    PROVE  /\ row.id \in Nat /\ row.position \in Nat /\ row.done \in BOOLEAN
           /\ Present(row) => row \in [id : Nat \ {0}, position : Nat \ {0}, done : BOOLEAN]
           /\ ~Present(row) => row = Absent
           /\ Present(row) => row.position # 0
<1>1. CASE row = Absent
    BY <1>1 DEF Present, Absent
<1>2. CASE row \in [id : Nat \ {0}, position : Nat \ {0}, done : BOOLEAN]
    BY <1>2 DEF Present
<1> QED BY <1>1, <1>2 DEF Row

LEMMA AbsentIsARow == Absent \in Row /\ ~Present(Absent) /\ Absent.position = 0 /\ Absent.id = 0
BY DEF Row, Present, Absent

\* One of finitely many items stands last: by its number of items, a least
\* collection without a last one would have a smaller such collection.
LEMMA SomeItemIsLast ==
    ASSUME NEW f \in [Items -> Nat], Items # {}
    PROVE  \E i \in Items : \A j \in Items : f[j] <= f[i]
<1> DEFINE Latest(T) == \E i \in T : \A j \in T : f[j] <= f[i]
           Bad == {n \in Nat : \E T \in SUBSET Items : T # {} /\ Cardinality(T) = n /\ ~Latest(T)}
<1>1. \A T \in SUBSET Items : IsFiniteSet(T) /\ Cardinality(T) \in Nat
    BY QueueAssumption, FS_Subset, FS_CardinalityType
<1>2. SUFFICES ASSUME Bad # {} PROVE FALSE
    <2>1. \A T \in SUBSET Items : T # {} => Latest(T)
        BY <1>1, <1>2
    <2> QED BY <2>1
<1>3. PICK n \in Bad : \A k \in Bad : ~ (<<k, n>> \in OpToRel(<, Nat))
    <2>1. Bad \subseteq Nat
        OBVIOUS
    <2> HIDE DEF Bad
    <2> QED BY <1>2, <2>1, NatLessThanWellFounded, WFMin, Zenon
<1>4. \A k \in Bad : ~ (k < n)
    BY <1>3, Zenon DEF OpToRel
<1>5. PICK T \in SUBSET Items : T # {} /\ Cardinality(T) = n /\ ~Latest(T)
    OBVIOUS
<1>6. PICK i \in T : TRUE
    BY <1>5
<1>7. Cardinality(T \ {i}) = n - 1 /\ T \ {i} \in SUBSET Items
    BY <1>1, <1>5, FS_RemoveElement
<1>8. n - 1 < n /\ n - 1 \in Nat
    BY <1>1, <1>7
<1>9. n - 1 \notin Bad
    BY <1>4, <1>8
<1>10. T \ {i} = {} \/ Latest(T \ {i})
    BY <1>7, <1>8, <1>9
<1>11. Latest(T)
    <2>1. CASE T \ {i} = {}
        <3>1. \A j \in T : j = i
            BY <2>1
        <3>2. f[i] <= f[i]
            OBVIOUS
        <3> QED BY <3>1, <3>2
    <2>2. CASE Latest(T \ {i})
        <3>1. PICK k \in T \ {i} : \A j \in T \ {i} : f[j] <= f[k]
            BY <2>2
        <3>2. f[i] \in Nat /\ f[k] \in Nat /\ \A j \in T : f[j] \in Nat
            OBVIOUS
        <3>3. CASE f[i] <= f[k]
            <4>1. \A j \in T : f[j] <= f[k]
                BY <3>1, <3>3
            <4> QED BY <4>1
        <3>4. CASE ~(f[i] <= f[k])
            <4>1. \A j \in T : f[j] <= f[i]
                BY <3>1, <3>2, <3>4
            <4> QED BY <4>1
        <3> QED BY <3>3, <3>4
    <2> QED BY <1>10, <2>1, <2>2
<1> QED BY <1>5, <1>11

\* The next place is beyond every row there is.
LEMMA NextIsBeyond ==
    ASSUME NEW rows \in [Items -> Row]
    PROVE  /\ NextPosition(rows) \in Nat \ {0}
           /\ \A i \in Items : rows[i].position < NextPosition(rows)
<1> DEFINE places == {0} \cup {rows[i].position : i \in Items}
           f == [i \in Items |-> rows[i].position]
<1>1. \A i \in Items : rows[i].position \in Nat
    BY RowFacts
<1>2. f \in [Items -> Nat]
    BY <1>1
<1>3. \E x \in places : \A y \in places : x >= y
    <2>1. CASE Items = {}
        BY <2>1
    <2>2. CASE Items # {}
        <3> HIDE DEF f
        <3>1. PICK i \in Items : \A j \in Items : f[j] <= f[i]
            BY <1>2, <2>2, SomeItemIsLast
        <3>2. \A j \in Items : rows[j].position <= rows[i].position
            BY <3>1 DEF f
        <3>3. \A y \in places : rows[i].position >= y
            BY <1>1, <3>2
        <3> QED BY <3>3
    <2> QED BY <2>1, <2>2
<1>4. Max(places) \in places /\ \A y \in places : Max(places) >= y
    <2> HIDE DEF places
    <2> QED BY <1>3 DEF Max
<1>5. places \subseteq Nat
    BY <1>1
<1>6. NextPosition(rows) = Max(places) + 1
    BY DEF NextPosition
<1>7. \A i \in Items : rows[i].position \in places
    OBVIOUS
<1> DEFINE top == Max(places)
<1>8. top \in Nat /\ \A i \in Items : top >= rows[i].position
    <2> HIDE DEF places
    <2> QED BY <1>4, <1>5, <1>7
<1> HIDE DEF top
<1>9. \A i \in Items : rows[i].position < top + 1
    BY <1>1, <1>8
<1>10. top + 1 \in Nat \ {0}
    BY <1>8
<1> QED BY <1>6, <1>9, <1>10 DEF top

\* What a write leaves: a row that waits, with the id and the place it had
\* if it waited already, and otherwise at the place that was found for it.
LEMMA UpsertedFacts ==
    ASSUME NEW row \in Row, NEW e \in Nat \ {0}, issued \in Nat
    PROVE  /\ Upserted(row, e) \in Row
           /\ Present(Upserted(row, e)) /\ ~Upserted(row, e).done
           /\ Pending(row) => Upserted(row, e) = row
           /\ ~Pending(row) => Upserted(row, e).position = e
           /\ Present(row) => Upserted(row, e).id = row.id
           /\ ~Present(row) => Upserted(row, e).id = issued + 1
<1>1. CASE ~Present(row)
    <2>1. Upserted(row, e) = [id |-> issued + 1, position |-> e, done |-> FALSE]
        BY <1>1 DEF Upserted
    <2> QED BY <1>1, <2>1 DEF Row, Present, Pending
<1>2. CASE Present(row) /\ row.done
    <2>1. Upserted(row, e) = [row EXCEPT !.position = e, !.done = FALSE]
        BY <1>2 DEF Upserted
    <2>2. row \in [id : Nat \ {0}, position : Nat \ {0}, done : BOOLEAN]
        BY <1>2, RowFacts
    <2> HIDE DEF Upserted
    <2> QED BY <1>2, <2>1, <2>2 DEF Row, Present, Pending
<1>3. CASE Present(row) /\ ~row.done
    BY <1>3 DEF Upserted, Pending
<1> QED BY <1>1, <1>2, <1>3

LEMMA ViewIsALane ==
    ASSUME TypeOK, NEW r \in Requests
    PROVE  View(r) \in [Items -> Row]
BY DEF View, TypeOK

-----------------------------------------------------------------------------
(* The range of the variables. *)

LEMMA Types ==
    TypeOK <=>
        /\ lane \in [Items -> Row]
        /\ tx \in [Requests -> [Items -> Row]]
        /\ req \in [Requests -> Asking]
        /\ cut \in [Removers -> Cuts]
        /\ issued \in Nat
        /\ asked \in Nat /\ changes \in Nat /\ mishaps \in Nat
        /\ crossed \in BOOLEAN
BY DEF TypeOK, Asking, Steps, Cuts

LEMMA NotCutIsTyped == NotCut \in Cuts /\ NotCut.at = "idle" /\ NotCut.gone = {}
BY DEF NotCut, Cuts

LEMMA IdleIsAsking == Idle \in Asking /\ Known(Idle) /\ ~Idle.whole /\ Idle.at = "idle"
BY DEF Idle, Asking, Steps, Nobody, Entry, Known

LEMMA NoWritesIsTyped == NoWrites \in [Items -> Row] /\ \A i \in Items : ~Present(NoWrites[i])
BY AbsentIsARow DEF NoWrites

LEMMA InitTypes ==
    ASSUME Init
    PROVE  TypeOK
<1>1. lane \in [Items -> Row]
    BY QueueAssumption DEF Init
<1>2. issued \in Nat
    <2> DEFINE ids == {0} \cup {lane[i].id : i \in Items}
               f == [i \in Items |-> lane[i].id]
    <2>1. f \in [Items -> Nat]
        BY <1>1, RowFacts
    <2>2. \E x \in ids : \A y \in ids : x >= y
        <3>1. CASE Items = {}
            BY <3>1
        <3>2. CASE Items # {}
            <4> HIDE DEF f
            <4>1. PICK i \in Items : \A j \in Items : f[j] <= f[i]
                BY <2>1, <3>2, SomeItemIsLast
            <4>2. \A j \in Items : lane[j].id \in Nat /\ lane[j].id <= lane[i].id
                BY <1>1, <4>1, RowFacts DEF f
            <4>3. \A y \in ids : lane[i].id >= y
                BY <4>2
            <4> QED BY <4>3
        <3> QED BY <3>1, <3>2
    <2>3. ids \subseteq Nat
        BY <1>1, RowFacts
    <2>4. issued = Max(ids)
        BY DEF Init
    <2> HIDE DEF ids
    <2>5. Max(ids) \in ids
        BY <2>2 DEF Max
    <2> QED BY <2>3, <2>4, <2>5
<1>3. tx \in [Requests -> [Items -> Row]] /\ req \in [Requests -> Asking] /\ cut \in [Removers -> Cuts]
    BY NoWritesIsTyped, IdleIsAsking, NotCutIsTyped DEF Init
<1> QED BY <1>1, <1>2, <1>3, Types DEF Init

LEMMA StartTypes ==
    ASSUME TypeOK, NEW r \in Requests, Starts(r), NEW q \in Asking, req' = [req EXCEPT ![r] = q]
    PROVE  TypeOK'
BY Types, QueueAssumption DEF Starts, TypeOK, Asking, Steps, Cuts

LEMMA AddTypes ==
    ASSUME TypeOK, NEW r \in Requests, NEW list \in Seq(Items), NEW whole \in BOOLEAN
    PROVE  [Idle EXCEPT !.at = "place", !.whole = whole, !.list = list] \in Asking
BY DEF Idle, Asking, Steps, Nobody, Entry

LEMMA MoveTypes ==
    ASSUME NEW e \in Entry, NEW side \in BOOLEAN
    PROVE  [Idle EXCEPT !.at = "near", !.up = side, !.here = e] \in Asking
<1>1. Idle \in Asking
    BY IdleIsAsking
<1> HIDE DEF Idle
<1> QED BY <1>1 DEF Asking, Steps

LEMMA PlaceTypes ==
    ASSUME TypeOK, NEW r \in Requests, Place(r)
    PROVE  TypeOK'
<1>1. NextPosition(View(r)) \in Nat
    BY ViewIsALane, NextIsBeyond
<1> DEFINE q == [req[r] EXCEPT !.at = "write", !.excluded = NextPosition(View(r))]
<1>2. req' = [req EXCEPT ![r] = q]
    BY Types DEF Place
<1>3. req[r] \in Asking
    BY Types
<1>4. q \in Asking
    BY <1>1, <1>3 DEF Asking, Steps
<1> HIDE DEF q
<1>5. req' \in [Requests -> Asking]
    BY <1>2, <1>4, Types
<1> QED BY <1>5, Types DEF Place, TypeOK, Asking, Steps, Cuts

LEMMA WriteTypes ==
    ASSUME TypeOK, ReqInv, NEW r \in Requests, Write(r)
    PROVE  TypeOK'
<1> DEFINE i == req[r].list[req[r].next]
           row == Upserted(View(r)[i], req[r].excluded)
<1>1. req \in [Requests -> Asking]
    BY Types
<1>2. i \in Items /\ req[r].excluded \in Nat \ {0}
    BY <1>1 DEF ReqInv, Known, Write, Asking
<1>3. row \in Row /\ row.id \in Nat
    BY <1>2, ViewIsALane, UpsertedFacts, RowFacts, Types
<1>4. /\ issued' = IF row.id > issued THEN row.id ELSE issued
      /\ tx' = (IF req[r].whole THEN [tx EXCEPT ![r][i] = row] ELSE tx)
      /\ lane' = (IF req[r].whole THEN lane ELSE [lane EXCEPT ![i] = row])
      /\ req' = (IF req[r].whole
                 THEN [req EXCEPT ![r].at = IF req[r].next = Len(req[r].list) THEN "commit" ELSE "place",
                                  ![r].next = @ + 1, ![r].excluded = 0]
                 ELSE [req EXCEPT ![r] = Idle])
      /\ UNCHANGED <<cut, asked, changes, mishaps, crossed>>
    BY DEF Write
<1> HIDE DEF row, i
<1>5. req' \in [Requests -> Asking]
    <2>1. CASE req[r].whole
        BY <1>1, <1>4, <2>1 DEF Asking, Steps
    <2>2. CASE ~req[r].whole
        BY <1>1, <1>4, <2>2, IdleIsAsking
    <2> QED BY <2>1, <2>2
<1>6. issued' \in Nat
    BY <1>3, <1>4, Types
<1>7. tx' \in [Requests -> [Items -> Row]] /\ lane' \in [Items -> Row]
    BY <1>2, <1>3, <1>4, Types
<1> QED BY <1>4, <1>5, <1>6, <1>7, Types DEF TypeOK, Asking, Steps, Cuts

LEMMA CommitTypes ==
    ASSUME TypeOK, NEW r \in Requests, Commit(r)
    PROVE  TypeOK'
<1>1. /\ lane' \in [Items -> Row]
      /\ tx' \in [Requests -> [Items -> Row]]
      /\ req' \in [Requests -> Asking]
    BY Types, ViewIsALane, IdleIsAsking, NoWritesIsTyped DEF Commit
<1> QED BY <1>1, Types DEF Commit, TypeOK, Asking, Steps, Cuts

LEMMA RollbackTypes ==
    ASSUME TypeOK, NEW r \in Requests, Rollback(r), mishaps' \in Nat
    PROVE  TypeOK'
<1>1. /\ tx' \in [Requests -> [Items -> Row]]
      /\ req' \in [Requests -> Asking]
    BY Types, IdleIsAsking, NoWritesIsTyped DEF Rollback
<1> QED BY <1>1, Types DEF Rollback, TypeOK, Asking, Steps, Cuts

LEMMA EntryOfARow ==
    ASSUME NEW row \in Row, Present(row)
    PROVE  [id |-> row.id, position |-> row.position] \in Entry \ {Nobody}
BY RowFacts DEF Entry, Nobody, Present

LEMMA NearTypes ==
    ASSUME TypeOK, NEW r \in Requests, Near(r)
    PROVE  TypeOK'
<1>1. \A i \in Nearest(r) : i \in Items /\ [id |-> lane[i].id, position |-> lane[i].position] \in Entry
    BY EntryOfARow, Types DEF Nearest, Beyond, Pending
<1>2. CASE req' = [req EXCEPT ![r] = Idle]
    BY <1>2, Types, IdleIsAsking DEF Near, TypeOK, Asking, Steps, Cuts
<1>3. ASSUME NEW i \in Nearest(r),
             req' = [req EXCEPT ![r].at = "first",
                                ![r].near = [id |-> lane[i].id, position |-> lane[i].position]]
      PROVE  TypeOK'
    <2> DEFINE e == [id |-> lane[i].id, position |-> lane[i].position]
    <2>1. e \in Entry
        BY <1>1
    <2> HIDE DEF e
    <2> DEFINE q == [req[r] EXCEPT !.at = "first", !.near = e]
    <2>2. req' = [req EXCEPT ![r] = q]
        BY <1>3, Types DEF e
    <2>3. req[r] \in Asking
        BY Types
    <2>4. q \in Asking
        BY <2>1, <2>3 DEF Asking, Steps
    <2> HIDE DEF q
    <2>5. req' \in [Requests -> Asking]
        BY <2>2, <2>4, Types
    <2> QED BY <2>5, Types DEF Near, TypeOK, Asking, Steps, Cuts
<1> QED BY <1>2, <1>3 DEF Near

LEMMA SetPositionTypes ==
    ASSUME TypeOK, NEW id \in Nat \ {0}, NEW position \in Nat \ {0}, SetPosition(id, position)
    PROVE  lane' \in [Items -> Row]
<1>1. \A i \in Items : lane[i] \in Row
    BY Types
<1>2. \A i \in Items : lane[i].id = id => [lane[i] EXCEPT !.position = position] \in Row
    BY <1>1, RowFacts DEF Row, Present
<1> QED BY <1>1, <1>2 DEF SetPosition

LEMMA EntryFacts ==
    ASSUME NEW e \in Entry, e # Nobody
    PROVE  e.id \in Nat \ {0} /\ e.position \in Nat \ {0}
BY DEF Entry

LEMMA FirstTypes ==
    ASSUME TypeOK, ReqInv, NEW r \in Requests, First(r)
    PROVE  TypeOK'
<1>1. req[r].here \in Entry \ {Nobody} /\ req[r].near \in Entry \ {Nobody}
    BY Types DEF ReqInv, Known, First, Asking
<1>2. lane' \in [Items -> Row]
    BY <1>1, EntryFacts, SetPositionTypes DEF First
<1>3. req' \in [Requests -> Asking]
    BY Types DEF First, Asking, Steps
<1> QED BY <1>2, <1>3, Types DEF First, TypeOK, Asking, Steps, Cuts

LEMMA SecondTypes ==
    ASSUME TypeOK, ReqInv, NEW r \in Requests, Second(r)
    PROVE  TypeOK'
<1>1. req[r].here \in Entry \ {Nobody} /\ req[r].near \in Entry \ {Nobody}
    BY Types DEF ReqInv, Known, Second, Asking
<1>2. lane' \in [Items -> Row]
    BY <1>1, EntryFacts, SetPositionTypes DEF Second
<1>3. req' \in [Requests -> Asking]
    BY Types, IdleIsAsking DEF Second
<1> QED BY <1>2, <1>3, Types DEF Second, TypeOK, Asking, Steps, Cuts

LEMMA ChangeTypes ==
    ASSUME TypeOK, Changes, lane' \in [Items -> Row], cut' \in [Removers -> Cuts]
    PROVE  TypeOK'
BY Types, QueueAssumption DEF Changes, TypeOK, Asking, Steps, Cuts

LEMMA RemoveEntryTypes ==
    ASSUME TypeOK, NEW i \in Items, RemoveEntry(i)
    PROVE  TypeOK'
<1>1. lane' \in [Items -> Row] /\ cut' \in [Removers -> Cuts]
    BY Types, AbsentIsARow DEF RemoveEntry
<1> QED BY <1>1, ChangeTypes DEF RemoveEntry

\* A step of a removal that changes only its own account, or the lane with it.
LEMMA CutTypes ==
    ASSUME TypeOK, NEW q \in Removers, NEW c \in Cuts, cut' = [cut EXCEPT ![q] = c],
           lane' \in [Items -> Row], mishaps' \in Nat, changes' \in Nat,
           UNCHANGED <<tx, req, issued, asked, crossed>>
    PROVE  TypeOK'
<1>1. cut' \in [Removers -> Cuts]
    BY Types
<1> QED BY <1>1, Types DEF TypeOK, Asking, Steps, Cuts

LEMMA SetDoneTypes ==
    ASSUME TypeOK, NEW i \in Items, NEW done \in BOOLEAN, SetDone(i, done)
    PROVE  TypeOK'
<1>1. lane[i] \in [id : Nat \ {0}, position : Nat \ {0}, done : BOOLEAN]
    BY Types, RowFacts DEF SetDone
<1>2. [lane[i] EXCEPT !.done = done] \in Row
    BY <1>1 DEF Row
<1>3. lane' \in [Items -> Row] /\ cut' \in [Removers -> Cuts]
    BY <1>2, Types DEF SetDone
<1> QED BY <1>3, ChangeTypes DEF SetDone

-----------------------------------------------------------------------------
(* What a batch has written is its own until it ends. *)

LEMMA Locked ==
    ASSUME NEW i \in Items
    PROVE  /\ Unlocked(i) => \A s \in Requests : ~Present(tx[s][i])
           /\ \A r \in Requests : Free(r, i) =>
                 /\ \A s \in Requests \ {r} : ~Present(tx[s][i])
                 /\ \A q \in Removers : i \notin cut[q].gone
           /\ \A q \in Removers : Free(q, i) => \A s \in Requests : ~Present(tx[s][i])
<1>1. \A t \in Requests : t \in Transactions /\ (Holds(t, i) <=> Present(tx[t][i]))
    BY DEF Transactions, Holds
<1>2. \A q \in Removers : q \in Transactions /\ q \notin Requests /\ (Holds(q, i) <=> i \in cut[q].gone)
    BY QueueAssumption DEF Transactions, Holds
<1> QED BY <1>1, <1>2 DEF Free, Unlocked

\* Nothing that is new in a batch's hands, and no removal that went on.
LEMMA CutKept ==
    ASSUME CutInv, cut' = cut,
           \A s \in Requests, i \in Items : Present(tx'[s][i]) => Present(tx[s][i]),
           TypeOK
    PROVE  CutInv'
<1>1. \A q \in Removers : cut[q].gone \subseteq Items
    BY Types DEF Cuts
<1> QED BY <1>1 DEF CutInv

\* Whatever the others do to rows a batch does not hold, its own account stands.
LEMMA Undisturbed ==
    ASSUME TypeOK, NEW s \in Requests, Held(s), InOrder(s),
           req'[s] = req[s], tx'[s] = tx[s],
           \A i \in Items : Present(tx[s][i]) =>
              lane'[i] = lane[i] /\ \A t \in Requests \ {s} : ~Present(tx'[t][i])
    PROVE  Held(s)' /\ InOrder(s)'
<1>1. Held(s)'
    BY DEF Held, Pending
<1>2. CASE req[s].whole
    <2>1. \A m \in 1 .. Len(req[s].list) : req[s].list[m] \in Items
        BY Types DEF Asking
    <2>2. \A m \in 1 .. Len(req[s].list) : m < req[s].next =>
             Present(tx[s][req[s].list[m]]) /\ lane'[req[s].list[m]] = lane[req[s].list[m]]
        BY <1>2, <2>1 DEF InOrder
    <2>3. \A m, n \in 1 .. Len(req[s].list) : req[s].list[m] = req[s].list[n] => m = n
        BY <1>2 DEF InOrder
    <2>4. req[s].at = "write" => \A m \in 1 .. Len(req[s].list) :
             m < req[s].next => tx[s][req[s].list[m]].position < req[s].excluded
        BY <1>2 DEF InOrder
    <2>5. \A m, n \in 1 .. Len(req[s].list) :
             m < n /\ n < req[s].next /\ ~Pending(lane[req[s].list[m]])
                   /\ ~Pending(lane[req[s].list[n]])
               => tx[s][req[s].list[m]].position < tx[s][req[s].list[n]].position
        BY <1>2 DEF InOrder
    <2>6. req[s].next \in Nat /\ Len(req[s].list) \in Nat
        BY Types DEF Asking
    <2>7. ASSUME NEW m \in 1 .. Len(req[s].list), NEW n \in 1 .. Len(req[s].list),
                 m < n, n < req[s].next,
                 ~Pending(lane'[req[s].list[m]]), ~Pending(lane'[req[s].list[n]])
          PROVE  tx[s][req[s].list[m]].position < tx[s][req[s].list[n]].position
        <3>1. m < req[s].next
            BY <2>6, <2>7
        <3>2. lane'[req[s].list[m]] = lane[req[s].list[m]] /\ lane'[req[s].list[n]] = lane[req[s].list[n]]
            BY <2>2, <2>7, <3>1
        <3> QED BY <2>5, <2>7, <3>2
    <2> DEFINE list == req[s].list
               next == req[s].next
               mine == tx[s]
    <2>8. req'[s].list = list /\ req'[s].next = next /\ req'[s].at = req[s].at
             /\ req'[s].excluded = req[s].excluded /\ tx'[s] = mine
        OBVIOUS
    <2>9. /\ \A m, n \in 1 .. Len(list) : list[m] = list[n] => m = n
          /\ \A m \in 1 .. Len(list) : m < next => Present(mine[list[m]])
          /\ req[s].at = "write" => \A m \in 1 .. Len(list) :
                m < next => mine[list[m]].position < req[s].excluded
          /\ \A m, n \in 1 .. Len(list) :
                m < n /\ n < next /\ ~Pending(lane'[list[m]]) /\ ~Pending(lane'[list[n]])
                  => mine[list[m]].position < mine[list[n]].position
        BY <2>2, <2>3, <2>4, <2>7
    <2> HIDE DEF list, next, mine
    <2> QED BY <1>1, <2>8, <2>9, Zenon DEF InOrder
<1>3. CASE ~req[s].whole
    <2>1. ~req'[s].whole
        BY <1>3
    <2> QED BY <1>1, <2>1, Zenon DEF InOrder
<1> QED BY <1>1, <1>2, <1>3

LEMMA AloneHoldsNothing ==
    ASSUME TxInv, NEW r \in Requests, ~req[r].whole
    PROVE  \A i \in Items : ~Present(tx[r][i])
BY DEF TxInv, Held

\* A step after which its request holds nothing.
LEMMA EmptyHandedStep ==
    ASSUME Inv, NEW r \in Requests, Known(req'[r]), ~req'[r].whole, cut' = cut,
           \A i \in Items : ~Present(tx'[r][i]),
           \A s \in Requests \ {r} :
              /\ req'[s] = req[s] /\ tx'[s] = tx[s]
              /\ \A i \in Items : Present(tx[s][i]) => lane'[i] = lane[i]
    PROVE  ReqInv' /\ TxInv' /\ OrderInv' /\ CutInv'
<1>1. ReqInv'
    BY DEF Inv, ReqInv
<1>2. Held(r)' /\ InOrder(r)'
    BY DEF Held, InOrder
<1>3. ASSUME NEW s \in Requests \ {r}
      PROVE  Held(s)' /\ InOrder(s)'
    <2>1. Held(s) /\ InOrder(s)
        BY DEF Inv, TxInv, OrderInv
    <2>2. \A i \in Items : Present(tx[s][i]) => \A t \in Requests \ {s} : ~Present(tx'[t][i])
        BY <2>1 DEF Held
    <2> QED BY <2>1, <2>2, Undisturbed DEF Inv
<1>4. CutInv'
    BY CutKept DEF Inv
<1> QED BY <1>1, <1>2, <1>3, <1>4 DEF TxInv, OrderInv

LEMMA BesideStep ==
    ASSUME Inv, req' = req, tx' = tx,
           \A i \in Items : (\E s \in Requests : Present(tx[s][i])) => lane'[i] = lane[i]
    PROVE  ReqInv' /\ TxInv' /\ OrderInv'
<1>1. ASSUME NEW s \in Requests
      PROVE  Held(s)' /\ InOrder(s)'
    <2>1. Held(s) /\ InOrder(s)
        BY DEF Inv, TxInv, OrderInv
    <2>2. \A i \in Items : Present(tx[s][i]) =>
             lane'[i] = lane[i] /\ \A t \in Requests \ {s} : ~Present(tx'[t][i])
        BY <2>1 DEF Held
    <2> QED BY <2>1, <2>2, Undisturbed DEF Inv
<1>2. ReqInv'
    BY DEF Inv, ReqInv
<1> QED BY <1>1, <1>2 DEF TxInv, OrderInv

-----------------------------------------------------------------------------
(* Every step keeps the invariant. *)

LEMMA InitInv ==
    ASSUME Init
    PROVE  Inv
<1>1. TypeOK
    BY InitTypes
<1>2. \A r \in Requests : req[r] = Idle /\ tx[r] = NoWrites
    BY DEF Init
<1>3. ReqInv
    BY <1>2, IdleIsAsking DEF ReqInv
<1>4. TxInv
    BY <1>2, NoWritesIsTyped DEF TxInv, Held
<1>5. OrderInv
    BY <1>2, IdleIsAsking DEF OrderInv, InOrder
<1>6. CutInv
    BY NotCutIsTyped DEF CutInv, Init
<1> QED BY <1>1, <1>3, <1>4, <1>5, <1>6 DEF Inv

LEMMA AddInv ==
    ASSUME Inv, NEW r \in Requests, NEW i \in Items, Add(r, i)
    PROVE  Inv'
<1> DEFINE q == [Idle EXCEPT !.at = "place", !.list = <<i>>]
<1>1. q \in Asking /\ Known(q) /\ ~q.whole
    <2>1. <<i>> \in Seq(Items) /\ Len(<<i>>) = 1
        OBVIOUS
    <2> DEFINE list == <<i>>
    <2> HIDE DEF list
    <2>2. [Idle EXCEPT !.at = "place", !.list = list] \in Asking
        BY <2>1 DEF Idle, Asking, Steps, Nobody, Entry, list
    <2>3. Known([Idle EXCEPT !.at = "place", !.list = list])
        BY <2>1 DEF Idle, Known, Adding, list
    <2> QED BY <2>2, <2>3 DEF Idle, list
<1>2. req' = [req EXCEPT ![r] = q] /\ Starts(r)
    BY DEF Add
<1> HIDE DEF q
<1>3. TypeOK'
    BY <1>1, <1>2, StartTypes DEF Inv
<1>4. req[r].at = "idle" /\ tx' = tx /\ lane' = lane /\ cut' = cut
    BY <1>2 DEF Starts
<1>5. ~req[r].whole
    BY <1>4 DEF Inv, ReqInv, Known, Adding
<1>6. \A k \in Items : ~Present(tx[r][k])
    BY <1>5, AloneHoldsNothing DEF Inv
<1>7. req'[r] = q /\ \A s \in Requests \ {r} : req'[s] = req[s]
    BY <1>2, Types DEF Inv
<1> QED BY <1>1, <1>3, <1>4, <1>6, <1>7, EmptyHandedStep DEF Inv

LEMMA AddManyInv ==
    ASSUME Inv, NEW r \in Requests, NEW list \in RunningOrders, AddMany(r, list)
    PROVE  Inv'
<1> DEFINE q == [Idle EXCEPT !.at = "place", !.whole = TRUE, !.list = list]
<1>1. /\ list \in Seq(Items) /\ 1 \in 1 .. Len(list)
      /\ \A m, n \in 1 .. Len(list) : list[m] = list[n] => m = n
    BY QueueAssumption
<1>2. q \in Asking /\ Known(q) /\ q.whole /\ q.list = list /\ q.next = 1 /\ q.at = "place"
    <2>1. q \in Asking
        BY <1>1 DEF Idle, Asking, Steps, Nobody, Entry
    <2>2. q.whole /\ q.list = list /\ q.next = 1 /\ q.at = "place"
        BY DEF Idle
    <2> HIDE DEF q
    <2> QED BY <1>1, <2>1, <2>2 DEF Known, Adding
<1>3. req' = [req EXCEPT ![r] = q] /\ Starts(r)
    BY DEF AddMany
<1> HIDE DEF q
<1>4. TypeOK'
    BY <1>2, <1>3, StartTypes DEF Inv
<1>5. req[r].at = "idle" /\ tx' = tx /\ lane' = lane /\ cut' = cut
    BY <1>3 DEF Starts
<1>6. ~req[r].whole
    BY <1>5 DEF Inv, ReqInv, Known, Adding
<1>7. \A k \in Items : ~Present(tx[r][k])
    BY <1>6, AloneHoldsNothing DEF Inv
<1>8. req'[r] = q /\ \A s \in Requests \ {r} : req'[s] = req[s]
    BY <1>3, Types DEF Inv
<1>9. ReqInv'
    BY <1>2, <1>8 DEF Inv, ReqInv
<1>10. Held(r)'
    BY <1>5, <1>7 DEF Held
<1>11. InOrder(r)'
    <2>1. \A m \in 1 .. Len(list) : ~(m < 1)
        BY <1>1
    <2> QED BY <1>1, <1>2, <1>8, <2>1 DEF InOrder
<1>12. ASSUME NEW s \in Requests \ {r}
       PROVE  Held(s)' /\ InOrder(s)'
    <2>1. Held(s) /\ InOrder(s)
        BY DEF Inv, TxInv, OrderInv
    <2>2. \A i \in Items : Present(tx[s][i]) => \A t \in Requests \ {s} : ~Present(tx'[t][i])
        BY <1>5, <2>1 DEF Held
    <2> QED BY <1>5, <1>8, <2>1, <2>2, Undisturbed DEF Inv
<1>13. CutInv'
    BY <1>5, CutKept DEF Inv
<1> QED BY <1>4, <1>9, <1>10, <1>11, <1>12, <1>13 DEF Inv, TxInv, OrderInv

LEMMA PlaceKeepsInv ==
    ASSUME Inv, NEW r \in Requests, Place(r)
    PROVE  Inv'
<1> DEFINE e == NextPosition(View(r))
           q == [req[r] EXCEPT !.at = "write", !.excluded = e]
<1>1. TypeOK'
    BY PlaceTypes DEF Inv
<1>2. e \in Nat \ {0} /\ \A i \in Items : View(r)[i].position < e
    BY ViewIsALane, NextIsBeyond DEF Inv
<1>3. req' = [req EXCEPT ![r] = q] /\ tx' = tx /\ lane' = lane /\ req[r].at = "place"
    BY Types DEF Inv, Place
<1> HIDE DEF e
<1>4. /\ q.at = "write" /\ q.whole = req[r].whole /\ q.list = req[r].list
      /\ q.next = req[r].next /\ q.excluded = e
    BY Types DEF Inv, Asking
<1>5. Known(q)
    BY <1>2, <1>3, <1>4 DEF Inv, ReqInv, Known, Adding
<1> HIDE DEF q
<1>6. req'[r] = q /\ \A s \in Requests \ {r} : req'[s] = req[s]
    BY <1>3, Types DEF Inv
<1>7. ReqInv'
    BY <1>5, <1>6 DEF Inv, ReqInv
<1>8. Held(r)'
    BY <1>3, <1>4, <1>6 DEF Inv, TxInv, Held
<1>9. InOrder(r)'
    <2>1. CASE req[r].whole
        <3>1. \A m \in 1 .. Len(req[r].list) : m < req[r].next => tx[r][req[r].list[m]].position < e
            <4> SUFFICES ASSUME NEW m \in 1 .. Len(req[r].list), m < req[r].next
                         PROVE  tx[r][req[r].list[m]].position < e
                OBVIOUS
            <4>1. req[r].list[m] \in Items
                BY Types DEF Inv, Asking
            <4>2. Present(tx[r][req[r].list[m]])
                BY <2>1 DEF Inv, OrderInv, InOrder
            <4> QED BY <1>2, <4>1, <4>2 DEF View
        <3>2. InOrder(r)
            BY DEF Inv, OrderInv
        <3> QED BY <1>3, <1>4, <1>6, <2>1, <3>1, <3>2 DEF InOrder
    <2>2. CASE ~req[r].whole
        BY <1>4, <1>6, <2>2 DEF InOrder
    <2> QED BY <2>1, <2>2
<1>10. ASSUME NEW s \in Requests \ {r}
       PROVE  Held(s)' /\ InOrder(s)'
    <2>1. Held(s) /\ InOrder(s)
        BY DEF Inv, TxInv, OrderInv
    <2>2. \A i \in Items : Present(tx[s][i]) => \A t \in Requests \ {s} : ~Present(tx'[t][i])
        BY <1>3, <2>1 DEF Held
    <2> QED BY <1>3, <1>6, <2>1, <2>2, Undisturbed DEF Inv
<1>11. CutInv'
    BY <1>3, CutKept DEF Inv, Place
<1> QED BY <1>1, <1>7, <1>8, <1>9, <1>10, <1>11 DEF Inv, TxInv, OrderInv

\* What a write is of, and what it leaves.
Target(r) == req[r].list[req[r].next]
Made(r) == Upserted(View(r)[Target(r)], req[r].excluded)

LEMMA WriteFacts ==
    ASSUME Inv, NEW r \in Requests, Write(r)
    PROVE  /\ Target(r) \in Items /\ Made(r) \in Row
           /\ req[r].next \in 1 .. Len(req[r].list)
           /\ req[r].excluded \in Nat \ {0}
           /\ Free(r, Target(r))
           /\ Present(Made(r)) /\ ~Made(r).done
           /\ Pending(View(r)[Target(r)]) => Made(r) = View(r)[Target(r)]
           /\ ~Pending(View(r)[Target(r)]) => Made(r).position = req[r].excluded
           /\ Present(View(r)[Target(r)]) => Made(r).id = View(r)[Target(r)].id
           /\ ~Present(View(r)[Target(r)]) => Made(r).id = issued + 1
           /\ issued' = IF Made(r).id > issued THEN Made(r).id ELSE issued
           /\ req[r].whole =>
                /\ tx' = [tx EXCEPT ![r][Target(r)] = Made(r)]
                /\ req' = [req EXCEPT ![r].at = IF req[r].next = Len(req[r].list) THEN "commit"
                                                ELSE "place",
                                      ![r].next = @ + 1, ![r].excluded = 0]
                /\ lane' = lane
           /\ ~req[r].whole =>
                /\ lane' = [lane EXCEPT ![Target(r)] = Made(r)]
                /\ req' = [req EXCEPT ![r] = Idle]
                /\ tx' = tx
<1>1. req[r].next \in 1 .. Len(req[r].list) /\ req[r].excluded \in Nat \ {0} /\ Target(r) \in Items
    BY Types DEF Inv, ReqInv, Known, Write, Asking, Target
<1>2. View(r)[Target(r)] \in Row /\ issued \in Nat
    BY <1>1, ViewIsALane, Types DEF Inv
<1>3. /\ Made(r) \in Row /\ Present(Made(r)) /\ ~Made(r).done
      /\ Pending(View(r)[Target(r)]) => Made(r) = View(r)[Target(r)]
      /\ ~Pending(View(r)[Target(r)]) => Made(r).position = req[r].excluded
      /\ Present(View(r)[Target(r)]) => Made(r).id = View(r)[Target(r)].id
      /\ ~Present(View(r)[Target(r)]) => Made(r).id = issued + 1
    BY <1>1, <1>2, UpsertedFacts DEF Made
<1>4. /\ Free(r, Target(r))
      /\ issued' = IF Made(r).id > issued THEN Made(r).id ELSE issued
      /\ req[r].whole =>
           /\ tx' = [tx EXCEPT ![r][Target(r)] = Made(r)]
           /\ req' = [req EXCEPT ![r].at = IF req[r].next = Len(req[r].list) THEN "commit"
                                           ELSE "place",
                                 ![r].next = @ + 1, ![r].excluded = 0]
           /\ lane' = lane
      /\ ~req[r].whole =>
           /\ lane' = [lane EXCEPT ![Target(r)] = Made(r)]
           /\ req' = [req EXCEPT ![r] = Idle]
           /\ tx' = tx
    BY DEF Write, Target, Made
<1> QED BY <1>1, <1>3, <1>4

LEMMA AloneSeesTheLane ==
    ASSUME TxInv, NEW r \in Requests, ~req[r].whole
    PROVE  \A i \in Items : View(r)[i] = lane[i]
BY AloneHoldsNothing DEF View

LEMMA WriteAloneInv ==
    ASSUME Inv, NEW r \in Requests, Write(r), ~req[r].whole
    PROVE  ReqInv' /\ TxInv' /\ OrderInv' /\ CutInv'
<1> DEFINE i == Target(r)
<1>1. /\ i \in Items
      /\ Free(r, i)
      /\ lane' = [lane EXCEPT ![i] = Made(r)]
      /\ req' = [req EXCEPT ![r] = Idle]
      /\ tx' = tx
    BY WriteFacts
<1> HIDE DEF i
<1>2. \A k \in Items : ~Present(tx[r][k])
    BY AloneHoldsNothing DEF Inv
<1>3. req'[r] = Idle /\ \A s \in Requests \ {r} : req'[s] = req[s]
    BY <1>1, Types DEF Inv
<1>4. \A s \in Requests \ {r} : \A k \in Items : Present(tx[s][k]) => lane'[k] = lane[k]
    BY <1>1, Locked, Types DEF Inv
<1>5. cut' = cut
    BY DEF Write
<1> QED BY <1>1, <1>2, <1>3, <1>4, <1>5, IdleIsAsking, EmptyHandedStep

LEMMA WriteWholeInv ==
    ASSUME Inv, NEW r \in Requests, Write(r), req[r].whole
    PROVE  ReqInv' /\ TxInv' /\ OrderInv' /\ CutInv'
<1> DEFINE list == req[r].list
           next == req[r].next
           i == Target(r)
           row == Made(r)
           q == [req[r] EXCEPT !.at = IF next = Len(list) THEN "commit" ELSE "place",
                               !.next = next + 1, !.excluded = 0]
<1>1. /\ i \in Items /\ row \in Row
      /\ i = list[next]
      /\ next \in 1 .. Len(list)
      /\ Free(r, i)
      /\ Present(row) /\ ~row.done
      /\ Pending(View(r)[i]) => row = View(r)[i]
      /\ ~Pending(View(r)[i]) => row.position = req[r].excluded
      /\ tx' = [tx EXCEPT ![r][i] = row]
      /\ req' = [req EXCEPT ![r].at = IF next = Len(list) THEN "commit" ELSE "place",
                               ![r].next = @ + 1, ![r].excluded = 0]
      /\ lane' = lane
    BY WriteFacts DEF Target
<1> HIDE DEF i, row
<1>2. req[r] \in Asking /\ req \in [Requests -> Asking] /\ list \in Seq(Items) /\ next \in Nat
         /\ tx \in [Requests -> [Items -> Row]]
    BY Types DEF Inv, Asking
<1>3. req' = [req EXCEPT ![r] = q]
    BY <1>1, <1>2
<1>4. /\ q.at = IF next = Len(list) THEN "commit" ELSE "place"
      /\ q.whole /\ q.list = list /\ q.next = next + 1
    BY <1>2 DEF Asking
<1>5. Known(q)
    <2> HIDE DEF q
    <2> QED BY <1>1, <1>2, <1>4 DEF Known, Adding
<1> HIDE DEF q
<1>6. req'[r] = q /\ \A s \in Requests \ {r} : req'[s] = req[s]
    BY <1>2, <1>3
<1>7. /\ tx'[r] = [tx[r] EXCEPT ![i] = row]
      /\ tx'[r][i] = row
      /\ \A k \in Items : k # i => tx'[r][k] = tx[r][k]
      /\ \A s \in Requests \ {r} : tx'[s] = tx[s]
    BY <1>1, <1>2
<1>8. ReqInv'
    BY <1>5, <1>6 DEF Inv, ReqInv
<1>9. Held(r) /\ InOrder(r)
    BY DEF Inv, TxInv, OrderInv
<1>10. /\ \A m, n \in 1 .. Len(list) : list[m] = list[n] => m = n
       /\ \A m \in 1 .. Len(list) : m < next => Present(tx[r][list[m]])
       /\ \A m \in 1 .. Len(list) : m < next => tx[r][list[m]].position < req[r].excluded
       /\ \A m, n \in 1 .. Len(list) :
             m < n /\ n < next /\ ~Pending(lane[list[m]]) /\ ~Pending(lane[list[n]])
               => tx[r][list[m]].position < tx[r][list[n]].position
    BY <1>9 DEF InOrder, Write
<1>11. ~Present(tx[r][i])
    <2>1. \A m \in 1 .. Len(list) : m < next => list[m] # i
        BY <1>1, <1>2, <1>10
    <2> QED BY <1>1, <1>9, <2>1 DEF Held
<1>12. View(r)[i] = lane[i]
    BY <1>1, <1>11 DEF View
<1>20. /\ req'[r].whole /\ req'[r].list = list /\ req'[r].next = next + 1
       /\ req'[r].at = "write" => FALSE
    BY <1>4, <1>6
<1>13. ASSUME NEW k \in Items, Present(tx'[r][k])
       PROVE  /\ \E m \in 1 .. Len(list) : m < next + 1 /\ list[m] = k
              /\ ~tx'[r][k].done
              /\ \A s \in Requests \ {r} : ~Present(tx'[s][k])
              /\ Pending(lane'[k]) => tx'[r][k].position = lane'[k].position
    <2>1. CASE k = i
        <3>1. next < next + 1
            BY <1>2
        <3>2. \E m \in 1 .. Len(list) : m < next + 1 /\ list[m] = k
            BY <1>1, <2>1, <3>1
        <3>3. \A s \in Requests \ {r} : ~Present(tx'[s][k])
            BY <1>1, <1>7, <2>1, Locked
        <3>4. Pending(lane'[k]) => tx'[r][k].position = lane'[k].position
            BY <1>1, <1>7, <1>12, <2>1
        <3> QED BY <1>1, <1>7, <2>1, <3>2, <3>3, <3>4
    <2>2. CASE k # i
        <3>1. tx'[r][k] = tx[r][k]
            BY <1>7, <2>2
        <3>2. \E m \in 1 .. Len(list) : m < next /\ list[m] = k
            BY <1>9, <1>13, <3>1 DEF Held
        <3>3. \E m \in 1 .. Len(list) : m < next + 1 /\ list[m] = k
            BY <1>2, <3>2
        <3> QED BY <1>1, <1>7, <1>9, <1>13, <3>1, <3>3 DEF Held
    <2> QED BY <2>1, <2>2
<1>21. Held(r)'
    <2> HIDE DEF list, next
    <2> QED BY <1>13, <1>20 DEF Held
<1>14. \A m \in 1 .. Len(list) : m < next => list[m] \in Items /\ tx'[r][list[m]] = tx[r][list[m]]
    BY <1>1, <1>2, <1>7, <1>10
<1>15. \A m \in 1 .. Len(list) : m < next + 1 => m < next \/ m = next
    BY <1>2
<1>16. \A m \in 1 .. Len(list) : m < next + 1 => Present(tx'[r][list[m]])
    <2>1. \A m \in 1 .. Len(list) : m < next => Present(tx'[r][list[m]])
        BY <1>10, <1>14
    <2>2. Present(tx'[r][list[next]])
        BY <1>1, <1>7
    <2> QED BY <1>15, <2>1, <2>2
<1>17. ASSUME NEW m \in 1 .. Len(list), NEW n \in 1 .. Len(list), m < n, n < next + 1,
              ~Pending(lane[list[m]]), ~Pending(lane[list[n]])
       PROVE  tx'[r][list[m]].position < tx'[r][list[n]].position
    <2>1. m < next
        BY <1>2, <1>17
    <2>2. CASE n < next
        BY <1>10, <1>14, <1>17, <2>1, <2>2
    <2>3. CASE n = next
        <3>1. tx'[r][list[n]].position = req[r].excluded
            BY <1>1, <1>7, <1>12, <1>17, <2>3
        <3> QED BY <1>10, <1>14, <2>1, <3>1
    <2> QED BY <1>15, <1>17, <2>2, <2>3
<1>18. InOrder(r)'
    <2>2. /\ \A m, n \in 1 .. Len(list) : list[m] = list[n] => m = n
          /\ \A m \in 1 .. Len(list) : m < next + 1 => Present(tx'[r][list[m]])
          /\ \A m, n \in 1 .. Len(list) :
                m < n /\ n < next + 1 /\ ~Pending(lane'[list[m]]) /\ ~Pending(lane'[list[n]])
                  => tx'[r][list[m]].position < tx'[r][list[n]].position
        BY <1>1, <1>10, <1>16, <1>17
    <2> DEFINE mine == tx'[r]
    <2> HIDE DEF list, next, mine
    <2> QED BY <1>20, <2>2 DEF InOrder, mine
<1>19. ASSUME NEW s \in Requests \ {r}
       PROVE  Held(s)' /\ InOrder(s)'
    <2>1. Held(s) /\ InOrder(s)
        BY DEF Inv, TxInv, OrderInv
    <2>2. \A k \in Items : Present(tx[s][k]) => \A t \in Requests \ {s} : ~Present(tx'[t][k])
        BY <1>1, <1>7, <2>1, Locked DEF Held
    <2> QED BY <1>1, <1>6, <1>7, <2>1, <2>2, Undisturbed DEF Inv
<1>22. CutInv'
    <2>1. cut' = cut /\ \A p \in Removers : cut[p].gone \subseteq Items
        BY Types DEF Write, Inv, Cuts
    <2>2. \A p \in Removers : i \notin cut[p].gone
        BY <1>1, Locked
    <2>3. \A k \in Items : k # i => \A s \in Requests : tx'[s][k] = tx[s][k]
        BY <1>7
    <2> QED BY <2>1, <2>2, <2>3 DEF Inv, CutInv
<1> QED BY <1>8, <1>18, <1>19, <1>21, <1>22 DEF TxInv, OrderInv

LEMMA WriteKeepsInv ==
    ASSUME Inv, NEW r \in Requests, Write(r)
    PROVE  Inv'
BY WriteTypes, WriteAloneInv, WriteWholeInv DEF Inv

LEMMA CommitInv ==
    ASSUME Inv, NEW r \in Requests, Commit(r)
    PROVE  Inv'
<1>1. lane' = View(r) /\ tx' = [tx EXCEPT ![r] = NoWrites] /\ req' = [req EXCEPT ![r] = Idle] /\ cut' = cut
    BY DEF Commit
<1>2. req'[r] = Idle /\ tx'[r] = NoWrites
         /\ \A s \in Requests \ {r} : req'[s] = req[s] /\ tx'[s] = tx[s]
    BY <1>1, Types DEF Inv
<1>3. \A s \in Requests \ {r} : \A i \in Items : Present(tx[s][i]) => lane'[i] = lane[i]
    BY <1>1 DEF View, Inv, TxInv, Held
<1>4. ReqInv' /\ TxInv' /\ OrderInv' /\ CutInv'
    BY <1>1, <1>2, <1>3, IdleIsAsking, NoWritesIsTyped, EmptyHandedStep
<1> QED BY <1>4, CommitTypes DEF Inv

LEMMA RollbackInv ==
    ASSUME Inv, NEW r \in Requests, Rollback(r), mishaps' \in Nat
    PROVE  Inv'
<1>1. lane' = lane /\ tx' = [tx EXCEPT ![r] = NoWrites] /\ req' = [req EXCEPT ![r] = Idle] /\ cut' = cut
    BY DEF Rollback
<1>2. req'[r] = Idle /\ tx'[r] = NoWrites
         /\ \A s \in Requests \ {r} : req'[s] = req[s] /\ tx'[s] = tx[s]
    BY <1>1, Types DEF Inv
<1>3. ReqInv' /\ TxInv' /\ OrderInv' /\ CutInv'
    BY <1>1, <1>2, IdleIsAsking, NoWritesIsTyped, EmptyHandedStep
<1> QED BY <1>3, RollbackTypes DEF Inv

LEMMA MoveInv ==
    ASSUME Inv, NEW r \in Requests, NEW i \in Items, NEW up \in BOOLEAN, Move(r, i, up)
    PROVE  Inv'
<1> DEFINE e == [id |-> lane[i].id, position |-> lane[i].position]
           q == IF lane[i].done THEN req[r] ELSE [Idle EXCEPT !.at = "near", !.up = up, !.here = e]
<1>1. e \in Entry \ {Nobody}
    BY EntryOfARow, Types DEF Move, Inv
<1>2. req' = [req EXCEPT ![r] = q] /\ Starts(r)
    BY Types DEF Move, Inv
<1> HIDE DEF e
<1>3. req[r] \in Asking /\ Known(req[r]) /\ ~req[r].whole /\ req[r].at = "idle"
    BY <1>2, Types DEF Inv, ReqInv, Known, Starts, Adding
<1>4. q \in Asking /\ Known(q) /\ ~q.whole
    <2>1. CASE lane[i].done
        BY <1>3, <2>1
    <2>2. CASE ~lane[i].done
        <3> DEFINE new == [Idle EXCEPT !.at = "near", !.up = up, !.here = e]
        <3>1. new \in Asking
            BY <1>1, MoveTypes
        <3>2. new.at = "near" /\ new.here = e /\ new.whole = FALSE
            BY DEF Idle
        <3>3. q = new
            BY <2>2
        <3> HIDE DEF new, q
        <3> QED BY <1>1, <3>1, <3>2, <3>3 DEF Known, Adding
    <2> QED BY <2>1, <2>2
<1> HIDE DEF q
<1>5. TypeOK'
    BY <1>2, <1>4, StartTypes DEF Inv
<1>6. tx' = tx /\ lane' = lane /\ cut' = cut
    BY <1>2 DEF Starts
<1>7. \A k \in Items : ~Present(tx[r][k])
    BY <1>3, AloneHoldsNothing DEF Inv
<1>8. req'[r] = q /\ \A s \in Requests \ {r} : req'[s] = req[s]
    BY <1>2, Types DEF Inv
<1> QED BY <1>4, <1>5, <1>6, <1>7, <1>8, EmptyHandedStep DEF Inv

LEMMA NearInv ==
    ASSUME Inv, NEW r \in Requests, Near(r)
    PROVE  Inv'
<1>1. TypeOK'
    BY NearTypes DEF Inv
<1>2. req[r].at = "near" /\ tx' = tx /\ lane' = lane /\ cut' = cut /\ req[r] \in Asking /\ Known(req[r])
    BY Types DEF Near, Inv, ReqInv
<1>3. ~req[r].whole /\ req[r].here # Nobody
    BY <1>2 DEF Known, Adding
<1>4. \A k \in Items : ~Present(tx[r][k])
    BY <1>3, AloneHoldsNothing DEF Inv
<1>5. \E q \in Asking : Known(q) /\ ~q.whole /\ req' = [req EXCEPT ![r] = q]
    <2>1. CASE req' = [req EXCEPT ![r] = Idle]
        BY <2>1, IdleIsAsking
    <2>2. ASSUME NEW i \in Nearest(r),
                 req' = [req EXCEPT ![r].at = "first",
                                    ![r].near = [id |-> lane[i].id, position |-> lane[i].position]]
          PROVE  \E q \in Asking : Known(q) /\ ~q.whole /\ req' = [req EXCEPT ![r] = q]
        <3> DEFINE e == [id |-> lane[i].id, position |-> lane[i].position]
                   q == [req[r] EXCEPT !.at = "first", !.near = e]
        <3>1. e \in Entry \ {Nobody}
            BY EntryOfARow, Types DEF Nearest, Beyond, Pending, Inv
        <3> HIDE DEF e
        <3>2. req' = [req EXCEPT ![r] = q]
            BY <2>2, Types DEF e, Inv
        <3>3. q \in Asking /\ q.at = "first" /\ q.near = e /\ q.here = req[r].here /\ q.whole = req[r].whole
            BY <1>2, <3>1 DEF Asking, Steps
        <3> HIDE DEF q
        <3>4. Known(q) /\ ~q.whole
            BY <1>3, <3>1, <3>3 DEF Known, Adding
        <3> QED BY <3>2, <3>3, <3>4
    <2> QED BY <2>1, <2>2 DEF Near
<1>6. PICK q \in Asking : Known(q) /\ ~q.whole /\ req' = [req EXCEPT ![r] = q]
    BY <1>5
<1>7. req'[r] = q /\ \A s \in Requests \ {r} : req'[s] = req[s]
    BY <1>6, Types DEF Inv
<1> QED BY <1>1, <1>2, <1>4, <1>6, <1>7, EmptyHandedStep DEF Inv

LEMMA FirstInv ==
    ASSUME Inv, NEW r \in Requests, First(r)
    PROVE  Inv'
<1> DEFINE q == [req[r] EXCEPT !.at = "second"]
<1>1. TypeOK'
    BY FirstTypes DEF Inv
<1>2. /\ req[r].at = "first" /\ tx' = tx /\ cut' = cut /\ req[r] \in Asking /\ Known(req[r])
      /\ req' = [req EXCEPT ![r] = q]
      /\ SetPosition(req[r].here.id, req[r].near.position)
    BY Types DEF First, Inv, ReqInv
<1>3. ~req[r].whole /\ req[r].here # Nobody /\ req[r].near # Nobody
    BY <1>2 DEF Known, Adding
<1>4. \A k \in Items : ~Present(tx[r][k])
    BY <1>3, AloneHoldsNothing DEF Inv
<1>5. q.at = "second" /\ q.here = req[r].here /\ q.near = req[r].near /\ q.whole = req[r].whole
    BY <1>2 DEF Asking
<1> HIDE DEF q
<1>6. Known(q)
    BY <1>3, <1>5 DEF Known, Adding
<1>7. req'[r] = q /\ \A s \in Requests \ {r} : req'[s] = req[s]
    BY <1>2, Types DEF Inv
<1>8. \A s \in Requests \ {r} : \A i \in Items : Present(tx[s][i]) => lane'[i] = lane[i]
    BY <1>2, Locked DEF SetPosition
<1> QED BY <1>1, <1>2, <1>3, <1>4, <1>5, <1>6, <1>7, <1>8, EmptyHandedStep DEF Inv

LEMMA SecondInv ==
    ASSUME Inv, NEW r \in Requests, Second(r)
    PROVE  Inv'
<1>1. TypeOK'
    BY SecondTypes DEF Inv
<1>2. /\ req[r].at = "second" /\ tx' = tx /\ cut' = cut /\ Known(req[r])
      /\ req' = [req EXCEPT ![r] = Idle]
      /\ SetPosition(req[r].near.id, req[r].here.position)
    BY DEF Second, Inv, ReqInv
<1>3. \A k \in Items : ~Present(tx[r][k])
    BY <1>2, AloneHoldsNothing DEF Inv, Known, Adding
<1>4. req'[r] = Idle /\ \A s \in Requests \ {r} : req'[s] = req[s]
    BY <1>2, Types DEF Inv
<1>5. \A s \in Requests \ {r} : \A i \in Items : Present(tx[s][i]) => lane'[i] = lane[i]
    BY <1>2, Locked DEF SetPosition
<1> QED BY <1>1, <1>2, <1>3, <1>4, <1>5, IdleIsAsking, EmptyHandedStep DEF Inv

LEMMA RemoveEntryInv ==
    ASSUME Inv, NEW i \in Items, RemoveEntry(i)
    PROVE  Inv'
<1>1. req' = req /\ tx' = tx /\ cut' = cut
    BY DEF RemoveEntry, Changes
<1>2. \A k \in Items : (\E s \in Requests : Present(tx[s][k])) => lane'[k] = lane[k]
    BY Locked, Types DEF RemoveEntry, Inv
<1>3. CutInv'
    BY <1>1, CutKept DEF Inv
<1> QED BY <1>1, <1>2, <1>3, BesideStep, RemoveEntryTypes DEF Inv

LEMMA SetDoneInv ==
    ASSUME Inv, NEW i \in Items, NEW done \in BOOLEAN, SetDone(i, done)
    PROVE  Inv'
<1>1. req' = req /\ tx' = tx /\ cut' = cut
    BY DEF SetDone, Changes
<1>2. \A k \in Items : (\E s \in Requests : Present(tx[s][k])) => lane'[k] = lane[k]
    BY Locked, Types DEF SetDone, Inv
<1>3. CutInv'
    BY <1>1, CutKept DEF Inv
<1> QED BY <1>1, <1>2, <1>3, BesideStep, SetDoneTypes DEF Inv

\* A removal's step, after which what it deleted is in no batch's hands.
LEMMA CutInvAfter ==
    ASSUME Inv, NEW q \in Removers, NEW c \in Cuts, cut' = [cut EXCEPT ![q] = c],
           c.at = "delete" => c.list # <<>>,
           \A i \in c.gone : \A s \in Requests : ~Present(tx[s][i]),
           lane' \in [Items -> Row], mishaps' \in Nat, changes' \in Nat,
           UNCHANGED <<tx, req, issued, asked, crossed>>,
           \A i \in Items : (\E s \in Requests : Present(tx[s][i])) => lane'[i] = lane[i]
    PROVE  Inv'
<1>1. TypeOK'
    BY CutTypes DEF Inv
<1>2. ReqInv' /\ TxInv' /\ OrderInv'
    BY BesideStep
<1>3. cut'[q] = c /\ \A p \in Removers \ {q} : cut'[p] = cut[p]
    BY Types DEF Inv
<1>4. CutInv'
    BY <1>3 DEF Inv, CutInv
<1> QED BY <1>1, <1>2, <1>4 DEF Inv

LEMMA StartCutInv ==
    ASSUME Inv, NEW q \in Removers, NEW list \in Seq(Items), list # <<>>, NEW onlyDone \in BOOLEAN,
           StartCut(q, list, onlyDone)
    PROVE  Inv'
<1> DEFINE c == [NotCut EXCEPT !.at = "delete", !.list = list, !.onlyDone = onlyDone]
<1>1. c \in Cuts /\ c.list = list /\ c.gone = {}
    BY DEF NotCut, Cuts
<1>2. cut' = [cut EXCEPT ![q] = c] /\ lane' = lane /\ mishaps' = mishaps /\ changes' = changes + 1
         /\ UNCHANGED <<tx, req, issued, asked, crossed>>
    BY DEF StartCut, Changes
<1>3. lane \in [Items -> Row] /\ mishaps \in Nat /\ changes + 1 \in Nat
    BY Types DEF Inv
<1> HIDE DEF c
<1> QED BY <1>1, <1>2, <1>3, CutInvAfter

\* clearLane's rows, in the order it meets them.
LEMMA ClearInv ==
    ASSUME Inv, NEW q \in Removers, NEW onlyDone \in BOOLEAN, Clear(q, onlyDone)
    PROVE  Inv'
<1> DEFINE S == {i \in Items : Present(lane[i]) /\ (onlyDone => lane[i].done)}
<1>1. IsFiniteSet(S) /\ Cardinality(S) \in Nat
    BY QueueAssumption, FS_Subset, FS_CardinalityType
<1>2. PICK list \in SetToSeqs(S) : list # <<>> /\ StartCut(q, list, onlyDone)
    BY DEF Clear
<1>3. list \in [1 .. Cardinality(S) -> S]
    BY <1>2 DEF SetToSeqs
<1>4. list \in Seq(Items)
    <2>1. S \subseteq Items
        OBVIOUS
    <2> HIDE DEF S
    <2> QED BY <1>1, <1>3, <2>1
<1> QED BY <1>2, <1>4, StartCutInv

LEMMA DeleteInv ==
    ASSUME Inv, NEW q \in Removers, Delete(q)
    PROVE  Inv'
<1> DEFINE i == Head(cut[q].list)
           goes == Present(lane[i]) /\ (cut[q].onlyDone => lane[i].done)
           c == [cut[q] EXCEPT !.list = Tail(@),
                               !.at = IF Len(cut[q].list) = 1 THEN "commit" ELSE @,
                               !.gone = IF goes THEN @ \cup {i} ELSE @]
<1>1. cut[q] \in Cuts /\ cut \in [Removers -> Cuts] /\ lane \in [Items -> Row]
         /\ mishaps \in Nat /\ changes \in Nat
    BY Types DEF Inv
<1>2. cut[q].at = "delete" /\ cut[q].list \in Seq(Items) /\ cut[q].list # <<>>
    BY <1>1 DEF Delete, Inv, CutInv, Cuts
<1>3. i \in Items /\ Tail(cut[q].list) \in Seq(Items)
    BY <1>2
<1>4. Len(cut[q].list) # 1 => Tail(cut[q].list) # <<>>
    <2> DEFINE list == cut[q].list
    <2>1. list \in Seq(Items) /\ list # <<>>
        BY <1>2
    <2> HIDE DEF list
    <2>2. Len(list) \in Nat \ {0} /\ Len(Tail(list)) = Len(list) - 1 /\ Len(<<>>) = 0
        BY <2>1
    <2>3. Len(list) # 1 => Len(Tail(list)) # Len(<<>>)
        BY <2>2
    <2> QED BY <2>3 DEF list
<1>5. cut' = [cut EXCEPT ![q] = c]
    BY <1>1 DEF Delete
<1>6. goes => \A s \in Requests : ~Present(tx[s][i])
    BY <1>3, Locked DEF Delete
<1>7. /\ lane' = lane /\ mishaps' = mishaps /\ changes' = changes
      /\ UNCHANGED <<tx, req, issued, asked, crossed>>
    BY DEF Delete
<1> HIDE DEF i, goes
<1>8. /\ c.at = IF Len(cut[q].list) = 1 THEN "commit" ELSE "delete"
      /\ c.list = Tail(cut[q].list)
      /\ c.gone = IF goes THEN cut[q].gone \cup {i} ELSE cut[q].gone
      /\ c \in Cuts
    BY <1>1, <1>2, <1>3 DEF Cuts
<1> HIDE DEF c
<1>9. c.at = "delete" => c.list # <<>>
    BY <1>4, <1>8
<1>10. \A k \in c.gone : \A s \in Requests : ~Present(tx[s][k])
    BY <1>6, <1>8 DEF Inv, CutInv
<1> QED BY <1>1, <1>5, <1>7, <1>8, <1>9, <1>10, CutInvAfter

LEMMA CommitCutInv ==
    ASSUME Inv, NEW q \in Removers, CommitCut(q)
    PROVE  Inv'
<1>1. lane' \in [Items -> Row]
    BY Types, AbsentIsARow DEF CommitCut, Inv
<1>2. \A i \in Items : (\E s \in Requests : Present(tx[s][i])) => lane'[i] = lane[i]
    BY DEF CommitCut, Inv, CutInv
<1>3. /\ cut' = [cut EXCEPT ![q] = NotCut]
      /\ mishaps' \in Nat /\ changes' \in Nat
      /\ UNCHANGED <<tx, req, issued, asked, crossed>>
    BY Types DEF CommitCut, Inv
<1> QED BY <1>1, <1>2, <1>3, NotCutIsTyped, CutInvAfter

LEMMA RollbackCutInv ==
    ASSUME Inv, NEW q \in Removers, RollbackCut(q), mishaps' \in Nat
    PROVE  Inv'
<1>1. /\ cut' = [cut EXCEPT ![q] = NotCut] /\ lane' = lane /\ changes' = changes
      /\ UNCHANGED <<tx, req, issued, asked, crossed>>
    BY DEF RollbackCut
<1>2. lane \in [Items -> Row] /\ changes \in Nat
    BY Types DEF Inv
<1> QED BY <1>1, <1>2, NotCutIsTyped, CutInvAfter

LEMMA NextInv ==
    ASSUME Inv, [Next]_vars
    PROVE  Inv'
<1>1. ASSUME NEW r \in Requests, NEW i \in Items, Add(r, i)
      PROVE  Inv'
    BY <1>1, AddInv
<1>2. ASSUME NEW r \in Requests, NEW i \in Items, NEW up \in BOOLEAN, Move(r, i, up)
      PROVE  Inv'
    BY <1>2, MoveInv
<1>3. ASSUME NEW r \in Requests, NEW list \in RunningOrders, AddMany(r, list)
      PROVE  Inv'
    BY <1>3, AddManyInv
<1>4. ASSUME NEW r \in Requests, Step(r)
      PROVE  Inv'
    <2>1. CASE Place(r)
        BY <2>1, PlaceKeepsInv
    <2>2. CASE Write(r)
        BY <2>2, WriteKeepsInv
    <2>3. CASE Commit(r)
        BY <2>3, CommitInv
    <2>4. CASE Deadlocked(r)
        <3>1. Rollback(r) /\ mishaps' \in Nat
            BY <2>4, Types DEF Deadlocked, Inv
        <3> QED BY <3>1, RollbackInv
    <2>5. CASE Near(r)
        BY <2>5, NearInv
    <2>6. CASE First(r)
        BY <2>6, FirstInv
    <2>7. CASE Second(r)
        BY <2>7, SecondInv
    <2> QED BY <1>4, <2>1, <2>2, <2>3, <2>4, <2>5, <2>6, <2>7 DEF Step
<1>5. ASSUME NEW r \in Requests, BreaksOff(r)
      PROVE  Inv'
    <2>1. Rollback(r) /\ mishaps' \in Nat
        BY <1>5, Types DEF BreaksOff, Inv
    <2> QED BY <2>1, RollbackInv
<1>6. ASSUME NEW i \in Items, RemoveEntry(i)
      PROVE  Inv'
    BY <1>6, RemoveEntryInv
<1>7. ASSUME NEW i \in Items, NEW done \in BOOLEAN, SetDone(i, done)
      PROVE  Inv'
    BY <1>7, SetDoneInv
<1>8. CASE UNCHANGED vars
    BY <1>8 DEF vars, Inv, TypeOK, ReqInv, TxInv, OrderInv, CutInv, Held, InOrder, Pending
<1>9. ASSUME NEW q \in Removers, CutStep(q) \/ CutBreaksOff(q)
      PROVE  Inv'
    <2>1. CutDeadlocked(q) \/ CutBreaksOff(q) => RollbackCut(q) /\ mishaps' \in Nat
        BY Types DEF CutDeadlocked, CutBreaksOff, Inv
    <2> QED BY <1>9, <2>1, DeleteInv, CommitCutInv, RollbackCutInv DEF CutStep
<1>10. ASSUME NEW q \in Removers, NEW list \in RunningOrders, RemoveMany(q, list)
       PROVE  Inv'
    <2>1. list \in Seq(Items) /\ list # <<>> /\ StartCut(q, list, FALSE)
        BY <1>10, QueueAssumption DEF RemoveMany
    <2> QED BY <2>1, StartCutInv
<1>11. ASSUME NEW q \in Removers, NEW onlyDone \in BOOLEAN, Clear(q, onlyDone)
       PROVE  Inv'
    BY <1>11, ClearInv
<1> QED BY <1>1, <1>2, <1>3, <1>4, <1>5, <1>6, <1>7, <1>8, <1>9, <1>10, <1>11 DEF Next

LEMMA Inductive == Spec => []Inv
<1>1. Init => Inv
    BY InitInv
<1>2. Inv /\ [Next]_vars => Inv'
    BY NextInv
<1> QED BY <1>1, <1>2, PTL DEF Spec

-----------------------------------------------------------------------------
(* What follows of it. *)

\* Every row of a lane, and every row a batch still holds back, is a row: what
\* the requests write never leaves an entry without an id or a place.
THEOREM TypeCorrect == Spec => []TypeOK
<1>1. Inv => TypeOK
    BY DEF Inv
<1> QED BY <1>1, Inductive, PTL

\* queue.js, addMany: for any number of requests, lanes and interleavings, a
\* batch's new entries stand in the order they were handed over when it commits.
THEOREM BatchesStandInOrder == Spec => []HandedOrderIsKept
<1>1. ASSUME Inv
      PROVE  HandedOrderIsKept
    <2> SUFFICES ASSUME NEW r \in Requests, req[r].at = "commit",
                        NEW m \in 1 .. Len(req[r].list), NEW n \in 1 .. Len(req[r].list), m < n,
                        ~Pending(lane[req[r].list[m]]), ~Pending(lane[req[r].list[n]])
                 PROVE  tx[r][req[r].list[m]].position < tx[r][req[r].list[n]].position
        BY DEF HandedOrderIsKept
    <2>1. req[r].whole /\ req[r].next = Len(req[r].list) + 1
        BY <1>1 DEF Inv, ReqInv, Known
    <2>2. Len(req[r].list) \in Nat
        BY <1>1, Types DEF Inv, Asking
    <2>3. n < req[r].next
        BY <2>1, <2>2
    <2>4. InOrder(r)
        BY <1>1 DEF Inv, OrderInv
    <2> QED BY <2>1, <2>3, <2>4 DEF InOrder
<1> QED BY <1>1, Inductive, PTL

\* The steps of a request's answer that are not a move's updates.
LEMMA OnlyMovesMove ==
    ASSUME Inv, NEW r \in Requests, Write(r) \/ Commit(r)
    PROVE  \A i \in Items : Pending(lane[i]) => lane'[i].position = lane[i].position
<1>1. CASE Write(r)
    <2>1. CASE req[r].whole
        <3>1. lane' = lane
            BY <1>1, <2>1 DEF Write
        <3> QED BY <3>1
    <2>2. CASE ~req[r].whole
        <3> DEFINE k == Target(r)
        <3>1. /\ k \in Items
              /\ Pending(View(r)[k]) => Made(r) = View(r)[k]
              /\ lane' = [lane EXCEPT ![k] = Made(r)]
            BY <1>1, <2>2, WriteFacts
        <3> HIDE DEF k
        <3>2. View(r)[k] = lane[k]
            BY <2>2, <3>1, AloneSeesTheLane DEF Inv
        <3> QED BY <3>1, <3>2, Types DEF Inv
    <2> QED BY <2>1, <2>2
<1>2. CASE Commit(r)
    BY <1>2 DEF Commit, View, Inv, TxInv, Held
<1> QED BY <1>1, <1>2

\* queue.js, add and addMany: nothing but a move gives a waiting entry another
\* place, whatever is added, put back, finished or taken out beside it.
THEOREM WhatWaitsKeepsItsPlace == Spec => WaitingKeepsItsPlace
<1> DEFINE Keeps ==
       \A i \in Items :
          Pending(lane[i]) /\ lane'[i].id = lane[i].id /\ lane'[i].position # lane[i].position
            => \E r \in Requests : req[r].at \in {"first", "second"}
<1>1. ASSUME Inv, [Next]_vars
      PROVE  Keeps
    <2>1. CASE lane' = lane
        BY <2>1
    <2>2. ASSUME NEW r \in Requests, First(r) \/ Second(r)
          PROVE  Keeps
        BY <2>2 DEF First, Second
    <2>3. ASSUME NEW r \in Requests, Write(r) \/ Commit(r)
          PROVE  Keeps
        BY <1>1, <2>3, OnlyMovesMove
    <2>4. ASSUME \A i \in Items : lane'[i] \in {lane[i], Absent}
          PROVE  Keeps
        BY <2>4 DEF Absent, Pending, Present
    <2>6. ASSUME NEW i \in Items, RemoveEntry(i)
          PROVE  Keeps
        <3>1. \A k \in Items : lane'[k] \in {lane[k], Absent}
            BY <1>1, <2>6, Types DEF RemoveEntry, Inv
        <3> QED BY <2>4, <3>1
    <2>7. ASSUME NEW q \in Removers, CommitCut(q)
          PROVE  Keeps
        <3>1. \A k \in Items : lane'[k] \in {lane[k], Absent}
            BY <2>7 DEF CommitCut
        <3> QED BY <2>4, <3>1
    <2>8. ASSUME NEW q \in Removers,
                 \/ Delete(q) \/ CutDeadlocked(q) \/ CutBreaksOff(q)
                 \/ \E list \in RunningOrders : RemoveMany(q, list)
                 \/ \E onlyDone \in BOOLEAN : Clear(q, onlyDone)
          PROVE  lane' = lane
        BY <2>8 DEF Delete, CutDeadlocked, CutBreaksOff, RollbackCut, RemoveMany, Clear, StartCut
    <2>5. ASSUME NEW i \in Items, NEW done \in BOOLEAN, SetDone(i, done)
          PROVE  Keeps
        <3>1. lane[i] \in [id : Nat \ {0}, position : Nat \ {0}, done : BOOLEAN]
            BY <1>1, <2>5, RowFacts, Types DEF Inv, SetDone
        <3>2. \A k \in Items : lane'[k].position = lane[k].position
            BY <1>1, <2>5, <3>1, Types DEF Inv, SetDone
        <3> QED BY <3>2
    <2> QED BY <1>1, <2>1, <2>2, <2>3, <2>5, <2>6, <2>7, <2>8
            DEF Next, Step, CutStep, Add, AddMany, Move, Starts, Place, Deadlocked, BreaksOff, Rollback, Near, vars
<1> QED BY <1>1, Inductive, PTL DEF Spec, WaitingKeepsItsPlace

-----------------------------------------------------------------------------
(* An id names one entry. *)

LEMMA IdsAreNumbers ==
    ASSUME TypeOK, NEW i \in Items
    PROVE  lane[i].id \in Nat /\ \A r \in Requests : tx[r][i].id \in Nat
BY Types, RowFacts

\* A step that shows nothing new, or one new id that was never given out.
LEMMA FewerIds ==
    ASSUME IdInv, issued \in Nat, issued' \in Nat, issued <= issued',
           \A i \in Items : Ids(i)' \subseteq Ids(i) \cup {0}
    PROVE  IdInv'
<1>1. \A i \in Items : Ids(i) \subseteq 0 .. issued' /\ 0 \in 0 .. issued'
    BY DEF IdInv
<1>2. \A i \in Items : Ids(i)' \subseteq 0 .. issued'
    BY <1>1
<1>3. ASSUME NEW i \in Items, NEW j \in Items, i # j
      PROVE  Ids(i)' \cap Ids(j)' \subseteq {0}
    BY <1>3 DEF IdInv
<1> QED BY <1>2, <1>3 DEF IdInv

LEMMA OneNewId ==
    ASSUME IdInv, issued \in Nat, issued' = issued + 1, NEW k \in Items,
           Ids(k)' \subseteq Ids(k) \cup {issued + 1},
           \A i \in Items \ {k} : Ids(i)' \subseteq Ids(i)
    PROVE  IdInv'
<1>1. \A i \in Items : Ids(i) \subseteq 0 .. issued' /\ issued + 1 \in 0 .. issued' /\ issued + 1 \notin Ids(i)
    BY DEF IdInv
<1>2. \A i \in Items : Ids(i)' \subseteq 0 .. issued'
    BY <1>1
<1>3. ASSUME NEW i \in Items, NEW j \in Items, i # j
      PROVE  Ids(i)' \cap Ids(j)' \subseteq {0}
    <2>1. Ids(i) \cap Ids(j) \subseteq {0}
        BY <1>3 DEF IdInv
    <2>2. CASE i = k
        BY <1>1, <1>3, <2>1, <2>2
    <2>3. CASE j = k
        BY <1>1, <1>3, <2>1, <2>3
    <2>4. CASE i # k /\ j # k
        BY <2>1, <2>4
    <2> QED BY <2>2, <2>3, <2>4
<1> QED BY <1>2, <1>3 DEF IdInv

LEMMA InitIds ==
    ASSUME Init
    PROVE  IdInv
<1> DEFINE ids == {0} \cup {lane[i].id : i \in Items}
           f == [i \in Items |-> lane[i].id]
<1>1. TypeOK
    BY InitTypes
<1>2. \A i \in Items : lane[i].id \in Nat
    BY <1>1, IdsAreNumbers
<1>3. \E x \in ids : \A y \in ids : x >= y
    <2>1. CASE Items = {}
        BY <2>1
    <2>2. CASE Items # {}
        <3>1. f \in [Items -> Nat]
            BY <1>2
        <3> HIDE DEF f
        <3>2. PICK i \in Items : \A j \in Items : f[j] <= f[i]
            BY <2>2, <3>1, SomeItemIsLast
        <3>3. \A y \in ids : lane[i].id >= y
            BY <1>2, <3>2 DEF f
        <3> QED BY <3>3
    <2> QED BY <2>1, <2>2
<1>4. issued = Max(ids)
    BY DEF Init
<1>5. \A i \in Items : issued >= lane[i].id
    <2>1. \A y \in ids : Max(ids) >= y
        <3> HIDE DEF ids
        <3> QED BY <1>3 DEF Max
    <2>2. \A i \in Items : lane[i].id \in ids
        OBVIOUS
    <2> HIDE DEF ids
    <2> QED BY <1>4, <2>1, <2>2
<1>6. issued \in Nat
    BY <1>1, Types
<1>7. \A i \in Items : Ids(i) \subseteq {lane[i].id, 0}
    BY AbsentIsARow DEF Ids, Init, NoWrites
<1>8. \A i \in Items : Ids(i) \subseteq 0 .. issued
    <2>1. \A i \in Items : lane[i].id \in 0 .. issued /\ 0 \in 0 .. issued
        BY <1>2, <1>5, <1>6
    <2> QED BY <1>7, <2>1
<1>9. \A i, j \in Items : i # j /\ lane[i].id # 0 /\ lane[j].id # 0 => lane[i].id # lane[j].id
    BY QueueAssumption DEF Init
<1>10. ASSUME NEW i \in Items, NEW j \in Items, i # j
       PROVE  Ids(i) \cap Ids(j) \subseteq {0}
    BY <1>7, <1>9, <1>10
<1> QED BY <1>8, <1>10 DEF IdInv

LEMMA WriteIds ==
    ASSUME Inv, IdInv, NEW r \in Requests, Write(r)
    PROVE  IdInv'
<1>7. PICK i \in Items, row \in Row : i = Target(r) /\ row = Made(r)
    BY WriteFacts
<1>1. /\ Present(View(r)[i]) => row.id = View(r)[i].id
      /\ ~Present(View(r)[i]) => row.id = issued + 1
      /\ issued' = IF row.id > issued THEN row.id ELSE issued
      /\ \/ tx' = [tx EXCEPT ![r][i] = row] /\ lane' = lane
         \/ lane' = [lane EXCEPT ![i] = row] /\ tx' = tx
    BY <1>7, WriteFacts
<1>2. issued \in Nat /\ row.id \in Nat /\ \A k \in Items : Ids(k) \subseteq 0 .. issued
    BY <1>1, RowFacts, Types DEF Inv, IdInv
<1>3. \A k \in Items \ {i} : Ids(k)' = Ids(k)
    <2> SUFFICES ASSUME NEW k \in Items \ {i}
                 PROVE  lane'[k] = lane[k] /\ \A s \in Requests : tx'[s][k] = tx[s][k]
        BY DEF Ids
    <2> QED BY <1>1, Types DEF Inv
<1>4. Ids(i)' \subseteq Ids(i) \cup {row.id}
    <2>1. lane'[i] \in {lane[i], row} /\ \A s \in Requests : tx'[s][i] \in {tx[s][i], row}
        BY <1>1, Types DEF Inv
    <2> QED BY <2>1 DEF Ids
<1>5. CASE Present(View(r)[i])
    <2>1. row.id \in Ids(i)
        BY <1>1, <1>5 DEF View, Ids
    <2>2. issued' = issued
        BY <1>1, <1>2, <2>1
    <2> QED BY <1>1, <1>2, <1>3, <1>4, <2>1, <2>2, FewerIds
<1>6. CASE ~Present(View(r)[i])
    <2>1. issued' = issued + 1 /\ row.id = issued + 1
        BY <1>1, <1>2, <1>6
    <2> QED BY <1>1, <1>2, <1>3, <1>4, <2>1, OneNewId
<1> QED BY <1>5, <1>6

\* Whatever else a step does, it shows an entry under ids it already had.
LEMMA NextIds ==
    ASSUME Inv, IdInv, [Next]_vars
    PROVE  IdInv'
<1>1. issued \in Nat
    BY Types DEF Inv
<1>2. ASSUME issued' = issued,
             \A i \in Items : lane'[i].id \in Ids(i) \cup {0}
                /\ \A s \in Requests : tx'[s][i].id \in Ids(i) \cup {0}
      PROVE  IdInv'
    <2>1. \A i \in Items : Ids(i)' \subseteq Ids(i) \cup {0}
        BY <1>2 DEF Ids
    <2> QED BY <1>1, <1>2, <2>1, FewerIds
<1>3. CASE issued' = issued /\ lane' = lane /\ tx' = tx
    BY <1>2, <1>3 DEF Ids
<1>4. ASSUME NEW r \in Requests, Commit(r)
      PROVE  IdInv'
    <2>1. \A i \in Items : lane'[i].id \in Ids(i)
        BY <1>4 DEF Commit, View, Ids
    <2>2. \A i \in Items : \A s \in Requests : tx'[s][i].id \in Ids(i) \cup {0}
        BY <1>4, AbsentIsARow, Types DEF Commit, NoWrites, Ids, Inv
    <2> QED BY <1>2, <1>4, <2>1, <2>2 DEF Commit
<1>5. ASSUME NEW r \in Requests, Rollback(r)
      PROVE  IdInv'
    <2>1. \A i \in Items : lane'[i].id \in Ids(i)
        BY <1>5 DEF Rollback, Ids
    <2>2. \A i \in Items : \A s \in Requests : tx'[s][i].id \in Ids(i) \cup {0}
        BY <1>5, AbsentIsARow, Types DEF Rollback, NoWrites, Ids, Inv
    <2> QED BY <1>2, <1>5, <2>1, <2>2 DEF Rollback
<1>6. ASSUME issued' = issued, tx' = tx,
             \A i \in Items : lane'[i].id = lane[i].id \/ lane'[i] = Absent
      PROVE  IdInv'
    <2>1. \A i \in Items : lane'[i].id \in Ids(i) \cup {0}
        BY <1>6, AbsentIsARow DEF Ids
    <2>2. \A i \in Items : \A s \in Requests : tx'[s][i].id \in Ids(i) \cup {0}
        BY <1>6 DEF Ids
    <2> QED BY <1>2, <1>6, <2>1, <2>2
<1>7. ASSUME NEW id, NEW position, SetPosition(id, position), issued' = issued, tx' = tx
      PROVE  IdInv'
    <2>1. \A i \in Items : lane[i] \in Row
        BY Types DEF Inv
    <2>2. \A i \in Items : lane'[i].id = lane[i].id
        BY <1>7, <2>1 DEF SetPosition, Row, Absent
    <2> QED BY <1>6, <1>7, <2>2
<1>8. ASSUME NEW i \in Items, RemoveEntry(i)
      PROVE  IdInv'
    <2>1. \A k \in Items : lane'[k].id = lane[k].id \/ lane'[k] = Absent
        BY <1>8, Types DEF RemoveEntry, Inv
    <2> QED BY <1>6, <1>8, <2>1 DEF RemoveEntry, Changes
<1>11. ASSUME NEW q \in Removers, CommitCut(q)
       PROVE  IdInv'
    <2>1. \A k \in Items : lane'[k].id = lane[k].id \/ lane'[k] = Absent
        BY <1>11 DEF CommitCut
    <2> QED BY <1>6, <1>11, <2>1 DEF CommitCut
<1>12. ASSUME NEW q \in Removers,
              \/ Delete(q) \/ CutDeadlocked(q) \/ CutBreaksOff(q)
              \/ \E list \in RunningOrders : RemoveMany(q, list)
              \/ \E onlyDone \in BOOLEAN : Clear(q, onlyDone)
       PROVE  issued' = issued /\ lane' = lane /\ tx' = tx
    BY <1>12 DEF Delete, CutDeadlocked, CutBreaksOff, RollbackCut, RemoveMany, Clear, StartCut, Changes
<1>9. ASSUME NEW i \in Items, NEW done \in BOOLEAN, SetDone(i, done)
      PROVE  IdInv'
    <2>1. \A k \in Items : lane[k] \in Row
        BY Types DEF Inv
    <2>2. \A k \in Items : lane'[k].id = lane[k].id
        BY <1>9, <2>1, Types DEF SetDone, Row, Absent, Inv
    <2> QED BY <1>6, <1>9, <2>2 DEF SetDone, Changes
<1>10. ASSUME NEW r \in Requests, Step(r) \/ BreaksOff(r)
       PROVE  IdInv'
    BY <1>3, <1>4, <1>5, <1>7, <1>10, WriteIds
       DEF Step, BreaksOff, Deadlocked, Place, Near, First, Second
<1> QED BY <1>3, <1>8, <1>9, <1>10, <1>11, <1>12 DEF Next, CutStep, Add, AddMany, Move, Starts, vars

-----------------------------------------------------------------------------
(* One request after another: no two entries share a place. *)

LEMMA PlacesAfter ==
    ASSUME NEW r \in Requests,
           \A s \in Requests \ {r} : req'[s].at = "idle",
           req'[r].at = "idle" => Apart(lane'),
           req'[r].at # "idle" => Working(r)'
    PROVE  PlaceInv'
<1>1. AtRest' => Apart(lane)'
    BY DEF AtRest
<1> QED BY <1>1 DEF PlaceInv

\* The first step of a request that adds or moves, while nobody else is at work.
LEMMA StartsAlone ==
    ASSUME Inv, Apartness, NEW r \in Requests, Starts(r), ~crossed',
           NEW q, req' = [req EXCEPT ![r] = q]
    PROVE  /\ Apart(lane) /\ lane' = lane /\ tx' = tx
           /\ \A i \in Items : ~Present(tx[r][i])
           /\ req'[r] = q
           /\ \A s \in Requests \ {r} : req'[s].at = "idle"
<1>1. lane' = lane /\ tx' = tx /\ ~crossed /\ AtRest
    BY DEF Starts, AtRest
<1>2. Apart(lane)
    BY <1>1 DEF Apartness, PlaceInv
<1>3. req'[r] = q /\ \A s \in Requests \ {r} : req'[s] = req[s]
    BY Types DEF Inv
<1>4. ~req[r].whole
    BY <1>1 DEF AtRest, Inv, ReqInv, Known, Adding
<1> QED BY <1>1, <1>2, <1>3, <1>4, AloneHoldsNothing DEF AtRest, Inv

LEMMA AddPlaces ==
    ASSUME Inv, Apartness, NEW r \in Requests, ~crossed',
           \/ \E i \in Items : Add(r, i)
           \/ \E list \in RunningOrders : AddMany(r, list)
    PROVE  PlaceInv'
<1>1. PICK q : q.at = "place" /\ Starts(r) /\ req' = [req EXCEPT ![r] = q]
    <2>1. ASSUME NEW i \in Items, Add(r, i)
          PROVE  \E q : q.at = "place" /\ Starts(r) /\ req' = [req EXCEPT ![r] = q]
        BY <2>1 DEF Add, Idle
    <2>2. ASSUME NEW list \in RunningOrders, AddMany(r, list)
          PROVE  \E q : q.at = "place" /\ Starts(r) /\ req' = [req EXCEPT ![r] = q]
        BY <2>2 DEF AddMany, Idle
    <2> QED BY <2>1, <2>2
<1>2. /\ Apart(lane) /\ lane' = lane /\ tx' = tx
      /\ \A i \in Items : ~Present(tx[r][i])
      /\ req'[r] = q
      /\ \A s \in Requests \ {r} : req'[s].at = "idle"
    BY <1>1, StartsAlone
<1>3. Apart(View(r))' /\ Apart(lane)'
    BY <1>2 DEF Apart, View
<1>4. Working(r)'
    BY <1>1, <1>2, <1>3 DEF Working
<1> QED BY <1>1, <1>2, <1>4, PlacesAfter

\* A row names its own id and place: where rows and ids are apart, no other has either.
LEMMA RowMarks ==
    ASSUME TypeOK, IdInv, Apart(lane), NEW i \in Items, Present(lane[i]),
           NEW e, e.id = lane[i].id, e.position = lane[i].position
    PROVE  Marks(lane, e)
<1>1. \A j \in Items : i # j /\ Present(lane[j]) => lane[j].id # lane[i].id
    BY DEF IdInv, Ids, Present
<1>2. \A j \in Items : i # j /\ Present(lane[j]) => lane[j].position # lane[i].position
    BY DEF Apart
<1> QED BY <1>1, <1>2 DEF Marks

LEMMA MovePlaces ==
    ASSUME Inv, IdInv, Apartness, ~crossed',
           NEW r \in Requests, NEW i \in Items, NEW up \in BOOLEAN, Move(r, i, up)
    PROVE  PlaceInv'
<1> DEFINE e == [id |-> lane[i].id, position |-> lane[i].position]
           q == IF lane[i].done THEN req[r] ELSE [Idle EXCEPT !.at = "near", !.up = up, !.here = e]
<1>1. req' = [req EXCEPT ![r] = q] /\ Starts(r) /\ Present(lane[i])
    BY Types DEF Move, Inv
<1>2. \/ q.at = "idle"
      \/ q.at = "near" /\ q.here = e
    BY <1>1 DEF Starts, Idle
<1>3. e.id = lane[i].id /\ e.position = lane[i].position
    OBVIOUS
<1> HIDE DEF q, e
<1>4. /\ Apart(lane) /\ lane' = lane
      /\ req'[r] = q
      /\ \A s \in Requests \ {r} : req'[s].at = "idle"
    BY <1>1, StartsAlone
<1>5. Marks(lane, e)
    BY <1>1, <1>3, <1>4, RowMarks DEF Inv
<1>6. CASE q.at = "idle"
    BY <1>4, <1>6, PlacesAfter
<1>7. CASE q.at = "near" /\ q.here = e
    <2>1. req'[r].at = "near" /\ Apart(lane') /\ Marks(lane', req'[r].here)
        BY <1>4, <1>5, <1>7
    <2>2. Working(r)'
        BY <1>4, <2>1 DEF Working, Adding
    <2> QED BY <1>4, <2>1, <2>2, PlacesAfter
<1> QED BY <1>2, <1>6, <1>7

\* A request that goes on is the only one at work.
LEMMA GoesOnAlone ==
    ASSUME Inv, PlaceInv, NEW r \in Requests, req[r].at # "idle",
           NEW q, req' = [req EXCEPT ![r] = q]
    PROVE  /\ Working(r)
           /\ req'[r] = q
           /\ \A s \in Requests \ {r} : req'[s].at = "idle"
BY Types DEF Inv, PlaceInv, Working

LEMMA PlacePlaces ==
    ASSUME Inv, PlaceInv, NEW r \in Requests, Place(r)
    PROVE  PlaceInv'
<1> DEFINE e == NextPosition(View(r))
           q == [req[r] EXCEPT !.at = "write", !.excluded = e]
<1>1. \A i \in Items : View(r)[i].position < e
    BY ViewIsALane, NextIsBeyond DEF Inv
<1>2. req' = [req EXCEPT ![r] = q] /\ tx' = tx /\ lane' = lane /\ req[r].at = "place"
    BY Types DEF Inv, Place
<1> HIDE DEF e
<1>3. q.at = "write" /\ q.excluded = e
    BY Types DEF Inv, Asking
<1> HIDE DEF q
<1>4. Working(r) /\ req'[r] = q /\ \A s \in Requests \ {r} : req'[s].at = "idle"
    BY <1>2, GoesOnAlone
<1>5. Apart(View(r)) /\ Apart(lane)
    BY <1>2, <1>4 DEF Working, Adding
<1>6. Apart(View(r))' /\ Apart(lane)'
    BY <1>2, <1>5 DEF Apart, View
<1>7. \A i \in Items : View(r)'[i].position < e
    BY <1>1, <1>2 DEF View
<1>8. Working(r)'
    BY <1>3, <1>4, <1>6, <1>7 DEF Working
<1> QED BY <1>3, <1>4, <1>8, PlacesAfter

\* A row put beyond all the others, or left where it is, keeps them apart.
LEMMA ApartAfterWrite ==
    ASSUME NEW rows \in [Items -> Row], Apart(rows), NEW i \in Items, NEW row \in Row, NEW e \in Nat,
           \A k \in Items : rows[k].position < e,
           Pending(rows[i]) => row = rows[i],
           ~Pending(rows[i]) => row.position = e
    PROVE  Apart([rows EXCEPT ![i] = row])
<1> DEFINE after == [rows EXCEPT ![i] = row]
<1>1. after[i] = row /\ \A k \in Items \ {i} : after[k] = rows[k]
    OBVIOUS
<1>2. \A k \in Items : rows[k].position \in Nat /\ rows[k].position # e
    BY RowFacts
<1>3. CASE Pending(rows[i])
    <2>1. after = rows
        BY <1>3
    <2> QED BY <2>1
<1>4. CASE ~Pending(rows[i])
    <2> HIDE DEF after
    <2>1. Apart(after)
        BY <1>1, <1>2, <1>4 DEF Apart
    <2> QED BY <2>1 DEF after
<1> QED BY <1>3, <1>4

LEMMA WritePlaces ==
    ASSUME Inv, PlaceInv, NEW r \in Requests, Write(r)
    PROVE  PlaceInv'
<1>1. PICK i \in Items, row \in Row : i = Target(r) /\ row = Made(r)
    BY WriteFacts
<1>2. /\ Pending(View(r)[i]) => row = View(r)[i]
      /\ ~Pending(View(r)[i]) => row.position = req[r].excluded
      /\ req[r].excluded \in Nat
      /\ Present(row)
    BY <1>1, WriteFacts
<1>3. req[r].at = "write"
    BY DEF Write
<1>4. Working(r)
    BY <1>3 DEF PlaceInv
<1>5. Apart(View(r)) /\ Apart(lane) /\ \A k \in Items : View(r)[k].position < req[r].excluded
    BY <1>3, <1>4 DEF Working, Adding
<1>6. View(r) \in [Items -> Row]
    BY ViewIsALane DEF Inv
<1>7. Apart([View(r) EXCEPT ![i] = row])
    BY <1>2, <1>5, <1>6, ApartAfterWrite
<1>8. CASE req[r].whole
    <2> DEFINE q == [req[r] EXCEPT !.at = IF req[r].next = Len(req[r].list) THEN "commit" ELSE "place",
                                   !.next = req[r].next + 1, !.excluded = 0]
    <2>7. /\ tx' = [tx EXCEPT ![r][i] = row] /\ lane' = lane
          /\ req' = [req EXCEPT ![r].at = IF req[r].next = Len(req[r].list) THEN "commit" ELSE "place",
                                ![r].next = @ + 1, ![r].excluded = 0]
        BY <1>1, <1>8, WriteFacts
    <2>1. req' = [req EXCEPT ![r] = q] /\ tx' = [tx EXCEPT ![r][i] = row] /\ lane' = lane
        BY <2>7, Types DEF Inv
    <2>2. q.at \in {"place", "commit"}
        BY Types DEF Inv, Asking
    <2> HIDE DEF q
    <2>3. req'[r] = q /\ \A s \in Requests \ {r} : req'[s].at = "idle"
        BY <1>3, <2>1, GoesOnAlone
    <2>4. View(r)' = [View(r) EXCEPT ![i] = row]
        BY <1>2, <2>1, Types DEF View, Inv
    <2>5. Apart(View(r))' /\ Apart(lane)'
        <3>1. Apart(View(r)') /\ Apart(lane')
            BY <1>5, <1>7, <2>1, <2>4
        <3> QED BY <3>1 DEF Apart
    <2>6. Working(r)'
        BY <2>2, <2>3, <2>5 DEF Working
    <2> QED BY <2>2, <2>3, <2>6, PlacesAfter
<1>9. CASE ~req[r].whole
    <2>1. req' = [req EXCEPT ![r] = Idle] /\ lane' = [lane EXCEPT ![i] = row]
        BY <1>1, <1>9, WriteFacts
    <2>2. req'[r] = Idle /\ \A s \in Requests \ {r} : req'[s].at = "idle"
        BY <1>3, <2>1, GoesOnAlone
    <2>3. View(r) = lane
        BY <1>9, AloneSeesTheLane, Types DEF View, Inv
    <2>4. Apart(lane')
        BY <1>7, <2>1, <2>3
    <2> QED BY <2>2, <2>4, IdleIsAsking, PlacesAfter
<1> QED BY <1>8, <1>9

LEMMA CommitPlaces ==
    ASSUME Inv, PlaceInv, NEW r \in Requests, Commit(r)
    PROVE  PlaceInv'
<1>1. req' = [req EXCEPT ![r] = Idle] /\ lane' = View(r) /\ req[r].at = "commit"
    BY DEF Commit
<1>2. Working(r) /\ req'[r] = Idle /\ \A s \in Requests \ {r} : req'[s].at = "idle"
    BY <1>1, GoesOnAlone
<1>3. Apart(lane')
    BY <1>1, <1>2 DEF Working, Adding
<1> QED BY <1>2, <1>3, IdleIsAsking, PlacesAfter

LEMMA NearPlaces ==
    ASSUME Inv, IdInv, PlaceInv, NEW r \in Requests, Near(r)
    PROVE  PlaceInv'
<1>1. req[r].at = "near" /\ tx' = tx /\ lane' = lane
    BY DEF Near
<1>2. Working(r)
    BY <1>1 DEF PlaceInv
<1>3. Apart(lane) /\ Marks(lane, req[r].here)
    BY <1>1, <1>2 DEF Working
<1>4. CASE req' = [req EXCEPT ![r] = Idle]
    <2>1. req'[r] = Idle /\ \A s \in Requests \ {r} : req'[s].at = "idle"
        BY <1>1, <1>4, GoesOnAlone
    <2> QED BY <1>1, <1>3, <2>1, IdleIsAsking, PlacesAfter
<1>5. ASSUME NEW i \in Nearest(r),
             req' = [req EXCEPT ![r].at = "first",
                                ![r].near = [id |-> lane[i].id, position |-> lane[i].position]]
      PROVE  PlaceInv'
    <2> DEFINE e == [id |-> lane[i].id, position |-> lane[i].position]
               q == [req[r] EXCEPT !.at = "first", !.near = e]
    <2>1. i \in Items /\ Present(lane[i])
        BY DEF Nearest, Beyond, Pending
    <2>2. e.position # req[r].here.position
        <3>1. \/ lane[i].position < req[r].here.position
              \/ lane[i].position > req[r].here.position
            BY DEF Nearest, Beyond
        <3>2. lane[i].position \in Nat /\ req[r].here.position \in Nat
            BY <1>1, <2>1, RowFacts, EntryFacts, Types DEF Inv, ReqInv, Known, Asking
        <3> QED BY <3>1, <3>2
    <2>3. e.id = lane[i].id /\ e.position = lane[i].position
        OBVIOUS
    <2> HIDE DEF e
    <2>4. Marks(lane, e)
        BY <1>3, <2>1, <2>3, RowMarks DEF Inv
    <2>5. req' = [req EXCEPT ![r] = q]
        BY <1>5, Types DEF e, Inv
    <2>6. q.at = "first" /\ q.near = e /\ q.here = req[r].here
        BY Types DEF Inv, Asking
    <2> HIDE DEF q
    <2>7. req'[r] = q /\ \A s \in Requests \ {r} : req'[s].at = "idle"
        BY <1>1, <2>5, GoesOnAlone
    <2>8. /\ Apart(lane') /\ Marks(lane', req'[r].here) /\ Marks(lane', req'[r].near)
          /\ req'[r].here.position # req'[r].near.position
        BY <1>1, <1>3, <2>2, <2>4, <2>6, <2>7
    <2>9. Working(r)'
        BY <2>6, <2>7, <2>8 DEF Working, Adding
    <2> QED BY <2>6, <2>7, <2>9, PlacesAfter
<1> QED BY <1>4, <1>5 DEF Near

LEMMA SetPositionFacts ==
    ASSUME TypeOK, NEW id \in Nat \ {0}, NEW position \in Nat \ {0}, SetPosition(id, position)
    PROVE  \A i \in Items :
             /\ lane'[i].id = lane[i].id
             /\ lane[i].id = id => lane'[i].position = position
             /\ lane[i].id # id => lane'[i].position = lane[i].position
<1>1. \A i \in Items : lane[i] \in Row
    BY Types
<1>2. ASSUME NEW i \in Items, lane[i].id = id
      PROVE  lane'[i].id = lane[i].id /\ lane'[i].position = position
    <2>1. lane[i] \in [id : Nat \ {0}, position : Nat \ {0}, done : BOOLEAN]
        BY <1>1, <1>2, RowFacts DEF Present
    <2>2. lane'[i] = [lane[i] EXCEPT !.position = position]
        BY <1>2 DEF SetPosition
    <2> QED BY <2>1, <2>2
<1>3. ASSUME NEW i \in Items, lane[i].id # id
      PROVE  lane'[i] = lane[i]
    BY <1>3 DEF SetPosition
<1> QED BY <1>2, <1>3

LEMMA FirstPlaces ==
    ASSUME Inv, IdInv, PlaceInv, NEW r \in Requests, First(r)
    PROVE  PlaceInv'
<1> DEFINE here == req[r].here
           near == req[r].near
           q == [req[r] EXCEPT !.at = "second"]
<1>1. req' = [req EXCEPT ![r] = q] /\ req[r].at = "first" /\ SetPosition(here.id, near.position)
    BY Types DEF First, Inv
<1>2. q.at = "second" /\ q.here = here /\ q.near = near
    BY Types DEF Inv, Asking
<1> HIDE DEF q
<1>3. Working(r) /\ req'[r] = q /\ \A s \in Requests \ {r} : req'[s].at = "idle"
    BY <1>1, GoesOnAlone
<1>4. Apart(lane) /\ Marks(lane, here) /\ Marks(lane, near) /\ here.position # near.position
    BY <1>1, <1>3 DEF Working
<1>5. here.id \in Nat \ {0} /\ near.position \in Nat \ {0}
    BY <1>1, EntryFacts, Types DEF Inv, ReqInv, Known, Asking
<1> HIDE DEF here, near
<1>6. \A i \in Items :
         /\ lane'[i].id = lane[i].id
         /\ lane[i].id = here.id => lane'[i].position = near.position
         /\ lane[i].id # here.id => lane'[i].position = lane[i].position
    BY <1>1, <1>5, SetPositionFacts DEF Inv
<1>7. ASSUME NEW i \in Items, Present(lane'[i])
      PROVE  /\ lane'[i].position # here.position
             /\ lane'[i].id \in {here.id, near.id} <=> lane'[i].position = near.position
    <2>1. Present(lane[i])
        BY <1>6, <1>7 DEF Present
    <2>2. /\ lane[i].id = here.id <=> lane[i].position = here.position
          /\ lane[i].id = near.id <=> lane[i].position = near.position
        BY <1>4, <2>1 DEF Marks
    <2> QED BY <1>4, <1>6, <2>2
<1>8. ASSUME NEW i \in Items, NEW j \in Items, i # j, Present(lane'[i]), Present(lane'[j]),
             lane'[i].position = lane'[j].position
      PROVE  lane'[i].position = near.position
    <2>1. Present(lane[i]) /\ Present(lane[j])
        BY <1>6, <1>8 DEF Present
    <2>2. lane[i].position # lane[j].position
        BY <1>4, <1>8, <2>1 DEF Apart
    <2> QED BY <1>6, <1>8, <2>2
<1>9. Halfway(lane', here, near)
    BY <1>4, <1>7, <1>8 DEF Halfway
<1>10. Working(r)'
    BY <1>2, <1>3, <1>9 DEF Working, Adding
<1> QED BY <1>2, <1>3, <1>10, PlacesAfter

LEMMA SecondPlaces ==
    ASSUME Inv, IdInv, PlaceInv, NEW r \in Requests, Second(r)
    PROVE  PlaceInv'
<1> DEFINE here == req[r].here
           near == req[r].near
<1>1. req' = [req EXCEPT ![r] = Idle] /\ req[r].at = "second" /\ SetPosition(near.id, here.position)
    BY DEF Second
<1>2. Working(r) /\ req'[r] = Idle /\ \A s \in Requests \ {r} : req'[s].at = "idle"
    BY <1>1, GoesOnAlone
<1>3. Halfway(lane, here, near)
    BY <1>1, <1>2 DEF Working
<1>4. near.id \in Nat \ {0} /\ here.position \in Nat \ {0}
    BY <1>1, EntryFacts, Types DEF Inv, ReqInv, Known, Asking
<1> HIDE DEF here, near
<1>5. \A i \in Items :
         /\ lane'[i].id = lane[i].id
         /\ lane[i].id = near.id => lane'[i].position = here.position
         /\ lane[i].id # near.id => lane'[i].position = lane[i].position
    BY <1>1, <1>4, SetPositionFacts DEF Inv
<1>6. \A i, j \in Items : i # j /\ Present(lane[i]) => lane[i].id # lane[j].id
    BY DEF IdInv, Ids, Present
<1>7. ASSUME NEW i \in Items, NEW j \in Items, i # j, Present(lane'[i]), Present(lane'[j]),
             lane'[i].position = lane'[j].position
      PROVE  FALSE
    <2>1. Present(lane[i]) /\ Present(lane[j]) /\ lane[i].id # lane[j].id
        BY <1>5, <1>6, <1>7 DEF Present
    <2>2. lane[i].position # here.position /\ lane[j].position # here.position
        BY <1>3, <2>1 DEF Halfway
    <2>3. lane[i].id # near.id /\ lane[j].id # near.id
        BY <1>5, <1>7, <2>1, <2>2
    <2>4. lane[i].position = lane[j].position
        BY <1>5, <1>7, <2>3
    <2>5. lane[i].position = near.position /\ lane[j].position = near.position
        BY <1>3, <1>7, <2>1, <2>4 DEF Halfway
    <2>6. lane[i].id = here.id /\ lane[j].id = here.id
        BY <1>3, <2>1, <2>3, <2>5 DEF Halfway
    <2> QED BY <2>1, <2>6
<1>8. Apart(lane')
    BY <1>7 DEF Apart
<1> QED BY <1>2, <1>8, IdleIsAsking, PlacesAfter

\* A request that is rolled back before it has moved half of anything.
LEMMA RollbackPlaces ==
    ASSUME Inv, PlaceInv, NEW r \in Requests, req[r].at # "idle", Rollback(r), ~crossed'
    PROVE  PlaceInv'
<1>1. req' = [req EXCEPT ![r] = Idle] /\ lane' = lane /\ req[r].at # "second"
    BY DEF Rollback
<1>2. Working(r) /\ req'[r] = Idle /\ \A s \in Requests \ {r} : req'[s].at = "idle"
    BY <1>1, GoesOnAlone
<1>3. req[r].at \in Adding \cup {"near", "first"}
    BY <1>1, Types DEF Inv, Asking, Steps, Adding
<1>4. Apart(lane')
    BY <1>1, <1>2, <1>3 DEF Working
<1> QED BY <1>2, <1>4, IdleIsAsking, PlacesAfter

\* Rows that go, or are finished or put back, give nobody else a place.
LEMMA ChangePlaces ==
    ASSUME Inv, PlaceInv, req' = req, tx' = tx,
           \A i \in Items : \/ lane'[i] = Absent
                            \/ lane'[i].id = lane[i].id /\ lane'[i].position = lane[i].position
    PROVE  PlaceInv'
<1>2. \A i \in Items : Present(lane'[i]) =>
         Present(lane[i]) /\ lane'[i].id = lane[i].id /\ lane'[i].position = lane[i].position
    BY AbsentIsARow DEF Present
<1>3. Apart(lane) => Apart(lane')
    BY <1>2 DEF Apart
<1>4. AtRest' => Apart(lane)'
    BY <1>3 DEF PlaceInv, AtRest
<1>5. ASSUME NEW r \in Requests, req[r].at # "idle"
      PROVE  Working(r)'
    <2>1. Working(r)
        BY <1>5 DEF PlaceInv
    <2>2. \A i \in Items : \/ View(r)'[i] = Absent
                           \/ View(r)'[i].id = View(r)[i].id /\ View(r)'[i].position = View(r)[i].position
        BY DEF View
    <2>3. \A i \in Items : Present(View(r)'[i]) =>
             Present(View(r)[i]) /\ View(r)'[i].position = View(r)[i].position
        BY <2>2, AbsentIsARow DEF Present
    <2>4. Apart(View(r)) => Apart(View(r)')
        BY <2>3, Zenon DEF Apart
    <2>5. req[r].at \in Adding => Apart(View(r))' /\ Apart(lane)'
        <3>1. req[r].at \in Adding => Apart(View(r)') /\ Apart(lane')
            BY <1>3, <2>1, <2>4 DEF Working
        <3> QED BY <3>1 DEF Apart
    <2>6. req[r].at = "write" => \A i \in Items : View(r)'[i].position < req[r].excluded
        <3> SUFFICES ASSUME req[r].at = "write", NEW i \in Items
                     PROVE  View(r)'[i].position < req[r].excluded
            OBVIOUS
        <3>1. View(r)[i].position < req[r].excluded
            BY <2>1 DEF Working
        <3>2. 0 < req[r].excluded
            BY Types DEF Inv, ReqInv, Known, Asking
        <3> QED BY <2>2, <3>1, <3>2, AbsentIsARow
    <2>7. req[r].at \in {"near", "first"} => Marks(lane', req[r].here)
        BY <1>2, <2>1 DEF Working, Marks
    <2>8. req[r].at = "first" => Marks(lane', req[r].near)
        BY <1>2, <2>1 DEF Working, Marks
    <2>9. req[r].at = "second" => Halfway(lane', req[r].here, req[r].near)
        BY <1>2, <2>1 DEF Working, Halfway
    <2>10. \A s \in Requests \ {r} : req'[s].at = "idle"
        BY <2>1 DEF Working
    <2>11. /\ req[r].at \in {"near", "first"} => Apart(lane')
           /\ req[r].at = "first" => req[r].here.position # req[r].near.position
        BY <1>3, <2>1 DEF Working
    <2> QED BY <2>5, <2>6, <2>7, <2>8, <2>9, <2>10, <2>11 DEF Working
<1> QED BY <1>4, <1>5 DEF PlaceInv

LEMMA InitPlaces ==
    ASSUME Init
    PROVE  Apartness
<1>1. Apart(lane)
    BY QueueAssumption DEF Init, Apart, Present
<1>2. \A r \in Requests : req[r].at = "idle"
    BY IdleIsAsking DEF Init
<1> QED BY <1>1, <1>2 DEF Apartness, PlaceInv

LEMMA NextPlaces ==
    ASSUME Inv, IdInv, Apartness, [Next]_vars
    PROVE  Apartness'
<1> SUFFICES ASSUME ~crossed'
             PROVE  PlaceInv'
    BY DEF Apartness
<1>1. ~crossed \/ UNCHANGED vars
    BY DEF Next, Add, AddMany, Move, Starts, Step, Place, Write, Commit, Deadlocked, BreaksOff,
           Rollback, Near, First, Second, RemoveEntry, SetDone, Changes, CutStep, Delete,
           CommitCut, CutDeadlocked, CutBreaksOff, RollbackCut, RemoveMany, Clear, StartCut
<1>2. CASE UNCHANGED vars
    BY <1>2 DEF vars, Apartness, PlaceInv, AtRest, Apart, Working, View, Marks, Halfway
<1>3. CASE ~crossed /\ Next
    <2>1. PlaceInv
        BY <1>3 DEF Apartness
    <2>2. ASSUME NEW r \in Requests, NEW i \in Items, Add(r, i)
          PROVE  PlaceInv'
        BY <2>2, AddPlaces
    <2>3. ASSUME NEW r \in Requests, NEW i \in Items, NEW up \in BOOLEAN, Move(r, i, up)
          PROVE  PlaceInv'
        BY <2>3, MovePlaces
    <2>4. ASSUME NEW r \in Requests, NEW list \in RunningOrders, AddMany(r, list)
          PROVE  PlaceInv'
        BY <2>4, AddPlaces
    <2>5. ASSUME NEW r \in Requests, Step(r)
          PROVE  PlaceInv'
        <3>1. CASE Deadlocked(r)
            <4>1. req[r].at = "write" /\ Rollback(r)
                BY <3>1 DEF Deadlocked, InCircle, WaitsFor, Wants
            <4> QED BY <2>1, <4>1, RollbackPlaces
        <3> QED BY <2>1, <2>5, <3>1, PlacePlaces, WritePlaces, CommitPlaces, NearPlaces,
                   FirstPlaces, SecondPlaces DEF Step
    <2>6. ASSUME NEW r \in Requests, BreaksOff(r)
          PROVE  PlaceInv'
        BY <2>1, <2>6, RollbackPlaces DEF BreaksOff
    <2>7. ASSUME req' = req, tx' = tx,
                 \A k \in Items : lane'[k] \in {lane[k], Absent}
          PROVE  PlaceInv'
        <3>1. \A k \in Items : \/ lane'[k] = Absent
                               \/ lane'[k].id = lane[k].id /\ lane'[k].position = lane[k].position
            BY <2>7
        <3> QED BY <2>1, <2>7, <3>1, ChangePlaces
    <2>9. ASSUME NEW i \in Items, RemoveEntry(i)
          PROVE  PlaceInv'
        <3>1. \A k \in Items : lane'[k] \in {lane[k], Absent}
            BY <2>9, Types DEF RemoveEntry, Inv
        <3> QED BY <2>7, <2>9, <3>1 DEF RemoveEntry, Changes
    <2>10. ASSUME NEW q \in Removers,
                  \/ CutStep(q) \/ CutBreaksOff(q)
                  \/ \E list \in RunningOrders : RemoveMany(q, list)
                  \/ \E onlyDone \in BOOLEAN : Clear(q, onlyDone)
           PROVE  PlaceInv'
        <3>1. req' = req /\ tx' = tx
            BY <2>10 DEF CutStep, Delete, CommitCut, CutDeadlocked, CutBreaksOff, RollbackCut,
                         RemoveMany, Clear, StartCut, Changes
        <3>2. CASE CommitCut(q)
            <4>1. \A k \in Items : lane'[k] \in {lane[k], Absent}
                BY <3>2 DEF CommitCut
            <4> QED BY <2>7, <3>1, <4>1
        <3>3. CASE ~CommitCut(q)
            <4>1. lane' = lane
                BY <2>10, <3>3 DEF CutStep, Delete, CutDeadlocked, CutBreaksOff, RollbackCut,
                                   RemoveMany, Clear, StartCut
            <4> QED BY <2>7, <3>1, <4>1
        <3> QED BY <3>2, <3>3
    <2>8. ASSUME NEW i \in Items, NEW done \in BOOLEAN, SetDone(i, done)
          PROVE  PlaceInv'
        <3>1. lane[i] \in [id : Nat \ {0}, position : Nat \ {0}, done : BOOLEAN]
            BY <2>8, RowFacts, Types DEF Inv, SetDone
        <3>2. \A k \in Items : lane'[k].id = lane[k].id /\ lane'[k].position = lane[k].position
            BY <2>8, <3>1, Types DEF Inv, SetDone
        <3> QED BY <2>1, <2>8, <3>2, ChangePlaces DEF SetDone, Changes
    <2> QED BY <1>3, <2>2, <2>3, <2>4, <2>5, <2>6, <2>8, <2>9, <2>10 DEF Next
<1> QED BY <1>1, <1>2, <1>3

\* 0018_queue.sql: for any lanes, as long as one request that adds or moves is
\* answered before the next begins, no two entries end up at one place, whatever
\* is finished, put back or removed in between.
THEOREM OneAfterAnother == Spec => []PlacesAreDistinct
<1>1. Init => IdInv /\ Apartness
    BY InitIds, InitPlaces
<1>2. Inv /\ IdInv /\ Apartness /\ [Next]_vars => IdInv' /\ Apartness'
    BY NextIds, NextPlaces
<1>3. Apartness => PlacesAreDistinct
    BY DEF Apartness, PlaceInv, Apart, PlacesAreDistinct
<1> QED BY <1>1, <1>2, <1>3, Inductive, PTL DEF Spec
=============================================================================
