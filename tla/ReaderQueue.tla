---------------------------- MODULE ReaderQueue -----------------------------
(***************************************************************************)
(* One lane of one reader's queue, packages/db/src/queue.js, while several *)
(* requests of that reader (a tab, the player, an agent) are served at     *)
(* once.  Statements go straight to Postgres and see what is committed     *)
(* when they start; a batch is a transaction that shows at its commit and  *)
(* holds the rows it has written until then.                               *)
(***************************************************************************)
EXTENDS Naturals, Sequences, SequencesExt, FiniteSets, FiniteSetsExt

CONSTANTS Items,
          Requests,    \* those that add or move
          Removers,    \* those that take out several
          RunningOrders, \* what is handed over to a batch
          Lanes,       \* the lanes to begin with
          MaxAsked,    \* bound: requests that add or move
          MaxChanges,  \* bound: requests that take out or finish
          MaxMishaps   \* bound: connections lost, processes that die

VARIABLES lane,     \* lane[i]: the committed row of an item
          tx,       \* tx[r]: what r's transaction wrote and still holds locked
          req,      \* what each request is at
          cut,      \* what each removal is at: the items to go, and those it has deleted
          issued,   \* row ids given out
          asked, changes, mishaps,
          crossed   \* two requests that add or move overlapped, or a move broke off halfway

vars == <<lane, tx, req, cut, issued, asked, changes, mishaps, crossed>>

Absent == [id |-> 0, position |-> 0, done |-> FALSE]
Nobody == [id |-> 0, position |-> 0]
Idle == [at |-> "idle", whole |-> FALSE, list |-> <<>>, next |-> 1, excluded |-> 0,
         here |-> Nobody, near |-> Nobody, up |-> FALSE]

NotCut == [at |-> "idle", list |-> <<>>, onlyDone |-> FALSE, gone |-> {}]

Row == {Absent} \cup [id : Nat \ {0}, position : Nat \ {0}, done : BOOLEAN]
Entry == {Nobody} \cup [id : Nat \ {0}, position : Nat \ {0}]

\* Added one after another: no two rows share a place or an id.
ASSUME QueueAssumption ==
    /\ IsFiniteSet(Items)
    /\ Requests \cap Removers = {}
    /\ \A list \in RunningOrders :
          /\ list \in Seq(Items) /\ list # <<>>
          /\ \A m, n \in 1 .. Len(list) : list[m] = list[n] => m = n
    /\ MaxAsked \in Nat /\ MaxChanges \in Nat /\ MaxMishaps \in Nat
    /\ Lanes \subseteq [Items -> Row]
    /\ \A rows \in Lanes : \A i, j \in Items :
          i # j /\ rows[i].id # 0 /\ rows[j].id # 0
            => rows[i].id # rows[j].id /\ rows[i].position # rows[j].position

TypeOK ==
    /\ lane \in [Items -> Row]
    /\ tx \in [Requests -> [Items -> Row]]
    /\ req \in [Requests -> [at : {"idle", "place", "write", "commit", "near", "first", "second"},
                             whole : BOOLEAN, list : Seq(Items), next : Nat, excluded : Nat,
                             here : Entry, near : Entry, up : BOOLEAN]]
    /\ cut \in [Removers -> [at : {"idle", "delete", "commit"}, list : Seq(Items),
                             onlyDone : BOOLEAN, gone : SUBSET Items]]
    /\ issued \in Nat
    /\ asked \in Nat /\ changes \in Nat /\ mishaps \in Nat
    /\ crossed \in BOOLEAN

-----------------------------------------------------------------------------
Present(row) == row.id # 0
Pending(row) == Present(row) /\ ~row.done

\* A transaction sees its own writes over what is committed.
View(r) == [i \in Items |-> IF Present(tx[r][i]) THEN tx[r][i] ELSE lane[i]]

\* A transaction holds the rows it has written or deleted, or is about to show.
Transactions == Requests \cup Removers
Holds(t, i) == IF t \in Requests THEN Present(tx[t][i]) ELSE i \in cut[t].gone
Free(t, i) == \A u \in Transactions \ {t} : ~Holds(u, i)
Unlocked(i) == \A u \in Transactions : ~Holds(u, i)

\* What a transaction's next statement needs: a delete finds committed rows only.
Wants(t, i) ==
    IF t \in Requests THEN req[t].at = "write" /\ i = req[t].list[req[t].next]
    ELSE cut[t].at = "delete" /\ i = Head(cut[t].list) /\ Present(lane[i])

WaitsFor(t, u) == t # u /\ \E i \in Items : Wants(t, i) /\ Holds(u, i)

\* Transactions that wait for each other's rows in a circle: Postgres fails one.
InCircle(t) ==
    /\ \E u \in Transactions : WaitsFor(t, u)
    /\ \E C \in SUBSET Transactions :
          /\ t \in C
          /\ \A u \in C : (\E v \in C : WaitsFor(u, v)) /\ (\E v \in C : WaitsFor(v, u))

\* "coalesce(max(position), 0) + 1", finished rows included.
NextPosition_OfPending(rows) ==
    Max({0} \cup {rows[i].position : i \in {j \in Items : Pending(rows[j])}}) + 1
NextPosition(rows) == Max({0} \cup {rows[i].position : i \in Items}) + 1

\* What "insert ... on conflict do update" leaves.
Upserted_AtTheEnd(row, excluded) ==
    IF Present(row) THEN [row EXCEPT !.position = excluded, !.done = FALSE]
    ELSE [id |-> issued + 1, position |-> excluded, done |-> FALSE]
Upserted(row, excluded) ==
    IF ~Present(row) THEN [id |-> issued + 1, position |-> excluded, done |-> FALSE]
    ELSE IF row.done THEN [row EXCEPT !.position = excluded, !.done = FALSE]
    ELSE row

Starts(r) ==
    /\ req[r].at = "idle"
    /\ asked < MaxAsked
    /\ asked' = asked + 1
    /\ crossed' = (crossed \/ \E s \in Requests : req[s].at # "idle")
    /\ UNCHANGED <<lane, tx, cut, issued, changes, mishaps>>

-----------------------------------------------------------------------------
(* add, one statement of its own; addMany, a transaction of several.       *)

Add(r, i) ==
    /\ Starts(r)
    /\ req' = [req EXCEPT ![r] = [Idle EXCEPT !.at = "place", !.list = <<i>>]]

AddMany(r, list) ==
    /\ Starts(r)
    /\ req' = [req EXCEPT ![r] = [Idle EXCEPT !.at = "place", !.whole = TRUE, !.list = list]]

\* The statement starts: the place at the end of what it can see.
Place_BesideTheOthers(r) ==
    /\ req[r].at = "place"
    /\ req' = [req EXCEPT ![r].at = "write", ![r].excluded = NextPosition(lane)]
    /\ UNCHANGED <<lane, tx, cut, issued, asked, changes, mishaps, crossed>>
Place(r) ==
    /\ req[r].at = "place"
    /\ req' = [req EXCEPT ![r].at = "write", ![r].excluded = NextPosition(View(r))]
    /\ UNCHANGED <<lane, tx, cut, issued, asked, changes, mishaps, crossed>>

\* The statement writes, once no other transaction holds the row.
Write(r) ==
    /\ req[r].at = "write"
    /\ LET i == req[r].list[req[r].next]
           row == Upserted(View(r)[i], req[r].excluded)
       IN  /\ Free(r, i)
           /\ issued' = IF row.id > issued THEN row.id ELSE issued
           /\ IF req[r].whole
              THEN /\ tx' = [tx EXCEPT ![r][i] = row]
                   /\ req' = [req EXCEPT ![r].at = IF req[r].next = Len(req[r].list) THEN "commit"
                                                   ELSE "place",
                                         ![r].next = @ + 1, ![r].excluded = 0]
                   /\ UNCHANGED lane
              ELSE /\ lane' = [lane EXCEPT ![i] = row]
                   /\ req' = [req EXCEPT ![r] = Idle]
                   /\ UNCHANGED tx
    /\ UNCHANGED <<cut, asked, changes, mishaps, crossed>>

NoWrites == [i \in Items |-> Absent]

Commit(r) ==
    /\ req[r].at = "commit"
    /\ lane' = View(r)
    /\ tx' = [tx EXCEPT ![r] = NoWrites]
    /\ req' = [req EXCEPT ![r] = Idle]
    /\ UNCHANGED <<cut, issued, asked, changes, mishaps, crossed>>

\* pg.js, batch: whatever fails, the transaction is rolled back.
Rollback_KeepsLocks(r) ==
    /\ req' = [req EXCEPT ![r] = Idle]
    /\ crossed' = (crossed \/ req[r].at = "second")
    /\ UNCHANGED <<lane, tx, cut, issued, asked, changes>>
Rollback(r) ==
    /\ tx' = [tx EXCEPT ![r] = NoWrites]
    /\ req' = [req EXCEPT ![r] = Idle]
    /\ crossed' = (crossed \/ req[r].at = "second")
    /\ UNCHANGED <<lane, cut, issued, asked, changes>>

Deadlocked(r) ==
    /\ InCircle(r)
    /\ Rollback(r)
    /\ UNCHANGED mishaps

\* The connection is lost, or the process dies.
BreaksOff(r) ==
    /\ req[r].at # "idle"
    /\ mishaps < MaxMishaps
    /\ mishaps' = mishaps + 1
    /\ Rollback(r)

-----------------------------------------------------------------------------
(* move: two reads and two updates, no transaction around them.            *)

\* The entry's own place, if it is still waiting.
Move(r, i, up) ==
    /\ Starts(r)
    /\ Present(lane[i])
    /\ req' = IF lane[i].done THEN req
              ELSE [req EXCEPT ![r] = [Idle EXCEPT !.at = "near", !.up = up,
                              !.here = [id |-> lane[i].id, position |-> lane[i].position]]]

\* The pending entries on the side it is sent to, nearest first.
Beyond(r) ==
    {i \in Items : Pending(lane[i]) /\
        IF req[r].up THEN lane[i].position < req[r].here.position
                     ELSE lane[i].position > req[r].here.position}
Nearest(r) ==
    {i \in Beyond(r) : \A j \in Beyond(r) : IF req[r].up THEN lane[i].position >= lane[j].position
                                            ELSE lane[i].position <= lane[j].position}

Near_Unchecked(r) ==
    /\ req[r].at = "near"
    /\ \/ /\ Nearest(r) = {}
          /\ req' = [req EXCEPT ![r].at = "first"]
       \/ \E i \in Nearest(r) :
             req' = [req EXCEPT ![r].at = "first",
                                ![r].near = [id |-> lane[i].id, position |-> lane[i].position]]
    /\ UNCHANGED <<lane, tx, cut, issued, asked, changes, mishaps, crossed>>
Near(r) ==
    /\ req[r].at = "near"
    /\ \/ /\ Nearest(r) = {}
          /\ req' = [req EXCEPT ![r] = Idle]
       \/ \E i \in Nearest(r) :
             req' = [req EXCEPT ![r].at = "first",
                                ![r].near = [id |-> lane[i].id, position |-> lane[i].position]]
    /\ UNCHANGED <<lane, tx, cut, issued, asked, changes, mishaps, crossed>>

\* "update ... set position where id": the row may be gone, or locked for now.
SetPosition(id, position) ==
    /\ \A i \in Items : lane[i].id = id => Unlocked(i)
    /\ lane' = [i \in Items |-> IF lane[i].id = id THEN [lane[i] EXCEPT !.position = position]
                                ELSE lane[i]]

First(r) ==
    /\ req[r].at = "first"
    /\ SetPosition(req[r].here.id, req[r].near.position)
    /\ req' = [req EXCEPT ![r].at = "second"]
    /\ UNCHANGED <<tx, cut, issued, asked, changes, mishaps, crossed>>

Second(r) ==
    /\ req[r].at = "second"
    /\ SetPosition(req[r].near.id, req[r].here.position)
    /\ req' = [req EXCEPT ![r] = Idle]
    /\ UNCHANGED <<tx, cut, issued, asked, changes, mishaps, crossed>>

-----------------------------------------------------------------------------
(* The requests that take out or finish.                                   *)

Changes ==
    /\ changes < MaxChanges
    /\ changes' = changes + 1
    /\ UNCHANGED <<tx, req, issued, asked, mishaps, crossed>>

\* removeEntry, removeItem: one row, in a statement of its own.
RemoveEntry(i) ==
    /\ Changes
    /\ Present(lane[i]) /\ Unlocked(i)
    /\ lane' = [lane EXCEPT ![i] = Absent]
    /\ UNCHANGED cut

StartCut(q, list, onlyDone) ==
    /\ cut[q].at = "idle"
    /\ Changes
    /\ cut' = [cut EXCEPT ![q] = [NotCut EXCEPT !.at = "delete", !.list = list,
                                                !.onlyDone = onlyDone]]
    /\ UNCHANGED lane

\* removeMany, a delete for each item handed over.
RemoveMany(q, list) == StartCut(q, list, FALSE)

\* clearLane, one delete that meets the rows in any order.
Clear(q, onlyDone) ==
    \E list \in SetToSeqs({i \in Items : Present(lane[i]) /\ (onlyDone => lane[i].done)}) :
        list # <<>> /\ StartCut(q, list, onlyDone)

\* The next row is deleted once no other transaction holds it, if it still is one to go.
Delete(q) ==
    /\ cut[q].at = "delete"
    /\ LET i == Head(cut[q].list) IN
       /\ Present(lane[i]) => Free(q, i)
       /\ cut' = [cut EXCEPT ![q].list = Tail(@),
                             ![q].at = IF Len(cut[q].list) = 1 THEN "commit" ELSE @,
                             ![q].gone = IF Present(lane[i]) /\ (cut[q].onlyDone => lane[i].done)
                                         THEN @ \cup {i} ELSE @]
    /\ UNCHANGED <<lane, tx, req, issued, asked, changes, mishaps, crossed>>

CommitCut(q) ==
    /\ cut[q].at = "commit"
    /\ lane' = [i \in Items |-> IF i \in cut[q].gone THEN Absent ELSE lane[i]]
    /\ cut' = [cut EXCEPT ![q] = NotCut]
    /\ UNCHANGED <<tx, req, issued, asked, changes, mishaps, crossed>>

\* It is rolled back, as the victim of a deadlock or because it broke off.
RollbackCut(q) ==
    /\ cut' = [cut EXCEPT ![q] = NotCut]
    /\ UNCHANGED <<lane, tx, req, issued, asked, changes, crossed>>

CutDeadlocked(q) ==
    /\ InCircle(q)
    /\ RollbackCut(q)
    /\ UNCHANGED mishaps

CutBreaksOff(q) ==
    /\ cut[q].at # "idle"
    /\ mishaps < MaxMishaps
    /\ mishaps' = mishaps + 1
    /\ RollbackCut(q)

SetDone(i, done) ==
    /\ Changes
    /\ Present(lane[i]) /\ Unlocked(i)
    /\ lane' = [lane EXCEPT ![i].done = done]
    /\ UNCHANGED cut

-----------------------------------------------------------------------------
Init ==
    /\ lane \in Lanes
    /\ issued = Max({0} \cup {lane[i].id : i \in Items})
    /\ tx = [r \in Requests |-> NoWrites]
    /\ req = [r \in Requests |-> Idle]
    /\ cut = [q \in Removers |-> NotCut]
    /\ asked = 0 /\ changes = 0 /\ mishaps = 0
    /\ crossed = FALSE

Step(r) ==
    \/ Place(r) \/ Write(r) \/ Commit(r) \/ Deadlocked(r)
    \/ Near(r) \/ First(r) \/ Second(r)

CutStep(q) == Delete(q) \/ CommitCut(q) \/ CutDeadlocked(q)

Next ==
    \/ \E r \in Requests, i \in Items : Add(r, i) \/ \E up \in BOOLEAN : Move(r, i, up)
    \/ \E r \in Requests, list \in RunningOrders : AddMany(r, list)
    \/ \E r \in Requests : Step(r) \/ BreaksOff(r)
    \/ \E q \in Removers : CutStep(q) \/ CutBreaksOff(q)
    \/ \E q \in Removers, onlyDone \in BOOLEAN : Clear(q, onlyDone)
    \/ \E q \in Removers, list \in RunningOrders : RemoveMany(q, list)
    \/ \E i \in Items : RemoveEntry(i) \/ \E done \in BOOLEAN : SetDone(i, done)

Spec == Init /\ [][Next]_vars

\* A statement that can run is run.
FairSpec ==
    /\ Spec
    /\ \A r \in Requests : WF_vars(Step(r))
    /\ \A q \in Removers : WF_vars(CutStep(q))

-----------------------------------------------------------------------------
(* Properties.                                                             *)

AtRest == \A r \in Requests : req[r].at = "idle"

\* 0018_queue.sql, "assigned max+1": as long as no two requests that add or move
\* overlapped and no move broke off halfway, no two rows share a place, whatever was
\* finished, put back or removed in between, and in the middle of an addition.
PlacesAreDistinct ==
    AtRest /\ ~crossed =>
        \A i, j \in Items : i # j /\ Present(lane[i]) /\ Present(lane[j])
            => lane[i].position # lane[j].position

\* queue.js, add: adding something that waits already keeps its place.  The only
\* thing that gives a waiting entry another place is a move, whoever overlaps.
WaitingKeepsItsPlace ==
    [][\A i \in Items :
          Pending(lane[i]) /\ lane'[i].id = lane[i].id /\ lane'[i].position # lane[i].position
            => \E r \in Requests : req[r].at \in {"first", "second"}]_vars

\* queue.js, addMany: what a batch puts at the end of the lane stands there in
\* the order it was handed over, whatever is added or taken out beside it.
HandedOrderIsKept ==
    \A r \in Requests : req[r].at = "commit" =>
        \A m, n \in 1 .. Len(req[r].list) :
            LET i == req[r].list[m]  j == req[r].list[n] IN
            m < n /\ ~Pending(lane[i]) /\ ~Pending(lane[j])
                => tx[r][i].position < tx[r][j].position

\* Every request is answered, though batches that add and batches that take out may
\* wait for each other's rows.
RequestsEnd ==
    /\ \A r \in Requests : req[r].at # "idle" ~> req[r].at = "idle"
    /\ \A q \in Removers : cut[q].at # "idle" ~> cut[q].at = "idle"
=============================================================================
