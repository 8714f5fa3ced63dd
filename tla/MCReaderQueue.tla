--------------------------- MODULE MCReaderQueue ----------------------------
(* ReaderQueue on small instances. *)
EXTENDS ReaderQueue, TLC
CONSTANTS x, y, z, tab, player, agent

Nth(n, done) == [id |-> n, position |-> n, done |-> done]

\* Three waiting; one finished before one that waits; the last one finished.
Beginnings == {x :> Nth(1, FALSE) @@ y :> Nth(2, FALSE) @@ z :> Nth(3, FALSE),
               x :> Nth(1, TRUE) @@ y :> Nth(2, FALSE) @@ z :> Absent,
               x :> Nth(1, FALSE) @@ y :> Nth(2, TRUE) @@ z :> Absent}
\* Two batches that want the same rows in different orders, and one that shares a row.
Orders == {<<x, y>>, <<y, x>>, <<y, z>>}
=============================================================================
