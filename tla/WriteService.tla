---------------------------- MODULE WriteService ----------------------------
(***************************************************************************)
(* What client.batch() promises its callers, however the write travels: a  *)
(* write is asked for, transactions commit whole writes, and each caller   *)
(* is told once.  "stored" is only ever said of a committed write, and a   *)
(* write with a bad statement is never part of a transaction.  A refusal   *)
(* promises nothing: the write may have been committed, or may be later.   *)
(***************************************************************************)
EXTENDS Naturals, Sequences

CONSTANTS Writes,   \* calls of batch
          Bad       \* those with a statement the database rejects

VARIABLES log,      \* the committed transactions, each a sequence of writes
          told      \* what each caller knows: new, asked, stored, refused, gone

vars == <<log, told>>

Init == /\ log = <<>>
        /\ told = [w \in Writes |-> "new"]

Ask(w) ==
    /\ told[w] = "new"
    /\ told' = [told EXCEPT ![w] = "asked"]
    /\ UNCHANGED log

\* One transaction commits, of whole writes that were asked for.
Commit ==
    /\ Len(log') = Len(log) + 1
    /\ LET ws == log'[Len(log')] IN
       /\ log' = Append(log, ws)
       /\ ws # <<>>
       /\ \A i \in DOMAIN ws : ws[i] \in Writes \ Bad /\ told[ws[i]] # "new"
    /\ UNCHANGED told

Committed(w) == \E i \in DOMAIN log : \E j \in DOMAIN log[i] : log[i][j] = w

\* Callers hear, or their process ends before they do; each hears once.
Tell ==
    /\ told' \in [Writes -> {"new", "asked", "stored", "refused", "gone"}]
    /\ \A w \in Writes : told'[w] # told[w] =>
          /\ told[w] = "asked"
          /\ told'[w] \in {"stored", "refused", "gone"}
          /\ told'[w] = "stored" => Committed(w)
    /\ UNCHANGED log

Next == (\E w \in Writes : Ask(w)) \/ Commit \/ Tell

Spec == Init /\ [][Next]_vars
=============================================================================
