------------------------------- MODULE AlertRota -------------------------------
(***************************************************************************)
(* The order accounts are alerted in: deliverAlerts over usersWithAlerts,  *)
(* packages/notify/src/deliver.js and packages/db/src/alerts.js.           *)
(*                                                                         *)
(* alert_state.updated_at says how long ago an account was considered, and *)
(* a pass takes the accounts considered longest ago.  What a turn does to  *)
(* the account's own rows is AlertDelivery's; here it either completes or  *)
(* throws, and no account's turn is guarded from another's exception.      *)
(***************************************************************************)
EXTENDS Integers, FiniteSets, SequencesExt

CONSTANTS Accounts,
          UsersPerPass,  \* USERS_PER_PASS
          Broken,        \* accounts whose reads throw on every turn
          MaxOutages     \* bound: passes killed

ASSUME ConstantsOK ==
    /\ UsersPerPass \in Nat \ {0}
    /\ Broken \subseteq Accounts
    /\ MaxOutages \in Nat

VARIABLES rota,     \* accounts with an alert_state row, considered longest ago first
          eligible, \* accounts with a bell on and a channel on
          turn,     \* candidates the running pass has left, and whether one runs
          outages,
          last      \* history: the account whose turn last completed

vars == <<rota, eligible, turn, outages, last>>

NoTurn == [running |-> FALSE, left |-> <<>>]

Init ==
    /\ rota = <<>>
    /\ eligible \in SUBSET Accounts
    /\ turn = NoTurn
    /\ outages = 0
    /\ last \in Accounts

\* "order by updated_at is not null, updated_at": accounts never considered
\* come first, in no order of their own, then the longest ago.
Newcomers == eligible \ Range(rota)
Due(order) == SelectSeq(order \o rota, LAMBDA a : a \in eligible)
Candidates(order) == SubSeq(Due(order), 1, IF Len(Due(order)) < UsersPerPass
                                            THEN Len(Due(order)) ELSE UsersPerPass)

StartPass ==
    /\ ~turn.running
    /\ \E order \in SetToSeqs(Newcomers) :
        turn' = [running |-> TRUE, left |-> Candidates(order)]
    /\ UNCHANGED <<rota, eligible, outages, last>>

\* setAlertCursor or touchAlertState: to the back of the rota, with a row.
Touched_InPlace(a) == IF a \in Range(rota) THEN rota ELSE Append(rota, a)
Touched(a) == Append(SelectSeq(rota, LAMBDA b : b # a), a)

\* An account's first turn only writes its row, so there is nothing to throw.
Throws(a) == a \in Broken /\ a \in Range(rota)

TakeTurn ==
    /\ turn.running /\ turn.left # <<>>
    /\ ~Throws(Head(turn.left))
    /\ rota' = Touched(Head(turn.left))
    /\ last' = Head(turn.left)
    /\ turn' = [turn EXCEPT !.left = Tail(@)]
    /\ UNCHANGED <<eligible, outages>>

\* An exception leaves deliverAlerts, and alertTick logs it: the account's row
\* was not touched and the accounts behind it lose their turn.  A killed
\* process ends a pass the same way.
TurnThrows ==
    /\ turn.running /\ turn.left # <<>>
    /\ Throws(Head(turn.left)) \/ outages < MaxOutages
    /\ outages' = IF Throws(Head(turn.left)) THEN outages ELSE outages + 1
    /\ turn' = NoTurn
    /\ UNCHANGED <<rota, eligible, last>>

EndPass ==
    /\ turn.running /\ turn.left = <<>>
    /\ turn' = NoTurn
    /\ UNCHANGED <<rota, eligible, outages, last>>

\* The reader works a bell or a channel.
Switch(a) ==
    /\ eligible' = IF a \in eligible THEN eligible \ {a} ELSE eligible \cup {a}
    /\ UNCHANGED <<rota, turn, outages, last>>

PassStep == StartPass \/ TakeTurn \/ TurnThrows \/ EndPass

Next == PassStep \/ \E a \in Accounts : Switch(a)

Spec == Init /\ [][Next]_vars

\* alertTick runs on a timer and every await of a pass settles.
FairSpec == Spec /\ WF_vars(PassStep)

-----------------------------------------------------------------------------
\* usersWithAlerts walks "a large user base round-robin": an account that stays
\* eligible gets a turn again and again, whatever the others do.
EveryAccountGetsTurns ==
    \A a \in Accounts \ Broken : <>[](a \in eligible) => []<>(last = a)
=============================================================================
