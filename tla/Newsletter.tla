------------------------------ MODULE Newsletter ------------------------------
(***************************************************************************)
(* The weekly digest: packages/notify/src/newsletter.js runNewsletter and  *)
(* the storage under it, packages/db/src/newsletter.js.                    *)
(*                                                                         *)
(* A sender is anything that runs a pass: the poller's newsletterTick and  *)
(* the admin route /api/v1/newsletter/send, which share nothing but the    *)
(* database.  Every await of a pass is a point where another sender, a     *)
(* reader's unsubscribe click or a crash may come between two steps, so a  *)
(* step here is one statement sent to the database, or one mail.           *)
(***************************************************************************)
EXTENDS Integers, FiniteSets

CONSTANTS Senders,     \* processes that may run a pass
          Readers,     \* accounts, numbered in the order they were created
          LastWeek,    \* bound: ISO weeks are numbered 1..LastWeek
          Texts,       \* what a built issue may say
          NoText,      \* the week has no row in newsletter_issues
          Limit,       \* NEWSLETTER_BATCH: readers per pass
          Forces,      \* values of opts.force callers pass
          MaxOutages   \* bound: how many passes may be cut short

ASSUME ConstantsOK ==
    /\ Readers \subseteq Nat /\ IsFiniteSet(Readers)
    /\ LastWeek \in Nat \ {0}
    /\ NoText \notin Texts
    /\ Limit \in Nat
    /\ Forces \subseteq BOOLEAN
    /\ MaxOutages \in Nat

VARIABLES clock,     \* [week, phase]: where now falls against the slot
          text,      \* newsletter_issues: the text stored for a week
          finished,  \* newsletter_issues.finished_at is set
          sentCount, \* newsletter_issues.sent_count
          sends,     \* newsletter_sends: the status of a week's row for a reader
          listed,    \* readers with users.newsletter = 1 and a real address
          pass,      \* the locals of each sender's pass
          outages,   \* passes cut short so far
          steady,    \* history: listed from the start and never changed
          mailed,    \* history: copies of a week's digest a reader received
          told       \* history: the texts that reached anybody, by week

vars == <<clock, text, finished, sentCount, sends, listed, pass, outages,
          steady, mailed, told>>
rows == <<text, finished, sentCount, sends>>
world == <<clock, listed, steady>>
history == <<mailed, told>>

Weeks == 1..LastWeek
Phase == {"before", "open", "late"}
Status == {"none", "sending", "sent", "failed"}
Stage == {"idle", "look", "build", "readback", "pending", "claim", "send", "finish"}

Idle == [at |-> "idle", week |-> 1, mayStart |-> FALSE,
         issue |-> NoText, batch |-> {}, full |-> FALSE, reader |-> 0, ok |-> FALSE]

Pass == [at : Stage, week : Weeks, mayStart : BOOLEAN, issue : Texts \cup {NoText},
         batch : SUBSET Readers, full : BOOLEAN, reader : Readers \cup {0}, ok : BOOLEAN]

Init ==
    /\ clock = [week |-> 1, phase |-> "before"]
    /\ text = [w \in Weeks |-> NoText]
    /\ finished = [w \in Weeks |-> FALSE]
    /\ sentCount = [w \in Weeks |-> 0]
    /\ sends = [w \in Weeks |-> [r \in Readers |-> "none"]]
    /\ listed \in SUBSET Readers
    /\ pass = [s \in Senders |-> Idle]
    /\ outages = 0
    /\ steady = listed
    /\ mailed = [w \in Weeks |-> [r \in Readers |-> 0]]
    /\ told = [w \in Weeks |-> {}]

-----------------------------------------------------------------------------
\* A definition Name_Flaw, here and in the other modules, is Name with a slip in
\* it; nothing uses it but the runs that show a property would notice the slip.

\* runNewsletter, one pass of it, from the clock it reads to closeIssue.

Become(s, p) == pass' = [pass EXCEPT ![s] = p]

\* A fresh week may start inside the window, or when the caller forces it.
MayStart(force) == force \/ clock.phase # "late"

\* Before the slot only a forced pass goes on ("waiting").
Begin(s) ==
    /\ pass[s].at = "idle"
    /\ \E force \in Forces :
        /\ force \/ clock.phase # "before"
        /\ Become(s, [Idle EXCEPT !.at = "look", !.week = clock.week,
                                   !.mayStart = MayStart(force)])
    /\ UNCHANGED <<rows, world, history, outages>>

\* issueFor, and the early returns it decides: "missed-window" and "sent".
LookUp(s) ==
    LET w == pass[s].week IN
    /\ pass[s].at = "look"
    /\ \/ /\ text[w] = NoText /\ pass[s].mayStart
          /\ Become(s, [pass[s] EXCEPT !.at = "build"])
       \/ /\ text[w] # NoText /\ ~finished[w]
          /\ Become(s, [pass[s] EXCEPT !.at = "pending", !.issue = text[w]])
       \/ /\ IF text[w] = NoText THEN ~pass[s].mayStart ELSE finished[w]
          /\ Become(s, Idle)
    /\ UNCHANGED <<rows, world, history, outages>>

\* digestData and renderIssue: an empty issue is dropped ("nothing-to-say"),
\* anything else goes to the insert of saveIssue, which keeps a stored issue.
StoreIssue_Replaces(w, t) == text' = [text EXCEPT ![w] = t]
StoreIssue(w, t) == text' = [text EXCEPT ![w] = IF @ = NoText THEN t ELSE @]

Build(s) ==
    /\ pass[s].at = "build"
    /\ \/ /\ Become(s, Idle)
          /\ UNCHANGED text
       \/ \E t \in Texts :
          /\ StoreIssue(pass[s].week, t)
          /\ Become(s, [pass[s] EXCEPT !.at = "readback", !.issue = t])
    /\ UNCHANGED <<finished, sentCount, sends, world, history, outages>>

\* What is mailed is the row saveIssue reads back, not what this pass built.
Adopt(s) == Become(s, [pass[s] EXCEPT !.at = "pending", !.issue = text[pass[s].week]])

ReadBack(s) ==
    /\ pass[s].at = "readback"
    /\ Adopt(s)
    /\ UNCHANGED <<rows, world, history, outages>>

\* NEWSLETTER_SEND=0, or no mail transport: the pass ends before mailing.
MailOff(s) ==
    /\ pass[s].at = "pending"
    /\ outages < MaxOutages
    /\ outages' = outages + 1
    /\ Become(s, Idle)
    /\ UNCHANGED <<rows, world, history>>

Waiting_OrFailed(w) == {r \in listed : sends[w][r] \in {"none", "failed"}}
Waiting(w) == {r \in listed : sends[w][r] = "none"}

\* "order by created_at, id limit n": the n oldest, or everybody.
IsPage(B, W) ==
    /\ \A r \in B, q \in W \ B : r < q
    /\ IF Cardinality(W) <= Limit THEN B = W ELSE Cardinality(B) = Limit

IsFull_PastLimit(B) == Cardinality(B) > Limit
IsFull(B) == Cardinality(B) >= Limit

ReadPending(s) ==
    LET W == Waiting(pass[s].week) IN
    /\ pass[s].at = "pending"
    /\ \E B \in SUBSET W :
        /\ IsPage(B, W)
        /\ Become(s, [pass[s] EXCEPT !.at = "claim", !.batch = B, !.full = IsFull(B)])
    /\ UNCHANGED <<rows, world, history, outages>>

\* claimSend: the insert wins only where the week has no row for the reader.
Claimable_Always(w, r) == TRUE
Claimable(w, r) == sends[w][r] = "none"

ClaimNext(s) ==
    LET w == pass[s].week IN
    /\ pass[s].at = "claim"
    /\ \E r \in pass[s].batch :
        /\ \A q \in pass[s].batch : r <= q
        /\ \/ /\ Claimable(w, r)
              /\ sends' = [sends EXCEPT ![w][r] = "sending"]
              /\ Become(s, [pass[s] EXCEPT !.at = "send", !.reader = r,
                                      !.batch = pass[s].batch \ {r}])
           \/ /\ ~Claimable(w, r)
              /\ Become(s, [pass[s] EXCEPT !.batch = pass[s].batch \ {r}])
              /\ UNCHANGED sends
    /\ UNCHANGED <<text, finished, sentCount, world, history, outages>>

\* transport.send never throws; a refusal it reports may hide a mail that went.
Send(s) ==
    LET w == pass[s].week
        r == pass[s].reader IN
    /\ pass[s].at = "send"
    /\ \E ok \in BOOLEAN, arrived \in BOOLEAN :
        /\ ok => arrived
        /\ mailed' = [mailed EXCEPT ![w][r] = @ + (IF arrived THEN 1 ELSE 0)]
        /\ told' = [told EXCEPT ![w] = @ \cup (IF arrived THEN {pass[s].issue} ELSE {})]
        /\ Become(s, [pass[s] EXCEPT !.at = "finish", !.ok = ok])
    /\ UNCHANGED <<rows, world, outages>>

Outcome_OtherWord(ok) == IF ok THEN "delivered" ELSE "failed"
Outcome(ok) == IF ok THEN "sent" ELSE "failed"

FinishSend(s) ==
    LET w == pass[s].week IN
    /\ pass[s].at = "finish"
    /\ sends' = [sends EXCEPT ![w][pass[s].reader] = Outcome(pass[s].ok)]
    /\ Become(s, [pass[s] EXCEPT !.at = "claim", !.reader = 0, !.ok = FALSE])
    /\ UNCHANGED <<text, finished, sentCount, world, history, outages>>

SentRows_Addressed(w) == Cardinality({r \in Readers : sends[w][r] # "none"})
SentRows(w) == Cardinality({r \in Readers : sends[w][r] = "sent"})

\* closeIssue: recount, and close the week when the page was not full.
CloseIssue(s) ==
    LET w == pass[s].week IN
    /\ pass[s].at = "claim"
    /\ pass[s].batch = {}
    /\ sentCount' = [sentCount EXCEPT ![w] = SentRows(w)]
    /\ finished' = [finished EXCEPT ![w] = @ \/ ~pass[s].full]
    /\ Become(s, Idle)
    /\ UNCHANGED <<text, sends, world, history, outages>>

\* A crash, a deploy, or any await that throws: the pass is gone and what it
\* wrote stays.  newsletterTick catches and logs.
Interrupt(s) ==
    /\ pass[s].at # "idle"
    /\ outages < MaxOutages
    /\ outages' = outages + 1
    /\ Become(s, Idle)
    /\ UNCHANGED <<rows, world, history>>

-----------------------------------------------------------------------------
\* The world a pass runs in.

\* setSubscribed, from the unsubscribe link, the account page or sign-up.
SetSubscribed(r) ==
    /\ listed' = IF r \in listed THEN listed \ {r} ELSE listed \cup {r}
    /\ steady' = steady \ {r}
    /\ UNCHANGED <<clock, rows, pass, outages, history>>

TimePasses ==
    /\ \/ clock.phase = "before" /\ clock' = [clock EXCEPT !.phase = "open"]
       \/ clock.phase = "open" /\ clock' = [clock EXCEPT !.phase = "late"]
       \/ /\ clock.phase = "late" /\ clock.week + 1 \in Weeks
          /\ clock' = [week |-> clock.week + 1, phase |-> "before"]
    /\ UNCHANGED <<rows, listed, steady, pass, outages, history>>

PassStep(s) ==
    \/ Begin(s) \/ LookUp(s) \/ Build(s) \/ ReadBack(s) \/ ReadPending(s)
    \/ ClaimNext(s) \/ Send(s) \/ FinishSend(s) \/ CloseIssue(s)

Next ==
    \/ \E s \in Senders : PassStep(s) \/ MailOff(s) \/ Interrupt(s)
    \/ \E r \in Readers : SetSubscribed(r)
    \/ TimePasses

Spec == Init /\ [][Next]_vars

\* The daemon's timer starts a pass again and again, and every await settles.
FairSpec == Spec /\ \A s \in Senders : WF_vars(PassStep(s))

-----------------------------------------------------------------------------
\* Every variable stays in its range.
TypeOK ==
    /\ clock \in [week : Weeks, phase : Phase]
    /\ text \in [Weeks -> Texts \cup {NoText}]
    /\ finished \in [Weeks -> BOOLEAN]
    /\ sentCount \in [Weeks -> Nat]
    /\ sends \in [Weeks -> [Readers -> Status]]
    /\ listed \subseteq Readers
    /\ pass \in [Senders -> Pass]
    /\ outages \in Nat
    /\ steady \subseteq listed
    /\ mailed \in [Weeks -> [Readers -> Nat]]
    /\ told \in [Weeks -> SUBSET Texts]

\* Rule 2 of newsletter.js: whatever senders overlap, crash and restart, nobody
\* receives a second copy of a week's digest.
AtMostOneCopy == \A w \in Weeks, r \in Readers : mailed[w][r] <= 1

\* Rule 1: every mail of a week says what the stored issue says, although two
\* senders may each have built their own before either was stored.
OneTextPerWeek == \A w \in Weeks : told[w] \subseteq {text[w]}

\* closeIssue "close it when nobody is left": once a week is closed no pass will
\* look at it again, so everybody who was on the list throughout has their row.
ClosedMeansAddressed ==
    \A w \in Weeks : finished[w] => \A r \in steady : sends[w][r] # "none"

Quiet(w) == \A s \in Senders : pass[s].at = "idle" \/ pass[s].week # w

Alone == \A s, t \in Senders : s = t

\* sent_count, which the site shows, is the number of readers sent to once a
\* week is closed and no pass is at work on it.  A pass may be cut short on the
\* way only when there is no other sender: two senders and a crash between
\* finishSend and closeIssue leave the count one short.
ClosedCountIsExact ==
    Alone \/ outages = 0 =>
        \A w \in Weeks : finished[w] /\ Quiet(w) =>
            sentCount[w] = Cardinality({r \in Readers : sends[w][r] = "sent"})

\* Rule 3: "A week already under way finishes whenever it can."
StartedWeekFinishes == \A w \in Weeks : text[w] # NoText ~> finished[w]
=============================================================================
