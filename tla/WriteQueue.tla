----------------------------- MODULE WriteQueue -----------------------------
(***************************************************************************)
(* packages/db/src/writeFolder.js and writeQueue.js: each process folds    *)
(* the batches its callers are waiting to write into one transaction, up   *)
(* to a ceiling of statements, posts it as a job, and hands each caller    *)
(* the rows of its own statements.  One worker, in the poller, runs the    *)
(* jobs of every process one at a time and retries what may go otherwise.  *)
(*                                                                         *)
(* A job is [by, writes, tries, state]; its id is its place in jobs.  The  *)
(* broker keeps the ids to run in line and those backing off in delayed.   *)
(***************************************************************************)
EXTENDS Naturals, Sequences, SequencesExt, FiniteSets

CONSTANTS Procs,        \* processes that write
          Home,         \* the one that runs the worker
          Writes,       \* calls of batch
          Program,      \* Program[p]: the calls p makes, in order
          Size,         \* Size[w]: statements of a call
          Ceiling,      \* statements one transaction may carry
          Bad,          \* calls with a statement the database rejects
          Unread,       \* those whose rejection isStatementError does not recognise
          Once,         \* calls that are rejected when applied a second time
          Attempts,     \* attempts of a job
          MaxFaults,    \* transport failures considered
          MaxWaits,     \* waits that expire
          MaxCrashes    \* processes that die

\* Each call is made once.
ASSUME CallsAssumption ==
    /\ Home \in Procs
    /\ Program \in [Procs -> Seq(Writes)]
    /\ \A p, q \in Procs : \A i \in DOMAIN Program[p], j \in DOMAIN Program[q] :
          Program[p][i] = Program[q][j] => p = q /\ i = j
    /\ Size \in [Writes -> Nat]
    /\ Bad \subseteq Writes /\ Unread \subseteq Bad /\ Once \subseteq Writes
    /\ Ceiling \in Nat \ {0} /\ Attempts \in Nat \ {0}

VARIABLES asked,    \* asked[p]: how many of its calls p has made
          waiting,  \* waiting[p]: calls not yet in a transaction, oldest first
          group,    \* group[p]: calls of the transaction in hand
          alone,    \* alone[p]: 0, or the call of the group being run by itself
          flight,   \* flight[p]: the job being waited for, 0 when none is
          jobs,     \* every job posted
          line,     \* ids the worker will take
          delayed,  \* ids backing off before another attempt
          active,   \* the id the worker is running, 0 when idle
          log,      \* the committed transactions
          answer,   \* what each call has been answered
          rows,     \* the rows each call was handed
          faults    \* failures so far, by kind

vars == <<asked, waiting, group, alone, flight, jobs, line, delayed, active, log,
          answer, rows, faults>>
broker == <<jobs, line, delayed, active, log>>

Verdicts == {"stored", "statement", "transport", "expired", "gone"}

TypeOK ==
    /\ asked \in [Procs -> Nat]
    /\ waiting \in [Procs -> Seq(Writes)]
    /\ group \in [Procs -> Seq(Writes)]
    /\ alone \in [Procs -> Nat]
    /\ \A p \in Procs : alone[p] \in 0 .. Len(group[p])
    /\ flight \in [Procs -> Nat]
    /\ \A p \in Procs : flight[p] \in 0 .. Len(jobs)
    /\ jobs \in Seq([by : Procs, writes : Seq(Writes), tries : Nat,
                     state : {"open", "done", "statement", "transport"}])
    /\ line \in Seq(1 .. Len(jobs))
    /\ delayed \subseteq 1 .. Len(jobs)
    /\ active \in 0 .. Len(jobs)
    /\ log \in Seq(Seq(Writes))
    /\ answer \in [Writes -> {"new", "asked"} \cup Verdicts]
    /\ rows \in [Writes -> Seq(Writes \X Nat)]
    /\ faults \in [transport : Nat, wait : Nat, crash : Nat]

-----------------------------------------------------------------------------
(* The folder.                                                             *)

Statements(ws) ==
    LET sum[n \in 0 .. Len(ws)] == IF n = 0 THEN 0 ELSE sum[n - 1] + Size[ws[n]]
    IN  sum[Len(ws)]

\* The group stops growing at n callers: none is left, or the next one would
\* pass the ceiling.  The first caller always goes in.
GroupEnds(q, n) == n = Len(q) \/ Statements(SubSeq(q, 1, n + 1)) > Ceiling

Fill_OnlyIfItFits(q) ==
    IF Size[Head(q)] > Ceiling THEN 0
    ELSE CHOOSE n \in 1 .. Len(q) :
             GroupEnds(q, n) /\ \A k \in 1 .. n - 1 : ~GroupEnds(q, k)
Fill(q) == CHOOSE n \in 1 .. Len(q) :
             GroupEnds(q, n) /\ \A k \in 1 .. n - 1 : ~GroupEnds(q, k)

\* The drain loop takes the next group out of q, or stops when there is none.
TakeGroup(p, q) ==
    LET n == IF q = <<>> THEN 0 ELSE Fill(q) IN
    /\ group' = [group EXCEPT ![p] = SubSeq(q, 1, n)]
    /\ waiting' = [waiting EXCEPT ![p] = SubSeq(q, n + 1, Len(q))]

\* A caller hands its statements over; an idle folder starts draining at once.
Enqueue_NewestFirst(p) ==
    /\ asked[p] < Len(Program[p])
    /\ LET w == Program[p][asked[p] + 1] IN
       /\ answer' = [answer EXCEPT ![w] = "asked"]
       /\ IF group[p] = <<>>
          THEN TakeGroup(p, <<w>>)
          ELSE waiting' = [waiting EXCEPT ![p] = <<w>> \o @] /\ UNCHANGED group
    /\ asked' = [asked EXCEPT ![p] = @ + 1]
    /\ UNCHANGED <<alone, flight, rows, faults, broker>>
Enqueue(p) ==
    /\ asked[p] < Len(Program[p])
    /\ LET w == Program[p][asked[p] + 1] IN
       /\ answer' = [answer EXCEPT ![w] = "asked"]
       /\ IF group[p] = <<>>
          THEN TakeGroup(p, <<w>>)
          ELSE waiting' = [waiting EXCEPT ![p] = Append(@, w)] /\ UNCHANGED group
    /\ asked' = [asked EXCEPT ![p] = @ + 1]
    /\ UNCHANGED <<alone, flight, rows, faults, broker>>

Payload(p) == IF alone[p] = 0 THEN group[p] ELSE <<group[p][alone[p]]>>

\* run: the transaction becomes a job of the shared queue.
Post(p) ==
    /\ group[p] # <<>>
    /\ flight[p] = 0
    /\ jobs' = Append(jobs, [by |-> p, writes |-> Payload(p), tries |-> 0,
                             state |-> "open"])
    /\ line' = Append(line, Len(jobs) + 1)
    /\ flight' = [flight EXCEPT ![p] = Len(jobs) + 1]
    /\ UNCHANGED <<asked, waiting, group, alone, delayed, active, log, answer, rows,
                   faults>>

\* One result per statement, in order.
RowsOf(w) == [i \in 1 .. Size[w] |-> <<w, i>>]
Results(ws) == FlattenSeq([i \in DOMAIN ws |-> RowsOf(ws[i])])

\* The slice of the results that belongs to the i-th caller.
Slice_ByCaller(ws, i) == SubSeq(Results(ws), i, i - 1 + Size[ws[i]])
Slice(ws, i) ==
    LET from == Statements(SubSeq(ws, 1, i - 1)) IN
    SubSeq(Results(ws), from + 1, from + Size[ws[i]])

PlaceIn(ws, w) == CHOOSE i \in DOMAIN ws : ws[i] = w

\* The callers of ws are answered, and handed rows if theirs were stored.
Answered(ws, verdict) ==
    /\ answer' = [w \in Writes |-> IF w \in Range(ws) THEN verdict ELSE answer[w]]
    /\ rows' = [w \in Writes |-> IF w \in Range(ws) /\ verdict = "stored"
                                 THEN Slice(ws, PlaceIn(ws, w)) ELSE rows[w]]

\* After the callers of this run: the next one alone, or the next group.
NextRun_StaysAlone(p) ==
    /\ flight' = [flight EXCEPT ![p] = 0]
    /\ IF alone[p] \in 1 .. Len(group[p]) - 1
       THEN alone' = [alone EXCEPT ![p] = @ + 1] /\ UNCHANGED <<group, waiting>>
       ELSE UNCHANGED alone /\ TakeGroup(p, waiting[p])
NextRun(p) ==
    /\ flight' = [flight EXCEPT ![p] = 0]
    /\ IF alone[p] \in 1 .. Len(group[p]) - 1
       THEN alone' = [alone EXCEPT ![p] = @ + 1] /\ UNCHANGED <<group, waiting>>
       ELSE alone' = [alone EXCEPT ![p] = 0] /\ TakeGroup(p, waiting[p])

\* A group refused for a bad statement is run again one caller at a time.
Splits_Never(p, verdict) == FALSE
Splits(p, verdict) == verdict = "statement" /\ Len(group[p]) > 1 /\ alone[p] = 0

\* settleJob: the job has finished, which its event or its own state tells.
Settle(p) ==
    /\ flight[p] # 0
    /\ LET job == jobs[flight[p]]
           verdict == IF job.state = "done" THEN "stored" ELSE job.state IN
       /\ job.state # "open"
       /\ IF Splits(p, verdict)
          THEN /\ alone' = [alone EXCEPT ![p] = 1]
               /\ flight' = [flight EXCEPT ![p] = 0]
               /\ UNCHANGED <<answer, rows, group, waiting>>
          ELSE Answered(Payload(p), verdict) /\ NextRun(p)
    /\ UNCHANGED <<asked, faults, broker>>

\* The wait runs out with the job unfinished; the job stays in the queue.
Expire_AsStored(p) ==
    /\ faults.wait < MaxWaits
    /\ flight[p] # 0
    /\ jobs[flight[p]].state = "open"
    /\ Answered(Payload(p), "stored")
    /\ NextRun(p)
    /\ faults' = [faults EXCEPT !.wait = @ + 1]
    /\ UNCHANGED <<asked, broker>>
Expire(p) ==
    /\ faults.wait < MaxWaits
    /\ flight[p] # 0
    /\ jobs[flight[p]].state = "open"
    /\ Answered(Payload(p), "expired")
    /\ NextRun(p)
    /\ faults' = [faults EXCEPT !.wait = @ + 1]
    /\ UNCHANGED <<asked, broker>>

-----------------------------------------------------------------------------
(* The worker, and the broker that feeds it.                               *)

Take ==
    /\ active = 0
    /\ line # <<>>
    /\ active' = Head(line)
    /\ line' = Tail(line)
    /\ UNCHANGED <<asked, waiting, group, alone, flight, jobs, delayed, log, answer,
                   rows, faults>>

Committed(w) == \E i \in DOMAIN log : \E j \in DOMAIN log[i] : log[i][j] = w

\* The calls of a job the database would reject now.
Rejected(ws) == {i \in DOMAIN ws : ws[i] \in Bad \/ (ws[i] \in Once /\ Committed(ws[i]))}

FirstRejected(ws) == CHOOSE i \in Rejected(ws) : \A k \in Rejected(ws) : i <= k

\* An attempt that failed is repeated after a delay, up to Attempts.
Again(id) ==
    LET tries == jobs[id].tries + 1 IN
    IF tries < Attempts
    THEN /\ jobs' = [jobs EXCEPT ![id].tries = tries]
         /\ delayed' = delayed \cup {id}
    ELSE /\ jobs' = [jobs EXCEPT ![id].tries = tries, ![id].state = "transport"]
         /\ UNCHANGED delayed

\* runWriteJob: begin, the statements in order, commit; a statement error it
\* recognises is not worth another attempt.
RunJob ==
    /\ active # 0
    /\ LET ws == jobs[active].writes IN
       IF Rejected(ws) = {}
       THEN /\ log' = Append(log, ws)
            /\ jobs' = [jobs EXCEPT ![active].state = "done"]
            /\ UNCHANGED delayed
       ELSE /\ UNCHANGED log
            /\ IF ws[FirstRejected(ws)] \notin Unread
               THEN jobs' = [jobs EXCEPT ![active].state = "statement"] /\ UNCHANGED delayed
               ELSE Again(active)
    /\ active' = 0
    /\ UNCHANGED <<asked, waiting, group, alone, flight, line, answer, rows, faults>>

\* The connection fails or the deadline passes, before the commit or after it.
Transport ==
    /\ active # 0
    /\ faults.transport < MaxFaults
    /\ \/ UNCHANGED log
       \/ /\ Rejected(jobs[active].writes) = {}
          /\ log' = Append(log, jobs[active].writes)
    /\ Again(active)
    /\ active' = 0
    /\ faults' = [faults EXCEPT !.transport = @ + 1]
    /\ UNCHANGED <<asked, waiting, group, alone, flight, line, answer, rows>>

\* The backoff ends.
Promote(id) ==
    /\ id \in delayed
    /\ delayed' = delayed \ {id}
    /\ line' = Append(line, id)
    /\ UNCHANGED <<asked, waiting, group, alone, flight, jobs, active, log, answer, rows,
                   faults>>

\* A process dies: its callers with it, its jobs not.  If it ran the worker,
\* the job in hand goes back in line.
Crash(p) ==
    /\ faults.crash < MaxCrashes
    /\ answer' = [w \in Writes |->
                    IF answer[w] = "asked" /\ w \in Range(Program[p]) THEN "gone" ELSE answer[w]]
    /\ waiting' = [waiting EXCEPT ![p] = <<>>]
    /\ group' = [group EXCEPT ![p] = <<>>]
    /\ alone' = [alone EXCEPT ![p] = 0]
    /\ flight' = [flight EXCEPT ![p] = 0]
    /\ IF p = Home /\ active # 0
       THEN active' = 0 /\ line' = Append(line, active)
       ELSE UNCHANGED <<active, line>>
    /\ faults' = [faults EXCEPT !.crash = @ + 1]
    /\ UNCHANGED <<asked, jobs, delayed, log, rows>>

-----------------------------------------------------------------------------
Init ==
    /\ asked = [p \in Procs |-> 0]
    /\ waiting = [p \in Procs |-> <<>>]
    /\ group = [p \in Procs |-> <<>>]
    /\ alone = [p \in Procs |-> 0]
    /\ flight = [p \in Procs |-> 0]
    /\ jobs = <<>>
    /\ line = <<>>
    /\ delayed = {}
    /\ active = 0
    /\ log = <<>>
    /\ answer = [w \in Writes |-> "new"]
    /\ rows = [w \in Writes |-> <<>>]
    /\ faults = [transport |-> 0, wait |-> 0, crash |-> 0]

Next ==
    \/ \E p \in Procs : Enqueue(p) \/ Post(p) \/ Settle(p) \/ Expire(p) \/ Crash(p)
    \/ Take \/ RunJob \/ Transport
    \/ \E id \in delayed : Promote(id)

Spec == Init /\ [][Next]_vars

\* A caller polls its job, the worker takes what is in line, and a backoff ends.
FairSpec ==
    /\ Spec
    /\ \A p \in Procs : WF_vars(Post(p)) /\ WF_vars(Settle(p))
    /\ WF_vars(Take) /\ WF_vars(RunJob)
    /\ WF_vars(\E id \in delayed : Promote(id))

-----------------------------------------------------------------------------
(* Properties.                                                             *)

\* A caller whose write was stored is handed the rows of its own statements,
\* whatever else its transaction carried (settleGroup).
OwnRows ==
    \A w \in Writes : answer[w] = "stored" => rows[w] = RowsOf(w)

\* A job carries both calls.
Together(v, w) == \E id \in DOMAIN jobs : {v, w} \subseteq Range(jobs[id].writes)

\* A bad statement fails only its own caller when isStatementError recognises its
\* rejection: a good call is refused only if its connection failed, if an attempt
\* whose acknowledgement was lost had already committed it, or if it shared a
\* transaction with a call whose rejection is not recognised.
OneBadCaller ==
    \A w \in Writes \ Bad :
      /\ answer[w] = "statement" => w \in Once /\ Committed(w)
      /\ answer[w] = "transport" => \/ faults.transport > 0
                                   \/ \E v \in Unread : Together(v, w)

\* What writeFolder.js says of any bad statement: the callers beside it survive.
NeighboursSurvive ==
    \A w \in Writes \ Bad : answer[w] = "transport" => faults.transport > 0

LastCommit(w) ==
    CHOOSE i \in DOMAIN log : /\ \E j \in DOMAIN log[i] : log[i][j] = w
                              /\ \A k \in DOMAIN log : k > i => w \notin Range(log[k])

\* Two writes of one process that were both stored reach the database in the
\* order they were asked for: no retry or split lets the older one land last.
StoredInOrder ==
    \A p \in Procs : \A i, j \in DOMAIN Program[p] :
      LET v == Program[p][i] w == Program[p][j] IN
      i < j /\ answer[v] = "stored" /\ answer[w] = "stored" => LastCommit(v) <= LastCommit(w)

\* Every caller is answered, as long as its process lives.
EveryCallerAnswered ==
    \A w \in Writes : answer[w] = "asked" ~> answer[w] # "asked"

\* The writes and their answers are those of the promised service.
Service == INSTANCE WriteService WITH
    told <- [w \in Writes |-> IF answer[w] \in {"statement", "transport", "expired"}
                              THEN "refused" ELSE answer[w]]
ServicePromised == Service!Spec
=============================================================================
