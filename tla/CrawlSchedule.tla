---------------------------- MODULE CrawlSchedule ----------------------------
(***************************************************************************)
(* When a feed is asked, and what the answer does to it: crawlDue and      *)
(* crawlFeed of packages/ingest/src/crawl.js over the schedule columns of  *)
(* feeds (packages/db/src/queries.js), with the refresh button of the web  *)
(* application working on the same rows.                                   *)
(*                                                                         *)
(* The poller reads a batch of due rows, spreads it over hosts and lets    *)
(* workers walk one host each.  A row may be minutes old when its answer   *)
(* is written, and a click may have been answered in between.  Time is     *)
(* kept as an order: line relates the due feeds by next_fetch_at.  The     *)
(* feeds of the model are of one tier, which takes the whole quota of      *)
(* dueFeeds.                                                               *)
(***************************************************************************)
EXTENDS Naturals, FiniteSets, FiniteSetsExt

CONSTANTS Feeds,
          HostOf,      \* the host a feed's URL names
          Collected,   \* feeds read through a provider, by the poller only
          Submitted,   \* feeds with priority > 0
          Workers, Web,
          BatchSize, PerHost,
          DeadAt,      \* consecutive failures that retire a feed
          MaxFailures, \* bound: failed answers of each feed
          MaxEvents    \* bound: presses of the refresh button, crashes, throws
                       \* and writes the database refuses, together

ASSUME ConstantsOK ==
    /\ IsFiniteSet(Feeds) /\ DOMAIN HostOf = Feeds
    /\ Collected \subseteq Feeds /\ Submitted \subseteq Feeds
    /\ BatchSize \in Nat \ {0} /\ PerHost \in Nat \ {0} /\ DeadAt \in Nat \ {0}
    /\ MaxFailures \in [Feeds -> Nat] /\ MaxEvents \in Nat

VARIABLES line,     \* <<f, g>>: both are due, and g no earlier than f
          errors,   \* error_count
          fetched,  \* last_fetched_at: never, recent (RECENT_MS), or past
          running,  \* the guard of tick
          queues,   \* host queues of the batch no worker has taken
          worker,   \* the queue each worker walks
          reading,  \* inflight of each web worker: the rows being read
          events,
          asked,    \* history: the feeds this batch asked
          refused,  \* history: the hosts that answered 429 in this batch
          failures, \* history: failed answers of a feed, ever
          streak    \* history: failed answers since the last read

rows == <<line, errors, fetched>>
batch == <<running, queues, worker>>
tally == <<failures, streak>>
trail == <<asked, refused>>
vars == <<rows, batch, reading, events, trail, tally>>

\* A feed as it was selected, and its place in the batch.
Row == [feed : Feeds, errors : Nat, place : Nat]
RowOf(f, n) == [feed |-> f, errors |-> errors[f], place |-> n]
HostOfRow(r) == HostOf[r.feed]
First(queue) == CHOOSE r \in queue : \A other \in queue : r.place <= other.place

Due == {f \in Feeds : <<f, f>> \in line}
Without(F) == line \cap ((Feeds \ F) \X (Feeds \ F))
Last(f) == line \cup ((Due \cup {f}) \X {f})
Foremost(f) == Without({f}) \cup ({f} \X (Due \cup {f}))

\* status = 'dead', which only errorCount decides.
Dead(f) == errors[f] >= DeadAt

Resting == [at |-> "rest", queue |-> {}]

Init ==
    /\ line = {} /\ running = FALSE /\ queues = {}
    /\ errors = [f \in Feeds |-> 0]
    /\ fetched = [f \in Feeds |-> IF f \in Submitted THEN "never" ELSE "past"]
    /\ worker = [w \in Workers |-> Resting]
    /\ reading = [v \in Web |-> {}]
    /\ events = 0
    /\ asked = {} /\ refused = {}
    /\ failures = [f \in Feeds |-> 0] /\ streak = [f \in Feeds |-> 0]

-----------------------------------------------------------------------------
\* Choosing a batch: dueFeeds, spreadHosts, groupByHost.

OverRead == 3

Express(f) == f \in Submitted /\ fetched[f] = "never"

\* The order in which dueFeeds hands the rows out.
Sooner(f, g) ==
    \/ Express(f) /\ ~Express(g)
    \/ (Express(f) <=> Express(g)) /\ f # g /\ <<f, g>> \in line

FirstOf(n, F) == {f \in F : Cardinality({g \in F : Sooner(g, f)}) < n}

\* Half at most to the express lane, and the rest to the rest.
DueFeeds_Newest ==
    LET live == {f \in Due : ~Dead(f)}
    IN  {f \in live : Cardinality({g \in live : Sooner(f, g)}) < BatchSize}
DueFeeds ==
    LET limit == BatchSize * OverRead
        live == {f \in Due : ~Dead(f)}
        express == FirstOf(limit \div 2, {f \in live : Express(f)})
    IN  express \cup FirstOf(limit - Cardinality(express), {f \in live : ~Express(f)})

\* The cap lets the first PerHost of each host in.
Capped_Never(F) == F
Capped(F) ==
    {f \in F : Cardinality({g \in F : HostOf[g] = HostOf[f] /\ Sooner(g, f)}) < PerHost}

\* Then those it held back, if there is room: how many come before f.
Place(F, f) ==
    LET Before(g) == IF (g \in Capped(F)) = (f \in Capped(F)) THEN Sooner(g, f)
                     ELSE g \in Capped(F)
    IN  Cardinality({g \in F : Before(g)})

SpreadHosts(F) == {RowOf(f, Place(F, f)) : f \in {g \in F : Place(F, g) < BatchSize}}

GroupByHost_Apart(R) == {{r} : r \in R}
GroupByHost(R) == {{r \in R : HostOfRow(r) = HostOfRow(q)} : q \in R}

StartBatch ==
    /\ ~running
    /\ DueFeeds # {}
    /\ queues' = GroupByHost(SpreadHosts(DueFeeds))
    /\ running' = TRUE
    /\ UNCHANGED <<rows, worker, reading, events, trail, tally>>

EndBatch ==
    /\ running /\ queues = {} /\ \A w \in Workers : worker[w] = Resting
    /\ running' = FALSE
    /\ asked' = {} /\ refused' = {}
    /\ UNCHANGED <<rows, queues, worker, reading, events, tally>>

\* The poller dies and comes back: all it leaves is in the rows.
Crash ==
    /\ running /\ events < MaxEvents
    /\ running' = FALSE /\ queues' = {}
    /\ worker' = [w \in Workers |-> Resting]
    /\ events' = events + 1
    /\ asked' = {} /\ refused' = {}
    /\ UNCHANGED <<rows, reading, tally>>

-----------------------------------------------------------------------------
\* crawlFeed: what an answer writes, judged from the row it was asked with.

Answers == {"read", "failed", "throttled"}

\* Read or unchanged: storeCrawl, markUnchanged.  Failed: markCrawlFailure.
\* Throttled: markThrottled, which moves the schedule and nothing else.
CountAfter_Blames(r, answer) == IF answer = "read" THEN 0 ELSE r.errors + 1
CountAfter(r, answer) ==
    CASE answer = "read" -> 0
      [] answer = "failed" -> r.errors + 1
      [] answer = "throttled" -> errors[r.feed]

Settle(r, answer) ==
    LET f == r.feed IN
    /\ answer = "failed" => failures[f] < MaxFailures[f]
    /\ line' = Without({f})
    /\ errors' = [errors EXCEPT ![f] = CountAfter(r, answer)]
    /\ fetched' = IF answer = "throttled" THEN fetched
                  ELSE [fetched EXCEPT ![f] = "recent"]
    /\ failures' = IF answer = "failed" THEN [failures EXCEPT ![f] = @ + 1] ELSE failures
    /\ streak' = CASE answer = "read" -> [streak EXCEPT ![f] = 0]
                   [] answer = "failed" -> [streak EXCEPT ![f] = @ + 1]
                   [] answer = "throttled" -> streak

-----------------------------------------------------------------------------
\* The workers of crawlDue.

\* The worker once its queue is what is left: it asks the first at once.
Walking(queue) == IF queue = {} THEN Resting ELSE [at |-> "asking", queue |-> queue]
Asked(queue) == IF queue = {} THEN asked ELSE asked \cup {First(queue).feed}

\* A 429 is the host speaking for all of its feeds: nothing more is asked.
Holding_GoesOn(queue) == Walking(queue)
Holding_Nothing(queue) == [at |-> "holding", queue |-> queue]
Holding(queue) == IF queue = {} THEN Resting ELSE [at |-> "holding", queue |-> queue]

\* What is left of a queue when its first feed is done with.
Rest(w) == worker[w].queue \ {First(worker[w].queue)}

\* Longest queue first, each to one worker.
Untaken_Shared(queue) == queues
Untaken(queue) == queues \ {queue}

TakeQueue(w) ==
    /\ worker[w] = Resting
    /\ \E q \in queues :
        /\ \A other \in queues : Cardinality(other) <= Cardinality(q)
        /\ worker' = [worker EXCEPT ![w] = Walking(q)]
        /\ asked' = Asked(q)
        /\ queues' = Untaken(q)
    /\ UNCHANGED <<rows, running, reading, events, refused, tally>>

Answered(w, answer) ==
    LET row == First(worker[w].queue) IN
    /\ worker[w].at = "asking"
    /\ Settle(row, answer)
    /\ \/ /\ answer = "throttled"
          /\ worker' = [worker EXCEPT ![w] = Holding(Rest(w))]
          /\ refused' = refused \cup {HostOfRow(row)}
          /\ UNCHANGED asked
       \/ /\ answer # "throttled"
          /\ worker' = [worker EXCEPT ![w] = Walking(Rest(w))]
          /\ asked' = Asked(Rest(w))
          /\ UNCHANGED refused
    /\ UNCHANGED <<running, queues, reading, events>>

\* Anything that throws, a refused write above all: the feed stays due.
Throws(w) ==
    /\ worker[w].at = "asking" /\ events < MaxEvents
    /\ worker' = [worker EXCEPT ![w] = Walking(Rest(w))]
    /\ asked' = Asked(Rest(w))
    /\ events' = events + 1
    /\ UNCHANGED <<rows, running, queues, reading, refused, tally>>

\* markHostThrottled for the feeds never asked; a refused write is let go.
HoldBackHost(w) ==
    /\ worker[w].at = "holding"
    /\ \/ /\ line' = Without({r.feed : r \in worker[w].queue})
          /\ UNCHANGED events
       \/ /\ events < MaxEvents /\ events' = events + 1
          /\ UNCHANGED line
    /\ worker' = [worker EXCEPT ![w] = Resting]
    /\ UNCHANGED <<errors, fetched, running, queues, reading, trail, tally>>

-----------------------------------------------------------------------------
\* The refresh button.

\* A feed the web cannot read goes to the front; a read in flight is joined.
Click(v, f) ==
    /\ events < MaxEvents
    /\ ~Dead(f) /\ fetched[f] # "recent"
    /\ \/ /\ f \in Collected
          /\ line' = Foremost(f)
          /\ UNCHANGED reading
       \/ /\ f \notin Collected
          /\ \A r \in reading[v] : r.feed # f
          /\ reading' = [reading EXCEPT ![v] = @ \cup {RowOf(f, 0)}]
          /\ UNCHANGED line
    /\ events' = events + 1
    /\ UNCHANGED <<errors, fetched, batch, trail, tally>>

ClickAnswered(v, r, answer) ==
    /\ r \in reading[v]
    /\ Settle(r, answer)
    /\ reading' = [reading EXCEPT ![v] = @ \ {r}]
    /\ UNCHANGED <<batch, events, trail>>

\* A throw, or the web worker dying with the read in hand.
ClickThrows(v, r) ==
    /\ r \in reading[v]
    /\ reading' = [reading EXCEPT ![v] = @ \ {r}]
    /\ UNCHANGED <<rows, batch, events, trail, tally>>

-----------------------------------------------------------------------------
\* Time passing.

ComeDue(f) ==
    /\ f \notin Due /\ ~Dead(f)
    /\ line' = Last(f)
    /\ UNCHANGED <<errors, fetched, batch, reading, events, trail, tally>>

Age(f) ==
    /\ fetched[f] = "recent"
    /\ fetched' = [fetched EXCEPT ![f] = "past"]
    /\ UNCHANGED <<line, errors, batch, reading, events, trail, tally>>

AnswerOrThrow(w) == Throws(w) \/ \E a \in Answers : Answered(w, a)

Crawl ==
    \/ StartBatch \/ EndBatch
    \/ \E w \in Workers : TakeQueue(w) \/ AnswerOrThrow(w) \/ HoldBackHost(w)

Next ==
    \/ Crawl \/ Crash
    \/ \E v \in Web, f \in Feeds : Click(v, f)
    \/ \E v \in Web : \E r \in reading[v] :
        ClickThrows(v, r) \/ \E a \in Answers : ClickAnswered(v, r, a)
    \/ \E f \in Feeds : ComeDue(f) \/ Age(f)

\* The daemon starts the crawl every minute and a crawl in hand goes on: the
\* fetch layer and the database give every request an end.  A batch is
\* finite, so none of its workers can be left behind for ever.
Fairness == WF_vars(Crawl)

Spec == Init /\ [][Next]_vars
FairSpec == Spec /\ Fairness

-----------------------------------------------------------------------------
WorkerState == [at : {"rest", "asking", "holding"}, queue : SUBSET Row]

\* Types; and a worker rests exactly when it has nothing to walk.
TypeOK ==
    /\ line \subseteq Feeds \X Feeds /\ errors \in [Feeds -> Nat]
    /\ fetched \in [Feeds -> {"never", "recent", "past"}]
    /\ running \in BOOLEAN /\ queues \subseteq SUBSET Row
    /\ worker \in [Workers -> WorkerState] /\ reading \in [Web -> SUBSET Row]
    /\ events \in Nat
    /\ asked \subseteq Feeds /\ refused \subseteq {HostOf[f] : f \in Feeds}
    /\ failures \in [Feeds -> Nat] /\ streak \in [Feeds -> Nat]
    /\ \A w \in Workers : worker[w].at = "rest" <=> worker[w].queue = {}

\* Whatever the number of workers, a batch never has two requests out to one
\* host: each host is one queue and a queue has one worker.
OneRequestPerHost ==
    \A w, u \in Workers :
        w # u /\ worker[w].at = "asking" /\ worker[u].at = "asking" =>
            HostOfRow(First(worker[w].queue)) # HostOfRow(First(worker[u].queue))

AsksFor(w, f) ==
    /\ worker'[w] # worker[w] /\ worker'[w].at = "asking"
    /\ First(worker'[w].queue).feed = f

\* A batch asks no feed twice, however its workers share the queues.
AskedOnce == [][\A w \in Workers, f \in Feeds : AsksFor(w, f) => f \notin asked]_vars

\* Once a host has answered 429 the batch asks it nothing more.
RefusalIsBelieved ==
    [][\A w \in Workers, f \in Feeds : AsksFor(w, f) => HostOf[f] \notin refused']_vars

\* A feed's count is never above the failures it really had, whatever a
\* throttle, a held-back queue, a crash or an outdated row does to it: so a
\* feed is never retired for fewer than DeadAt failed answers.
NoFailureInvented == \A f \in Feeds : errors[f] <= failures[f]

\* Retired means DeadAt failures with no successful read among them.
DeadAfterARun == \A f \in Feeds : Dead(f) => streak[f] >= DeadAt

Share(Q, h) == Cardinality({r \in UNION Q : HostOfRow(r) = h})

\* A host has more than PerHost feeds in a batch only when no feed that was
\* left out is of a host with fewer.
HostsShareTheBatch ==
    [][~running /\ running' =>
        \A f \in DueFeeds \ {r.feed : r \in UNION queues'}, g \in Feeds :
            Share(queues', HostOf[g]) > PerHost => Share(queues', HostOf[f]) >= PerHost]_vars

\* The feeds nobody can push forward.
Ordinary == Feeds \ (Collected \cup Submitted)

\* No ordinary feed that is due waits for ever: it is asked or put back,
\* however the clicks, the express lane, the crashes and the refused writes
\* fall.  Unless its host goes on refusing: a submission that was never read
\* is taken first each time it comes due, and fills the host's share.
TurnComes ==
    \A f \in Ordinary :
        \/ f \in Due ~> f \notin Due
        \/ []<>(HostOf[f] \in refused)
=============================================================================
