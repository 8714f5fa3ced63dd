----------------------------- MODULE Discovery ------------------------------
(***************************************************************************)
(* A keyword search: packages/ingest/src/keywords.js over the two queues   *)
(* and the run row of packages/db/src/discovery.js.  Three workers empty   *)
(* the queues of a run: the request that made it, for as long as it waits, *)
(* and two jobs of the poller, the finder (drainDiscoveryKeywords) and the *)
(* checker (drainDiscoveryQueue).  None claims what it reads.              *)
(***************************************************************************)
EXTENDS Naturals, FiniteSets

CONSTANTS Keywords,
          Sites,
          Found,        \* Found[k]: the sites a search for k turns up
          FeedOf,       \* FeedOf[s]: the feed of a site, or NoFeed if none resolves
          NoFeed,
          Worthy,       \* feeds the directory wants
          InlineLimit,  \* sites the request checks
          Batch,        \* rows a poller job reads
          MaxMishaps    \* bound: searches and inserts that fail, workers that die

Feeds == {FeedOf[s] : s \in Sites} \ {NoFeed}

ASSUME SearchAssumption ==
    /\ IsFiniteSet(Keywords) /\ IsFiniteSet(Sites)
    /\ Found \in [Keywords -> SUBSET Sites]
    /\ Worthy \subseteq Feeds
    /\ InlineLimit \in Nat \ {0} /\ Batch \in Nat \ {0}
    /\ MaxMishaps \in Nat

Workers == {"request", "finder", "checker"}
Verdicts == {"accepted", "rejected", "error"}
None == "none"

VARIABLES kw,       \* kw[k]: discovery_keywords.status, none before there is a row
          cand,     \* cand[s]: discovery_candidates.status, none before there is a row
          feeds,    \* the feeds this run put in the directory
          run,      \* the run row: its status and two of its counts
          notified, \* notified_at is set
          pc,       \* what each worker is at
          todo,     \* todo[w]: rows it has read and not turned to
          at,       \* at[w]: the keyword or site in hand
          known,    \* known[w]: hosts it takes to be in the directory
          verdict,  \* verdict[w]: what it will write about the site in hand
          seen,     \* seen[w]: what its refresh has read so far
          searched, \* the request has completed a search
          mishaps,
          crossed,  \* see Cross
          behind    \* the run row may be out of date, with no refresh to come

rows == <<kw, cand, feeds, run, notified>>
work == <<todo, at, known, verdict, seen>>
history == <<crossed, behind>>
vars == <<rows, work, pc, searched, mishaps, history>>

Unread == [read |-> {}, keywords |-> 0, sites |-> 0, accepted |-> 0]

TypeOK ==
    /\ kw \in [Keywords -> {None, "queued", "searched", "failed"}]
    /\ cand \in [Sites -> {None, "queued"} \cup Verdicts]
    /\ feeds \subseteq Worthy
    /\ run \in [status : {None, "running", "queued", "complete", "failed"}, accepted : Nat,
                waiting : Nat]
    /\ notified \in BOOLEAN
    /\ pc \in [Workers -> {"idle", "queue", "list", "search", "found", "mark", "check",
                           "insert", "verdict", "refresh", "over"}]
    /\ todo \in [Workers -> SUBSET (Keywords \cup Sites)]
    /\ at \in [Workers -> Keywords \cup Sites \cup {None}]
    /\ known \in [Workers -> SUBSET Sites]
    /\ verdict \in [Workers -> Verdicts \cup {None}]
    /\ seen \in [Workers -> [read : SUBSET {"keywords", "sites"}, keywords : Nat, sites : Nat,
                             accepted : Nat]]
    /\ searched \in BOOLEAN
    /\ mishaps \in Nat
    /\ crossed \in BOOLEAN
    /\ behind \in BOOLEAN

-----------------------------------------------------------------------------
QueuedKeywords == {k \in Keywords : kw[k] = "queued"}
QueuedSites == {s \in Sites : cand[s] = "queued"}
Accepted == Cardinality({s \in Sites : cand[s] = "accepted"})

\* A read of at most n of the rows in S.
UpTo(n, S) == {T \in SUBSET S : Cardinality(T) = n \/ (T = S /\ Cardinality(S) <= n)}

KnownHosts == {s \in Sites : FeedOf[s] \in feeds}

GoTo(w, step) == pc' = [pc EXCEPT ![w] = step]

Mishap == mishaps < MaxMishaps /\ mishaps' = mishaps + 1

\* Two workers have had the same row in hand, or one has died in between two
\* writes that belong together, or the mail was sent in between them.
Cross(how) == crossed' = (crossed \/ how) /\ UNCHANGED behind

\* The row is in another worker's hands, or was dealt with since it was read.
NotMine(w, x, status) ==
    status # "queued" \/ \E v \in Workers \ {w} : at[v] = x /\ pc[v] \notin {"search", "check"}

\* discoverFromKeywords: the run row, then the keywords, then a list to search.
Begin ==
    /\ pc["request"] = "idle"
    /\ run' = [run EXCEPT !.status = "running"]
    /\ GoTo("request", "queue")
    /\ UNCHANGED <<kw, cand, feeds, notified, work, searched, mishaps, history>>

QueueKeywords ==
    /\ pc["request"] = "queue"
    /\ kw' = [k \in Keywords |-> "queued"]
    /\ GoTo("request", "list")
    /\ UNCHANGED <<cand, feeds, run, notified, work, searched, mishaps, history>>

\* At most n queued keywords, and the hosts the directory has.
TakeKeywords(w, n) ==
    /\ \E T \in UpTo(n, QueuedKeywords) : todo' = [todo EXCEPT ![w] = T]
    /\ known' = [known EXCEPT ![w] = KnownHosts]
    /\ GoTo(w, "search")
    /\ UNCHANGED <<rows, at, verdict, seen, searched, mishaps, history>>

ListKeywords == pc["request"] = "list" /\ TakeKeywords("request", Cardinality(Keywords))

\* The poller's two jobs, when their queue has something.
BeginFinder_OfQueuedRuns ==
    pc["finder"] = "idle" /\ run.status = "queued" /\ QueuedKeywords # {}
        /\ TakeKeywords("finder", Batch)
BeginFinder == pc["finder"] = "idle" /\ QueuedKeywords # {} /\ TakeKeywords("finder", Batch)

TakeSites(w, n) ==
    /\ \E T \in UpTo(n, QueuedSites) : todo' = [todo EXCEPT ![w] = T]
    /\ at' = [at EXCEPT ![w] = None]
    /\ known' = [known EXCEPT ![w] = {}]
    /\ GoTo(w, "check")
    /\ UNCHANGED <<rows, verdict, seen, searched, mishaps, history>>

BeginChecker == pc["checker"] = "idle" /\ QueuedSites # {} /\ TakeSites("checker", Batch)

-----------------------------------------------------------------------------
(* searchOneKeyword.                                                       *)

TurnTo(w, x) ==
    /\ x \in todo[w]
    /\ todo' = [todo EXCEPT ![w] = @ \ {x}]
    /\ at' = [at EXCEPT ![w] = x]

\* The provider answers for the keyword.
Search(w, k) ==
    /\ pc[w] = "search"
    /\ TurnTo(w, k)
    /\ GoTo(w, "found")
    /\ Cross(NotMine(w, k, kw[k]))
    /\ UNCHANGED <<rows, known, verdict, seen, searched, mishaps>>

\* The search fails, which is this keyword's own fault and is recorded.
SearchFails_InTheWordForSites(w, k) ==
    /\ pc[w] = "search"
    /\ TurnTo(w, k)
    /\ Mishap
    /\ kw' = [kw EXCEPT ![k] = "error"]
    /\ Cross(NotMine(w, k, kw[k]))
    /\ UNCHANGED <<cand, feeds, run, notified, pc, known, verdict, seen, searched>>
SearchFails(w, k) ==
    /\ pc[w] = "search"
    /\ TurnTo(w, k)
    /\ Mishap
    /\ kw' = [kw EXCEPT ![k] = "failed"]
    /\ Cross(NotMine(w, k, kw[k]))
    /\ UNCHANGED <<cand, feeds, run, notified, pc, known, verdict, seen, searched>>

\* The provider refuses everybody: the keyword and those after it stay queued,
\* and a request that has searched nothing ends as a failed run.
ProviderRefuses(w) ==
    /\ pc[w] = "search"
    /\ todo[w] # {}
    /\ Mishap
    /\ todo' = [todo EXCEPT ![w] = {}]
    /\ IF w = "request" /\ ~searched
       THEN run' = [run EXCEPT !.status = "failed"] /\ GoTo(w, "over") /\ behind' = TRUE
       ELSE UNCHANGED <<run, pc, behind>>
    /\ UNCHANGED <<kw, cand, feeds, notified, at, known, verdict, seen, searched, crossed>>

\* The time for searching is up.
SearchDeadline(w) ==
    /\ pc[w] = "search"
    /\ todo[w] # {}
    /\ w = "request" \/ at[w] # None
    /\ todo' = [todo EXCEPT ![w] = {}]
    /\ UNCHANGED <<rows, pc, at, known, verdict, seen, searched, mishaps, history>>

\* Sites not known are queued, on conflict do nothing.
InsertCandidates(w) ==
    /\ pc[w] = "found"
    /\ cand' = [s \in Sites |-> IF s \in Found[at[w]] \ known[w] /\ cand[s] = None
                                THEN "queued" ELSE cand[s]]
    /\ GoTo(w, "mark")
    /\ UNCHANGED <<kw, feeds, run, notified, work, searched, mishaps, history>>

MarkKeyword(w) ==
    /\ pc[w] = "mark"
    /\ kw' = [kw EXCEPT ![at[w]] = "searched"]
    /\ searched' = (searched \/ w = "request")
    /\ GoTo(w, "search")
    /\ UNCHANGED <<cand, feeds, run, notified, work, mishaps, history>>

\* No keyword is left: the finder refreshes the run, the request turns to sites.
SearchEnds(w) ==
    /\ pc[w] = "search"
    /\ todo[w] = {}
    /\ \/ /\ w = "finder"
          /\ GoTo(w, "refresh")
          /\ at' = [at EXCEPT ![w] = None]
          /\ known' = [known EXCEPT ![w] = {}]
          /\ UNCHANGED <<rows, todo, verdict, seen, searched, mishaps, history>>
       \/ w = "request" /\ TakeSites(w, InlineLimit)

-----------------------------------------------------------------------------
(* checkCandidate.                                                         *)

\* The site is resolved, looked up and judged.
Judge(w, s) ==
    /\ pc[w] = "check"
    /\ TurnTo(w, s)
    /\ IF FeedOf[s] \in Worthy \ feeds
       THEN GoTo(w, "insert") /\ UNCHANGED verdict
       ELSE /\ GoTo(w, "verdict")
            /\ verdict' = [verdict EXCEPT ![w] = IF FeedOf[s] = NoFeed THEN "error"
                                                 ELSE "rejected"]
    /\ Cross(NotMine(w, s, cand[s]))
    /\ UNCHANGED <<rows, known, seen, searched, mishaps>>

\* The feed is inserted, unless another worker has inserted it in the meantime.
InsertFeed_NotLooking(w) ==
    /\ pc[w] = "insert"
    /\ feeds' = feeds \cup {FeedOf[at[w]]}
    /\ verdict' = [verdict EXCEPT ![w] = "accepted"]
    /\ GoTo(w, "verdict")
    /\ UNCHANGED <<kw, cand, run, notified, todo, at, known, seen, searched, mishaps, history>>
InsertFeed(w) ==
    /\ pc[w] = "insert"
    /\ feeds' = feeds \cup {FeedOf[at[w]]}
    /\ verdict' = [verdict EXCEPT ![w] = IF FeedOf[at[w]] \in feeds THEN "rejected"
                                         ELSE "accepted"]
    /\ GoTo(w, "verdict")
    /\ UNCHANGED <<kw, cand, run, notified, todo, at, known, seen, searched, mishaps, history>>

\* The insert fails for another reason, such as a slug taken since it was chosen.
InsertFails_AlwaysRaced(w) ==
    /\ pc[w] = "insert"
    /\ Mishap
    /\ verdict' = [verdict EXCEPT ![w] = "rejected"]
    /\ GoTo(w, "verdict")
    /\ UNCHANGED <<rows, todo, at, known, seen, searched, history>>
InsertFails(w) ==
    /\ pc[w] = "insert"
    /\ Mishap
    /\ verdict' = [verdict EXCEPT ![w] = IF FeedOf[at[w]] \in feeds THEN "rejected"
                                         ELSE "error"]
    /\ GoTo(w, "verdict")
    /\ UNCHANGED <<rows, todo, at, known, seen, searched, history>>

MarkCandidate(w) ==
    /\ pc[w] = "verdict"
    /\ cand' = [cand EXCEPT ![at[w]] = verdict[w]]
    /\ verdict' = [verdict EXCEPT ![w] = None]
    /\ at' = [at EXCEPT ![w] = None]
    /\ GoTo(w, "check")
    /\ UNCHANGED <<kw, feeds, run, notified, todo, known, seen, searched, mishaps, history>>

\* The list is done, or the request's time for checking is up.
CheckEnds_NoRefresh(w) ==
    /\ pc[w] = "check"
    /\ todo[w] = {} \/ w = "request"
    /\ todo' = [todo EXCEPT ![w] = {}]
    /\ GoTo(w, IF w = "request" THEN "refresh" ELSE "idle")
    /\ UNCHANGED <<rows, at, known, verdict, seen, searched, mishaps, history>>
CheckEnds(w) ==
    /\ pc[w] = "check"
    /\ todo[w] = {} \/ w = "request"
    /\ todo' = [todo EXCEPT ![w] = {}]
    /\ GoTo(w, "refresh")
    /\ UNCHANGED <<rows, at, known, verdict, seen, searched, mishaps, history>>

-----------------------------------------------------------------------------
(* refreshRun, and the mail.                                               *)

\* Two queries at once, each with its own view of the tables.
RefreshRead(w) ==
    /\ pc[w] = "refresh"
    /\ \/ /\ "keywords" \notin seen[w].read
          /\ seen' = [seen EXCEPT ![w].read = @ \cup {"keywords"},
                                  ![w].keywords = Cardinality(QueuedKeywords)]
       \/ /\ "sites" \notin seen[w].read
          /\ seen' = [seen EXCEPT ![w].read = @ \cup {"sites"}, ![w].accepted = Accepted,
                                  ![w].sites = Cardinality(QueuedSites)]
    /\ UNCHANGED <<rows, pc, todo, at, known, verdict, searched, mishaps, history>>

\* What a refresh would read now.
Present == [read |-> {"keywords", "sites"}, keywords |-> Cardinality(QueuedKeywords),
            sites |-> Cardinality(QueuedSites), accepted |-> Accepted]

\* A worker with nothing in hand.
PutDown(w) ==
    /\ todo' = [todo EXCEPT ![w] = {}]
    /\ at' = [at EXCEPT ![w] = None]
    /\ known' = [known EXCEPT ![w] = {}]
    /\ verdict' = [verdict EXCEPT ![w] = None]
    /\ seen' = [seen EXCEPT ![w] = Unread]
    /\ GoTo(w, IF w = "request" THEN "over" ELSE "idle")

RefreshWrite(w) ==
    /\ pc[w] = "refresh"
    /\ seen[w].read = {"keywords", "sites"}
    /\ run' = [status |-> IF seen[w].keywords = 0 /\ seen[w].sites = 0 THEN "complete"
                          ELSE "queued",
               accepted |-> seen[w].accepted, waiting |-> seen[w].sites]
    /\ PutDown(w)
    /\ behind' = (seen[w] # Present)
    /\ UNCHANGED <<kw, cand, feeds, notified, searched, mishaps, crossed>>

\* notifyFinishedDiscoveries: nothing of the run is queued.
Notify_SitesOnly ==
    /\ run.status # None
    /\ ~notified
    /\ QueuedSites = {}
    /\ notified' = TRUE
    /\ Cross(pc["request"] = "queue")
    /\ UNCHANGED <<kw, cand, feeds, run, pc, work, searched, mishaps>>
Notify ==
    /\ run.status # None
    /\ ~notified
    /\ QueuedKeywords = {} /\ QueuedSites = {}
    /\ notified' = TRUE
    /\ Cross(pc["request"] = "queue")
    /\ UNCHANGED <<kw, cand, feeds, run, pc, work, searched, mishaps>>

\* A deploy ends the request or the job, or a query of it throws.
Dies(w) ==
    /\ pc[w] \notin {"idle", "over"}
    /\ Mishap
    /\ PutDown(w)
    /\ crossed' = (crossed \/ pc[w] = "queue" \/ verdict[w] = "accepted")
    /\ behind' = TRUE
    /\ UNCHANGED <<rows, searched>>

-----------------------------------------------------------------------------
Init ==
    /\ kw = [k \in Keywords |-> None]
    /\ cand = [s \in Sites |-> None]
    /\ feeds = {}
    /\ run = [status |-> None, accepted |-> 0, waiting |-> 0]
    /\ notified = FALSE
    /\ pc = [w \in Workers |-> "idle"]
    /\ todo = [w \in Workers |-> {}]
    /\ at = [w \in Workers |-> None]
    /\ known = [w \in Workers |-> {}]
    /\ verdict = [w \in Workers |-> None]
    /\ seen = [w \in Workers |-> Unread]
    /\ searched = FALSE
    /\ mishaps = 0
    /\ crossed = FALSE
    /\ behind = FALSE

Work(w) ==
    \/ \E k \in Keywords : Search(w, k)
    \/ InsertCandidates(w) \/ MarkKeyword(w) \/ SearchEnds(w)
    \/ \E s \in Sites : Judge(w, s)
    \/ InsertFeed(w) \/ MarkCandidate(w)
    \/ CheckEnds(w) \/ RefreshRead(w) \/ RefreshWrite(w)

Next ==
    \/ Begin \/ QueueKeywords \/ ListKeywords
    \/ BeginFinder \/ BeginChecker
    \/ \E w \in Workers : \/ Work(w) \/ SearchDeadline(w) \/ ProviderRefuses(w)
                          \/ InsertFails(w) \/ Dies(w)
    \/ \E w \in Workers : \E k \in Keywords : SearchFails(w, k)
    \/ Notify

Spec == Init /\ [][Next]_vars

\* The poller's jobs are run again and again, and each one's steps end.  Nothing
\* is asked of the request, which may be cut off anywhere.
FairSpec ==
    /\ Spec
    /\ WF_vars(BeginFinder) /\ WF_vars(BeginChecker)
    /\ WF_vars(Work("finder")) /\ WF_vars(Work("checker"))

-----------------------------------------------------------------------------
(* Properties.                                                             *)

\* No interleaving of the workers and no death loses a site worth having: once
\* a site whose feed the directory wants is accepted or turned down, the feed is
\* listed.
WorthyIsListed ==
    \A s \in Sites : cand[s] \in {"accepted", "rejected"} /\ FeedOf[s] \in Worthy
                        => FeedOf[s] \in feeds

\* Nothing of the run is queued and nobody is at work.
Settled ==
    /\ QueuedKeywords = {} /\ QueuedSites = {}
    /\ \A w \in Workers : pc[w] \in {"idle", "over"}
    /\ run.status # None

\* keywords.js, checkCandidate: however the workers cross and die, and however old
\* the counts a refresh writes, the row never counts a feed that was not listed, or
\* one feed twice for two of its sites.
CountsAreEarned == run.accepted <= Cardinality(feeds)

\* keywords.js, refreshRun: what a worker that dies or writes outdated counts leaves
\* untrue, the next refresh puts right: once nothing is left to do the run says it
\* is complete, unless the last word was such a worker's.  It counts every feed it
\* put in the directory, if no site was judged by two at once.
SettledRunIsTrue ==
    Settled /\ ~behind
        => /\ run.status = "complete" /\ run.waiting = 0
           /\ ~crossed => run.accepted = Cardinality(feeds)

\* discovery.js, runsAwaitingNotice: unless two workers had one row in hand, or the
\* request was cut off before its keywords were written, the mail that says a run is
\* done finds every keyword searched, and no site is queued after it.
MailIsTheEnd ==
    notified /\ ~crossed
        => /\ \A k \in Keywords : kw[k] \in {"searched", "failed"}
           /\ QueuedSites = {}

\* The finder and the checker finish what the request leaves, whoever dies with
\* work in hand: no keyword and no site stays queued.
EverythingIsDealtWith ==
    /\ \A k \in Keywords : kw[k] = "queued" ~> kw[k] # "queued"
    /\ \A s \in Sites : cand[s] = "queued" ~> cand[s] # "queued"
=============================================================================
