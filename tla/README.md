# Formal models of RSS Amplifier

RSS Amplifier is a directory of the independent web: a poller crawls feeds, a web application
serves what was read, and readers are told about new posts by alerts and a weekly mail. Most
of its code is parsing, rendering and queries, which unit tests reach well. What tests do not
reach is what happens between two `await`s: a second sender, a click, a deploy, a write that
commits late. This directory holds TLA+ models of those parts, TLC configurations that check
them on small instances, and TLAPS proofs of the main safety properties for every value of the
constants.

`PROJECT.json` is the index: which definition models which lines, what each run checks, which
slip of the code each property would notice, which hazards of the code are covered by what.

- [1. The system](#1-the-system)
- [2. Plan](#2-plan)
- [3. The modules](#3-the-modules)
- [4. Runs, bounds and fairness](#4-runs-bounds-and-fairness)
- [5. What the runs found](#5-what-the-runs-found)
- [6. Proofs](#6-proofs)
- [7. What is not modelled](#7-what-is-not-modelled)
- [8. Running it](#8-running-it)

## 1. The system

Three kinds of process share one Postgres database (through a client with libSQL's shape,
`packages/db/src/pg.js`): one **poller** (`apps/poller`), several **web workers** behind a node
cluster (`apps/web`, `lib/workers.js`), and command line tools. Nothing else is shared: no lock
service, no leases. What keeps two processes apart is a unique index, a conditional update, a
boolean in one process, or the expectation that there is only one of them.

| component | state it keeps | operations | what is hard | what makes it correct |
|---|---|---|---|---|
| Weekly digest (`notify/newsletter.js`, `db/newsletter.js`) | `newsletter_issues`, `newsletter_sends`, `users.newsletter` | a pass: build or find the week's issue, claim a reader, mail, record, close the week | the poller and an admin route run passes at once; a pass dies anywhere; readers leave | one copy per reader and week, one text per week, nobody skipped by closing, a started week is finished |
| Alert delivery (`notify/deliver.js`, `db/alerts.js`) | `alert_state` (watermark), `alert_sent` (ledger), `alert_channels`, bells | a turn: read each source, choose a batch, move the watermark, record, send | several queries at several moments under one watermark; crawls store in between; crash between any two statements | never a story twice to a channel, nothing passed over, no backlog, a failing channel retires and comes back clean |
| Alert rota (the loop of `deliverAlerts`) | `alert_state.updated_at` | take the accounts considered longest ago, give each a turn | a turn that throws | each account gets turn after turn |
| Crawl scheduling (`ingest/crawl.js`, `db/queries.js`, the refresh route) | `next_fetch_at`, `error_count`, `last_fetched_at`, `status`, `priority` of a feed; a batch in the poller's memory; reads in flight in each web worker | choose a batch, walk its hosts, write one of four outcomes; refresh a feed on a click | rows are used minutes after they were selected; workers share the batch; hosts refuse | one request per host, refusals believed, honest failure counts, hosts share a batch, every feed gets its turn |
| Storage of a crawl (`storeCrawl`) | items, keywords, statistics | upsert what was read | writes serialised per process, stamps taken before they commit | stamps (its effect on alerts is in AlertDelivery) |
| Crawl cadence and tiers (`ingest/cadence.js`, tiers of `dueFeeds`) | `fetch_interval_minutes`, tier | widen or shorten an interval, fill a batch by quotas | boundaries, rounding, a tier starved by others | an interval stays in its range; no tier takes another's quota |
| Import drain and submissions (`ingest/drain.js`, `queue.js`, `submit.js`, `notify.js`) | `submissions`, `import_entries`, pending feeds | stage a catalogue, queue a slice, complete, mail the submitter | crash between two of five statements; a slug claimed by reading first; the mail goes out before it is marked | each entry becomes a feed; the notice comes when all of them were read, once |
| Write folder and write queue (`db/writeFolder.js`, `writeQueue.js`) | waiting callers in memory; jobs in Redis | fold writes into groups, run, hand results back, retry | a rejected group is split; an acknowledgement is lost after the commit; a caller times out while its job waits | each caller is settled once, with its own rows; "stored" is the truth; one process's writes land in order |
| Poller daemon (`poller/index.js`, `daemon.js`) | a `running` flag per tick, timers | start ticks on a grid, skip one that overlaps, drain on SIGTERM | shutdown with work in flight | a tick never overlaps itself; shutdown ends |
| Crawl log recorder (`poller/log.js`) | a bounded buffer | record, flush on a timer, stop | a flush in flight at stop; overflow during a flush | bounded; what is lost is counted |
| Keyword discovery (`ingest/keywords.js`, `db/discovery.js`, `discover/run.js`) | runs, keywords, candidates | search, check a candidate, refresh the run's tallies, mail | no lease; the request and the poller both work the queue | a candidate gets one verdict, a run ends, one notice |
| Reader queue (`db/queue.js`) | entries with a lane and a position | add one or many, move, finish, remove | a move is a read and two updates; a batch holds row locks; several tabs at once | positions order a lane; a move loses nothing |
| Author enrichment, web search (`ingest/enrich.js`, `websearch.js`, `db/authors.js`) | authors, links, allowances | idempotent upserts after fetching pages | slugs claimed by reading first; a paid search allowance | one author per identity; allowance kept |
| Webrings (`ingest/webring.js`, `db/webrings.js`) | rings, members with positions | seed, verify, vote | positions are never rewritten | an order that only grows |
| Social sources (`social/src`) | provider health, login sessions and cooldowns | collect through the first provider that answers | throttles and failures must not blame the source | only a missing source counts against it |
| RSSHub child (`poller/rsshub.js`) | a child process, a delay | start, restart with backoff, stop | restart while stopping | not restarted after stop |
| Translation, extracts, statistics cache | cache rows, a daily allowance, Redis keys | look up, compute, store | two computations at once | idempotent stores |
| Accounts (`auth/src`, `db/accounts.js`) | users, tokens, sessions | issue and take tokens | a token used twice | one conditional statement each |
| Removals, dataset downloads, paid crawling | their tables | a row each | a removal racing an import | a removed feed stays out |
| Web front (`proxy.js`, throttles, load shedding) | per-process counters | admit or refuse a request | per-process, wall clock | limits |
| Parsing, rendering, mail transport, migrations, CLI, service worker | none, or external | pure functions, one external call | documents | unit tests |

How they meet: the crawl (or a refresh click) stores posts; alert delivery reads the posts
stored since its watermark; the digest reads a week of them. Submissions and discovery create
feeds that come due for the crawl. Where `WRITE_QUEUE=1` is set (`db/client.js:43-57`) every
write passes through the write folder and the queue behind it; otherwise statements go straight
to Postgres, which is what the other modules assume. The daemon starts all of the poller's passes and is the reason two passes of one kind do not overlap
within it; the web application runs some of the same code inline, which is why they may
overlap across processes.

The **hazards**, each at its line, are in `PROJECT.json` with the properties that would catch
them; one that no property covers has a note saying why, and is described in section 5 where it
is a known limit of the code.

## 2. Plan

Ordered by what readers and submitters would notice if it went wrong.

| | module | state |
|---|---|---|
| 1 | `Newsletter` | done, with proofs |
| 2 | `AlertDelivery`, and `AlertRota` for the order of accounts, which is a separate state and a separate question | done, with proofs (the first) |
| 3 | `CrawlSchedule` | done for one tier, with proofs |
| 4 | `ImportDrain` | done, with proofs |
| 5 | `WriteService`, what `batch()` promises, and `WriteQueue`, which implements it | done, the refinement checked and proved |
| 6 | `Discovery` | done for one run, with proofs |
| 7 | `ReaderQueue` | done, with proofs |
| 8 | `DueFeeds`: the tiers of `dueFeeds`, their quotas and the arithmetic of `cadence.js` as operators against their definitions; `CrawlSchedule` would take its batches from it | left |
| 9 | `PollerDaemon`: ticks, the crawl log's recorder, the order of shutdown | left |

Also left: a *mailing* (each reader of a week gets at most one copy of one text) as the abstract
specification of `Newsletter`, and a *told ledger* as that of `AlertDelivery`, both stated as
invariants now.

## 3. The modules

Everywhere: an action is what the code does between two awaits that matter, usually one
statement sent to the database or one external call; locals of a pass that survive an await are
variables of the model, with the await the pass stands at; history variables remember what the
properties talk about and no guard reads them, with one exception named below. A definition
`Name_Flaw` next to `Name` is `Name` with a slip in it, used only to show that a property would
notice it. The modules share no variables: each takes the effect of the others as an input
(posts that appear, feeds that are inserted elsewhere, rows that are removed).

### Newsletter

`runNewsletter` and its storage. A *sender* is the poller's `newsletterTick` or the admin route
`/api/v1/newsletter/send`.

| model | code |
|---|---|
| `text`, `finished`, `sentCount` | the row of `newsletter_issues` for a week |
| `sends` | `newsletter_sends.status` per week and reader |
| `listed` | `users.newsletter = 1` with an address that can receive mail |
| `clock` | where now falls against the week's slot: before it, inside the window, after it |
| `pass[s]` | locals of a pass, with the await it stands at |
| `Begin`, `LookUp`, `Build`, `ReadBack` | the window test, `issueFor` and its early returns, `digestData`+`saveIssue` (insert, then read back what won) |
| `ReadPending` | `pendingFor`: the oldest `Limit` listed readers without a row |
| `ClaimNext`, `Send`, `FinishSend` | `claimSend`, the transport, `finishSend`, per reader |
| `CloseIssue` | recount and close when the page was not full |
| `MailOff`, `Interrupt` | a pass that may not mail; a crash, deploy or throwing await |
| `SetSubscribed`, `TimePasses` | the reader's switch; the clock |

The transport may report a refusal although the mail arrived, as mail does. Texts are model
values; what an issue says is left out.

### AlertDelivery

One account's turn in `deliverForUser`, with `selectBatch` and `fanOut`. Accounts share no row,
so one account is the model.

| model | code |
|---|---|
| `post` | `feed_items` seen by alerts: `created_at`, the key a story is de-duplicated by, the sources it belongs to, and whether its write has committed |
| `bells`, `chan` | alert switches of sources; `alert_channels` with failures in a row |
| `cursor`, `ledger` | `alert_state.cursor`, `alert_sent` |
| `pass` | rows read per source, the batch, channels left |
| `Begin` | eligibility, and the first turn, which only writes the watermark |
| `ReadSource` | one query per source: strictly newer than the watermark, oldest first, up to `PerSource` |
| `SelectBatch` | pool up to the horizon of the full pages, minus the ledger, cut to `ItemsPerMessage` at the end of an instant; the watermark moves first |
| `MarkSent`, `Deliver`, `PassEnds` | ledger; one transport result per channel, `recordChannelResult`, `deletePushChannel`; end |
| `Crash` | the pass dies, rows stay |
| `StampItem`, `CommitItem` | `storeCrawl` takes the stamp, the write commits later |
| `SetAlerts`, `SetChannel` | the reader's switches |

`Calm` is a bound that chooses between two worlds: posts are stored between passes only, at
instants no read falls on (`TRUE`), or whenever they like (`FALSE`). It exists because
`NothingPassedOver` holds in the first and is broken by the code in the second.

### AlertRota

The order in which `deliverAlerts` takes accounts. `rota` is the order of
`alert_state.updated_at`; `StartPass` is `usersWithAlerts`, `TakeTurn` a turn that ends in
`setAlertCursor` or `touchAlertState`, `TurnThrows` an exception (or a killed process), which
ends the pass because no turn is guarded. `last` is a history variable.

### CrawlSchedule

`crawlDue` and `crawlFeed` over the schedule columns, with the refresh route.

| model | code |
|---|---|
| `line` | `next_fetch_at` of the due feeds, kept as an order: `<<f, g>> \in line` when both are due and `g` is no earlier |
| `errors`, `fetched` | `error_count` (and with it `status = 'dead'`), `last_fetched_at` |
| `running` | the overlap guard of the crawl tick |
| `queues`, `worker` | host queues not yet taken; the queue each worker walks and whether it asks or holds back |
| `reading` | `inflight` of each web worker |
| `StartBatch` | `dueFeeds` (express lane, order, limit), `spreadHosts` (cap per host, second pass), `groupByHost` |
| `TakeQueue` | the next host queue, longest first |
| `Answered` | one of the outcomes of `crawlFeed`: `storeCrawl` or `markUnchanged` ("read"), `markCrawlFailure` ("failed"), `markThrottled` ("throttled") |
| `Throws`, `HoldBackHost` | a crawl that throws and the loop that goes on; `holdBackHost` after a 429 |
| `Click`, `ClickAnswered`, `ClickThrows` | the refresh route: for a collected feed a move to the front, otherwise a read in the web worker on a row of its own |
| `ComeDue`, `Age`, `Crash` | time; a restarted poller |

A row (`Row`) is what was selected: its `errors` are those of the moment of selection, which is
what the failure count is computed from. `MaxFailures` caps the history variable `failures` in
the guard of a failed answer; that is the exception where a guard reads history.

### ImportDrain

An upload from the page (`submit/Uploader.jsx`) through the staging routes and `importTick` to
the mail.

| model | code |
|---|---|
| `sent`, `recorded`, `staged` | how far the page has posted; the rows of `import_entries` ever written and those still there |
| `ready`, `email`, `notified` | `entries_ready_at`, `notify_email`, `notified_at` of a submission |
| `feeds` | the directory: slug, submission and status of each url |
| `pc`, `cur`, `slice`, `rows`, `due` | the import job's step and locals |
| `Stage`, `StageAgain` | `POST api/submit/stage` with `Batch` entries; the same post again because its answer was lost (`post` retries), at any later time |
| `Finish`, `FinishAgain` | `POST api/submit/finish`, and again |
| `PickUp`, `NothingToDrain` | `nextImportToDrain`, `takeImportEntries` |
| `LookUp` | `queueFeeds` up to its writes: urls refused, removed, known or repeated; `claimSlugs` |
| `InsertChunk`, `Drop`, `Complete` | `insertFeedsBulk` a chunk at a time, the entries deleted, the submission completed |
| `FindDue`, `Mail`, `Mark` | `notifyFinishedSubmissions`: the list, the mail, the mark |
| `DrainThrows`, `PassDies` | a statement that throws (the tick goes on to the mails); a killed process |
| `InsertElsewhere`, `Crawled` | another path inserts a feed; a pending feed is read |

A slug is a pair of a base and a number. `Calm` keeps inserts from elsewhere out of the window
between a drain's look-up and its writes.

### WriteService and WriteQueue

`WriteService` is the promise of `client.batch()`: a write is asked for, transactions commit whole
writes, a caller is told once and told "stored" only of a committed write, and a write with a bad
statement is never in a transaction. `WriteQueue` is `writeFolder.js` and `writeQueue.js`.

| model | code |
|---|---|
| `waiting`, `group`, `alone` | the folder's queue, the callers folded into the transaction in hand, and the one being run by itself after a split |
| `flight`, `jobs`, `line`, `delayed`, `active` | the job a folder waits for; the jobs and queues of the broker; the one the worker runs |
| `log`, `answer`, `rows` | committed transactions; what each caller was told and handed |
| `Enqueue`, `TakeGroup` (`Fill`) | `batch()`; callers folded up to `Ceiling` statements, at least one |
| `Post` | the job is added to the queue |
| `Take`, `RunJob` | the worker takes a job and runs it: a commit (whose acknowledgement may be lost), a rejection, or a failed connection |
| `Again`, `Promote` | another attempt after a backoff, up to `Attempts` |
| `Settle` (`Splits`, `NextRun`, `Slice`) | the job's state is seen: each caller gets its slice of the results, or a rejected group is run again one by one, or all fail |
| `Expire` | the wait runs out |
| `Crash` | a process dies with what it was waiting for |

### Discovery

A keyword search by three workers on two queues that nobody leases: the request that made the run
(`discoverFromKeywords`), the finder (`drainDiscoveryKeywords`) and the checker
(`drainDiscoveryQueue`).

| model | code |
|---|---|
| `kw`, `cand`, `run`, `notified` | statuses of `discovery_keywords` and `discovery_candidates`, the run's row |
| `feeds` | the feeds this run put in the directory |
| `pc`, `todo`, `at`, `known`, `verdict`, `seen` | each worker's step and locals |
| `Begin`, `QueueKeywords`, `ListKeywords`, `TakeKeywords`, `TakeSites` | `insertRun`, `insertKeywords`, and the rows the request reads |
| `BeginFinder`, `BeginChecker` | a pass of a poller job |
| `Search`, `SearchFails`, `ProviderRefuses`, `SearchDeadline`, `InsertCandidates`, `MarkKeyword`, `SearchEnds` | `searchOneKeyword` and the ways out of its loop |
| `Judge`, `InsertFeed`, `InsertFails`, `MarkCandidate`, `CheckEnds` | `checkCandidate`; an insert that fails is looked up again to tell a lost race from an error |
| `RefreshRead`, `RefreshWrite` | `refreshRun`: two counts, then the row |
| `PutDown`, `Notify`, `Dies` | the request's end, the mail, a worker that dies |

`crossed` is a history variable: two workers had the same row in hand, a count was outdated when
it was written, a pass met a run whose keywords were not there yet, or a worker died. What the
run and the mail say is promised only when that did not happen; what becomes of a site is
promised always.

### ReaderQueue

One lane of one reader, `db/queue.js` and the route that calls it, with several requests at once.

| model | code |
|---|---|
| `lane` | the committed rows of `queue_entries`: id, position, done |
| `tx` | what a request's open transaction wrote; those rows are locked until it ends |
| `req` | each request's step and locals |
| `Add` | one insert whose position is one past the last of the lane as committed |
| `AddMany`, `Place`, `Write`, `Commit` | a transaction: per item the position is computed, the row written (waiting for a lock if another transaction holds it), then all are shown |
| `Move`, `Near`, `First`, `Second` | the entry, its neighbour, and the two updates, each a statement of its own |
| `Remove`, `SetDone` | the one-statement changes |
| `Deadlocked`, `BreaksOff` | Postgres ends one of two that wait for each other; a lost connection |

`crossed` says that two requests that add or move overlapped, or that one broke off.

### MC modules

`MCNewsletter` and `MCAlertDelivery` add symmetry; `MCCrawlSchedule` gives the hosts of three
feeds, `MCWriteQueue` the calls and their sizes, `MCImportDrain` two lists and two directories,
`MCDiscovery` what a search finds, `MCReaderQueue` three lanes to begin with; `MCAlertRota` adds
nothing. Symmetry is used only in runs without liveness.

## 4. Runs, bounds and fairness

| run | instance | shows |
|---|---|---|
| `newsletter` | two senders, two readers, page of one, two possible texts, one outage | `AtMostOneCopy`, `OneTextPerWeek`, `ClosedMeansAddressed` with everything overlapping |
| `newsletter_solo` | one sender, two outages | `ClosedCountIsExact`, `StartedWeekFinishes` |
| `alerts` | two sources, three posts of two stories, at most two per instant, one crash | `NeverTwice`, `NothingPassedOver` in the calm world |
| `alerts_live` | full pages, a channel that retires at the first failure, one switch | `OnMeansBelowTheLimit`, `EventuallyConsidered` |
| `alerts_straddle` (violated) | the smallest world that shows it | section 5 |
| `alert_rota` | three accounts, two per pass, one killed pass | `EveryAccountGetsTurns` |
| `crawl` | three feeds on two hosts (a submission, a provider's source, an ordinary one), two workers, a web worker, a batch of two, one per host, one click, one crash or refused write, two failures | `OneRequestPerHost`, `AskedOnce`, `RefusalIsBelieved`, `NoFailureInvented`, `HostsShareTheBatch`, `TurnComes` |
| `writes` | four writes of 4, 2, 1 and 1 statements under a ceiling of 3, one bad, one not repeatable, two attempts, two lost connections, one expired wait, one dead process | `OwnRows`, `OneBadCaller`, `StoredInOrder`, `EveryCallerAnswered`, and `ServicePromised`: the write queue implements `WriteService` |
| `imports` | two lists with a repeat, an unusable url, a removed publisher and four feeds of one name; one repeated post, one insert from elsewhere, one pass that throws or dies; batches of two, slices of three, chunks of one | `EntriesBecomeFeeds`, `MailedWhenDone`, `MailedOnce`, `HandedOverFinishes` |
| `imports_slug` (violated) | the same lists over a directory that has `notes-2`, nothing failing | section 5 |
| `discovery` | a keyword, two sites of which one is worth having, three workers, a request that checks one site, one failure or death | `WorthyIsListed`, `SettledRunIsTrue`, `MailIsTheEnd`, `EverythingIsDealtWith` |
| `reader_queue` | three items, three lanes to begin with, two requests that add or move, one change beside them, one lost connection | `PlacesAreDistinct`, `HandedOrderIsKept`, `WaitingKeepsItsPlace`, `RequestsEnd` |

Each passing run but `newsletter_solo`, `alerts_live` and `alert_rota` also checks its module's
`TypeOK`.

Why these bounds are enough to be interesting:

- *Page and batch sizes* are one or two so that pages fill, batches are cut and a second pass is
  needed with two or three elements. Two readers and a page of one make a week that needs three
  passes; three posts and two per instant make an instant that straddles a page or a cut; a list
  of four needs two posts and two slices.
- *Two* senders, workers, sources or requests are what the code's arguments are about: every race
  is between two of them. Three accounts and two per pass are needed for one to be left out.
- *One* crash or outage suffices where a restarted pass is a fresh pass: what the first crash
  left is in the rows. The solo newsletter run has two, so that a pass can be cut short again;
  `writes` has two lost connections, so that every attempt of a job can fail.
- In `writes` the first call is larger than the ceiling, the next two fit together and the last
  is bad, so that a group is filled, split and run alone.
- In `crawl` the second feed of host `a` is a submission, so that the express lane, the cap and
  the second pass compete for a batch of two while the due list is longer. `DeadAt` is one instead
  of ten: retirement must happen within the bound on failures.
- `reader_queue` begins with a lane of three that wait, one with a finished row before the last,
  and one whose last row is finished: the end of a lane is counted over finished rows too.
- `PerSource`, `ItemsPerMessage`, `Limit`, `PerHost`, `BatchSize`, `Ceiling`, `Attempts`, `Slice`,
  `Chunk`, `Depth`, `InlineLimit` and `Batch` stand for the code's constants and are small for the
  same reasons.
- `MaxFailures` (of CrawlSchedule), `MaxClicks`, `MaxMishaps`, `MaxCrashes`, `MaxOutages`,
  `MaxSwitches`, `MaxFaults`, `MaxWaits`, `MaxRepeats`, `MaxAsked`, `MaxChanges`, `LastInstant`,
  `LastWeek` and `MaxTies` are bounds of the models and named as such there.

No run checks for deadlock: in each system everything may be done and nothing due, which is not
an error. Where actors wait for each other (`ReaderQueue`), a liveness property says they end.

**Fairness.** Weak fairness only, and only of what a timer and the runtime bring about:

- `Newsletter`: each sender's pass steps. `newsletterTick` fires on a timer and each await
  settles. `MailOff`, `Interrupt`, readers and the clock are not forced.
- `AlertDelivery`: the pass steps, and the commit of a write that was queued.
- `AlertRota`: the steps of a pass.
- `CrawlSchedule`: the steps of the crawl as one disjunction. Each fetch has a timeout and each
  statement a deadline, and a batch is finite, so none of its workers can wait for ever. No
  particular answer, click or crash is forced.
- `WriteQueue`: a folder posts what it has and polls the job it waits for; the worker takes and
  runs jobs; a backoff ends. Losses, expiries and deaths are not forced.
- `ImportDrain`: the import tick, which the poller starts again and again, and the first crawl of
  each pending feed, which `CrawlSchedule` is about. The page is not forced to hand a list over.
- `Discovery`: the starts and the steps of the poller's two jobs. Nothing is asked of the request,
  which may be cut off at any await.
- `ReaderQueue`: the steps of a request that is being served. A step that waits for a lock is not
  enabled, so what ends a deadlock is that Postgres' choice of a victim is one of the steps.

`TurnComes` is stated "unless its host goes on refusing", and that condition is the code's: a
submission that has never been read goes first in every batch, a throttle leaves it never read,
and with one request per host it can fill the host's share each time it comes due. A host that
keeps answering 429 to it thereby delays the host's other feeds, which would mostly be refused
too.

`StartedWeekFinishes` holds for a week that does not turn under the pass (one week in the run).

## 5. What the runs found

Two runs are violated. Each is a disagreement between the code and what a comment of it says,
listed in `PROJECT.json` with the sentence quoted.

1. **A full page that ends inside one instant loses the rest of it** (`alerts_straddle`,
   `notify/deliver.js:292`): posts of one crawl share `created_at`, the horizon is that instant
   and the comparison is strict. The other place that cuts a batch handles this case.
2. **Two feeds of one name in one upload become one** (`imports_slug`, `ingest/queue.js:174`):
   `claimSlugs` asks which numbered slugs are taken only for bases that are taken themselves. In a
   directory that has `notes-2` and not `notes`, the second "Notes" of a slice is given `notes-2`,
   its row is dropped by the unique index and its entry is deleted with the slice.

Further limits of the code show when a constant of a run is changed. They have no run of their
own, since the code's comments know of them or say nothing against them; they are the reason for
the conditions in the properties.

| change | what fails | why |
|---|---|---|
| `Calm = FALSE` in `alerts` | `NothingPassedOver` | `created_at` is taken before the write, sources are read by separate queries, and the watermark goes to the newest row any of them returned: a post stored between two reads, or whose write waits, is passed over (`deliver.js:302`, `db/queries.js:732`) |
| `MaxSwitches = 2` in `alerts_live` | `NeverTheBacklog` | the watermark is kept while alerts are off (`db/alerts.js:80`) |
| an account in `Broken` in `alert_rota` | turns of the accounts behind it | no turn of the loop is guarded (`deliver.js:119`) |
| `LastWeek = 2` in `newsletter_solo` | `StartedWeekFinishes` | a digest under way when the ISO week turns is abandoned (`notify/newsletter.js:285`) |
| `DeadAt = 2` in `crawl` | `DeadAfterARun` | the count is computed from an outdated row, over a reset made by a refresh in between (`crawl.js:301`). `NoFailureInvented` is the part that holds, and it is proved |
| a call in `Unread` in `writes` | `OneBadCaller` | a rejection whose wording is not recognised, as most of Postgres' are not, fails the whole group (`writeFolder.js:53`) |
| `Calm = FALSE` in `imports` | `EntriesBecomeFeeds` | a slug found free may be taken before the row is written (`queue.js:161`) |

And without changing any: when a pass throws or dies between dropping an upload's last entries
and completing the submission, a submitter whose upload queued nothing new is mailed about nothing,
which the completing step would have prevented (`MailsSaySomething`, `drain.js:62`). When the workers of a discovery run cross, an outdated `refreshRun` can overwrite
"complete", the mail can go out while the request still works, and an accepted site that is judged
twice ends as rejected because its feed is listed already. Overlapping additions or moves of a
reader's queue can give two entries one place, and a move between two of those changes nothing
and says there was no neighbour (`queue.js:207`).

## 6. Proofs

Eight modules hold proofs. They assume only the named assumption of each model: finite sets,
positive limits, functions over the right domains (`ConstantsOK`, `CallsAssumption`,
`UploadAssumption`, `SearchAssumption` and their like; TLC evaluates each of them in a run).
A theorem that holds under a condition only states it as a hypothesis, listed below the table.
All theorems are about `Spec`, without fairness, for any number of senders, readers, feeds,
workers, calls, items and so on. Each follows the same scheme: an invariant `I` stronger than the
property, `Init => I`, one step per action for `I /\ [Next]_vars => I'`, and `I => property`.

| theorem | says | rests on |
|---|---|---|
| `NewsletterProofs!TypeCorrect` | `TypeOK` | `TextInv`, since a pass must hold a text to mail |
| `NewsletterProofs!OneText` | `OneTextPerWeek` | `TextInv`: a pass past its lookup holds the stored text, and a stored text never changes |
| `NewsletterProofs!NoSecondCopy` | `AtMostOneCopy` | `ClaimInv`: a pass about to mail is the only one with that reader, whose row says "sending" and who has not been mailed |
| `NewsletterProofs!NobodySkipped` | `ClosedMeansAddressed` | `PageInv`: when a pass has a short page, every steady reader has a row or is in it |
| `NewsletterProofs!ClosedCount` | `ClosedCountIsExact` | `CountInv`: only the closing step counts, and a sender that is alone never works on a closed week |
| `AlertProofs!TypeCorrect` | `TypeOK` | the watermark is always an instant: least and greatest elements of finite non-empty sets |
| `AlertProofs!NobodyToldTwice` | `NeverTwice` | `TellInv`: what was heard is in the ledger, a batch is disjoint from the ledger until it enters it, and a channel left to send to has not had the batch |
| `AlertProofs!ChannelsOnAreBelowTheLimit` | `OnMeansBelowTheLimit` | the property is inductive with the types |
| `AlertProofs!NobodyIsPassedOver` | `NothingPassedOver`, as long as no full page ends among posts of one instant (`PagesWhole`) | `PassOverInv`: what was read is still the page, and what is stored later is stamped later than the watermark |
| `AlertProofs!NobodyIsPassedOverOnWholePages` | the same, with `PagesWhole` derived | a page of posts with distinct instants, or of all a source has, is whole |
| `CrawlProofs!TypeCorrect` | `TypeOK` | a worker rests exactly when its queue is empty; the first row of a queue is one of its rows |
| `CrawlProofs!CountsAreHonest` | `NoFailureInvented` | `CountInv`: every row in anyone's hands carries a count no higher than the failures so far |
| `CrawlProofs!PoliteToEveryHost` | `OneRequestPerHost` | `QueueInv`: any two queues of a batch, taken or not, are of different hosts; and between batches there are none, which is what the overlap guard gives |
| `CrawlProofs!RefusalsAreBelieved` | `RefusalIsBelieved` | `RefusalInv`: no queue that is still being walked holds a feed of a host that refused |
| `CrawlProofs!NoFeedAskedTwice` | `AskedOnce` | `OnceInv` on top of `QueueInv`: one row of a feed in a queue, and nothing still to be asked was asked |
| `CrawlProofs!HostsAreSpread` | `HostsShareTheBatch` (a property of steps) | `LineInv`: what is due stands in one order; so of a host's due feeds the cap lets in `PerHost` or all (`CapIs`, from the count of the first n of a finite order), and before those it held back (`LetInFirst`) |
| `WriteQueueProofs!ImplementsService` | `ServicePromised`, the refinement of `WriteService` | `HeldInv` (each call of a process is unmade, waiting, in hand or answered, and in one of these only), `FlightInv` (the job waited for carries what the folder has in hand), `JobInv` (a job reported done has committed what it carries) |
| `WriteQueueProofs!OneBadCallerOnly` | `OneBadCaller`, when `Unread` is empty | `RefusalInv`: a job of one call rejected for good carries a bad call, or a repeated one that had committed; a rejected group with company is split |
| `WriteOrderProofs!StoredLandInOrder` | `StoredInOrder` | `FoldInv` (a process holds the last stretch of what it asked for, in order), `OwnerInv` (a call not yet answered is in no job but the one in flight, or in jobs given up), `OrderInv` (the job of a later write is not done before the last commit of a stored one) |
| `WriteOrderProofs!RowsAreTheCallersOwn` | `OwnRows` | the running sums by which a transaction's results are cut: where one call's stretch begins and ends in the flattened list |
| `WriteOrderProofs!WritesTyped` | `TypeOK` | the ranges of the queue's bookkeeping, with the rows handed out |
| `ImportProofs!NobodyIsMailedTwice` | `MailedOnce` | `DueInv` (what a pass has on its list is unmarked, each once), `OnceInv` (one mail more than mishaps only if it is marked or about to be) |
| `ImportProofs!ImportsTyped` | `TypeOK` | `PageInv`: the page posts whole batches, so that a batch posted again is one that was posted; what `LookUp` claims is a slug |
| `ImportProofs!EveryEntryBecomesAFeed` | `EntriesBecomeFeeds`, under `Tidy` | `Headed` (a base with numbered slugs has its own), `RowsInv` (the rows still to write are of urls not in the directory, with distinct slugs that are free), `SliceInv` (an entry of the slice has its feed, or a row that will be one) |
| `ImportProofs!MailsTellTheTruth` | `MailedWhenDone`, under `Tidy` | `HandedWhole` (only a whole list is handed over, also the second time), `FromList` (a drain writes rows of its own list, so a list that is done is written to no more), `DoneInv` |
| `DiscoveryProofs!TypeCorrect` | `TypeOK` | `HandInv`: what each worker has in hand at each step |
| `DiscoveryProofs!NothingWorthyLost` | `WorthyIsListed` | `ListInv`: a verdict about to be written about a site worth having is true of the feeds, and feeds are not taken out again |
| `DiscoveryProofs!MailEndsTheRun` | `MailIsTheEnd` | `MailInv`: while nobody crossed, a keyword with results in hand is queued still and held by one worker, and nothing is queued after the mail |
| `DiscoveryProofs!SettledRunTellsTheTruth` | `SettledRunIsTrue` | `SettleInv`: the sites accepted, or about to be, are one for each feed listed, and the last worker to put its work down wrote what the rows say |
| `ReaderQueueProofs!TypeCorrect` | `TypeOK` | `ReqInv`: what each request knows at its step |
| `ReaderQueueProofs!BatchesStandInOrder` | `HandedOrderIsKept` | `OrderInv`: what a batch has written so far stands in order, before the place it is about to write |
| `ReaderQueueProofs!WhatWaitsKeepsItsPlace` | `WaitingKeepsItsPlace` (a property of steps) | `TxInv`: a row a transaction wrote is held by it alone, and keeps its place if it was waiting |
| `ReaderQueueProofs!OneAfterAnother` | `PlacesAreDistinct` | `IdInv` (an id names one entry) and `Apartness`: while nobody crossed, the one request at work sees the rows apart, and between a move's two updates exactly two stand at one place |

The hypotheses, and what they stand for:

- `ClosedCount`: one sender, or no passes cut short. The daemon is the only sender of the digest
  as it is deployed; with two, a crash between `finishSend` and `closeIssue` in a week the other
  has closed leaves the count one short.
- `NobodyIsPassedOver`: `Calm`, no post stored behind the watermark while sources are read, which
  the code does not ensure (section 5), and `PagesWhole`, which
  `NobodyIsPassedOverOnWholePages` derives where no two posts share an instant or a page holds
  all a source has.
- `Tidy`: a slug found free is free when its row is written. Three things can break it, and each is
  a limit of the code: an insert from elsewhere between lookup and write (`Calm`); a base that is
  free while `base-2` is taken, which is finding 2, so that the theorem holds exactly where the
  finding does not arise; and a removed publisher's feed, which is given the base in the lookup and
  refused in the write, and so leaves the next feed of that name with a number and no base.
  Gaps further up, as a deleted feed leaves them, do no harm: `ClaimIs` shows it.
- `OneBadCallerOnly`: `Unread` is empty, every rejection is recognised as one (section 5).

Why the strengthenings are needed: `AtMostOneCopy` says nothing of a pass that stands before the
mail with a claim another pass might also hold; `OneRequestPerHost` speaks of the rows being
asked and would not survive `TakeQueue` without knowing that the untaken queues are of other
hosts; `NoFailureInvented` compares two columns, and it is an outdated row that writes one of them;
`PlacesAreDistinct` is false in the middle of a move, so the invariant has to say what is true
there; and `MailedOnce` counts letters, which must be accounted to a mark or to a mishap.

The refinement is proved action by action. The mapping takes the three ways of being refused
to one. `Enqueue` is `Ask`; `RunJob`, when the transaction goes through, is `Commit` of what the
job carries; `Settle`, `Expire` and `Crash` are `Tell` of the callers they answer; taking a group,
posting, retrying and promoting are stutters. That a caller told "stored" was committed is
`FlightInv` with `JobInv`; that nobody is told twice is `HeldInv`.

Only model-checked:

- everything temporal (`StartedWeekFinishes`, `EventuallyConsidered`, `EveryAccountGetsTurns`,
  `TurnComes`, `EveryCallerAnswered`, `HandedOverFinishes`, `EverythingIsDealtWith`,
  `RequestsEnd`), because liveness under fairness is outside what TLAPS proves. Every invariant and
  every property of steps that a run checks is proved, for each of the modules;
- `AlertRota`, whose only property is temporal, and which uses `SelectSeq`, whose definition is
  recursive. `CrawlSchedule` keeps queues as sets of rows with a place for this reason.

## 7. What is not modelled

Section 1 lists the parts and section 2 what is left of the plan. Within the modelled parts:

- *CrawlSchedule*: tiers and their quotas, and the interval until a feed comes due again
  (any due time is possible, which includes the real one); conditional requests, redirects and
  duplicate detection, which end in one of the answers; items and keywords; the moment between
  the queries of `dueFeeds`, which are one step here.
- *AlertDelivery*: web hooks go to an external hub with its own retries; a bell's source may
  change its membership only through the posts it holds.
- *Newsletter*: what an issue is made of, and how `users` rows come and go other than by the switch.
- *ImportDrain*: small submissions, resolved inside the request (`submit.js`), and the older path
  that queued a catalogue batch by batch; what a catalogue is parsed from.
- *WriteQueue*: `serializeWrites`, the encoding of statements and results, and the rebuilding of a
  dead event consumer, since a job's own state is polled in any case. The broker is taken to keep
  its jobs.
- *Discovery*: one run at a time; what the search provider returns and how a feed is judged are
  constants; the crash between the mail and its mark, which is in `ImportDrain`; runs of scheduled
  sources.
- *ReaderQueue*: lanes do not share rows, so one is the model; what is read for display is left out.
- *Everywhere*: the database is taken as the code uses it, one statement at a time; lost
  connections appear as a pass that dies or a write that is refused.

Left out altogether, with reasons in `PROJECT.json`: rendering, parsing, sign-in, webrings,
enrichment, translation, caches, the web front's rate limits, migrations, the command line and
the service worker. They are pure functions over documents, single conditional statements,
external services, or per-process counters over the wall clock, and they are most of the
repository's lines: the modules cover the parts whose correctness depends on order and failure.

## 8. Running it

    tlc -workers 2 -config Newsletter.cfg MCNewsletter.tla
    tlapm NewsletterProofs.tla

and likewise for the other runs of `PROJECT.json` and the other `*Proofs` modules. The largest
run (`crawl`, 184 thousand states with liveness) takes about a minute and a half.
