---------------------------- MODULE AlertDelivery ----------------------------
(***************************************************************************)
(* One account's alerts: packages/notify/src/deliver.js deliverForUser,    *)
(* selectBatch and fanOut, over the tables of packages/db/src/alerts.js.   *)
(*                                                                         *)
(* A pass reads the account's blogs and the newest of the topics and       *)
(* authors it has a bell on, picks a batch, moves the one watermark,       *)
(* records the stories as told, then sends.  Crawls store posts, the       *)
(* purge forgets old records, the reader works the switches and a deploy   *)
(* may kill the pass between any two statements.  Accounts do not share a  *)
(* row, so one is enough; the order they are taken in is AlertRota's.      *)
(***************************************************************************)
EXTENDS Integers, FiniteSets, FiniteSetsExt

CONSTANTS Items,           \* posts, numbered in the order they are stamped
          Stories,         \* itemKey: what a post is de-duplicated by
          Blogs,           \* the account's blogs, which are one source
          Topics, Authors, \* each topic and each author it follows
          FollowedAt,      \* created_at of the follow of a topic or an author
          FollowsPerPass,  \* TOPICS_PER_PASS, of topics and again of authors
          Channels,        \* rows of alert_channels
          PerSource,       \* PER_SOURCE
          ItemsPerMessage, \* ITEMS_PER_MESSAGE
          MaxFailures,     \* MAX_CHANNEL_FAILURES
          SentTtl,         \* SENT_TTL_DAYS
          LastInstant,     \* bound: instants are 1..LastInstant
          MaxTies,         \* bound: posts stamped with the same instant
          MaxOnTheWay,     \* bound: posts stamped and not stored yet
          Tellings,        \* bound: [story, from], the posts there may be
          FirstBells,      \* bound: the bells that may be on to begin with
          MaxMishaps       \* bound: changes the reader makes and passes killed

Sources == Blogs \cup Topics \cup Authors

ASSUME ConstantsOK ==
    /\ Items \subseteq Nat /\ IsFiniteSet(Items) /\ Stories # {}
    /\ FollowedAt \in [Topics \cup Authors -> Nat] /\ FollowsPerPass \in Nat
    /\ PerSource \in Nat \ {0} /\ ItemsPerMessage \in Nat \ {0}
    /\ MaxFailures \in Nat \ {0} /\ LastInstant \in Nat \ {0}
    /\ SentTtl \in Nat
    /\ MaxTies \in Nat /\ MaxOnTheWay \in Nat /\ MaxMishaps \in Nat
    /\ Tellings \in [Items -> SUBSET [story : Stories, from : SUBSET Sources]]
    /\ FirstBells \subseteq SUBSET Sources

VARIABLES now,      \* the clock created_at is stamped from
          post,     \* feed_items: stamp, story, the sources it is in, stored or not
          bells,    \* sources with alerts = 1
          chan,     \* alert_channels: state and failures in a row
          cursor,   \* alert_state.cursor, 0 when there is no row
          ledger,   \* alert_sent: sent_at of a story, 0 when there is no row
          pass,     \* the locals of the pass
          mishaps,
          since,    \* history: when alerts last went from off to on
          start,    \* history: where the watermark first stood
          steady,   \* history: sources a pass at any moment would have read
          late,     \* history: posts stored when reading had gone past them
          cut,      \* history: posts behind a full page that ended among siblings
          batched,  \* history: stories some pass has put in a batch
          heard     \* history: copies a channel may have delivered, by when they were recorded

world == <<post, bells, chan>>
history == <<since, start, steady, late, cut, batched, heard>>
vars == <<now, world, cursor, ledger, pass, mishaps, history>>

Instants == 1..LastInstant
Moment == 0..LastInstant
Post == [at : Moment, story : Stories, from : SUBSET Sources, stored : BOOLEAN]
ChannelRow == [state : {"on", "off", "gone"}, failures : Nat]

Idle == [at |-> "idle", since |-> 0, unread |-> {}, rows |-> [s \in Sources |-> {}],
         batch |-> {}, told |-> 0, left |-> {}]

Pass == [at : {"idle", "read", "mark", "fan"}, since : Moment,
         unread : SUBSET Sources, rows : [Sources -> SUBSET Items],
         batch : SUBSET Stories, told : Moment, left : SUBSET Channels]

-----------------------------------------------------------------------------
\* alertedTopics and alertedAuthors: the bells on the newest follows of a kind.
Listed(K) == {s \in K \cap bells :
    Cardinality({t \in K \cap bells : FollowedAt[t] > FollowedAt[s]}) < FollowsPerPass}

Heeded == (Blogs \cap bells) \cup Listed(Topics) \cup Listed(Authors)

\* A post nobody has published; its story is anything.
Unwritten == [at |-> 0, story |-> CHOOSE k \in Stories : TRUE, from |-> {}, stored |-> FALSE]

Init ==
    /\ now = 1
    /\ post = [i \in Items |-> Unwritten]
    /\ bells \in FirstBells
    /\ chan = [c \in Channels |-> [state |-> "on", failures |-> 0]]
    /\ cursor = 0 /\ ledger = [k \in Stories |-> 0] /\ pass = Idle
    /\ mishaps = 0
    /\ since = 1 /\ start = 0 /\ steady = Heeded /\ late = {} /\ cut = {} /\ batched = {}
    /\ heard = [k \in Stories |-> [c \in Channels |-> [t \in Instants |-> 0]]]

-----------------------------------------------------------------------------
\* deliverForUser.

\* usersWithAlerts: a bell somewhere, and somewhere to send to.
Eligible == bells # {} /\ \E c \in Channels : chan[c].state = "on"

\* No watermark: start from now, and say nothing about what came before.
FirstCursor == now

Begin ==
    /\ pass.at = "idle"
    /\ Eligible
    /\ \/ /\ cursor = 0
          /\ cursor' = FirstCursor
          /\ start' = now
          /\ UNCHANGED pass
       \/ /\ cursor # 0
          /\ pass' = [Idle EXCEPT !.at = "read", !.since = since,
                                  !.unread = Blogs \cup Heeded]
          /\ UNCHANGED <<cursor, start>>
    /\ UNCHANGED <<now, world, ledger, mishaps, since, steady, late, cut, batched, heard>>

\* "created_at > cursor order by created_at limit n": the n oldest, or all.  The
\* query of the blogs looks at their bells itself.
Newer(s) == {i \in Items : /\ post[i].stored /\ s \in post[i].from /\ post[i].at > cursor
                           /\ s \in Blogs => s \in bells}

IsPage(R, W) ==
    /\ \A i \in R, j \in W \ R : post[i].at <= post[j].at
    /\ IF Cardinality(W) <= PerSource THEN R = W ELSE Cardinality(R) = PerSource

\* Posts behind a page, of the instant the page ends in.
CutOff(R, W) == {i \in W \ R : \E j \in R : post[j].at = post[i].at}

\* readSources: one query a source, each seeing the table at its own moment.
ReadSource(s) ==
    /\ pass.at = "read" /\ s \in pass.unread
    /\ \E R \in SUBSET Newer(s) :
        /\ IsPage(R, Newer(s))
        /\ pass' = [pass EXCEPT !.unread = @ \ {s}, !.rows[s] = R]
        /\ cut' = cut \cup CutOff(R, Newer(s))
    /\ UNCHANGED <<now, world, cursor, ledger, mishaps, since, start, steady, late,
                   batched, heard>>

-----------------------------------------------------------------------------
\* selectBatch.

Stamps(I) == {post[i].at : i \in I}
Capped(s) == Cardinality(pass.rows[s]) >= PerSource
Horizons == {Max(Stamps(pass.rows[s])) : s \in {t \in Sources : Capped(t)}}

Seen == UNION {pass.rows[s] : s \in Sources}
Pool == {i \in Seen : \A h \in Horizons : post[i].at <= h}

Told == {k \in Stories : ledger[k] # 0}

\* How far the watermark may go when everything in the pool is dealt with.
Exhausted_NewestSeen == IF Seen # {} THEN Max(Stamps(Seen)) ELSE cursor
Exhausted_OnlyIfFresh ==
    IF {post[i].story : i \in Pool} \subseteq Told THEN cursor
    ELSE IF Horizons # {} THEN Min(Horizons) ELSE Max(Stamps(Pool))
Exhausted ==
    IF Horizons # {} THEN Min(Horizons)
    ELSE IF Pool # {} THEN Max(Stamps(Pool)) ELSE cursor

FirstAt(k) == Min(Stamps({i \in Pool : post[i].story = k}))

Fresh == {post[i].story : i \in Pool} \ Told

\* A batch that would be too long is cut, at the end of an instant.
Until(b) == {k \in Fresh : FirstAt(k) <= b}
Boundary == Min({b \in Instants : Cardinality(Until(b)) >= ItemsPerMessage})
TooLong == Cardinality(Fresh) > ItemsPerMessage

Batch == IF TooLong THEN Until(Boundary) ELSE Fresh
NextCursor == IF TooLong THEN Boundary ELSE Exhausted

\* The watermark moves before anything is recorded or sent.
SelectBatch ==
    /\ pass.at = "read" /\ pass.unread = {}
    /\ cursor' = NextCursor
    /\ batched' = batched \cup Batch
    /\ pass' = IF Batch = {} THEN Idle
               ELSE [pass EXCEPT !.at = "mark", !.batch = Batch]
    /\ UNCHANGED <<now, world, ledger, mishaps, since, start, steady, late, cut, heard>>

-----------------------------------------------------------------------------
\* markSent, then fanOut.

\* "on conflict do nothing": a row keeps its date.
Record == [k \in Stories |-> IF k \in pass.batch /\ ledger[k] = 0 THEN now ELSE ledger[k]]

\* The channels are read once, after the stories are recorded.
MarkSent ==
    /\ pass.at = "mark"
    /\ ledger' = Record
    /\ pass' = [pass EXCEPT !.at = "fan", !.told = now,
                            !.left = {c \in Channels : chan[c].state = "on"}]
    /\ UNCHANGED <<now, world, cursor, mishaps, history>>

\* recordChannelResult and deletePushChannel, on whatever the row is by now.
AfterFailure_OtherWord(row) ==
    [state |-> IF row.failures + 1 >= MaxFailures THEN "retired" ELSE row.state,
     failures |-> row.failures + 1]
AfterFailure(row) ==
    [state |-> IF row.failures + 1 >= MaxFailures THEN "off" ELSE row.state,
     failures |-> row.failures + 1]

RowAfter(row, result) ==
    IF row.state = "gone" \/ result = "skip" THEN row
    ELSE IF result = "ok" THEN [row EXCEPT !.failures = 0]
    ELSE IF result = "failed" THEN AfterFailure(row)
    ELSE [state |-> "gone", failures |-> 0]

\* A transport that reports a failure may have delivered all the same, so it
\* counts as a copy.
Results == {"ok", "failed", "gone", "skip"}
Copies(result) == IF result \in {"ok", "failed"} THEN 1 ELSE 0

Deliver(c) ==
    /\ pass.at = "fan" /\ c \in pass.left
    /\ \E result \in Results :
        /\ chan' = [chan EXCEPT ![c] = RowAfter(@, result)]
        /\ heard' = [k \in Stories |-> IF k \in pass.batch
                        THEN [heard[k] EXCEPT ![c][pass.told] = @ + Copies(result)] ELSE heard[k]]
    /\ pass' = [pass EXCEPT !.left = @ \ {c}]
    /\ UNCHANGED <<now, post, bells, cursor, ledger, mishaps,
                   since, start, steady, late, cut, batched>>

PassEnds ==
    /\ pass.at = "fan" /\ pass.left = {}
    /\ pass' = Idle
    /\ UNCHANGED <<now, world, cursor, ledger, mishaps, history>>

\* A deploy, a lost database connection: the pass is gone, its rows stay.
Crash ==
    /\ pass.at # "idle" /\ mishaps < MaxMishaps
    /\ mishaps' = mishaps + 1
    /\ pass' = Idle
    /\ UNCHANGED <<now, world, cursor, ledger, history>>

-----------------------------------------------------------------------------
\* The world around the pass.

\* pruneAlertSent, in the poller's purge: records past their time are dropped.
Outdated_Recent == {k \in Told : ledger[k] + SentTtl <= now}
Outdated == {k \in Told : ledger[k] + SentTtl < now}

PruneAlertSent ==
    /\ Outdated # {}
    /\ ledger' = [k \in Stories |-> IF k \in Outdated THEN 0 ELSE ledger[k]]
    /\ UNCHANGED <<now, world, cursor, pass, mishaps, history>>

\* storeCrawl stamps created_at as it starts; the row shows when its turn among
\* the crawl writes comes and the write commits.
StampItem(i, k, F) ==
    /\ post[i].at = 0 /\ \A j \in Items : j < i => post[j].at # 0
    /\ now # LastInstant
    /\ Cardinality({j \in Items : post[j].at = now}) < MaxTies
    /\ Cardinality({j \in Items : post[j].at # 0 /\ ~post[j].stored}) < MaxOnTheWay
    /\ post' = [post EXCEPT ![i] = [at |-> now, story |-> k, from |-> F, stored |-> FALSE]]
    /\ UNCHANGED <<now, bells, chan, cursor, ledger, pass, mishaps, history>>

\* The watermark is past the post, or a pass has read a source of it and has not
\* moved the watermark yet.
TooLate(i) ==
    \/ post[i].at <= cursor
    \/ pass.at = "read" /\ ~(post[i].from \cap steady \subseteq pass.unread)

CommitItem(i) ==
    /\ post[i].at # 0 /\ ~post[i].stored
    /\ post' = [post EXCEPT ![i].stored = TRUE]
    /\ late' = IF TooLate(i) THEN late \cup {i} ELSE late
    /\ UNCHANGED <<now, bells, chan, cursor, ledger, pass, mishaps,
                   since, start, steady, cut, batched, heard>>

\* since moves when a change makes an account eligible that was not.
Switched ==
    /\ mishaps < MaxMishaps
    /\ mishaps' = mishaps + 1
    /\ since' = IF ~Eligible /\ Eligible' THEN now ELSE since
    /\ UNCHANGED <<now, post, cursor, ledger, pass, start, late, cut, batched, heard>>

\* setFeedAlerts, setTopicAlerts, setAuthorAlerts.
SetAlerts(s) ==
    /\ bells' = IF s \in bells THEN bells \ {s} ELSE bells \cup {s}
    /\ steady' = steady \cap Heeded'
    /\ UNCHANGED chan
    /\ Switched

\* setChannelEnabled, and addChannel, which revives the row: on starts afresh.
Revived(row) == [state |-> "on", failures |-> 0]

SetChannel(c) ==
    /\ chan' = [chan EXCEPT ![c] = IF @.state = "on" THEN [@ EXCEPT !.state = "off"]
                                   ELSE Revived(@)]
    /\ UNCHANGED <<bells, steady>>
    /\ Switched

TimePasses ==
    /\ now + 1 \in Instants
    /\ now' = now + 1
    /\ UNCHANGED <<world, cursor, ledger, pass, mishaps, history>>

PassStep ==
    \/ Begin \/ SelectBatch \/ MarkSent \/ PassEnds
    \/ \E s \in Sources : ReadSource(s)
    \/ \E c \in Channels : Deliver(c)

Next ==
    \/ PassStep
    \/ Crash
    \/ \E i \in Items : \E p \in Tellings[i] : StampItem(i, p.story, p.from)
    \/ \E i \in Items : CommitItem(i)
    \/ \E s \in Sources : SetAlerts(s)
    \/ \E c \in Channels : SetChannel(c)
    \/ PruneAlertSent
    \/ TimePasses

Spec == Init /\ [][Next]_vars

-----------------------------------------------------------------------------
\* Every variable stays in its range.
TypeOK ==
    /\ now \in Instants
    /\ post \in [Items -> Post]
    /\ bells \subseteq Sources
    /\ chan \in [Channels -> ChannelRow]
    /\ cursor \in Moment
    /\ ledger \in [Stories -> Moment]
    /\ pass \in Pass
    /\ mishaps \in Nat
    /\ since \in Moment /\ start \in Moment
    /\ steady \subseteq Sources
    /\ late \subseteq Items /\ cut \subseteq Items
    /\ batched \subseteq Stories
    /\ heard \in [Stories -> [Channels -> [Instants -> Nat]]]

\* deliver.js invariant 3 and its reason, as far as alert_sent remembers: however
\* passes crash and posts are retold, a channel is given one copy of a story, and
\* another one only when it was recorded more than the ledger's keep later.
NeverTwice ==
    \A k \in Stories, c \in Channels, t, u \in Instants :
        /\ heard[k][c][t] <= 1
        /\ heard[k][c][t] > 0 /\ heard[k][c][u] > 0 /\ t < u => u > t + SentTtl

\* A stored post behind the watermark, of a source that every pass since the
\* account's first one would have read.
Covered(i) ==
    post[i].stored /\ post[i].from \cap steady # {} /\ post[i].at \in start + 1 .. cursor

\* What is left of deliver.js invariant 2, "never advance past what was looked
\* at": a covered post was put in a batch, unless it was stored too late or stood
\* behind a full page that ended among its siblings.
NothingPassedOver ==
    \A i \in Items : Covered(i) /\ i \notin late \cup cut => post[i].story \in batched

\* deliver.js invariant 2 as it is written, of posts stored in time: the watermark
\* at a full page's last row "guarantees the rest is picked up next pass".
RestIsPickedUp ==
    \A i \in Items : Covered(i) /\ i \notin late => post[i].story \in batched

\* deliver.js invariant 1: a pass tells nothing that was only published before
\* the account's alerts were last switched on.
NeverTheBacklog ==
    [][\A k \in pass'.batch \ pass.batch : \E i \in Seen :
            post[i].story = k /\ post[i].at >= pass.since]_vars

\* alerts.js: a channel retires itself at the limit, and one that is on again
\* has a clean record.
OnMeansBelowTheLimit ==
    \A c \in Channels : chan[c].state = "on" => chan[c].failures < MaxFailures

\* A page full of stories already told is no dead end: a pass that read any post
\* at all moves the watermark, so the next one reads further.
ReadingMovesOn == [][SelectBatch /\ Seen # {} => cursor' > cursor]_vars
=============================================================================
