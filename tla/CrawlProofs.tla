------------------------------ MODULE CrawlProofs ------------------------------
(* Theorems about CrawlSchedule, for any feeds, hosts, workers and limits.     *)
EXTENDS CrawlSchedule, FiniteSetTheorems, WellFoundedInduction, TLAPS

-----------------------------------------------------------------------------
(* Queues and rows. *)

LEMMA FirstIsOne ==
    ASSUME NEW q \in SUBSET Row, q # {}
    PROVE  First(q) \in q
<1> DEFINE P == {r.place : r \in q}
<1>1. P \in SUBSET Nat /\ P # {}
    BY DEF Row
<1>2. PICK p \in P : \A n \in P : ~ (<<n, p>> \in OpToRel(<, Nat))
    BY <1>1, NatLessThanWellFounded, WFMin, Zenon
<1>3. \A n \in P : ~ (n < p)
    BY <1>1, <1>2, Zenon DEF OpToRel
<1>4. \A n \in P : p <= n
    BY <1>1, <1>3
<1>5. PICK r \in q : p = r.place
    OBVIOUS
<1>6. \A other \in q : r.place <= other.place
    BY <1>4, <1>5
<1> QED BY <1>6 DEF First

LEMMA PlaceIsANumber ==
    ASSUME NEW F \in SUBSET Feeds, NEW f
    PROVE  Place(F, f) \in Nat
<1> DEFINE Before(g) == IF (g \in Capped(F)) = (f \in Capped(F)) THEN Sooner(g, f)
                        ELSE g \in Capped(F)
           B == {g \in F : Before(g)}
<1>1. IsFiniteSet(B)
    <2>1. B \subseteq Feeds
        OBVIOUS
    <2> QED BY <2>1, ConstantsOK, FS_Subset
<1>2. Cardinality(B) \in Nat
    BY <1>1, FS_CardinalityType
<1> QED BY <1>2 DEF Place

LEMMA DueFeedsAreFeeds == DueFeeds \in SUBSET Feeds
BY DEF DueFeeds, FirstOf, Due

\* What a batch is made of: rows of feeds, each as it stands now.
LEMMA BatchIsRows ==
    ASSUME errors \in [Feeds -> Nat], NEW F \in SUBSET Feeds
    PROVE  /\ SpreadHosts(F) \in SUBSET Row
           /\ \A r \in SpreadHosts(F) : r.errors = errors[r.feed]
<1> SUFFICES ASSUME NEW f \in F
             PROVE  RowOf(f, Place(F, f)) \in Row
                    /\ RowOf(f, Place(F, f)).errors = errors[RowOf(f, Place(F, f)).feed]
    BY DEF SpreadHosts
<1>1. Place(F, f) \in Nat
    BY PlaceIsANumber
<1> QED BY <1>1 DEF RowOf, Row

LEMMA GroupsAreParts ==
    ASSUME NEW R, NEW q \in GroupByHost(R)
    PROVE  q \subseteq R
BY DEF GroupByHost

-----------------------------------------------------------------------------
(* Types. *)

LEMMA HandsOverRows ==
    ASSUME TypeOK, NEW w \in Workers
    PROVE  /\ worker[w].queue \in SUBSET Row
           /\ worker[w].at = "asking" =>
                First(worker[w].queue) \in worker[w].queue
           /\ Rest(w) \in SUBSET Row /\ Rest(w) \subseteq worker[w].queue
<1>1. worker[w] \in WorkerState /\ (worker[w].at = "rest" <=> worker[w].queue = {})
    BY DEF TypeOK
<1>2. worker[w].queue \in SUBSET Row
    BY <1>1 DEF WorkerState
<1>3. worker[w].at = "asking" => worker[w].queue # {}
    BY <1>1
<1> QED BY <1>2, <1>3, FirstIsOne DEF Rest

WalkOK(s) == s \in WorkerState /\ (s.at = "rest" <=> s.queue = {})

LEMMA WalksAreStates ==
    ASSUME NEW q \in SUBSET Row
    PROVE  WalkOK(Walking(q)) /\ WalkOK(Holding(q)) /\ WalkOK(Resting)
BY DEF WalkOK, Walking, Holding, Resting, WorkerState

LEMMA AskedAreFeeds ==
    ASSUME TypeOK, NEW q \in SUBSET Row
    PROVE  Asked(q) \subseteq Feeds
<1>1. q # {} => First(q) \in Row
    BY FirstIsOne
<1> QED BY <1>1 DEF Asked, TypeOK, Row

LEMMA WorkerStays ==
    ASSUME TypeOK, NEW w \in Workers, NEW s, WalkOK(s), worker' = [worker EXCEPT ![w] = s]
    PROVE  /\ worker' \in [Workers -> WorkerState]
           /\ \A u \in Workers : worker'[u].at = "rest" <=> worker'[u].queue = {}
<1>1. worker \in [Workers -> WorkerState]
    BY DEF TypeOK
<1>2. \A u \in Workers : worker[u].at = "rest" <=> worker[u].queue = {}
    BY DEF TypeOK
<1> QED BY <1>1, <1>2 DEF WalkOK

LineOK(l) == l \subseteq Feeds \X Feeds

LEMMA LinesStay ==
    ASSUME TypeOK, NEW f \in Feeds, NEW F
    PROVE  LineOK(Without(F)) /\ LineOK(Last(f)) /\ LineOK(Foremost(f))
<1>1. line \subseteq Feeds \X Feeds
    BY DEF TypeOK
<1>2. Due \subseteq Feeds
    BY DEF Due
<1>3. \A G : Without(G) \subseteq Feeds \X Feeds
    BY <1>1 DEF Without
<1> QED BY <1>1, <1>2, <1>3 DEF LineOK, Last, Foremost

\* The columns an answer writes.
RowsOK ==
    /\ line \subseteq Feeds \X Feeds /\ errors \in [Feeds -> Nat]
    /\ fetched \in [Feeds -> {"never", "recent", "past"}]
    /\ failures \in [Feeds -> Nat] /\ streak \in [Feeds -> Nat]

LEMMA SettleTypes ==
    ASSUME TypeOK, NEW r \in Row, NEW answer \in Answers, Settle(r, answer)
    PROVE  RowsOK'
<1> DEFINE f == r.feed
<1>0. f \in Feeds /\ r.errors \in Nat
    BY DEF Row
<1>1. line' \subseteq Feeds \X Feeds
    BY <1>0, LinesStay DEF Settle, LineOK
<1>2. errors' \in [Feeds -> Nat]
    <2>1. errors \in [Feeds -> Nat]
        BY DEF TypeOK
    <2>2. CountAfter(r, answer) \in Nat
        BY <1>0, <2>1 DEF CountAfter, Answers
    <2> QED BY <2>1, <2>2, <1>0 DEF Settle
<1>3. fetched' \in [Feeds -> {"never", "recent", "past"}]
    BY <1>0 DEF Settle, TypeOK
<1>4. failures' \in [Feeds -> Nat]
    BY <1>0 DEF Settle, TypeOK
<1>5. streak' \in [Feeds -> Nat]
    BY <1>0 DEF Settle, TypeOK, Answers
<1> QED BY <1>1, <1>2, <1>3, <1>4, <1>5 DEF RowsOK

\* The parts of TypeOK: the rows, and everything else.
RestOK ==
    /\ running \in BOOLEAN /\ queues \subseteq SUBSET Row
    /\ worker \in [Workers -> WorkerState] /\ reading \in [Web -> SUBSET Row]
    /\ events \in Nat
    /\ asked \subseteq Feeds /\ refused \subseteq {HostOf[f] : f \in Feeds}
    /\ \A w \in Workers : worker[w].at = "rest" <=> worker[w].queue = {}

LEMMA TypeParts == TypeOK <=> RowsOK /\ RestOK
BY DEF TypeOK, RowsOK, RestOK

LEMMA TypeInit == Init => TypeOK
<1> SUFFICES ASSUME Init PROVE TypeOK
    OBVIOUS
<1>1. RowsOK
    BY DEF Init, RowsOK
<1>2. worker \in [Workers -> WorkerState]
      /\ \A w \in Workers : worker[w].at = "rest" <=> worker[w].queue = {}
    <2>1. WalkOK(Resting)
        BY WalksAreStates
    <2> QED BY <2>1 DEF Init, WalkOK
<1>3. RestOK
    BY <1>2 DEF Init, RestOK
<1> QED BY <1>1, <1>3, TypeParts

LEMMA TypeStep == TypeOK /\ [Next]_vars => TypeOK'
<1> SUFFICES ASSUME TypeOK, [Next]_vars PROVE TypeOK'
    OBVIOUS
<1>0. RowsOK /\ RestOK
    BY TypeParts
<1>p. RowsOK' /\ RestOK' => TypeOK'
    BY DEF TypeOK, RowsOK, RestOK
<1>r. UNCHANGED <<rows, tally>> => RowsOK'
    BY <1>0 DEF RowsOK, rows, tally
<1>w. ASSUME NEW w \in Workers, NEW t, WalkOK(t), worker' = [worker EXCEPT ![w] = t]
      PROVE  /\ worker' \in [Workers -> WorkerState]
             /\ \A u \in Workers : worker'[u].at = "rest" <=> worker'[u].queue = {}
    BY <1>w, WorkerStays
<1>1. CASE StartBatch
    <2>1. queues' \subseteq SUBSET Row
        <3>1. errors \in [Feeds -> Nat]
            BY <1>0 DEF RowsOK
        <3>2. SpreadHosts(DueFeeds) \in SUBSET Row
            BY <3>1, DueFeedsAreFeeds, BatchIsRows
        <3> QED BY <1>1, <3>2, GroupsAreParts DEF StartBatch
    <2>2. RestOK'
        BY <1>0, <1>1, <2>1 DEF StartBatch, RestOK, trail
    <2> QED BY <1>1, <2>2, <1>r, <1>p DEF StartBatch
<1>2. CASE EndBatch
    <2>1. RestOK'
        BY <1>0, <1>2 DEF EndBatch, RestOK
    <2> QED BY <1>2, <2>1, <1>r, <1>p DEF EndBatch
<1>3. CASE Crash
    <2>1. worker' \in [Workers -> WorkerState]
          /\ \A w \in Workers : worker'[w].at = "rest" <=> worker'[w].queue = {}
        <3>1. WalkOK(Resting)
            BY WalksAreStates
        <3> QED BY <1>3, <3>1 DEF Crash, WalkOK
    <2>2. events' \in Nat
        BY <1>0, <1>3 DEF Crash, RestOK
    <2>3. RestOK'
        BY <1>0, <1>3, <2>1, <2>2 DEF Crash, RestOK
    <2> QED BY <1>3, <2>3, <1>r, <1>p DEF Crash
<1>4. ASSUME NEW w \in Workers, TakeQueue(w) PROVE TypeOK'
    <2>1. PICK q \in queues :
            /\ worker' = [worker EXCEPT ![w] = Walking(q)]
            /\ asked' = Asked(q) /\ queues' = Untaken(q)
        BY <1>4 DEF TakeQueue
    <2>2. q \in SUBSET Row
        BY <1>0 DEF RestOK
    <2>3. WalkOK(Walking(q)) /\ Asked(q) \subseteq Feeds
        BY <2>2, WalksAreStates, AskedAreFeeds
    <2>4. queues' \subseteq SUBSET Row
        BY <1>0, <2>1 DEF Untaken, RestOK
    <2>5. RestOK'
        BY <1>0, <1>4, <2>1, <2>3, <2>4, <1>w DEF TakeQueue, RestOK
    <2> QED BY <1>4, <2>5, <1>r, <1>p DEF TakeQueue
<1>5. ASSUME NEW w \in Workers, NEW a \in Answers, Answered(w, a) PROVE TypeOK'
    <2> DEFINE row == First(worker[w].queue)
    <2>1. row \in Row /\ Rest(w) \in SUBSET Row
        BY <1>5, HandsOverRows DEF Answered
    <2>2. RowsOK'
        BY <1>5, <2>1, SettleTypes DEF Answered
    <2>3. HostOfRow(row) \in {HostOf[f] : f \in Feeds}
        BY <2>1 DEF HostOfRow, Row
    <2>4. WalkOK(Walking(Rest(w))) /\ WalkOK(Holding(Rest(w))) /\ Asked(Rest(w)) \subseteq Feeds
        BY <2>1, WalksAreStates, AskedAreFeeds
    <2>5. PICK t : WalkOK(t) /\ worker' = [worker EXCEPT ![w] = t]
        BY <1>5, <2>4 DEF Answered
    <2>6. asked' \subseteq Feeds /\ refused' \subseteq {HostOf[f] : f \in Feeds}
        BY <1>5, <1>0, <2>3, <2>4 DEF Answered, RestOK
    <2>7. RestOK'
        BY <1>0, <1>5, <2>5, <2>6, <1>w DEF Answered, RestOK
    <2> QED BY <2>2, <2>7, <1>p
<1>6. ASSUME NEW w \in Workers, Throws(w) PROVE TypeOK'
    <2>1. Rest(w) \in SUBSET Row
        BY HandsOverRows
    <2>2. WalkOK(Walking(Rest(w))) /\ Asked(Rest(w)) \subseteq Feeds
        BY <2>1, WalksAreStates, AskedAreFeeds
    <2>3. events' \in Nat
        BY <1>0, <1>6 DEF Throws, RestOK
    <2>4. /\ worker' \in [Workers -> WorkerState]
          /\ \A u \in Workers : worker'[u].at = "rest" <=> worker'[u].queue = {}
        BY <1>6, <2>2, <1>w DEF Throws
    <2>5. asked' \subseteq Feeds
        BY <1>6, <2>2 DEF Throws
    <2>6. RestOK'
        BY <1>0, <1>6, <2>3, <2>4, <2>5 DEF Throws, RestOK
    <2> QED BY <1>6, <2>6, <1>r, <1>p DEF Throws
<1>7. ASSUME NEW w \in Workers, HoldBackHost(w) PROVE TypeOK'
    <2>1. line' \subseteq Feeds \X Feeds
        BY <1>0, <1>7 DEF HoldBackHost, RowsOK, Without
    <2>2. RowsOK'
        BY <1>0, <1>7, <2>1 DEF HoldBackHost, RowsOK, tally
    <2>3. WalkOK(Resting)
        BY WalksAreStates
    <2>4. events' \in Nat
        BY <1>0, <1>7 DEF HoldBackHost, RestOK
    <2>5. RestOK'
        BY <1>0, <1>7, <2>3, <2>4, <1>w DEF HoldBackHost, RestOK, trail
    <2> QED BY <2>2, <2>5, <1>p
<1>8. ASSUME NEW v \in Web, NEW f \in Feeds, Click(v, f) PROVE TypeOK'
    <2>1. line' \subseteq Feeds \X Feeds
        BY <1>0, <1>8, LinesStay DEF Click, RowsOK, LineOK
    <2>2. RowsOK'
        BY <1>0, <1>8, <2>1 DEF Click, RowsOK, tally
    <2>3. RowOf(f, 0) \in Row
        BY <1>0 DEF RowOf, Row, RowsOK
    <2>4. reading' \in [Web -> SUBSET Row]
        BY <1>0, <1>8, <2>3 DEF Click, RestOK
    <2>5. RestOK'
        BY <1>0, <1>8, <2>4 DEF Click, RestOK, batch, trail
    <2> QED BY <2>2, <2>5, <1>p
<1>9. ASSUME NEW v \in Web, NEW r \in reading[v], ClickThrows(v, r) PROVE TypeOK'
    <2>1. reading' \in [Web -> SUBSET Row]
        BY <1>0, <1>9 DEF ClickThrows, RestOK
    <2>2. RestOK'
        BY <1>0, <1>9, <2>1 DEF ClickThrows, RestOK, batch, trail
    <2> QED BY <1>9, <2>2, <1>r, <1>p DEF ClickThrows
<1>10. ASSUME NEW v \in Web, NEW r \in reading[v], NEW a \in Answers, ClickAnswered(v, r, a)
       PROVE TypeOK'
    <2>1. r \in Row /\ reading' \in [Web -> SUBSET Row]
        BY <1>0, <1>10 DEF ClickAnswered, RestOK
    <2>2. RowsOK'
        BY <1>10, <2>1, SettleTypes DEF ClickAnswered
    <2>3. RestOK'
        BY <1>0, <1>10, <2>1 DEF ClickAnswered, RestOK, batch, trail
    <2> QED BY <2>2, <2>3, <1>p
<1>11. ASSUME NEW f \in Feeds, ComeDue(f) \/ Age(f) PROVE TypeOK'
    <2>1. line' \subseteq Feeds \X Feeds
        BY <1>0, <1>11, LinesStay DEF ComeDue, Age, RowsOK, LineOK
    <2>2. fetched' \in [Feeds -> {"never", "recent", "past"}]
        BY <1>0, <1>11 DEF ComeDue, Age, RowsOK
    <2>3. RowsOK'
        BY <1>0, <1>11, <2>1, <2>2 DEF ComeDue, Age, RowsOK, tally
    <2>4. RestOK'
        BY <1>0, <1>11 DEF ComeDue, Age, RestOK, batch, trail
    <2> QED BY <2>3, <2>4, <1>p
<1>12. CASE UNCHANGED vars
    BY <1>12 DEF TypeOK, vars, rows, batch, tally, trail
<1> QED
    BY <1>1, <1>2, <1>3, <1>4, <1>5, <1>6, <1>7, <1>8, <1>9, <1>10, <1>11, <1>12
    DEF Next, Crawl, AnswerOrThrow

\* Every variable keeps its type, for any feeds, hosts and workers; a worker of
\* crawlDue is idle exactly when it has no queue.
THEOREM TypeCorrect == Spec => []TypeOK
BY TypeInit, TypeStep, PTL DEF Spec

-----------------------------------------------------------------------------
(* No count is invented.  A row in hand may be outdated, but its count was     *)
(* true when it was selected and real failures only become more.               *)

Honest(R) == \A r \in R : r.errors <= failures[r.feed]

\* The same once the step has been taken.
Still(R) == \A r \in R : r.errors <= failures'[r.feed]

CountInv ==
    /\ NoFailureInvented
    /\ \A q \in queues : Honest(q)
    /\ \A w \in Workers : Honest(worker[w].queue)
    /\ \A v \in Web : Honest(reading[v])

OnlyMore == \A f \in Feeds : failures[f] <= failures'[f]

LEMMA HonestyStays ==
    ASSUME TypeOK, TypeOK', OnlyMore, NEW R \in SUBSET Row, Honest(R)
    PROVE  Still(R)
<1> SUFFICES ASSUME NEW r \in R PROVE r.errors <= failures'[r.feed]
    BY DEF Still
<1>1. r.feed \in Feeds /\ r.errors \in Nat
    BY DEF Row
<1>2. failures[r.feed] \in Nat /\ failures'[r.feed] \in Nat
    BY <1>1 DEF TypeOK
<1>3. r.errors <= failures[r.feed] /\ failures[r.feed] <= failures'[r.feed]
    BY <1>1 DEF Honest, OnlyMore
<1> QED BY <1>1, <1>2, <1>3

LEMMA SettleIsHonest ==
    ASSUME TypeOK, NoFailureInvented, NEW r \in Row, Honest({r}),
           NEW answer \in Answers, Settle(r, answer)
    PROVE  OnlyMore /\ NoFailureInvented'
<1> DEFINE f == r.feed
<1>0. f \in Feeds /\ r.errors \in Nat /\ r.errors <= failures[f]
    BY DEF Row, Honest
<1>1. errors \in [Feeds -> Nat] /\ failures \in [Feeds -> Nat]
    BY DEF TypeOK
<1>2. \A g \in Feeds : errors[g] <= failures[g]
    BY DEF NoFailureInvented
<1>3. errors' = [errors EXCEPT ![f] = CountAfter(r, answer)]
    BY DEF Settle
<1>4. CASE answer = "failed"
    <2>1. failures' = [failures EXCEPT ![f] = @ + 1]
        BY <1>4 DEF Settle
    <2>2. CountAfter(r, answer) = r.errors + 1
        BY <1>4 DEF CountAfter
    <2>3. \A g \in Feeds : failures[g] <= failures'[g]
        BY <1>0, <1>1, <2>1
    <2>4. \A g \in Feeds : errors'[g] <= failures'[g]
        BY <1>0, <1>1, <1>2, <1>3, <2>1, <2>2
    <2> QED BY <2>3, <2>4 DEF OnlyMore, NoFailureInvented
<1>5. CASE answer # "failed"
    <2>1. failures' = failures
        BY <1>5 DEF Settle
    <2>2. CountAfter(r, answer) = 0 \/ CountAfter(r, answer) = errors[f]
        BY <1>5 DEF CountAfter, Answers
    <2>3. \A g \in Feeds : failures[g] <= failures'[g]
        BY <1>1, <2>1
    <2>4. \A g \in Feeds : errors'[g] <= failures'[g]
        BY <1>0, <1>1, <1>2, <1>3, <2>1, <2>2
    <2> QED BY <2>3, <2>4 DEF OnlyMore, NoFailureInvented
<1> QED BY <1>4, <1>5

LEMMA WalksKeepTheQueue ==
    ASSUME NEW q
    PROVE  Walking(q).queue = q /\ Holding(q).queue = q
BY DEF Walking, Holding, Resting

\* A worker that goes on with part of its queue, or with nothing.
GoesOn(w) ==
    \E t : t.queue \subseteq worker[w].queue /\ worker' = [worker EXCEPT ![w] = t]

LEMMA WorkersGoOn ==
    ASSUME TypeOK, NEW w \in Workers,
           (\E a \in Answers : Answered(w, a)) \/ Throws(w) \/ HoldBackHost(w)
    PROVE  GoesOn(w)
<1>1. Rest(w) \subseteq worker[w].queue
    BY HandsOverRows
<1>2. Walking(Rest(w)).queue = Rest(w) /\ Holding(Rest(w)).queue = Rest(w)
      /\ Resting.queue = {}
    BY WalksKeepTheQueue DEF Resting
<1>3. \/ worker' = [worker EXCEPT ![w] = Walking(Rest(w))]
      \/ worker' = [worker EXCEPT ![w] = Holding(Rest(w))]
      \/ worker' = [worker EXCEPT ![w] = Resting]
    BY DEF Answered, Throws, HoldBackHost
<1> QED BY <1>1, <1>2, <1>3 DEF GoesOn

LEMMA CountInit == Init => CountInv
BY DEF Init, CountInv, NoFailureInvented, Honest, Resting

LEMMA CountStep == TypeOK /\ TypeOK' /\ CountInv /\ [Next]_vars => CountInv'
<1> SUFFICES ASSUME TypeOK, TypeOK', CountInv, [Next]_vars PROVE CountInv'
    OBVIOUS
<1>t. queues \subseteq SUBSET Row /\ worker \in [Workers -> WorkerState]
      /\ reading \in [Web -> SUBSET Row] /\ (\A w \in Workers : worker[w].queue \in SUBSET Row)
    BY DEF TypeOK, WorkerState
<1>c. NoFailureInvented /\ (\A q \in queues : Honest(q))
      /\ (\A w \in Workers : Honest(worker[w].queue)) /\ \A v \in Web : Honest(reading[v])
    BY DEF CountInv
<1>u. UNCHANGED failures => OnlyMore
    BY DEF TypeOK, OnlyMore
\* What is in hand stays honest when it only gets less.
<1>k. ASSUME OnlyMore
      PROVE  /\ \A q \in queues : Still(q)
             /\ \A w \in Workers : \A R \in SUBSET worker[w].queue : Still(R)
             /\ \A v \in Web : \A R \in SUBSET reading[v] : Still(R)
    <2>1. \A R \in SUBSET Row : Honest(R) => Still(R)
        BY <1>k, HonestyStays
    <2>2. \A w \in Workers : \A R \in SUBSET worker[w].queue : R \in SUBSET Row /\ Honest(R)
        BY <1>t, <1>c DEF Honest
    <2>3. \A v \in Web : \A R \in SUBSET reading[v] : R \in SUBSET Row /\ Honest(R)
        BY <1>t, <1>c DEF Honest
    <2> QED BY <1>t, <1>c, <2>1, <2>2, <2>3
<1>w. ASSUME NEW w \in Workers, GoesOn(w), OnlyMore
      PROVE  \A u \in Workers : Still(worker'[u].queue)
    BY <1>k, <1>t, <1>w DEF GoesOn, Still
<1>1. CASE StartBatch
    <2>1. OnlyMore /\ worker' = worker /\ reading' = reading /\ errors' = errors /\ failures' = failures
        BY <1>1, <1>u DEF StartBatch, tally, rows
    <2>2. \A r \in SpreadHosts(DueFeeds) :
            r.feed \in Feeds /\ r.errors = errors[r.feed]
        BY DueFeedsAreFeeds, BatchIsRows DEF TypeOK, Row
    <2>3. \A q \in queues' : Still(q)
        BY <1>1, <1>c, <2>1, <2>2, GroupsAreParts DEF StartBatch, Honest, Still, NoFailureInvented
    <2> QED BY <1>c, <2>1, <2>3 DEF CountInv, NoFailureInvented, Honest, Still
<1>2. CASE EndBatch
    BY <1>2, <1>c DEF EndBatch, CountInv, NoFailureInvented, Honest, Still, rows, tally
<1>3. CASE Crash
    BY <1>3, <1>c DEF Crash, CountInv, NoFailureInvented, Honest, Still, rows, tally, Resting
<1>4. ASSUME NEW w \in Workers, TakeQueue(w) PROVE CountInv'
    <2>1. PICK q \in queues : worker' = [worker EXCEPT ![w] = Walking(q)] /\ queues' = Untaken(q)
        BY <1>4 DEF TakeQueue
    <2>2. \A u \in Workers : worker'[u].queue = q \/ worker'[u].queue = worker[u].queue
        BY <2>1, <1>t, WalksKeepTheQueue
    <2>3. queues' \subseteq queues
        BY <2>1 DEF Untaken
    <2>4. failures' = failures /\ errors' = errors /\ reading' = reading
        BY <1>4 DEF TakeQueue, tally, rows
    <2> QED BY <1>c, <2>2, <2>3, <2>4 DEF CountInv, NoFailureInvented, Honest, Still
<1>5. ASSUME NEW w \in Workers, NEW a \in Answers, Answered(w, a) PROVE CountInv'
    <2>1. First(worker[w].queue) \in worker[w].queue
        BY <1>5, HandsOverRows DEF Answered
    <2>2. First(worker[w].queue) \in Row /\ Honest({First(worker[w].queue)})
        BY <2>1, <1>t, <1>c DEF Honest
    <2>3. OnlyMore /\ NoFailureInvented'
        BY <1>5, <1>c, <2>2, SettleIsHonest DEF Answered
    <2>4. \A u \in Workers : Still(worker'[u].queue)
        BY <1>5, <2>3, <1>w, WorkersGoOn
    <2>5. queues' = queues /\ reading' = reading
        BY <1>5 DEF Answered
    <2>6. (\A q \in queues' : Still(q)) /\ \A v \in Web : Still(reading'[v])
        BY <1>k, <2>3, <2>5
    <2> QED BY <2>3, <2>4, <2>6 DEF CountInv, Honest, Still
<1>6. ASSUME NEW w \in Workers, Throws(w) \/ HoldBackHost(w) PROVE CountInv'
    <2>1. failures' = failures /\ errors' = errors /\ reading' = reading /\ queues' = queues
        BY <1>6 DEF Throws, HoldBackHost, tally, rows
    <2>2. \A u \in Workers : Still(worker'[u].queue)
        BY <1>6, <2>1, <1>u, <1>w, WorkersGoOn
    <2> QED BY <1>c, <2>1, <2>2 DEF CountInv, NoFailureInvented, Honest, Still
<1>7. ASSUME NEW v \in Web, NEW f \in Feeds, Click(v, f) PROVE CountInv'
    <2>1. failures' = failures /\ errors' = errors /\ worker' = worker /\ queues' = queues
        BY <1>7 DEF Click, tally, batch
    <2>2. reading' = reading \/ reading' = [reading EXCEPT ![v] = @ \cup {RowOf(f, 0)}]
        BY <1>7 DEF Click
    <2>3. Honest({RowOf(f, 0)})
        BY <1>c DEF Honest, RowOf, NoFailureInvented
    <2>4. \A x \in Web : Still(reading'[x])
        BY <1>t, <1>c, <2>1, <2>2, <2>3 DEF Honest, Still
    <2> QED BY <1>c, <2>1, <2>4 DEF CountInv, NoFailureInvented, Honest, Still
<1>8. ASSUME NEW v \in Web, NEW r \in reading[v], ClickThrows(v, r) PROVE CountInv'
    <2>1. failures' = failures /\ errors' = errors /\ worker' = worker /\ queues' = queues
          /\ reading' = [reading EXCEPT ![v] = @ \ {r}]
        BY <1>8 DEF ClickThrows, tally, batch, rows
    <2> QED BY <1>t, <1>c, <2>1 DEF CountInv, NoFailureInvented, Honest, Still
<1>9. ASSUME NEW v \in Web, NEW r \in reading[v], NEW a \in Answers, ClickAnswered(v, r, a)
      PROVE CountInv'
    <2>1. r \in Row /\ Honest({r})
        BY <1>t, <1>c DEF Honest
    <2>2. OnlyMore /\ NoFailureInvented'
        BY <1>9, <1>c, <2>1, SettleIsHonest DEF ClickAnswered
    <2>3. worker' = worker /\ queues' = queues /\ reading' = [reading EXCEPT ![v] = @ \ {r}]
        BY <1>9 DEF ClickAnswered, batch
    <2>4. \A x \in Web : reading'[x] \in SUBSET reading[x]
        BY <1>t, <2>3
    <2> QED BY <1>k, <2>2, <2>3, <2>4 DEF CountInv, Honest, Still
<1>10. ASSUME NEW f \in Feeds, ComeDue(f) \/ Age(f) PROVE CountInv'
    BY <1>10, <1>c DEF ComeDue, Age, CountInv, NoFailureInvented, Honest, Still, batch, tally
<1>11. CASE UNCHANGED vars
    BY <1>11, <1>c DEF vars, rows, batch, tally, CountInv, NoFailureInvented, Honest, Still
<1> QED
    BY <1>1, <1>2, <1>3, <1>4, <1>5, <1>6, <1>7, <1>8, <1>9, <1>10, <1>11
    DEF Next, Crawl, AnswerOrThrow

\* A feed's error_count never exceeds the failures it had, so none is retired
\* for fewer than DeadAt of them, whatever rows were outdated when written.
THEOREM CountsAreHonest == Spec => []NoFailureInvented
<1>1. Spec => []CountInv
    BY TypeCorrect, CountInit, CountStep, PTL DEF Spec
<1>2. CountInv => NoFailureInvented
    BY DEF CountInv, Honest, Still
<1> QED BY <1>1, <1>2, PTL
-----------------------------------------------------------------------------
(* One host, one queue, one worker.  Two queues of a batch never hold feeds of *)
(* one host, in whatever hands they are, and a host that refused is in none    *)
(* that is still being walked.                                                 *)

Apart(R, S) == \A r \in R, s \in S : HostOfRow(r) # HostOfRow(s)
Answering(R, H) == \A r \in R : HostOfRow(r) \notin H

QueueInv ==
    /\ \A q, p \in queues : q # p => Apart(q, p)
    /\ \A w, u \in Workers : w # u => Apart(worker[w].queue, worker[u].queue)
    /\ \A w \in Workers, q \in queues : Apart(worker[w].queue, q)

RefusalInv ==
    /\ \A q \in queues : Answering(q, refused)
    /\ \A w \in Workers : worker[w].at = "asking" => Answering(worker[w].queue, refused)

\* What tick's guard is for: between batches nothing is in hand.
NothingLeft == queues = {} /\ refused = {} /\ \A w \in Workers : worker[w].queue = {}

BatchInv == QueueInv /\ RefusalInv /\ (~running => NothingLeft)

LEMMA GroupsAreApart ==
    ASSUME NEW R, NEW q \in GroupByHost(R), NEW p \in GroupByHost(R), q # p
    PROVE  Apart(q, p)
<1>1. PICK a \in R : q = {r \in R : HostOfRow(r) = HostOfRow(a)}
    BY DEF GroupByHost
<1>2. PICK b \in R : p = {r \in R : HostOfRow(r) = HostOfRow(b)}
    BY DEF GroupByHost
<1>3. HostOfRow(a) # HostOfRow(b)
    BY <1>1, <1>2
<1> QED BY <1>1, <1>2, <1>3 DEF Apart

LEMMA BatchInit == Init => BatchInv
BY DEF Init, BatchInv, QueueInv, RefusalInv, NothingLeft, Apart, Answering, Resting

\* A worker that goes on keeps within its queue, so the queues stay apart.
LEMMA GoingOnStaysApart ==
    ASSUME TypeOK, QueueInv, NEW w \in Workers, GoesOn(w), queues' = queues
    PROVE  QueueInv'
<1>1. worker \in [Workers -> WorkerState]
    BY DEF TypeOK
<1>2. \A u \in Workers : worker'[u].queue \subseteq worker[u].queue
    BY <1>1 DEF GoesOn
<1> QED BY <1>2 DEF QueueInv, Apart

LEMMA TakingMovesOne ==
    ASSUME TypeOK, QueueInv, NEW w \in Workers, TakeQueue(w)
    PROVE  QueueInv' /\ \E q \in queues : q \notin queues' /\ worker'[w].queue = q
<1>1. worker \in [Workers -> WorkerState]
    BY DEF TypeOK
<1>2. PICK q \in queues : worker' = [worker EXCEPT ![w] = Walking(q)] /\ queues' = queues \ {q}
    BY DEF TakeQueue, Untaken
<1>3. worker'[w].queue = q /\ \A u \in Workers : u # w => worker'[u] = worker[u]
    BY <1>1, <1>2, WalksKeepTheQueue
<1>4. \A p \in queues' : p \in queues /\ p # q
    BY <1>2
<1>5. \A q1, q2 \in queues' : q1 # q2 => Apart(q1, q2)
    BY <1>4 DEF QueueInv
<1>6. \A u \in Workers : u # w => Apart(worker[u].queue, q) /\ Apart(q, worker[u].queue)
    BY DEF QueueInv, Apart
<1>7. \A u, v \in Workers : u # v => Apart(worker'[u].queue, worker'[v].queue)
    BY <1>3, <1>6 DEF QueueInv
<1>8. \A u \in Workers, p \in queues' : Apart(worker'[u].queue, p)
    BY <1>3, <1>4 DEF QueueInv
<1> QED BY <1>2, <1>3, <1>5, <1>7, <1>8 DEF QueueInv

\* A refusal is remembered while its queue is put down, and no other queue
\* holds a feed of that host.
LEMMA RefusalStays ==
    ASSUME TypeOK, QueueInv, RefusalInv, NEW w \in Workers, NEW a \in Answers, Answered(w, a)
    PROVE  RefusalInv'
<1> DEFINE row == First(worker[w].queue)
<1>1. worker \in [Workers -> WorkerState] /\ worker[w].at = "asking" /\ queues' = queues
    BY DEF TypeOK, Answered
<1>2. row \in worker[w].queue /\ Rest(w) \subseteq worker[w].queue
    BY <1>1, HandsOverRows
<1>3. Answering(worker[w].queue, refused)
    BY <1>1 DEF RefusalInv
<1>4. CASE a = "throttled"
    <2>1. worker' = [worker EXCEPT ![w] = Holding(Rest(w))]
          /\ refused' = refused \cup {HostOfRow(row)}
        BY <1>4 DEF Answered
    <2>2. Holding(Rest(w)).at # "asking"
        BY DEF Holding, Resting
    <2>3. worker'[w].at # "asking" /\ \A u \in Workers : u # w => worker'[u] = worker[u]
        BY <1>1, <2>1, <2>2
    <2>4. \A u \in Workers : u # w => Answering(worker[u].queue, {HostOfRow(row)})
        BY <1>2 DEF QueueInv, Apart, Answering
    <2>5. \A q \in queues : Answering(q, {HostOfRow(row)})
        BY <1>2 DEF QueueInv, Apart, Answering
    <2>6. \A q \in queues : Answering(q, refused')
        BY <2>1, <2>5 DEF RefusalInv, Answering
    <2>7. \A u \in Workers : worker'[u].at = "asking" => Answering(worker'[u].queue, refused')
        BY <2>1, <2>3, <2>4 DEF RefusalInv, Answering
    <2> QED BY <1>1, <2>6, <2>7 DEF RefusalInv
<1>5. CASE a # "throttled"
    <2>1. worker' = [worker EXCEPT ![w] = Walking(Rest(w))] /\ refused' = refused
        BY <1>5 DEF Answered
    <2>2. worker'[w].queue = Rest(w) /\ \A u \in Workers : u # w => worker'[u] = worker[u]
        BY <1>1, <2>1, WalksKeepTheQueue
    <2>3. Answering(Rest(w), refused)
        BY <1>2, <1>3 DEF Answering
    <2> QED BY <1>1, <2>1, <2>2, <2>3 DEF RefusalInv
<1> QED BY <1>4, <1>5

LEMMA BatchStep == TypeOK /\ BatchInv /\ [Next]_vars => BatchInv'
<1> SUFFICES ASSUME TypeOK, BatchInv, [Next]_vars PROVE BatchInv'
    OBVIOUS
<1>0. QueueInv /\ RefusalInv /\ (~running => NothingLeft)
    BY DEF BatchInv
<1>t. worker \in [Workers -> WorkerState]
    BY DEF TypeOK
\* What leaves the batch alone leaves all of this alone.
<1>b. ASSUME UNCHANGED batch, UNCHANGED refused PROVE BatchInv'
    BY <1>0, <1>b DEF batch, BatchInv, QueueInv, RefusalInv, NothingLeft
<1>r. \A w \in Workers : worker[w].queue # {} => running
    BY <1>0 DEF NothingLeft
<1>1. CASE StartBatch
    <2>1. NothingLeft /\ worker' = worker /\ refused' = refused /\ running'
        BY <1>0, <1>1 DEF StartBatch, trail
    <2>2. \A q, p \in queues' : q # p => Apart(q, p)
        BY <1>1, GroupsAreApart DEF StartBatch
    <2>3. QueueInv' /\ RefusalInv'
        BY <2>1, <2>2 DEF QueueInv, RefusalInv, NothingLeft, Apart, Answering
    <2> QED BY <2>1, <2>3 DEF BatchInv
<1>2. CASE EndBatch
    <2>1. queues' = {} /\ refused' = {} /\ \A w \in Workers : worker'[w].queue = {}
        BY <1>2 DEF EndBatch, Resting
    <2> QED BY <2>1 DEF BatchInv, QueueInv, RefusalInv, NothingLeft, Apart, Answering
<1>3. CASE Crash
    <2>1. queues' = {} /\ refused' = {} /\ \A w \in Workers : worker'[w].queue = {}
        BY <1>3 DEF Crash, Resting
    <2> QED BY <2>1 DEF BatchInv, QueueInv, RefusalInv, NothingLeft, Apart, Answering
<1>4. ASSUME NEW w \in Workers, TakeQueue(w) PROVE BatchInv'
    <2>1. QueueInv'
        BY <1>0, <1>4, TakingMovesOne
    <2>2. PICK q \in queues : worker' = [worker EXCEPT ![w] = Walking(q)] /\ queues' = queues \ {q}
        BY <1>4 DEF TakeQueue, Untaken
    <2>3. refused' = refused /\ running' = running
        BY <1>4 DEF TakeQueue
    <2>4. worker'[w].queue = q /\ \A u \in Workers : u # w => worker'[u] = worker[u]
        BY <1>t, <2>2, WalksKeepTheQueue
    <2>5. RefusalInv'
        BY <1>0, <2>2, <2>3, <2>4 DEF RefusalInv
    <2>6. running
        BY <1>0, <2>2 DEF NothingLeft
    <2> QED BY <2>1, <2>3, <2>5, <2>6 DEF BatchInv
<1>5. ASSUME NEW w \in Workers, NEW a \in Answers, Answered(w, a) PROVE BatchInv'
    <2>1. queues' = queues /\ running' = running /\ worker[w].queue # {}
        BY <1>5 DEF Answered, TypeOK
    <2>2. GoesOn(w)
        BY <1>5, WorkersGoOn
    <2> QED BY <1>0, <1>5, <1>r, <2>1, <2>2, GoingOnStaysApart, RefusalStays DEF BatchInv
<1>6. ASSUME NEW w \in Workers, Throws(w) PROVE BatchInv'
    <2>1. queues' = queues /\ running' = running /\ refused' = refused
          /\ worker[w].queue # {} /\ worker[w].at = "asking"
        BY <1>6 DEF Throws, TypeOK
    <2>2. QueueInv'
        BY <1>0, <1>6, <2>1, WorkersGoOn, GoingOnStaysApart
    <2>3. worker' = [worker EXCEPT ![w] = Walking(Rest(w))] /\ Walking(Rest(w)).queue = Rest(w)
          /\ Rest(w) \subseteq worker[w].queue
        BY <1>6, WalksKeepTheQueue, HandsOverRows DEF Throws
    <2>4. Answering(Rest(w), refused)
        BY <1>0, <2>1, <2>3 DEF RefusalInv, Answering
    <2>5. RefusalInv'
        BY <1>0, <1>t, <2>1, <2>3, <2>4 DEF RefusalInv
    <2> QED BY <1>r, <2>1, <2>2, <2>5 DEF BatchInv
<1>7. ASSUME NEW w \in Workers, HoldBackHost(w) PROVE BatchInv'
    <2>1. queues' = queues /\ running' = running /\ refused' = refused
          /\ worker[w].queue # {} /\ worker' = [worker EXCEPT ![w] = Resting]
        BY <1>7 DEF HoldBackHost, TypeOK, trail
    <2>2. QueueInv'
        BY <1>0, <1>7, <2>1, WorkersGoOn, GoingOnStaysApart
    <2>3. RefusalInv'
        BY <1>0, <1>t, <2>1 DEF RefusalInv, Resting, Answering
    <2> QED BY <1>r, <2>1, <2>2, <2>3 DEF BatchInv
<1>8. ASSUME NEW v \in Web, NEW f \in Feeds, Click(v, f) PROVE BatchInv'
    BY <1>8, <1>b DEF Click, trail
<1>9. ASSUME NEW v \in Web, NEW r \in reading[v],
             ClickThrows(v, r) \/ \E a \in Answers : ClickAnswered(v, r, a)
      PROVE BatchInv'
    BY <1>9, <1>b DEF ClickThrows, ClickAnswered, trail
<1>10. ASSUME NEW f \in Feeds, ComeDue(f) \/ Age(f) PROVE BatchInv'
    BY <1>10, <1>b DEF ComeDue, Age, trail
<1>11. CASE UNCHANGED vars
    BY <1>11, <1>b DEF vars, trail
<1> QED
    BY <1>1, <1>2, <1>3, <1>4, <1>5, <1>6, <1>7, <1>8, <1>9, <1>10, <1>11
    DEF Next, Crawl, AnswerOrThrow

LEMMA BatchCorrect == Spec => [](TypeOK /\ BatchInv)
BY TypeCorrect, BatchInit, BatchStep, PTL DEF Spec

\* Two workers of a batch never have a request out to the same host, for any
\* number of workers, hosts and feeds.
THEOREM PoliteToEveryHost == Spec => []OneRequestPerHost
<1>1. TypeOK /\ BatchInv => OneRequestPerHost
    <2> SUFFICES ASSUME TypeOK, BatchInv, NEW w \in Workers, NEW u \in Workers, w # u,
                        worker[w].at = "asking", worker[u].at = "asking"
                 PROVE  HostOfRow(First(worker[w].queue)) # HostOfRow(First(worker[u].queue))
        BY DEF OneRequestPerHost
    <2>1. First(worker[w].queue) \in worker[w].queue /\ First(worker[u].queue) \in worker[u].queue
        BY HandsOverRows
    <2> QED BY <2>1 DEF BatchInv, QueueInv, Apart
<1> QED BY BatchCorrect, <1>1, PTL

\* A batch that was answered 429 by a host asks it nothing more: the request
\* out next is never to a host that has refused.
THEOREM RefusalsAreBelieved == Spec => RefusalIsBelieved
<1>1. TypeOK' /\ BatchInv' =>
        \A w \in Workers, f \in Feeds : AsksFor(w, f) => HostOf[f] \notin refused'
    <2> SUFFICES ASSUME TypeOK', BatchInv', NEW w \in Workers, NEW f \in Feeds, AsksFor(w, f)
                 PROVE  HostOf[f] \notin refused'
        OBVIOUS
    <2>1. worker'[w].at = "asking" /\ First(worker'[w].queue).feed = f
        BY DEF AsksFor
    <2>2. worker'[w].queue \in SUBSET Row /\ worker'[w].queue # {}
        BY <2>1 DEF TypeOK, WorkerState
    <2>3. First(worker'[w].queue) \in worker'[w].queue
        BY <2>2, FirstIsOne
    <2> QED BY <2>1, <2>3 DEF BatchInv, RefusalInv, Answering, HostOfRow
<1>2. TypeOK' /\ BatchInv' =>
        [\A w \in Workers, f \in Feeds : AsksFor(w, f) => HostOf[f] \notin refused']_vars
    BY <1>1
<1> QED BY BatchCorrect, <1>2, PTL DEF RefusalIsBelieved
-----------------------------------------------------------------------------
(* Asked once.  A queue has one row of a feed, and what is still to be asked   *)
(* was not asked before: not from this queue, and not from another, which is   *)
(* of another host.                                                            *)

OneRowEach(R) == \A r, s \in R : r.feed = s.feed => r = s
Unasked(R, A) == \A r \in R : r.feed \notin A

AskedInv ==
    /\ \A q \in queues : OneRowEach(q) /\ Unasked(q, asked)
    /\ \A w \in Workers : OneRowEach(worker[w].queue)
    /\ \A w \in Workers : worker[w].at = "asking" => Unasked(Rest(w), asked)

OnceInv == AskedInv /\ (~running => asked = {})

LEMMA BatchHasOneRowEach ==
    ASSUME NEW F PROVE OneRowEach(SpreadHosts(F))
BY DEF OneRowEach, SpreadHosts, RowOf

LEMMA OtherHostOtherFeed ==
    ASSUME NEW R, NEW S, Apart(R, S), NEW r \in R, NEW s \in S
    PROVE  r.feed # s.feed
BY DEF Apart, HostOfRow

\* A worker goes on with queue R and asks its first feed.
Advance(w, R) ==
    /\ worker' = [worker EXCEPT ![w] = Walking(R)] /\ asked' = Asked(R)
    /\ R \in SUBSET Row /\ OneRowEach(R) /\ Unasked(R, asked)
    /\ queues' \subseteq queues
    /\ \A q \in queues' : Apart(R, q)
    /\ \A u \in Workers : u # w => Apart(R, worker[u].queue)

LEMMA AdvanceAsksAnew ==
    ASSUME TypeOK, AskedInv, NEW w \in Workers, NEW R, Advance(w, R)
    PROVE  AskedInv' /\ \A u \in Workers, f \in Feeds : AsksFor(u, f) => f \notin asked
<1>1. /\ worker \in [Workers -> WorkerState]
      /\ worker'[w] = Walking(R) /\ worker'[w].queue = R
      /\ \A u \in Workers : u # w => worker'[u] = worker[u]
    BY WalksKeepTheQueue DEF TypeOK, Advance
<1>2. R # {} => First(R) \in R
    BY FirstIsOne DEF Advance
\* The one feed that is asked now: no row elsewhere is of it.
<1>3. \A a \in asked' : a \in asked \/ (R # {} /\ a = First(R).feed)
    BY DEF Advance, Asked
<1>4. \A q \in queues' : OneRowEach(q) /\ Unasked(q, asked')
    <2> SUFFICES ASSUME NEW q \in queues' PROVE OneRowEach(q) /\ Unasked(q, asked')
        OBVIOUS
    <2>1. q \in queues /\ Apart(R, q)
        BY DEF Advance
    <2>2. \A s \in q : R # {} => s.feed # First(R).feed
        BY <2>1, <1>2, OtherHostOtherFeed
    <2> QED BY <1>3, <2>1, <2>2 DEF AskedInv, Unasked
<1>5. \A u \in Workers : OneRowEach(worker'[u].queue)
    BY <1>1 DEF AskedInv, Advance
<1>6. ASSUME NEW u \in Workers, worker'[u].at = "asking"
      PROVE  Unasked(worker'[u].queue \ {First(worker'[u].queue)}, asked')
    <2>1. CASE u = w
        <3>1. R # {}
            BY <1>1, <1>6, <2>1 DEF Walking, Resting
        <3>2. \A s \in R \ {First(R)} : s.feed # First(R).feed
            BY <1>2, <3>1 DEF OneRowEach, Advance
        <3> QED BY <1>1, <1>3, <2>1, <3>2 DEF Unasked, Advance
    <2>2. CASE u # w
        <3>1. worker'[u] = worker[u] /\ Apart(R, worker[u].queue)
            BY <1>1, <2>2 DEF Advance
        <3>2. \A s \in worker[u].queue : R # {} => s.feed # First(R).feed
            BY <3>1, <1>2, OtherHostOtherFeed
        <3>3. Unasked(Rest(u), asked)
            BY <1>6, <3>1 DEF AskedInv
        <3> QED BY <1>3, <3>1, <3>2, <3>3 DEF Unasked, Rest
    <2> QED BY <2>1, <2>2
<1>7. AskedInv'
    BY <1>4, <1>5, <1>6 DEF AskedInv, Rest
<1>8. ASSUME NEW u \in Workers, NEW f \in Feeds, AsksFor(u, f) PROVE f \notin asked
    <2>1. u = w /\ worker'[u].at = "asking" /\ First(R).feed = f
        BY <1>1, <1>8 DEF AsksFor
    <2>2. R # {}
        BY <1>1, <2>1 DEF Walking, Resting
    <2> QED BY <1>2, <2>1, <2>2 DEF Advance, Unasked
<1> QED BY <1>7, <1>8

LEMMA OnceInit == Init => OnceInv
BY DEF Init, OnceInv, AskedInv, OneRowEach, Unasked, Resting, Rest

\* No step asks a feed that was asked, and what is still to be asked stays so.
LEMMA OnceStep ==
    TypeOK /\ BatchInv /\ OnceInv /\ [Next]_vars =>
        /\ OnceInv'
        /\ \A u \in Workers, f \in Feeds : AsksFor(u, f) => f \notin asked
<1> DEFINE Anew == \A u \in Workers, f \in Feeds : AsksFor(u, f) => f \notin asked
<1> SUFFICES ASSUME TypeOK, BatchInv, OnceInv, [Next]_vars PROVE OnceInv' /\ Anew
    OBVIOUS
<1>0. AskedInv /\ QueueInv /\ (~running => NothingLeft /\ asked = {})
    BY DEF BatchInv, OnceInv
<1>t. worker \in [Workers -> WorkerState] /\ \A w \in Workers : worker[w].at = "asking" => worker[w].queue # {}
    BY DEF TypeOK
<1>b. ASSUME UNCHANGED batch, UNCHANGED asked PROVE OnceInv' /\ Anew
    BY <1>0, <1>b DEF batch, OnceInv, AskedInv, Rest, AsksFor
\* A worker goes on with the rest of its queue.
<1>a. ASSUME NEW w \in Workers, worker[w].at = "asking", queues' = queues,
             worker' = [worker EXCEPT ![w] = Walking(Rest(w))], asked' = Asked(Rest(w))
      PROVE  AskedInv' /\ Anew
    <2>1. Rest(w) \in SUBSET Row /\ Rest(w) \subseteq worker[w].queue
        BY HandsOverRows
    <2>2. OneRowEach(Rest(w)) /\ Unasked(Rest(w), asked)
        BY <1>0, <1>a, <2>1 DEF AskedInv, OneRowEach
    <2>3. \A q \in queues : Apart(Rest(w), q)
        BY <1>0, <2>1 DEF QueueInv, Apart
    <2>4. \A u \in Workers : u # w => Apart(Rest(w), worker[u].queue)
        BY <1>0, <2>1 DEF QueueInv, Apart
    <2>5. Advance(w, Rest(w))
        BY <1>a, <2>1, <2>2, <2>3, <2>4 DEF Advance
    <2> QED BY <1>0, <2>5, AdvanceAsksAnew
\* A worker goes on without asking.
<1>h. ASSUME NEW w \in Workers, NEW s, queues' = queues, asked' = asked,
             worker' = [worker EXCEPT ![w] = s], s.at # "asking", s.queue \subseteq worker[w].queue
      PROVE  AskedInv' /\ Anew
    <2>1. worker'[w] = s /\ \A u \in Workers : u # w => worker'[u] = worker[u]
        BY <1>t, <1>h
    <2>2. Anew
        BY <1>h, <2>1 DEF AsksFor
    <2>3. \A u \in Workers : OneRowEach(worker'[u].queue)
        BY <1>0, <1>h, <2>1 DEF AskedInv, OneRowEach
    <2>4. \A u \in Workers : worker'[u].at = "asking" =>
            Unasked(worker'[u].queue \ {First(worker'[u].queue)}, asked)
        BY <1>0, <1>h, <2>1 DEF AskedInv, Rest
    <2> QED BY <1>0, <1>h, <2>2, <2>3, <2>4 DEF AskedInv, Rest
<1>1. CASE StartBatch
    <2>1. worker' = worker /\ asked = {} /\ asked' = {} /\ running'
          /\ \A w \in Workers : worker[w].queue = {}
        BY <1>0, <1>1 DEF StartBatch, trail, NothingLeft
    <2>2. \A q \in queues' : OneRowEach(q)
        BY <1>1, BatchHasOneRowEach, GroupsAreParts DEF StartBatch, OneRowEach
    <2> QED BY <2>1, <2>2 DEF OnceInv, AskedInv, Unasked, OneRowEach, Rest, AsksFor
<1>2. CASE EndBatch \/ Crash
    <2>1. queues' = {} /\ asked' = {} /\ \A w \in Workers : worker'[w] = Resting
        BY <1>2 DEF EndBatch, Crash
    <2> QED BY <2>1 DEF OnceInv, AskedInv, Unasked, OneRowEach, Rest, AsksFor, Resting
<1>3. ASSUME NEW w \in Workers, TakeQueue(w) PROVE OnceInv' /\ Anew
    <2>1. PICK q \in queues : worker' = [worker EXCEPT ![w] = Walking(q)] /\ queues' = queues \ {q}
                              /\ asked' = Asked(q)
        BY <1>3 DEF TakeQueue, Untaken
    <2>2. q \in SUBSET Row
        BY DEF TypeOK
    <2>3. \A p \in queues' : Apart(q, p)
        BY <1>0, <2>1 DEF QueueInv
    <2>4. \A u \in Workers : Apart(q, worker[u].queue)
        BY <1>0 DEF QueueInv, Apart
    <2>5. Advance(w, q)
        BY <1>0, <2>1, <2>2, <2>3, <2>4 DEF Advance, AskedInv
    <2>6. running /\ running' = running
        BY <1>0, <1>3 DEF NothingLeft, TakeQueue
    <2> QED BY <1>0, <2>5, <2>6, AdvanceAsksAnew DEF OnceInv
<1>4. ASSUME NEW w \in Workers, NEW a \in Answers, Answered(w, a) PROVE OnceInv' /\ Anew
    <2>1. worker[w].at = "asking" /\ queues' = queues /\ running' = running /\ running
        BY <1>0, <1>t, <1>4 DEF Answered, NothingLeft
    <2>2. CASE a = "throttled"
        <3>1. worker' = [worker EXCEPT ![w] = Holding(Rest(w))] /\ asked' = asked
            BY <1>4, <2>2 DEF Answered
        <3>2. Holding(Rest(w)).at # "asking" /\ Holding(Rest(w)).queue \subseteq worker[w].queue
            BY WalksKeepTheQueue, HandsOverRows DEF Holding, Resting
        <3>3. AskedInv' /\ Anew
            BY <1>h, <2>1, <3>1, <3>2
        <3> QED BY <2>1, <3>3 DEF OnceInv
    <2>3. CASE a # "throttled"
        <3>1. worker' = [worker EXCEPT ![w] = Walking(Rest(w))] /\ asked' = Asked(Rest(w))
            BY <1>4, <2>3 DEF Answered
        <3> QED BY <1>a, <2>1, <3>1 DEF OnceInv
    <2> QED BY <2>2, <2>3
<1>5. ASSUME NEW w \in Workers, Throws(w) PROVE OnceInv' /\ Anew
    <2>1. worker[w].at = "asking" /\ queues' = queues /\ running' = running /\ running
          /\ worker' = [worker EXCEPT ![w] = Walking(Rest(w))] /\ asked' = Asked(Rest(w))
        BY <1>0, <1>t, <1>5 DEF Throws, NothingLeft
    <2> QED BY <1>a, <2>1 DEF OnceInv
<1>6. ASSUME NEW w \in Workers, HoldBackHost(w) PROVE OnceInv' /\ Anew
    <2>1. queues' = queues /\ running' = running /\ asked' = asked
          /\ worker[w].queue # {} /\ worker' = [worker EXCEPT ![w] = Resting]
        BY <1>6 DEF HoldBackHost, TypeOK, trail
    <2>2. Resting.at # "asking" /\ Resting.queue \subseteq worker[w].queue
        BY DEF Resting
    <2>3. AskedInv' /\ Anew
        BY <1>h, <2>1, <2>2
    <2>4. running
        BY <1>0, <2>1 DEF NothingLeft
    <2> QED BY <2>1, <2>3, <2>4 DEF OnceInv
<1>7. ASSUME NEW v \in Web, NEW f \in Feeds, Click(v, f) PROVE OnceInv' /\ Anew
    BY <1>7, <1>b DEF Click, trail
<1>8. ASSUME NEW v \in Web, NEW r \in reading[v],
             ClickThrows(v, r) \/ \E a \in Answers : ClickAnswered(v, r, a)
      PROVE OnceInv' /\ Anew
    BY <1>8, <1>b DEF ClickThrows, ClickAnswered, trail
<1>9. ASSUME NEW f \in Feeds, ComeDue(f) \/ Age(f) PROVE OnceInv' /\ Anew
    BY <1>9, <1>b DEF ComeDue, Age, trail
<1>10. CASE UNCHANGED vars
    BY <1>10, <1>b DEF vars, trail
<1> QED
    BY <1>1, <1>2, <1>3, <1>4, <1>5, <1>6, <1>7, <1>8, <1>9, <1>10
    DEF Next, Crawl, AnswerOrThrow

\* No batch asks one feed twice, for any number of workers: a feed has one row
\* in it, and a queue taken by one worker is gone for the others.
THEOREM NoFeedAskedTwice == Spec => AskedOnce
<1>1. Spec => []OnceInv
    BY BatchCorrect, OnceInit, OnceStep, PTL DEF Spec
<1>2. TypeOK /\ BatchInv /\ OnceInv /\ [Next]_vars =>
        [\A w \in Workers, f \in Feeds : AsksFor(w, f) => f \notin asked]_vars
    BY OnceStep
<1> QED BY BatchCorrect, <1>1, <1>2, PTL DEF Spec, AskedOnce
-----------------------------------------------------------------------------
(* The share of a host.  What is due stands in one order, so a cap on how many *)
(* come before a feed is a cap on how many there are.                          *)

\* R orders the members of S one after the other.
Orders(R, S) ==
    /\ \A x \in S : <<x, x>> \notin R
    /\ \A x, y \in S : x # y => <<x, y>> \in R \/ <<y, x>> \in R
    /\ \A x, y, z \in S : <<x, y>> \in R /\ <<y, z>> \in R => <<x, z>> \in R

Ahead(R, S, x) == {y \in S : <<y, x>> \in R}

\* The first n of a finite set in order are n, or all of it.
LEMMA TheFirstAreCounted ==
    ASSUME NEW S, IsFiniteSet(S), NEW R, Orders(R, S), NEW n \in Nat
    PROVE  Cardinality({x \in S : Cardinality(Ahead(R, S, x)) < n})
             = IF n <= Cardinality(S) THEN n ELSE Cardinality(S)
<1> DEFINE C == Cardinality(S)
           rank == [x \in S |-> Cardinality(Ahead(R, S, x)) + 1]
           m == IF n <= C THEN n ELSE C
           T == {x \in S : Cardinality(Ahead(R, S, x)) < n}
<1>1. C \in Nat
    BY FS_CardinalityType
<1>2. ASSUME NEW x \in S
      PROVE  /\ IsFiniteSet(Ahead(R, S, x)) /\ Cardinality(Ahead(R, S, x)) \in Nat
             /\ Cardinality(Ahead(R, S, x)) < C
    <2>1. Ahead(R, S, x) \in SUBSET (S \ {x})
        BY DEF Ahead, Orders
    <2>2. IsFiniteSet(S \ {x}) /\ Cardinality(S \ {x}) = C - 1
        BY FS_RemoveElement
    <2>3. IsFiniteSet(Ahead(R, S, x)) /\ Cardinality(Ahead(R, S, x)) <= C - 1
        BY <2>1, <2>2, FS_Subset
    <2>4. Cardinality(Ahead(R, S, x)) \in Nat
        BY <2>3, FS_CardinalityType
    <2> HIDE DEF C
    <2> QED BY <1>1, <2>3, <2>4
<1>3. ASSUME NEW x \in S, NEW y \in S, <<x, y>> \in R
      PROVE  Cardinality(Ahead(R, S, x)) < Cardinality(Ahead(R, S, y))
    <2>1. Ahead(R, S, x) \cup {x} \in SUBSET Ahead(R, S, y) /\ x \notin Ahead(R, S, x)
        BY <1>3 DEF Ahead, Orders
    <2>2. Cardinality(Ahead(R, S, x) \cup {x}) = Cardinality(Ahead(R, S, x)) + 1
        BY <1>2, <2>1, FS_AddElement
    <2>3. Cardinality(Ahead(R, S, x) \cup {x}) <= Cardinality(Ahead(R, S, y))
        BY <1>2, <2>1, FS_Subset
    <2>4. Cardinality(Ahead(R, S, x)) \in Nat /\ Cardinality(Ahead(R, S, y)) \in Nat
        BY <1>2
    <2> QED BY <2>2, <2>3, <2>4
<1>4. rank \in [S -> 1 .. C] /\ \A x, y \in S : rank[x] = rank[y] => x = y
    <2> HIDE DEF C
    <2>1. \A x \in S : rank[x] = Cardinality(Ahead(R, S, x)) + 1 /\ rank[x] \in 1 .. C
        BY <1>1, <1>2
    <2>2. ASSUME NEW x \in S, NEW y \in S, x # y
          PROVE  rank[x] # rank[y]
        <3>1. <<x, y>> \in R \/ <<y, x>> \in R
            BY <2>2 DEF Orders
        <3> QED BY <1>2, <1>3, <2>1, <3>1
    <2> QED BY <2>1, <2>2
<1>5. IsFiniteSet(1 .. C) /\ Cardinality(1 .. C) = C
    BY <1>1, FS_Interval
<1>6. rank \in Surjection(S, 1 .. C)
    <2>1. rank \in Injection(S, 1 .. C)
        BY <1>4 DEF Injection, IsInjective
    <2> HIDE DEF rank
    <2> QED BY <1>5, <2>1, FS_Injection
<1>7. \A x \in S : x \in T <=> rank[x] \in 1 .. m
    <2>1. ASSUME NEW x \in S
          PROVE  Cardinality(Ahead(R, S, x)) < n <=> rank[x] \in 1 .. m
        <3>1. /\ rank[x] = Cardinality(Ahead(R, S, x)) + 1
              /\ Cardinality(Ahead(R, S, x)) \in Nat /\ Cardinality(Ahead(R, S, x)) < C
            BY <1>2
        <3> HIDE DEF rank, C
        <3> QED BY <1>1, <3>1
    <2> HIDE DEF rank, m
    <2> QED BY <2>1
<1>8. m \in Nat /\ m <= C
    BY <1>1
<1> HIDE DEF T, rank, C, m
<1> DEFINE counted == [x \in T |-> rank[x]]
<1>9. T \in SUBSET S
    BY DEF T
<1>10. counted \in Bijection(T, 1 .. m)
    <2>1. counted \in [T -> 1 .. m] /\ \A x, y \in T : counted[x] = counted[y] => x = y
        BY <1>4, <1>7, <1>9
    <2>2. ASSUME NEW k \in 1 .. m
          PROVE  \E x \in T : counted[x] = k
        <3>1. k \in 1 .. C
            BY <1>1, <1>8
        <3>2. PICK x \in S : rank[x] = k
            BY <1>6, <3>1 DEF Surjection
        <3> QED BY <1>7, <3>2
    <2> HIDE DEF counted
    <2> QED BY <2>1, <2>2 DEF Bijection, Injection, Surjection, IsInjective
<1>11. IsFiniteSet(T)
    BY <1>9, FS_Subset
<1>12. Cardinality(1 .. m) = m
    BY <1>8, FS_Interval
<1>13. Cardinality(T) = m
    BY <1>10, <1>11, <1>12, FS_Bijection DEF ExistsBijection
<1> QED BY <1>13 DEF T, m, C

-----------------------------------------------------------------------------
\* What is due is in one order.
LineInv ==
    /\ \A f, g \in Feeds : <<f, g>> \in line => <<f, f>> \in line /\ <<g, g>> \in line
    /\ \A f, g \in Due : <<f, g>> \in line \/ <<g, f>> \in line
    /\ \A f, g \in Feeds : <<f, g>> \in line /\ <<g, f>> \in line => f = g
    /\ \A f, g, h \in Feeds : <<f, g>> \in line /\ <<g, h>> \in line => <<f, h>> \in line

LEMMA LineStays ==
    ASSUME TypeOK, LineInv, NEW f \in Feeds, NEW F,
           \/ line' = line \/ line' = Without(F) \/ line' = Foremost(f)
           \/ f \notin Due /\ line' = Last(f)
    PROVE  LineInv'
<1>1. line \subseteq Feeds \X Feeds
    BY DEF TypeOK
<1>2. CASE line' = line
    BY <1>2 DEF LineInv, Due
<1>3. CASE line' = Without(F)
    <2>1. \A g, h \in Feeds : <<g, h>> \in line' <=> <<g, h>> \in line /\ g \notin F /\ h \notin F
        BY <1>3 DEF Without
    <2> QED BY <2>1 DEF LineInv, Due
<1>4. CASE line' = Foremost(f)
    <2>1. \A g, h \in Feeds :
             <<g, h>> \in line' <=> \/ <<g, h>> \in line /\ g # f /\ h # f
                                    \/ g = f /\ (h = f \/ <<h, h>> \in line)
        BY <1>4 DEF Foremost, Without, Due
    <2> QED BY <2>1 DEF LineInv, Due
<1>5. CASE f \notin Due /\ line' = Last(f)
    <2>1. \A g, h \in Feeds :
             <<g, h>> \in line' <=> \/ <<g, h>> \in line
                                    \/ h = f /\ (g = f \/ <<g, g>> \in line)
        BY <1>5 DEF Last, Due
    <2>2. <<f, f>> \notin line
        BY <1>5 DEF Due
    <2> QED BY <2>1, <2>2 DEF LineInv, Due
<1> QED BY <1>2, <1>3, <1>4, <1>5

LEMMA LineInit == Init => LineInv
BY DEF Init, LineInv, Due

LEMMA LineStep == TypeOK /\ LineInv /\ [Next]_vars => LineInv'
<1> SUFFICES ASSUME TypeOK, LineInv, [Next]_vars PROVE LineInv'
    OBVIOUS
<1>1. CASE UNCHANGED line
    BY <1>1 DEF LineInv, Due
<1>2. ASSUME NEW w \in Workers, NEW a \in Answers, Answered(w, a)
      PROVE  LineInv'
    <2> DEFINE f == First(worker[w].queue).feed
    <2>1. line' = Without({f}) /\ worker[w].at = "asking"
        BY <1>2 DEF Answered, Settle
    <2>2. f \in Feeds
        BY <2>1, HandsOverRows DEF Row
    <2> QED BY <2>1, <2>2, LineStays
<1>3. ASSUME NEW w \in Workers, HoldBackHost(w)
      PROVE  LineInv'
    <2> DEFINE F == {r.feed : r \in worker[w].queue}
    <2>1. line' = Without(F) \/ line' = line
        BY <1>3 DEF HoldBackHost
    <2> HIDE DEF F
    <2>2. CASE line' = line
        BY <1>1, <2>2
    <2>3. CASE line' = Without(F) /\ Feeds # {}
        BY <2>3, LineStays
    <2>4. CASE Feeds = {}
        BY <2>4 DEF LineInv, Due
    <2> QED BY <2>1, <2>2, <2>3, <2>4
<1>4. ASSUME NEW v \in Web, NEW f \in Feeds, Click(v, f)
      PROVE  LineInv'
    BY <1>4, LineStays DEF Click
<1>5. ASSUME NEW v \in Web, NEW r \in reading[v], NEW a \in Answers, ClickAnswered(v, r, a)
      PROVE  LineInv'
    <2>1. line' = Without({r.feed})
        BY <1>5 DEF ClickAnswered, Settle
    <2>2. r.feed \in Feeds
        BY DEF TypeOK, Row
    <2> QED BY <2>1, <2>2, LineStays
<1>6. ASSUME NEW f \in Feeds, ComeDue(f)
      PROVE  LineInv'
    BY <1>6, LineStays DEF ComeDue
<1>7. ASSUME NEW w \in Workers, TakeQueue(w) \/ Throws(w)
      PROVE  UNCHANGED line
    BY <1>7 DEF TakeQueue, Throws, rows
<1>8. ASSUME NEW v \in Web, NEW r \in reading[v], ClickThrows(v, r)
      PROVE  UNCHANGED line
    BY <1>8 DEF ClickThrows, rows
<1>9. ASSUME NEW f \in Feeds, Age(f)
      PROVE  UNCHANGED line
    BY <1>9 DEF Age
<1>10. CASE StartBatch \/ EndBatch \/ Crash \/ UNCHANGED vars
    BY <1>1, <1>10 DEF StartBatch, EndBatch, Crash, rows, vars
<1> QED BY <1>1, <1>2, <1>3, <1>4, <1>5, <1>6, <1>7, <1>8, <1>9, <1>10
        DEF Next, Crawl, AnswerOrThrow

-----------------------------------------------------------------------------
\* Of a host's feeds the cap lets in PerHost, or all of them.
OfHost(F, h) == {f \in F : HostOf[f] = h}

LEMMA CapIs ==
    ASSUME LineInv, NEW F \in SUBSET Due, NEW h
    PROVE  /\ IsFiniteSet(OfHost(F, h)) /\ Cardinality(OfHost(F, h)) \in Nat
           /\ IsFiniteSet(OfHost(Capped(F), h))
           /\ Cardinality(OfHost(Capped(F), h)) =
                IF PerHost <= Cardinality(OfHost(F, h)) THEN PerHost
                ELSE Cardinality(OfHost(F, h))
<1> DEFINE S == OfHost(F, h)
           R == {p \in Feeds \X Feeds : Sooner(p[1], p[2])}
<1>1. S \in SUBSET Feeds /\ S \in SUBSET Due /\ Due \in SUBSET Feeds
    BY DEF OfHost, Due
<1>2. IsFiniteSet(S)
    BY <1>1, ConstantsOK, FS_Subset
<1>3. \A f, g \in Feeds : <<f, g>> \in R <=> Sooner(f, g)
    OBVIOUS
<1> HIDE DEF R
<1>4. Orders(R, S)
    <2>1. \A f \in S : ~Sooner(f, f)
        BY DEF Sooner
    <2>2. \A f, g \in S : f # g => Sooner(f, g) \/ Sooner(g, f)
        BY <1>1 DEF Sooner, LineInv
    <2>3. \A f, g, k \in S : Sooner(f, g) /\ Sooner(g, k) => Sooner(f, k)
        BY <1>1 DEF Sooner, LineInv
    <2> HIDE DEF S
    <2> QED BY <1>1, <1>3, <2>1, <2>2, <2>3 DEF Orders
<1>5. ASSUME NEW f \in S
      PROVE  {g \in F : HostOf[g] = HostOf[f] /\ Sooner(g, f)} = Ahead(R, S, f)
    BY <1>1, <1>3 DEF Ahead, OfHost
<1>6. OfHost(Capped(F), h) = {f \in S : Cardinality(Ahead(R, S, f)) < PerHost}
    <2>1. OfHost(Capped(F), h) =
            {f \in S : Cardinality({g \in F : HostOf[g] = HostOf[f] /\ Sooner(g, f)}) < PerHost}
        BY DEF OfHost, Capped
    <2> HIDE DEF S
    <2> QED BY <1>5, <2>1
<1>7. PerHost \in Nat
    BY ConstantsOK
<1> HIDE DEF S
<1>8. Cardinality({f \in S : Cardinality(Ahead(R, S, f)) < PerHost})
        = IF PerHost <= Cardinality(S) THEN PerHost ELSE Cardinality(S)
    BY <1>2, <1>4, <1>7, TheFirstAreCounted
<1>9. IsFiniteSet(OfHost(Capped(F), h))
    BY <1>2, <1>6, FS_Subset
<1> QED BY <1>2, <1>6, <1>8, <1>9, FS_CardinalityType DEF S

\* What the cap let in comes before what it held back.
LEMMA LetInFirst ==
    ASSUME NEW F \in SUBSET Feeds, NEW f \in F, NEW g \in F, f \in Capped(F), g \notin Capped(F)
    PROVE  Place(F, f) <= Place(F, g)
<1> DEFINE Before(x, y) == IF (x \in Capped(F)) = (y \in Capped(F)) THEN Sooner(x, y)
                           ELSE x \in Capped(F)
           A == {x \in F : Before(x, f)}
           B == {x \in F : Before(x, g)}
<1>1. A \in SUBSET B /\ B \in SUBSET Feeds
    BY DEF Capped
<1>2. IsFiniteSet(B)
    BY <1>1, ConstantsOK, FS_Subset
<1>3. Cardinality(A) <= Cardinality(B)
    BY <1>1, <1>2, FS_Subset
<1> QED BY <1>3 DEF Place

\* A host's share of the batch, counted in feeds.
Chosen(F) == {f \in F : Place(F, f) < BatchSize}

LEMMA ShareIs ==
    ASSUME NEW F \in SUBSET Feeds, NEW h
    PROVE  /\ IsFiniteSet(OfHost(Chosen(F), h))
           /\ Share(GroupByHost(SpreadHosts(F)), h) = Cardinality(OfHost(Chosen(F), h))
<1> DEFINE S == OfHost(Chosen(F), h)
           R == {r \in SpreadHosts(F) : HostOfRow(r) = h}
           row == [f \in S |-> RowOf(f, Place(F, f))]
<1>1. UNION GroupByHost(SpreadHosts(F)) = SpreadHosts(F)
    BY DEF GroupByHost
<1>2. IsFiniteSet(S)
    <2>1. S \in SUBSET Feeds
        BY DEF OfHost, Chosen
    <2> QED BY <2>1, ConstantsOK, FS_Subset
<1>3. SpreadHosts(F) = {RowOf(f, Place(F, f)) : f \in Chosen(F)}
    BY DEF SpreadHosts, Chosen
<1>4. \A f : RowOf(f, Place(F, f)).feed = f
    BY DEF RowOf
<1>5. row \in Bijection(S, R)
    <2>1. \A f \in S : row[f] \in R /\ row[f].feed = f
        BY <1>3, <1>4 DEF OfHost, HostOfRow
    <2>2. \A r \in R : \E f \in S : row[f] = r
        BY <1>3, <1>4 DEF OfHost, HostOfRow
    <2>3. row \in [S -> R]
        BY <2>1
    <2> HIDE DEF row, S, R
    <2> QED BY <2>1, <2>2, <2>3 DEF Bijection, Injection, Surjection, IsInjective
<1> HIDE DEF row, S
<1>6. Cardinality(R) = Cardinality(S)
    BY <1>2, <1>5, FS_Bijection DEF ExistsBijection
<1> QED BY <1>1, <1>2, <1>6 DEF Share, S

\* dueFeeds and spreadHosts: for any feeds, hosts and limits, a host has more than PerHost
\* feeds in a batch only when no feed that was left out is of a host with fewer.
THEOREM HostsAreSpread == Spec => HostsShareTheBatch
<1>1. TypeOK /\ LineInv /\ [Next]_vars =>
        [~running /\ running' =>
          \A f \in DueFeeds \ {r.feed : r \in UNION queues'}, g \in Feeds :
            Share(queues', HostOf[g]) > PerHost => Share(queues', HostOf[f]) >= PerHost]_vars
    <2> DEFINE F == DueFeeds
    <2> SUFFICES ASSUME LineInv, [Next]_vars, ~running, running',
                        NEW f \in DueFeeds \ {r.feed : r \in UNION queues'}, NEW g \in Feeds,
                        Share(queues', HostOf[g]) > PerHost
                 PROVE  Share(queues', HostOf[f]) >= PerHost
        OBVIOUS
    <2>1. queues' = GroupByHost(SpreadHosts(F))
        BY DEF Next, Crawl, StartBatch, EndBatch, Crash, AnswerOrThrow, TakeQueue, Throws, Answered,
               HoldBackHost, Click, ClickAnswered, ClickThrows, ComeDue, Age, vars, batch
    <2>2. F \in SUBSET Feeds /\ F \in SUBSET Due
        BY DueFeedsAreFeeds DEF DueFeeds, FirstOf
    <2>3. \A x \in F : Place(F, x) \in Nat
        BY <2>2, PlaceIsANumber
    <2>4. PerHost \in Nat /\ BatchSize \in Nat
        BY ConstantsOK
    <2>5. f \in F /\ f \notin Chosen(F)
        <3>1. ASSUME f \in Chosen(F)
              PROVE  FALSE
            <4>1. RowOf(f, Place(F, f)) \in SpreadHosts(F) /\ RowOf(f, Place(F, f)).feed = f
                BY <3>1 DEF SpreadHosts, Chosen, RowOf
            <4>2. UNION GroupByHost(SpreadHosts(F)) = SpreadHosts(F)
                BY DEF GroupByHost
            <4> QED BY <2>1, <4>1, <4>2
        <3> QED BY <3>1
    <2> HIDE DEF F
    <2>6. /\ Share(queues', HostOf[g]) = Cardinality(OfHost(Chosen(F), HostOf[g]))
          /\ Share(queues', HostOf[f]) = Cardinality(OfHost(Chosen(F), HostOf[f]))
          /\ IsFiniteSet(OfHost(Chosen(F), HostOf[f]))
        BY <2>1, <2>2, ShareIs
    <2>7. PICK k \in Chosen(F) : k \notin Capped(F)
        <3>1. ASSUME OfHost(Chosen(F), HostOf[g]) \subseteq OfHost(Capped(F), HostOf[g])
              PROVE  FALSE
            <4>1. Cardinality(OfHost(Chosen(F), HostOf[g])) <= Cardinality(OfHost(Capped(F), HostOf[g]))
                BY <2>2, <3>1, CapIs, FS_Subset
            <4>2. Cardinality(OfHost(Capped(F), HostOf[g])) <= PerHost
                  /\ Cardinality(OfHost(Capped(F), HostOf[g])) \in Nat
                BY <2>2, <2>4, CapIs
            <4>3. Cardinality(OfHost(Chosen(F), HostOf[g])) \in Nat
                BY <2>2, ShareIs, FS_CardinalityType
            <4> QED BY <2>4, <2>6, <4>1, <4>2, <4>3
        <3> QED BY <3>1 DEF OfHost
    <2>8. k \in F /\ Place(F, k) < BatchSize /\ ~ (Place(F, f) < BatchSize)
        BY <2>5, <2>7 DEF Chosen
    <2>9. f \notin Capped(F)
        <3>1. f \in Capped(F) => Place(F, f) <= Place(F, k)
            BY <2>2, <2>5, <2>7, <2>8, LetInFirst
        <3> QED BY <2>3, <2>4, <2>5, <2>8, <3>1
    <2>10. OfHost(Capped(F), HostOf[f]) \subseteq OfHost(Chosen(F), HostOf[f])
        <3>1. ASSUME NEW c \in Capped(F)
              PROVE  c \in Chosen(F)
            <4>1. c \in F
                BY DEF Capped
            <4>2. Place(F, c) <= Place(F, k)
                BY <2>2, <2>7, <2>8, <4>1, LetInFirst
            <4> QED BY <2>3, <2>4, <2>8, <4>1, <4>2 DEF Chosen
        <3> QED BY <3>1 DEF OfHost
    <2>11. Cardinality(OfHost(Capped(F), HostOf[f])) = PerHost
        <3> DEFINE A == {x \in F : HostOf[x] = HostOf[f] /\ Sooner(x, f)}
        <3>1. ~ (Cardinality(A) < PerHost)
            BY <2>5, <2>9 DEF Capped
        <3>2. A \in SUBSET OfHost(F, HostOf[f])
            BY DEF OfHost
        <3>3. Cardinality(A) <= Cardinality(OfHost(F, HostOf[f])) /\ IsFiniteSet(A)
            BY <2>2, <3>2, CapIs, FS_Subset
        <3>4. Cardinality(A) \in Nat
            BY <3>3, FS_CardinalityType
        <3> HIDE DEF A
        <3> QED BY <2>2, <2>4, <3>1, <3>3, <3>4, CapIs
    <2>12. Cardinality(OfHost(Capped(F), HostOf[f])) <= Cardinality(OfHost(Chosen(F), HostOf[f]))
        BY <2>6, <2>10, FS_Subset
    <2>13. Cardinality(OfHost(Chosen(F), HostOf[f])) \in Nat
        BY <2>6, FS_CardinalityType
    <2> QED BY <2>4, <2>6, <2>11, <2>12, <2>13
<1>2. Spec => [](TypeOK /\ LineInv)
    BY TypeCorrect, LineInit, LineStep, PTL DEF Spec
<1> QED BY <1>1, <1>2, PTL DEF Spec, HostsShareTheBatch
=============================================================================
