-------------------------- MODULE DiscoveryProofs ---------------------------
(***************************************************************************)
(* Discovery for any keywords, sites and limits: its variables stay in     *)
(* their ranges, no site worth having is lost, no feed is counted twice,   *)
(* the run ends true and the mail is the end.                              *)
(***************************************************************************)
EXTENDS Discovery, FiniteSetTheorems, TLAPS

\* What a worker has in hand at each step.
HandInv ==
    \A w \in Workers :
        /\ pc[w] \in {"found", "mark"} => at[w] \in Keywords
        /\ pc[w] \in {"insert", "verdict"} => at[w] \in Sites
        /\ pc[w] = "insert" => FeedOf[at[w]] \in Worthy
        /\ pc[w] = "verdict" => verdict[w] \in Verdicts

\* A verdict about to be written about a site worth having is true of the feeds.
ListInv ==
    \A w \in Workers :
        pc[w] = "verdict" /\ verdict[w] \in {"accepted", "rejected"} /\ FeedOf[at[w]] \in Worthy
            => FeedOf[at[w]] \in feeds

Inv == TypeOK /\ HandInv /\ WorthyIsListed /\ ListInv

-----------------------------------------------------------------------------
(* Counts.                                                                 *)

LEMMA CountsAreNat ==
  /\ Cardinality(QueuedKeywords) \in Nat
  /\ Cardinality(QueuedSites) \in Nat
  /\ Accepted \in Nat
<1>1. IsFiniteSet(QueuedKeywords)
  <2>1. QueuedKeywords \subseteq Keywords
    BY DEF QueuedKeywords
  <2> QED BY <2>1, SearchAssumption, FS_Subset
<1>2. IsFiniteSet(QueuedSites)
  <2>1. QueuedSites \subseteq Sites
    BY DEF QueuedSites
  <2> QED BY <2>1, SearchAssumption, FS_Subset
<1>3. IsFiniteSet({s \in Sites : cand[s] = "accepted"})
  <2>1. {s \in Sites : cand[s] = "accepted"} \subseteq Sites
    OBVIOUS
  <2> QED BY <2>1, SearchAssumption, FS_Subset
<1> QED BY <1>1, <1>2, <1>3, FS_CardinalityType DEF Accepted

LEMMA InitInv == Init => Inv
<1> SUFFICES ASSUME Init PROVE Inv
  OBVIOUS
<1>1. TypeOK
  <2>1. kw \in [Keywords -> {None, "queued", "searched", "failed"}]
    BY DEF Init
  <2>2. cand \in [Sites -> {None, "queued"} \cup Verdicts]
    BY DEF Init
  <2>3. feeds \subseteq Worthy /\ notified \in BOOLEAN /\ searched \in BOOLEAN
        /\ crossed \in BOOLEAN /\ behind \in BOOLEAN /\ mishaps \in Nat
    BY DEF Init
  <2>4. run \in [status : {None, "running", "queued", "complete", "failed"}, accepted : Nat,
                 waiting : Nat]
    BY DEF Init
  <2>5. pc \in [Workers -> {"idle", "queue", "list", "search", "found", "mark", "check",
                            "insert", "verdict", "refresh", "over"}]
    BY DEF Init
  <2>6. todo \in [Workers -> SUBSET (Keywords \cup Sites)] /\ known \in [Workers -> SUBSET Sites]
    BY DEF Init
  <2>7. at \in [Workers -> Keywords \cup Sites \cup {None}]
        /\ verdict \in [Workers -> Verdicts \cup {None}]
    BY DEF Init
  <2>8. seen \in [Workers -> [read : SUBSET {"keywords", "sites"}, keywords : Nat, sites : Nat,
                              accepted : Nat]]
    <3>1. Unread \in [read : SUBSET {"keywords", "sites"}, keywords : Nat, sites : Nat,
                      accepted : Nat]
      BY DEF Unread
    <3> QED BY <3>1 DEF Init
  <2> QED BY <2>1, <2>2, <2>3, <2>4, <2>5, <2>6, <2>7, <2>8 DEF TypeOK
<1>2. HandInv /\ ListInv
  BY DEF Init, HandInv, ListInv
<1>3. WorthyIsListed
  BY DEF Init, WorthyIsListed, None
<1> QED BY <1>1, <1>2, <1>3 DEF Inv
-----------------------------------------------------------------------------
(* Each action keeps the invariant.                                        *)

LEMMA BeginInv ==
  ASSUME Inv, Begin
  PROVE  Inv'
<1> USE DEF history, Begin, GoTo, work, Workers, None, Verdicts
<1>1. TypeOK'
  BY CountsAreNat DEF Inv, TypeOK, HandInv
<1>2. HandInv'
  BY DEF Inv, TypeOK, HandInv
<1>3. WorthyIsListed'
  BY DEF Inv, TypeOK, HandInv, WorthyIsListed, ListInv
<1>4. ListInv'
  BY DEF Inv, TypeOK, HandInv, WorthyIsListed, ListInv
<1> QED BY <1>1, <1>2, <1>3, <1>4 DEF Inv

LEMMA QueueKeywordsInv ==
  ASSUME Inv, QueueKeywords
  PROVE  Inv'
<1> USE DEF history, QueueKeywords, GoTo, work, Workers, None, Verdicts
<1>1. TypeOK'
  BY CountsAreNat DEF Inv, TypeOK, HandInv
<1>2. HandInv'
  BY DEF Inv, TypeOK, HandInv
<1>3. WorthyIsListed'
  BY DEF Inv, TypeOK, HandInv, WorthyIsListed, ListInv
<1>4. ListInv'
  BY DEF Inv, TypeOK, HandInv, WorthyIsListed, ListInv
<1> QED BY <1>1, <1>2, <1>3, <1>4 DEF Inv

LEMMA ListKeywordsInv ==
  ASSUME Inv, ListKeywords
  PROVE  Inv'
<1> USE DEF history, ListKeywords, TakeKeywords, UpTo, QueuedKeywords, KnownHosts, GoTo, rows, Workers, None, Verdicts
<1>1. TypeOK'
  BY CountsAreNat DEF Inv, TypeOK, HandInv
<1>2. HandInv'
  BY DEF Inv, TypeOK, HandInv
<1>3. WorthyIsListed'
  BY DEF Inv, TypeOK, HandInv, WorthyIsListed, ListInv
<1>4. ListInv'
  BY DEF Inv, TypeOK, HandInv, WorthyIsListed, ListInv
<1> QED BY <1>1, <1>2, <1>3, <1>4 DEF Inv

LEMMA BeginFinderInv ==
  ASSUME Inv, BeginFinder
  PROVE  Inv'
<1> USE DEF history, BeginFinder, TakeKeywords, UpTo, QueuedKeywords, KnownHosts, GoTo, rows, Workers, None, Verdicts
<1>1. TypeOK'
  BY CountsAreNat DEF Inv, TypeOK, HandInv
<1>2. HandInv'
  BY DEF Inv, TypeOK, HandInv
<1>3. WorthyIsListed'
  BY DEF Inv, TypeOK, HandInv, WorthyIsListed, ListInv
<1>4. ListInv'
  BY DEF Inv, TypeOK, HandInv, WorthyIsListed, ListInv
<1> QED BY <1>1, <1>2, <1>3, <1>4 DEF Inv

LEMMA BeginCheckerInv ==
  ASSUME Inv, BeginChecker
  PROVE  Inv'
<1> USE DEF history, BeginChecker, TakeSites, UpTo, QueuedSites, GoTo, rows, Workers, None, Verdicts
<1>1. TypeOK'
  BY CountsAreNat DEF Inv, TypeOK, HandInv
<1>2. HandInv'
  BY DEF Inv, TypeOK, HandInv
<1>3. WorthyIsListed'
  BY DEF Inv, TypeOK, HandInv, WorthyIsListed, ListInv
<1>4. ListInv'
  BY DEF Inv, TypeOK, HandInv, WorthyIsListed, ListInv
<1> QED BY <1>1, <1>2, <1>3, <1>4 DEF Inv

LEMMA SearchInv ==
  ASSUME Inv, NEW w \in Workers, NEW k \in Keywords, Search(w, k)
  PROVE  Inv'
<1> USE DEF history, Search, TurnTo, GoTo, Cross, rows, None, Verdicts
<1>1. TypeOK'
  BY CountsAreNat DEF Inv, TypeOK, HandInv
<1>2. HandInv'
  BY DEF Inv, TypeOK, HandInv
<1>3. WorthyIsListed'
  BY DEF Inv, TypeOK, HandInv, WorthyIsListed, ListInv
<1>4. ListInv'
  BY DEF Inv, TypeOK, HandInv, WorthyIsListed, ListInv
<1> QED BY <1>1, <1>2, <1>3, <1>4 DEF Inv

LEMMA SearchFailsInv ==
  ASSUME Inv, NEW w \in Workers, NEW k \in Keywords, SearchFails(w, k)
  PROVE  Inv'
<1> USE DEF history, SearchFails, TurnTo, Mishap, Cross, rows, None, Verdicts
<1>1. TypeOK'
  BY CountsAreNat DEF Inv, TypeOK, HandInv
<1>2. HandInv'
  BY DEF Inv, TypeOK, HandInv
<1>3. WorthyIsListed'
  BY DEF Inv, TypeOK, HandInv, WorthyIsListed, ListInv
<1>4. ListInv'
  BY DEF Inv, TypeOK, HandInv, WorthyIsListed, ListInv
<1> QED BY <1>1, <1>2, <1>3, <1>4 DEF Inv

LEMMA ProviderRefusesInv ==
  ASSUME Inv, NEW w \in Workers, ProviderRefuses(w)
  PROVE  Inv'
<1> USE DEF history, ProviderRefuses, Mishap, Cross, GoTo, None, Verdicts
<1>1. TypeOK'
  <2>1. run' \in [status : {None, "running", "queued", "complete", "failed"}, accepted : Nat,
                  waiting : Nat]
    BY DEF Inv, TypeOK
  <2>2. pc' \in [Workers -> {"idle", "queue", "list", "search", "found", "mark", "check",
                             "insert", "verdict", "refresh", "over"}]
    <3>1. pc' = pc \/ pc' = [pc EXCEPT ![w] = "over"]
      OBVIOUS
    <3>2. pc \in [Workers -> {"idle", "queue", "list", "search", "found", "mark", "check",
                              "insert", "verdict", "refresh", "over"}]
      BY DEF Inv, TypeOK
    <3> HIDE DEF ProviderRefuses
    <3> QED BY <3>1, <3>2
  <2>3. todo' \in [Workers -> SUBSET (Keywords \cup Sites)]
    BY DEF Inv, TypeOK
  <2>4. mishaps' \in Nat
    BY DEF Inv, TypeOK
  <2>5. crossed' \in BOOLEAN
    BY DEF Inv, TypeOK
  <2> QED BY <2>1, <2>2, <2>3, <2>4, <2>5 DEF Inv, TypeOK
<1>2. HandInv'
  BY DEF Inv, TypeOK, HandInv
<1>3. WorthyIsListed'
  BY DEF Inv, TypeOK, HandInv, WorthyIsListed, ListInv
<1>4. ListInv'
  BY DEF Inv, TypeOK, HandInv, WorthyIsListed, ListInv
<1> QED BY <1>1, <1>2, <1>3, <1>4 DEF Inv

LEMMA SearchDeadlineInv ==
  ASSUME Inv, NEW w \in Workers, SearchDeadline(w)
  PROVE  Inv'
<1> USE DEF history, SearchDeadline, rows, None, Verdicts
<1>1. TypeOK'
  BY CountsAreNat DEF Inv, TypeOK, HandInv
<1>2. HandInv'
  BY DEF Inv, TypeOK, HandInv
<1>3. WorthyIsListed'
  BY DEF Inv, TypeOK, HandInv, WorthyIsListed, ListInv
<1>4. ListInv'
  BY DEF Inv, TypeOK, HandInv, WorthyIsListed, ListInv
<1> QED BY <1>1, <1>2, <1>3, <1>4 DEF Inv

LEMMA InsertCandidatesInv ==
  ASSUME Inv, NEW w \in Workers, InsertCandidates(w)
  PROVE  Inv'
<1> USE DEF history, InsertCandidates, GoTo, work, None, Verdicts
<1>1. TypeOK'
  BY CountsAreNat DEF Inv, TypeOK, HandInv
<1>2. HandInv'
  BY DEF Inv, TypeOK, HandInv
<1>3. WorthyIsListed'
  BY DEF Inv, TypeOK, HandInv, WorthyIsListed, ListInv
<1>4. ListInv'
  BY DEF Inv, TypeOK, HandInv, WorthyIsListed, ListInv
<1> QED BY <1>1, <1>2, <1>3, <1>4 DEF Inv

LEMMA MarkKeywordInv ==
  ASSUME Inv, NEW w \in Workers, MarkKeyword(w)
  PROVE  Inv'
<1> USE DEF history, MarkKeyword, GoTo, work, None, Verdicts
<1>1. TypeOK'
  BY CountsAreNat DEF Inv, TypeOK, HandInv
<1>2. HandInv'
  BY DEF Inv, TypeOK, HandInv
<1>3. WorthyIsListed'
  BY DEF Inv, TypeOK, HandInv, WorthyIsListed, ListInv
<1>4. ListInv'
  BY DEF Inv, TypeOK, HandInv, WorthyIsListed, ListInv
<1> QED BY <1>1, <1>2, <1>3, <1>4 DEF Inv

LEMMA SearchEndsInv ==
  ASSUME Inv, NEW w \in Workers, SearchEnds(w)
  PROVE  Inv'
<1> USE DEF history, SearchEnds, TakeSites, UpTo, QueuedSites, GoTo, rows, None, Verdicts
<1>1. TypeOK'
  <2>1. CASE w = "finder"
    BY <2>1 DEF Inv, TypeOK
  <2>2. CASE w = "request" /\ TakeSites(w, InlineLimit)
    BY <2>2 DEF Inv, TypeOK
  <2> QED BY <2>1, <2>2
<1>2. HandInv'
  BY DEF Inv, TypeOK, HandInv
<1>3. WorthyIsListed'
  BY DEF Inv, TypeOK, HandInv, WorthyIsListed, ListInv
<1>4. ListInv'
  BY DEF Inv, TypeOK, HandInv, WorthyIsListed, ListInv
<1> QED BY <1>1, <1>2, <1>3, <1>4 DEF Inv

LEMMA JudgeInv ==
  ASSUME Inv, NEW w \in Workers, NEW s \in Sites, Judge(w, s)
  PROVE  Inv'
<1> USE DEF history, Judge, TurnTo, GoTo, Cross, rows, None, Verdicts, Feeds
<1>1. TypeOK'
  BY CountsAreNat DEF Inv, TypeOK, HandInv
<1>2. HandInv'
  BY DEF Inv, TypeOK, HandInv
<1>3. WorthyIsListed'
  BY DEF Inv, TypeOK, HandInv, WorthyIsListed, ListInv
<1>4. ListInv'
  BY DEF Inv, TypeOK, HandInv, WorthyIsListed, ListInv
<1> QED BY <1>1, <1>2, <1>3, <1>4 DEF Inv

LEMMA InsertFeedInv ==
  ASSUME Inv, NEW w \in Workers, InsertFeed(w)
  PROVE  Inv'
<1> USE DEF history, InsertFeed, GoTo, None, Verdicts
<1>1. TypeOK'
  BY CountsAreNat DEF Inv, TypeOK, HandInv
<1>2. HandInv'
  BY DEF Inv, TypeOK, HandInv
<1>3. WorthyIsListed'
  BY DEF Inv, TypeOK, HandInv, WorthyIsListed, ListInv
<1>4. ListInv'
  BY DEF Inv, TypeOK, HandInv, WorthyIsListed, ListInv
<1> QED BY <1>1, <1>2, <1>3, <1>4 DEF Inv

LEMMA InsertFailsInv ==
  ASSUME Inv, NEW w \in Workers, InsertFails(w)
  PROVE  Inv'
<1> USE DEF history, InsertFails, GoTo, Mishap, rows, None, Verdicts
<1>1. TypeOK'
  BY CountsAreNat DEF Inv, TypeOK, HandInv
<1>2. HandInv'
  BY DEF Inv, TypeOK, HandInv
<1>3. WorthyIsListed'
  BY DEF Inv, TypeOK, HandInv, WorthyIsListed, ListInv
<1>4. ListInv'
  BY DEF Inv, TypeOK, HandInv, WorthyIsListed, ListInv
<1> QED BY <1>1, <1>2, <1>3, <1>4 DEF Inv

LEMMA MarkCandidateInv ==
  ASSUME Inv, NEW w \in Workers, MarkCandidate(w)
  PROVE  Inv'
<1> USE DEF history, MarkCandidate, GoTo, None, Verdicts
<1>1. TypeOK'
  BY CountsAreNat DEF Inv, TypeOK, HandInv
<1>2. HandInv'
  BY DEF Inv, TypeOK, HandInv
<1>3. WorthyIsListed'
  BY DEF Inv, TypeOK, HandInv, WorthyIsListed, ListInv
<1>4. ListInv'
  BY DEF Inv, TypeOK, HandInv, WorthyIsListed, ListInv
<1> QED BY <1>1, <1>2, <1>3, <1>4 DEF Inv

LEMMA CheckEndsInv ==
  ASSUME Inv, NEW w \in Workers, CheckEnds(w)
  PROVE  Inv'
<1> USE DEF history, CheckEnds, GoTo, rows, None, Verdicts
<1>1. TypeOK'
  BY CountsAreNat DEF Inv, TypeOK, HandInv
<1>2. HandInv'
  BY DEF Inv, TypeOK, HandInv
<1>3. WorthyIsListed'
  BY DEF Inv, TypeOK, HandInv, WorthyIsListed, ListInv
<1>4. ListInv'
  BY DEF Inv, TypeOK, HandInv, WorthyIsListed, ListInv
<1> QED BY <1>1, <1>2, <1>3, <1>4 DEF Inv

LEMMA RefreshReadInv ==
  ASSUME Inv, NEW w \in Workers, RefreshRead(w)
  PROVE  Inv'
<1> USE DEF history, RefreshRead, rows, None, Verdicts
<1>1. TypeOK'
  <2>1. seen' \in [Workers -> [read : SUBSET {"keywords", "sites"}, keywords : Nat, sites : Nat,
                               accepted : Nat]]
    <3> DEFINE Seen == [read : SUBSET {"keywords", "sites"}, keywords : Nat, sites : Nat,
                        accepted : Nat]
    <3>1. seen \in [Workers -> Seen] /\ seen[w] \in Seen
      BY DEF Inv, TypeOK
    <3>2. [seen[w] EXCEPT !.read = @ \cup {"keywords"},
                          !.keywords = Cardinality(QueuedKeywords)] \in Seen
      BY <3>1, CountsAreNat
    <3>3. [seen[w] EXCEPT !.read = @ \cup {"sites"}, !.accepted = Accepted,
                          !.sites = Cardinality(QueuedSites)] \in Seen
      BY <3>1, CountsAreNat
    <3> HIDE DEF Seen
    <3>4. \/ seen' = [seen EXCEPT ![w] = [seen[w] EXCEPT !.read = @ \cup {"keywords"},
                                               !.keywords = Cardinality(QueuedKeywords)]]
          \/ seen' = [seen EXCEPT ![w] = [seen[w] EXCEPT !.read = @ \cup {"sites"},
                                               !.accepted = Accepted,
                                               !.sites = Cardinality(QueuedSites)]]
      BY <3>1 DEF Seen
    <3>5. seen' \in [Workers -> Seen]
      BY <3>1, <3>2, <3>3, <3>4
    <3> QED BY <3>5 DEF Seen
  <2> QED BY <2>1 DEF Inv, TypeOK
<1>2. HandInv'
  BY DEF Inv, TypeOK, HandInv
<1>3. WorthyIsListed'
  BY DEF Inv, TypeOK, HandInv, WorthyIsListed, ListInv
<1>4. ListInv'
  BY DEF Inv, TypeOK, HandInv, WorthyIsListed, ListInv
<1> QED BY <1>1, <1>2, <1>3, <1>4 DEF Inv

LEMMA RefreshWriteInv ==
  ASSUME Inv, NEW w \in Workers, RefreshWrite(w)
  PROVE  Inv'
<1> USE DEF history, RefreshWrite, PutDown, Unread, GoTo, Cross, Present, None, Verdicts
<1>1. TypeOK'
  BY CountsAreNat DEF Inv, TypeOK, HandInv
<1>2. HandInv'
  BY DEF Inv, TypeOK, HandInv
<1>3. WorthyIsListed'
  BY DEF Inv, TypeOK, HandInv, WorthyIsListed, ListInv
<1>4. ListInv'
  BY DEF Inv, TypeOK, HandInv, WorthyIsListed, ListInv
<1> QED BY <1>1, <1>2, <1>3, <1>4 DEF Inv

LEMMA NotifyInv ==
  ASSUME Inv, Notify
  PROVE  Inv'
<1> USE DEF history, Notify, Cross, work, None, Verdicts
<1>1. TypeOK'
  BY CountsAreNat DEF Inv, TypeOK, HandInv
<1>2. HandInv'
  BY DEF Inv, TypeOK, HandInv
<1>3. WorthyIsListed'
  BY DEF Inv, TypeOK, HandInv, WorthyIsListed, ListInv
<1>4. ListInv'
  BY DEF Inv, TypeOK, HandInv, WorthyIsListed, ListInv
<1> QED BY <1>1, <1>2, <1>3, <1>4 DEF Inv

LEMMA DiesInv ==
  ASSUME Inv, NEW w \in Workers, Dies(w)
  PROVE  Inv'
<1> USE DEF history, Dies, PutDown, Unread, Mishap, GoTo, Cross, rows, None, Verdicts
<1>1. TypeOK'
  BY CountsAreNat DEF Inv, TypeOK, HandInv
<1>2. HandInv'
  BY DEF Inv, TypeOK, HandInv
<1>3. WorthyIsListed'
  BY DEF Inv, TypeOK, HandInv, WorthyIsListed, ListInv
<1>4. ListInv'
  BY DEF Inv, TypeOK, HandInv, WorthyIsListed, ListInv
<1> QED BY <1>1, <1>2, <1>3, <1>4 DEF Inv

LEMMA NextInv ==
  ASSUME Inv, [Next]_vars
  PROVE  Inv'
<1>1. CASE Next
  <2>1. CASE Begin \/ QueueKeywords \/ ListKeywords \/ BeginFinder \/ BeginChecker \/ Notify
    BY <2>1, BeginInv, QueueKeywordsInv, ListKeywordsInv, BeginFinderInv, BeginCheckerInv,
       NotifyInv
  <2>2. ASSUME NEW w \in Workers, Work(w)
        PROVE  Inv'
    BY <2>2, SearchInv, InsertCandidatesInv, MarkKeywordInv, SearchEndsInv, JudgeInv,
       InsertFeedInv, MarkCandidateInv, CheckEndsInv, RefreshReadInv, RefreshWriteInv DEF Work
  <2>3. ASSUME NEW w \in Workers,
               SearchDeadline(w) \/ ProviderRefuses(w) \/ InsertFails(w) \/ Dies(w)
        PROVE  Inv'
    BY <2>3, SearchDeadlineInv, ProviderRefusesInv, InsertFailsInv, DiesInv
  <2>4. ASSUME NEW w \in Workers, NEW k \in Keywords, SearchFails(w, k)
        PROVE  Inv'
    BY <2>4, SearchFailsInv
  <2> QED BY <1>1, <2>1, <2>2, <2>3, <2>4 DEF Next
<1>2. CASE UNCHANGED vars
  BY <1>2 DEF vars, rows, work, history, Inv, TypeOK, HandInv, WorthyIsListed, ListInv
<1> QED BY <1>1, <1>2

-----------------------------------------------------------------------------
\* keywords.js and discovery.js: the rows, the run and what each worker holds stay
\* in their ranges, whatever the keywords, the sites and the limits.
THEOREM TypeCorrect == Spec => []TypeOK
<1>1. Inv /\ [Next]_vars => Inv'
  BY NextInv
<1>2. Inv => TypeOK
  BY DEF Inv
<1> QED BY InitInv, <1>1, <1>2, PTL DEF Spec

\* keywords.js, checkCandidate: for any number of sites, two workers on one site,
\* an insert that fails and a worker that dies lose no feed the directory wants.
THEOREM NothingWorthyLost == Spec => []WorthyIsListed
<1>1. Inv /\ [Next]_vars => Inv'
  BY NextInv
<1>2. Inv => WorthyIsListed
  BY DEF Inv
<1> QED BY InitInv, <1>1, <1>2, PTL DEF Spec

-----------------------------------------------------------------------------
(* The mail.                                                               *)

\* Before the search is made nothing is queued and nobody is at work.
NotBegun ==
    pc["request"] = "idle" =>
        /\ \A k \in Keywords : kw[k] = None
        /\ \A s \in Sites : cand[s] # "queued"
        /\ run.status = None /\ ~notified
        /\ \A w \in Workers : pc[w] = "idle"

\* A keyword whose results are in hand is queued until they are written, and one
\* worker has it.
HeldAlone ==
    \A w \in Workers : pc[w] \in {"found", "mark"} =>
        /\ kw[at[w]] = "queued"
        /\ \A v \in Workers \ {w} : pc[v] \in {"found", "mark"} => at[v] # at[w]

AllQueuedOnce == pc["request"] \notin {"idle", "queue"} => \A k \in Keywords : kw[k] # None

NothingAfterTheMail ==
    notified => /\ pc["request"] # "queue"
                /\ \A k \in Keywords : kw[k] # "queued"
                /\ \A s \in Sites : cand[s] # "queued"

MailInv == NotBegun /\ (~crossed => HeldAlone /\ AllQueuedOnce /\ NothingAfterTheMail)

LEMMA BeginMail ==
  ASSUME Inv, MailInv, Begin
  PROVE  MailInv'
<1> USE DEF history, Begin, GoTo, work, Workers, None
<1>1. NotBegun'
  BY DEF Inv, TypeOK, HandInv, MailInv, NotBegun
<1>2. ASSUME ~crossed' PROVE HeldAlone'
  BY <1>2 DEF Inv, TypeOK, HandInv, MailInv, HeldAlone
<1>3. ASSUME ~crossed' PROVE AllQueuedOnce'
  BY <1>3 DEF Inv, TypeOK, HandInv, MailInv, NotBegun, AllQueuedOnce
<1>4. ASSUME ~crossed' PROVE NothingAfterTheMail'
  BY <1>4 DEF Inv, TypeOK, HandInv, MailInv, NotBegun, HeldAlone, NothingAfterTheMail
<1> QED BY <1>1, <1>2, <1>3, <1>4 DEF MailInv

LEMMA QueueKeywordsMail ==
  ASSUME Inv, MailInv, QueueKeywords
  PROVE  MailInv'
<1> USE DEF history, QueueKeywords, GoTo, work, Workers, None
<1>1. NotBegun'
  BY DEF Inv, TypeOK, HandInv, MailInv, NotBegun
<1>2. ASSUME ~crossed' PROVE HeldAlone'
  BY <1>2 DEF Inv, TypeOK, HandInv, MailInv, HeldAlone
<1>3. ASSUME ~crossed' PROVE AllQueuedOnce'
  BY <1>3 DEF Inv, TypeOK, HandInv, MailInv, NotBegun, AllQueuedOnce
<1>4. ASSUME ~crossed' PROVE NothingAfterTheMail'
  BY <1>4 DEF Inv, TypeOK, HandInv, MailInv, NotBegun, HeldAlone, NothingAfterTheMail
<1> QED BY <1>1, <1>2, <1>3, <1>4 DEF MailInv

LEMMA ListKeywordsMail ==
  ASSUME Inv, MailInv, ListKeywords
  PROVE  MailInv'
<1> USE DEF history, ListKeywords, TakeKeywords, QueuedKeywords, GoTo, rows, Workers, None
<1>1. NotBegun'
  BY DEF Inv, TypeOK, HandInv, MailInv, NotBegun
<1>2. ASSUME ~crossed' PROVE HeldAlone'
  BY <1>2 DEF Inv, TypeOK, HandInv, MailInv, HeldAlone
<1>3. ASSUME ~crossed' PROVE AllQueuedOnce'
  BY <1>3 DEF Inv, TypeOK, HandInv, MailInv, NotBegun, AllQueuedOnce
<1>4. ASSUME ~crossed' PROVE NothingAfterTheMail'
  BY <1>4 DEF Inv, TypeOK, HandInv, MailInv, NotBegun, HeldAlone, NothingAfterTheMail
<1> QED BY <1>1, <1>2, <1>3, <1>4 DEF MailInv

LEMMA BeginFinderMail ==
  ASSUME Inv, MailInv, BeginFinder
  PROVE  MailInv'
<1> USE DEF history, BeginFinder, TakeKeywords, QueuedKeywords, GoTo, rows, Workers, None
<1>1. NotBegun'
  BY DEF Inv, TypeOK, HandInv, MailInv, NotBegun
<1>2. ASSUME ~crossed' PROVE HeldAlone'
  BY <1>2 DEF Inv, TypeOK, HandInv, MailInv, HeldAlone
<1>3. ASSUME ~crossed' PROVE AllQueuedOnce'
  BY <1>3 DEF Inv, TypeOK, HandInv, MailInv, NotBegun, AllQueuedOnce
<1>4. ASSUME ~crossed' PROVE NothingAfterTheMail'
  BY <1>4 DEF Inv, TypeOK, HandInv, MailInv, NotBegun, HeldAlone, NothingAfterTheMail
<1> QED BY <1>1, <1>2, <1>3, <1>4 DEF MailInv

LEMMA BeginCheckerMail ==
  ASSUME Inv, MailInv, BeginChecker
  PROVE  MailInv'
<1> USE DEF history, BeginChecker, TakeSites, QueuedSites, GoTo, rows, Workers, None
<1>1. NotBegun'
  BY DEF Inv, TypeOK, HandInv, MailInv, NotBegun
<1>2. ASSUME ~crossed' PROVE HeldAlone'
  BY <1>2 DEF Inv, TypeOK, HandInv, MailInv, HeldAlone
<1>3. ASSUME ~crossed' PROVE AllQueuedOnce'
  BY <1>3 DEF Inv, TypeOK, HandInv, MailInv, NotBegun, AllQueuedOnce
<1>4. ASSUME ~crossed' PROVE NothingAfterTheMail'
  BY <1>4 DEF Inv, TypeOK, HandInv, MailInv, NotBegun, HeldAlone, NothingAfterTheMail
<1> QED BY <1>1, <1>2, <1>3, <1>4 DEF MailInv

LEMMA SearchMail ==
  ASSUME Inv, MailInv, NEW w \in Workers, NEW k \in Keywords, Search(w, k)
  PROVE  MailInv'
<1> USE DEF history, Search, TurnTo, GoTo, Cross, rows, None, Workers, NotMine
<1>1. NotBegun'
  BY DEF Inv, TypeOK, HandInv, MailInv, NotBegun
<1>2. ASSUME ~crossed' PROVE HeldAlone'
  <2>1. HeldAlone
    BY <1>2 DEF Inv, TypeOK, MailInv
  <2>2. \A v \in Workers \ {w} : pc'[v] = pc[v] /\ at'[v] = at[v]
    BY DEF Inv, TypeOK
  <2>3. pc'[w] = "found" /\ at'[w] = k /\ kw' = kw
    BY DEF Inv, TypeOK
  <2>4. ~NotMine(w, k, kw[k])
    BY <1>2 DEF Inv, TypeOK
  <2>5. kw[k] = "queued" /\ \A v \in Workers \ {w} : pc[v] \in {"found", "mark"} => at[v] # k
    BY <2>4
  <2> HIDE DEF Search, Workers
  <2> QED BY <2>1, <2>2, <2>3, <2>5 DEF HeldAlone
<1>3. ASSUME ~crossed' PROVE AllQueuedOnce'
  BY <1>3 DEF Inv, TypeOK, HandInv, MailInv, NotBegun, AllQueuedOnce
<1>4. ASSUME ~crossed' PROVE NothingAfterTheMail'
  BY <1>4 DEF Inv, TypeOK, HandInv, MailInv, NotBegun, HeldAlone, NothingAfterTheMail
<1> QED BY <1>1, <1>2, <1>3, <1>4 DEF MailInv

LEMMA SearchFailsMail ==
  ASSUME Inv, MailInv, NEW w \in Workers, NEW k \in Keywords, SearchFails(w, k)
  PROVE  MailInv'
<1> USE DEF history, SearchFails, TurnTo, Mishap, Cross, rows, None, Workers, NotMine
<1>1. NotBegun'
  BY DEF Inv, TypeOK, HandInv, MailInv, NotBegun
<1>2. ASSUME ~crossed' PROVE HeldAlone'
  <2>1. HeldAlone
    BY <1>2 DEF Inv, TypeOK, MailInv
  <2>2. \A v \in Workers \ {w} : at'[v] = at[v]
    BY DEF Inv, TypeOK
  <2>3. pc' = pc /\ pc[w] = "search" /\ kw' = [kw EXCEPT ![k] = "failed"]
    BY DEF Inv, TypeOK
  <2>4. ~NotMine(w, k, kw[k])
    BY <1>2 DEF Inv, TypeOK
  <2>5. \A v \in Workers \ {w} : pc[v] \in {"found", "mark"} => at[v] # k
    BY <2>4
  <2>6. \A v \in Workers : pc[v] \in {"found", "mark"} => at[v] \in Keywords
    BY DEF Inv, HandInv
  <2>7. kw \in [Keywords -> {None, "queued", "searched", "failed"}]
    BY DEF Inv, TypeOK
  <2> HIDE DEF SearchFails, Workers, None
  <2>8. \A v \in Workers : pc[v] \in {"found", "mark"} => v # w /\ kw'[at'[v]] = kw[at[v]]
    BY <2>2, <2>3, <2>5, <2>6, <2>7
  <2> QED BY <2>1, <2>2, <2>3, <2>8 DEF HeldAlone
<1>3. ASSUME ~crossed' PROVE AllQueuedOnce'
  BY <1>3 DEF Inv, TypeOK, HandInv, MailInv, NotBegun, AllQueuedOnce
<1>4. ASSUME ~crossed' PROVE NothingAfterTheMail'
  BY <1>4 DEF Inv, TypeOK, HandInv, MailInv, NotBegun, HeldAlone, NothingAfterTheMail
<1> QED BY <1>1, <1>2, <1>3, <1>4 DEF MailInv

LEMMA ProviderRefusesMail ==
  ASSUME Inv, MailInv, NEW w \in Workers, ProviderRefuses(w)
  PROVE  MailInv'
<1> USE DEF history, ProviderRefuses, Mishap, Cross, GoTo, None, Workers
<1>1. NotBegun'
  BY DEF Inv, TypeOK, HandInv, MailInv, NotBegun
<1>2. ASSUME ~crossed' PROVE HeldAlone'
  BY <1>2 DEF Inv, TypeOK, HandInv, MailInv, HeldAlone
<1>3. ASSUME ~crossed' PROVE AllQueuedOnce'
  BY <1>3 DEF Inv, TypeOK, HandInv, MailInv, NotBegun, AllQueuedOnce
<1>4. ASSUME ~crossed' PROVE NothingAfterTheMail'
  BY <1>4 DEF Inv, TypeOK, HandInv, MailInv, NotBegun, HeldAlone, NothingAfterTheMail
<1> QED BY <1>1, <1>2, <1>3, <1>4 DEF MailInv

LEMMA SearchDeadlineMail ==
  ASSUME Inv, MailInv, NEW w \in Workers, SearchDeadline(w)
  PROVE  MailInv'
<1> USE DEF history, SearchDeadline, rows, None, Workers
<1>1. NotBegun'
  BY DEF Inv, TypeOK, HandInv, MailInv, NotBegun
<1>2. ASSUME ~crossed' PROVE HeldAlone'
  BY <1>2 DEF Inv, TypeOK, HandInv, MailInv, HeldAlone
<1>3. ASSUME ~crossed' PROVE AllQueuedOnce'
  BY <1>3 DEF Inv, TypeOK, HandInv, MailInv, NotBegun, AllQueuedOnce
<1>4. ASSUME ~crossed' PROVE NothingAfterTheMail'
  BY <1>4 DEF Inv, TypeOK, HandInv, MailInv, NotBegun, HeldAlone, NothingAfterTheMail
<1> QED BY <1>1, <1>2, <1>3, <1>4 DEF MailInv

LEMMA InsertCandidatesMail ==
  ASSUME Inv, MailInv, NEW w \in Workers, InsertCandidates(w)
  PROVE  MailInv'
<1> USE DEF history, InsertCandidates, GoTo, work, None, Workers
<1>1. NotBegun'
  BY DEF Inv, TypeOK, HandInv, MailInv, NotBegun
<1>2. ASSUME ~crossed' PROVE HeldAlone'
  BY <1>2 DEF Inv, TypeOK, HandInv, MailInv, HeldAlone
<1>3. ASSUME ~crossed' PROVE AllQueuedOnce'
  BY <1>3 DEF Inv, TypeOK, HandInv, MailInv, NotBegun, AllQueuedOnce
<1>4. ASSUME ~crossed' PROVE NothingAfterTheMail'
  BY <1>4 DEF Inv, TypeOK, HandInv, MailInv, NotBegun, HeldAlone, NothingAfterTheMail
<1> QED BY <1>1, <1>2, <1>3, <1>4 DEF MailInv

LEMMA MarkKeywordMail ==
  ASSUME Inv, MailInv, NEW w \in Workers, MarkKeyword(w)
  PROVE  MailInv'
<1> USE DEF history, MarkKeyword, GoTo, work, None, Workers
<1>1. NotBegun'
  BY DEF Inv, TypeOK, HandInv, MailInv, NotBegun
<1>2. ASSUME ~crossed' PROVE HeldAlone'
  BY <1>2 DEF Inv, TypeOK, HandInv, MailInv, HeldAlone
<1>3. ASSUME ~crossed' PROVE AllQueuedOnce'
  BY <1>3 DEF Inv, TypeOK, HandInv, MailInv, NotBegun, AllQueuedOnce
<1>4. ASSUME ~crossed' PROVE NothingAfterTheMail'
  BY <1>4 DEF Inv, TypeOK, HandInv, MailInv, NotBegun, HeldAlone, NothingAfterTheMail
<1> QED BY <1>1, <1>2, <1>3, <1>4 DEF MailInv

LEMMA SearchEndsMail ==
  ASSUME Inv, MailInv, NEW w \in Workers, SearchEnds(w)
  PROVE  MailInv'
<1> USE DEF history, SearchEnds, TakeSites, QueuedSites, GoTo, rows, None, Workers
<1>1. NotBegun'
  BY DEF Inv, TypeOK, HandInv, MailInv, NotBegun
<1>2. ASSUME ~crossed' PROVE HeldAlone'
  BY <1>2 DEF Inv, TypeOK, HandInv, MailInv, HeldAlone
<1>3. ASSUME ~crossed' PROVE AllQueuedOnce'
  BY <1>3 DEF Inv, TypeOK, HandInv, MailInv, NotBegun, AllQueuedOnce
<1>4. ASSUME ~crossed' PROVE NothingAfterTheMail'
  BY <1>4 DEF Inv, TypeOK, HandInv, MailInv, NotBegun, HeldAlone, NothingAfterTheMail
<1> QED BY <1>1, <1>2, <1>3, <1>4 DEF MailInv

LEMMA JudgeMail ==
  ASSUME Inv, MailInv, NEW w \in Workers, NEW s \in Sites, Judge(w, s)
  PROVE  MailInv'
<1> USE DEF history, Judge, TurnTo, GoTo, Cross, rows, None, Workers, NotMine
<1>1. NotBegun'
  BY DEF Inv, TypeOK, HandInv, MailInv, NotBegun
<1>2. ASSUME ~crossed' PROVE HeldAlone'
  BY <1>2 DEF Inv, TypeOK, HandInv, MailInv, HeldAlone
<1>3. ASSUME ~crossed' PROVE AllQueuedOnce'
  BY <1>3 DEF Inv, TypeOK, HandInv, MailInv, NotBegun, AllQueuedOnce
<1>4. ASSUME ~crossed' PROVE NothingAfterTheMail'
  BY <1>4 DEF Inv, TypeOK, HandInv, MailInv, NotBegun, HeldAlone, NothingAfterTheMail
<1> QED BY <1>1, <1>2, <1>3, <1>4 DEF MailInv

LEMMA InsertFeedMail ==
  ASSUME Inv, MailInv, NEW w \in Workers, InsertFeed(w)
  PROVE  MailInv'
<1> USE DEF history, InsertFeed, GoTo, None, Workers
<1>1. NotBegun'
  BY DEF Inv, TypeOK, HandInv, MailInv, NotBegun
<1>2. ASSUME ~crossed' PROVE HeldAlone'
  BY <1>2 DEF Inv, TypeOK, HandInv, MailInv, HeldAlone
<1>3. ASSUME ~crossed' PROVE AllQueuedOnce'
  BY <1>3 DEF Inv, TypeOK, HandInv, MailInv, NotBegun, AllQueuedOnce
<1>4. ASSUME ~crossed' PROVE NothingAfterTheMail'
  BY <1>4 DEF Inv, TypeOK, HandInv, MailInv, NotBegun, HeldAlone, NothingAfterTheMail
<1> QED BY <1>1, <1>2, <1>3, <1>4 DEF MailInv

LEMMA InsertFailsMail ==
  ASSUME Inv, MailInv, NEW w \in Workers, InsertFails(w)
  PROVE  MailInv'
<1> USE DEF history, InsertFails, GoTo, Mishap, rows, None, Workers
<1>1. NotBegun'
  BY DEF Inv, TypeOK, HandInv, MailInv, NotBegun
<1>2. ASSUME ~crossed' PROVE HeldAlone'
  BY <1>2 DEF Inv, TypeOK, HandInv, MailInv, HeldAlone
<1>3. ASSUME ~crossed' PROVE AllQueuedOnce'
  BY <1>3 DEF Inv, TypeOK, HandInv, MailInv, NotBegun, AllQueuedOnce
<1>4. ASSUME ~crossed' PROVE NothingAfterTheMail'
  BY <1>4 DEF Inv, TypeOK, HandInv, MailInv, NotBegun, HeldAlone, NothingAfterTheMail
<1> QED BY <1>1, <1>2, <1>3, <1>4 DEF MailInv

LEMMA MarkCandidateMail ==
  ASSUME Inv, MailInv, NEW w \in Workers, MarkCandidate(w)
  PROVE  MailInv'
<1> USE DEF history, MarkCandidate, GoTo, None, Workers
<1>1. NotBegun'
  BY DEF Inv, TypeOK, HandInv, MailInv, NotBegun
<1>2. ASSUME ~crossed' PROVE HeldAlone'
  <2>1. HeldAlone
    BY <1>2 DEF Inv, TypeOK, MailInv
  <2>2. \A v \in Workers \ {w} : pc'[v] = pc[v] /\ at'[v] = at[v]
    BY DEF Inv, TypeOK
  <2>3. pc'[w] = "check" /\ kw' = kw
    BY DEF Inv, TypeOK
  <2> HIDE DEF MarkCandidate, Workers
  <2> QED BY <2>1, <2>2, <2>3 DEF HeldAlone
<1>3. ASSUME ~crossed' PROVE AllQueuedOnce'
  BY <1>3 DEF Inv, TypeOK, HandInv, MailInv, NotBegun, AllQueuedOnce
<1>4. ASSUME ~crossed' PROVE NothingAfterTheMail'
  <2>1. NothingAfterTheMail
    BY <1>4 DEF MailInv
  <2>2. cand' = [cand EXCEPT ![at[w]] = verdict[w]]
    OBVIOUS
  <2>3. verdict[w] # "queued"
    BY DEF Inv, HandInv, Verdicts
  <2>4. \A s \in Sites : cand[s] # "queued" => cand'[s] # "queued"
    BY <2>2, <2>3 DEF Inv, TypeOK
  <2>5. pc'["request"] # "queue" \/ pc'["request"] = pc["request"]
    BY DEF Inv, TypeOK
  <2>6. kw' = kw /\ notified' = notified
    OBVIOUS
  <2> HIDE DEF MarkCandidate, Workers
  <2> QED BY <2>1, <2>4, <2>5, <2>6 DEF NothingAfterTheMail
<1> QED BY <1>1, <1>2, <1>3, <1>4 DEF MailInv

LEMMA CheckEndsMail ==
  ASSUME Inv, MailInv, NEW w \in Workers, CheckEnds(w)
  PROVE  MailInv'
<1> USE DEF history, CheckEnds, GoTo, rows, None, Workers
<1>1. NotBegun'
  BY DEF Inv, TypeOK, HandInv, MailInv, NotBegun
<1>2. ASSUME ~crossed' PROVE HeldAlone'
  BY <1>2 DEF Inv, TypeOK, HandInv, MailInv, HeldAlone
<1>3. ASSUME ~crossed' PROVE AllQueuedOnce'
  BY <1>3 DEF Inv, TypeOK, HandInv, MailInv, NotBegun, AllQueuedOnce
<1>4. ASSUME ~crossed' PROVE NothingAfterTheMail'
  BY <1>4 DEF Inv, TypeOK, HandInv, MailInv, NotBegun, HeldAlone, NothingAfterTheMail
<1> QED BY <1>1, <1>2, <1>3, <1>4 DEF MailInv

LEMMA RefreshReadMail ==
  ASSUME Inv, MailInv, NEW w \in Workers, RefreshRead(w)
  PROVE  MailInv'
<1> USE DEF history, RefreshRead, rows, None, Workers
<1>1. NotBegun'
  BY DEF Inv, TypeOK, HandInv, MailInv, NotBegun
<1>2. ASSUME ~crossed' PROVE HeldAlone'
  BY <1>2 DEF Inv, TypeOK, HandInv, MailInv, HeldAlone
<1>3. ASSUME ~crossed' PROVE AllQueuedOnce'
  BY <1>3 DEF Inv, TypeOK, HandInv, MailInv, NotBegun, AllQueuedOnce
<1>4. ASSUME ~crossed' PROVE NothingAfterTheMail'
  BY <1>4 DEF Inv, TypeOK, HandInv, MailInv, NotBegun, HeldAlone, NothingAfterTheMail
<1> QED BY <1>1, <1>2, <1>3, <1>4 DEF MailInv

LEMMA RefreshWriteMail ==
  ASSUME Inv, MailInv, NEW w \in Workers, RefreshWrite(w)
  PROVE  MailInv'
<1> USE DEF history, RefreshWrite, PutDown, GoTo, Cross, Present, None, Workers
<1>1. NotBegun'
  BY DEF Inv, TypeOK, HandInv, MailInv, NotBegun
<1>2. ASSUME ~crossed' PROVE HeldAlone'
  BY <1>2 DEF Inv, TypeOK, HandInv, MailInv, HeldAlone
<1>3. ASSUME ~crossed' PROVE AllQueuedOnce'
  BY <1>3 DEF Inv, TypeOK, HandInv, MailInv, NotBegun, AllQueuedOnce
<1>4. ASSUME ~crossed' PROVE NothingAfterTheMail'
  BY <1>4 DEF Inv, TypeOK, HandInv, MailInv, NotBegun, HeldAlone, NothingAfterTheMail
<1> QED BY <1>1, <1>2, <1>3, <1>4 DEF MailInv

LEMMA NotifyMail ==
  ASSUME Inv, MailInv, Notify
  PROVE  MailInv'
<1> USE DEF history, Notify, Cross, work, None, Workers, QueuedKeywords, QueuedSites
<1>1. NotBegun'
  BY DEF Inv, TypeOK, HandInv, MailInv, NotBegun
<1>2. ASSUME ~crossed' PROVE HeldAlone'
  BY <1>2 DEF Inv, TypeOK, HandInv, MailInv, HeldAlone
<1>3. ASSUME ~crossed' PROVE AllQueuedOnce'
  BY <1>3 DEF Inv, TypeOK, HandInv, MailInv, NotBegun, AllQueuedOnce
<1>4. ASSUME ~crossed' PROVE NothingAfterTheMail'
  BY <1>4 DEF Inv, TypeOK, HandInv, MailInv, NotBegun, HeldAlone, NothingAfterTheMail
<1> QED BY <1>1, <1>2, <1>3, <1>4 DEF MailInv

LEMMA DiesMail ==
  ASSUME Inv, MailInv, NEW w \in Workers, Dies(w)
  PROVE  MailInv'
<1> USE DEF history, Dies, PutDown, Mishap, GoTo, Cross, rows, None, Workers
<1>1. NotBegun'
  BY DEF Inv, TypeOK, HandInv, MailInv, NotBegun
<1>2. ASSUME ~crossed' PROVE HeldAlone'
  BY <1>2 DEF Inv, TypeOK, HandInv, MailInv, HeldAlone
<1>3. ASSUME ~crossed' PROVE AllQueuedOnce'
  BY <1>3 DEF Inv, TypeOK, HandInv, MailInv, NotBegun, AllQueuedOnce
<1>4. ASSUME ~crossed' PROVE NothingAfterTheMail'
  BY <1>4 DEF Inv, TypeOK, HandInv, MailInv, NotBegun, HeldAlone, NothingAfterTheMail
<1> QED BY <1>1, <1>2, <1>3, <1>4 DEF MailInv

LEMMA NextMail ==
  ASSUME Inv, MailInv, [Next]_vars
  PROVE  MailInv'
<1>1. CASE Next
  <2>1. CASE Begin \/ QueueKeywords \/ ListKeywords \/ BeginFinder \/ BeginChecker \/ Notify
    BY <2>1, BeginMail, QueueKeywordsMail, ListKeywordsMail, BeginFinderMail, BeginCheckerMail,
       NotifyMail
  <2>2. ASSUME NEW w \in Workers, Work(w)
        PROVE  MailInv'
    BY <2>2, SearchMail, InsertCandidatesMail, MarkKeywordMail, SearchEndsMail, JudgeMail,
       InsertFeedMail, MarkCandidateMail, CheckEndsMail, RefreshReadMail, RefreshWriteMail DEF Work
  <2>3. ASSUME NEW w \in Workers,
               SearchDeadline(w) \/ ProviderRefuses(w) \/ InsertFails(w) \/ Dies(w)
        PROVE  MailInv'
    BY <2>3, SearchDeadlineMail, ProviderRefusesMail, InsertFailsMail, DiesMail
  <2>4. ASSUME NEW w \in Workers, NEW k \in Keywords, SearchFails(w, k)
        PROVE  MailInv'
    BY <2>4, SearchFailsMail
  <2> QED BY <1>1, <2>1, <2>2, <2>3, <2>4 DEF Next
<1>2. CASE UNCHANGED vars
  BY <1>2 DEF vars, rows, work, history, MailInv, NotBegun, HeldAlone, AllQueuedOnce, NothingAfterTheMail
<1> QED BY <1>1, <1>2

\* discovery.js, runsAwaitingNotice: for any keywords and sites, workers that die and
\* refreshes that come late, when no row was in two hands and the request had written
\* its keywords, the mail that says a run is done is sent when every keyword has been
\* searched, and nothing of the run is queued from then on.
THEOREM MailEndsTheRun == Spec => []MailIsTheEnd
<1>1. Init => MailInv
  BY DEF Init, Workers, None, MailInv, NotBegun, HeldAlone, AllQueuedOnce, NothingAfterTheMail
<1>2. Inv /\ MailInv /\ [Next]_vars => Inv' /\ MailInv'
  BY NextInv, NextMail
<1>3. Inv /\ MailInv => MailIsTheEnd
  BY DEF Inv, TypeOK, MailInv, NotBegun, AllQueuedOnce, NothingAfterTheMail, MailIsTheEnd,
         QueuedSites, None
<1> QED BY InitInv, <1>1, <1>2, <1>3, PTL DEF Spec

-----------------------------------------------------------------------------
(* The run row.                                                            *)

\* A site a worker is judging is queued until the verdict is written, and one
\* worker has it.
Judging(w) == pc[w] \in {"insert", "verdict"}
JudgedAlone ==
    \A w \in Workers : Judging(w) =>
        /\ cand[at[w]] = "queued"
        /\ \A v \in Workers \ {w} : Judging(v) => at[v] # at[w]

\* A site that is accepted, or whose acceptance a worker is about to write.
Accepting(w) == pc[w] = "verdict" /\ verdict[w] = "accepted"
Taken(s) == cand[s] = "accepted" \/ \E w \in Workers : Accepting(w) /\ at[w] = s

\* The sites taken are of feeds the run listed, no two of one feed.
OneSitePerFeed ==
    /\ \A s \in Sites : Taken(s) => FeedOf[s] \in feeds
    /\ \A s, t \in Sites : Taken(s) /\ Taken(t) /\ FeedOf[s] = FeedOf[t] => s = t

\* Each feed the run listed has its site.
EveryFeedCounts == \A f \in feeds : \E s \in Sites : Taken(s) /\ FeedOf[s] = f

\* What the row says, and what a refresh is about to write, is no more than was listed.
NoneTooMany ==
    /\ run.accepted <= Cardinality(feeds)
    /\ \A w \in Workers : seen[w].accepted <= Cardinality(feeds)

\* The last worker to put its work down wrote what the rows say.
LastWordIsTrue ==
    Settled => run.status = "complete" /\ run.waiting = 0 /\ run.accepted = Accepted

SettleInv ==
    /\ OneSitePerFeed /\ NoneTooMany
    /\ ~crossed => JudgedAlone /\ EveryFeedCounts
    /\ ~behind => LastWordIsTrue

\* Nobody settles a run but a worker that puts its work down.
StillBusy == \E w \in Workers : pc'[w] \notin {"idle", "over"}

LEMMA BusyIsUnsettled == ASSUME StillBusy PROVE LastWordIsTrue'
BY DEF StillBusy, LastWordIsTrue, Settled

LEMMA FeedsAreFinite == ASSUME Inv PROVE IsFiniteSet(feeds) /\ Cardinality(feeds) \in Nat
<1> DEFINE G == {FeedOf[s] : s \in Sites}
<1>1. IsFiniteSet(G)
  <2> DEFINE F == [s \in Sites |-> FeedOf[s]]
  <2>1. F \in Surjection(Sites, G)
    BY DEF Surjection
  <2> QED BY <2>1, SearchAssumption, FS_Surjection DEF ExistsSurjection
<1>2. feeds \subseteq G
  BY SearchAssumption DEF Inv, TypeOK, Feeds
<1> QED BY <1>1, <1>2, FS_Subset, FS_CardinalityType

\* The sites accepted are no more than the feeds listed.
LEMMA AcceptedAtMost ==
  ASSUME Inv, OneSitePerFeed
  PROVE  Accepted <= Cardinality(feeds)
<1> DEFINE A == {s \in Sites : cand[s] = "accepted"}
           F == [s \in A |-> FeedOf[s]]
<1>1. \A s \in A : Taken(s)
  BY DEF Taken
<1>2. F \in Injection(A, feeds)
  BY <1>1 DEF OneSitePerFeed, Injection, IsInjective
<1> HIDE DEF F
<1>3. Cardinality(A) <= Cardinality(feeds)
  BY <1>2, FeedsAreFinite, FS_Injection DEF ExistsInjection
<1> QED BY <1>3 DEF Accepted

\* A step that leaves the feeds, the row and what refreshes have read alone.
LEMMA NoneTooManyKept ==
  ASSUME NoneTooMany, feeds' = feeds, run'.accepted = run.accepted,
         \A v \in Workers : seen'[v].accepted = seen[v].accepted
  PROVE  NoneTooMany'
BY DEF NoneTooMany

\* A worker whose judging a step leaves alone.
SameJudging(v) ==
    /\ Judging(v) <=> Judging(v)'
    /\ Judging(v) => pc'[v] = pc[v] /\ at'[v] = at[v] /\ verdict'[v] = verdict[v]

\* A step that queues sites at most, and leaves every judging alone.
LEMMA JudgingKeeps ==
  ASSUME Inv, OneSitePerFeed, feeds' = feeds,
         \A s \in Sites : cand'[s] = cand[s] \/ (cand[s] = None /\ cand'[s] = "queued"),
         \A v \in Workers : SameJudging(v)
  PROVE  OneSitePerFeed' /\ (JudgedAlone => JudgedAlone') /\ (EveryFeedCounts => EveryFeedCounts')
<1>1. \A v \in Workers : Judging(v) => at[v] \in Sites
  BY DEF Inv, HandInv, Judging
<1>2. JudgedAlone => JudgedAlone'
  BY <1>1 DEF JudgedAlone, SameJudging, None
<1>3. \A s \in Sites : Taken(s)' <=> Taken(s)
  BY <1>1 DEF Taken, Accepting, SameJudging, Judging, None
<1> QED BY <1>2, <1>3 DEF OneSitePerFeed, EveryFeedCounts

LEMMA InitSettle == Init => SettleInv
<1> SUFFICES ASSUME Init
             PROVE  SettleInv
  OBVIOUS
<1>1. OneSitePerFeed /\ JudgedAlone /\ EveryFeedCounts /\ LastWordIsTrue
  BY DEF Init, JudgedAlone, OneSitePerFeed, EveryFeedCounts, LastWordIsTrue, Judging, Taken,
         Accepting, Settled, None
<1>2. NoneTooMany
  BY FS_EmptySet DEF Init, NoneTooMany, Unread
<1> QED BY <1>1, <1>2 DEF SettleInv

\* The steps after which the worker that took them is at work, on no site.
LEMMA AtWorkSettle ==
  ASSUME Inv, SettleInv, NEW w \in Workers,
         ~Judging(w), ~Judging(w)', pc'[w] \notin {"idle", "over"},
         crossed => crossed', feeds' = feeds, NoneTooMany',
         \A s \in Sites : cand'[s] = cand[s] \/ (cand[s] = None /\ cand'[s] = "queued"),
         \A v \in Workers \ {w} : pc'[v] = pc[v] /\ at'[v] = at[v] /\ verdict'[v] = verdict[v]
  PROVE  SettleInv'
<1>1. \A v \in Workers : SameJudging(v)
  BY DEF SameJudging, Judging
<1>2. StillBusy
  BY DEF StillBusy
<1> QED BY <1>1, <1>2, JudgingKeeps, BusyIsUnsettled DEF SettleInv

LEMMA SearchingSettle ==
  ASSUME Inv, SettleInv,
         \/ Begin \/ QueueKeywords \/ ListKeywords \/ BeginFinder \/ BeginChecker
         \/ \E w \in Workers :
              \/ SearchDeadline(w) \/ InsertCandidates(w) \/ MarkKeyword(w) \/ SearchEnds(w)
              \/ CheckEnds(w)
              \/ \E k \in Keywords : Search(w, k) \/ SearchFails(w, k)
  PROVE  SettleInv'
<1>0. pc \in [Workers -> {"idle", "queue", "list", "search", "found", "mark", "check",
                          "insert", "verdict", "refresh", "over"}]
      /\ DOMAIN at = Workers /\ DOMAIN verdict = Workers /\ DOMAIN todo = Workers
      /\ run \in [status : {None, "running", "queued", "complete", "failed"}, accepted : Nat,
                  waiting : Nat]
  BY DEF Inv, TypeOK
<1>1. "request" \in Workers /\ "finder" \in Workers /\ "checker" \in Workers
  BY DEF Workers
<1>a. NoneTooMany'
  <2>1. feeds' = feeds /\ seen' = seen /\ run'.accepted = run.accepted
    BY <1>0 DEF Begin, QueueKeywords, ListKeywords, BeginFinder, BeginChecker, TakeKeywords,
                TakeSites, SearchDeadline, InsertCandidates, MarkKeyword, SearchEnds, CheckEnds,
                Search, SearchFails, rows, work
  <2> QED BY <2>1, NoneTooManyKept DEF SettleInv
<1> USE DEF GoTo, TurnTo, Mishap, Cross, rows, work, history, Judging, None
<1>2. CASE Begin \/ QueueKeywords
  BY <1>0, <1>1, <1>a, <1>2, AtWorkSettle DEF Begin, QueueKeywords
<1>3. CASE ListKeywords \/ BeginFinder
  BY <1>0, <1>1, <1>a, <1>3, AtWorkSettle DEF ListKeywords, BeginFinder, TakeKeywords
<1>4. CASE BeginChecker
  <2>1. pc["checker"] = "idle" /\ pc' = [pc EXCEPT !["checker"] = "check"]
        /\ at' = [at EXCEPT !["checker"] = None]
        /\ UNCHANGED <<cand, feeds, verdict, crossed>>
    BY <1>4 DEF BeginChecker, TakeSites
  <2> QED BY <1>0, <1>1, <1>a, <2>1, AtWorkSettle
<1>5. ASSUME NEW w \in Workers, SearchDeadline(w) \/ MarkKeyword(w) \/ CheckEnds(w)
      PROVE  SettleInv'
  <2>1. /\ pc[w] \in {"search", "mark", "check"}
        /\ pc' = pc \/ pc' = [pc EXCEPT ![w] = "search"] \/ pc' = [pc EXCEPT ![w] = "refresh"]
        /\ UNCHANGED <<cand, feeds, at, verdict, crossed>>
    BY <1>5 DEF SearchDeadline, MarkKeyword, CheckEnds
  <2> QED BY <1>0, <1>a, <2>1, AtWorkSettle
<1>6. ASSUME NEW w \in Workers, InsertCandidates(w)
      PROVE  SettleInv'
  BY <1>0, <1>a, <1>6, AtWorkSettle DEF InsertCandidates
<1>7. ASSUME NEW w \in Workers, SearchEnds(w)
      PROVE  SettleInv'
  <2>1. /\ pc[w] = "search" /\ at' = [at EXCEPT ![w] = None]
        /\ UNCHANGED <<cand, feeds, verdict, crossed>>
        /\ pc' = [pc EXCEPT ![w] = "refresh"] \/ pc' = [pc EXCEPT ![w] = "check"]
    BY <1>7 DEF SearchEnds, TakeSites
  <2> QED BY <1>0, <1>a, <2>1, AtWorkSettle
<1>8. ASSUME NEW w \in Workers, NEW k \in Keywords, Search(w, k) \/ SearchFails(w, k)
      PROVE  SettleInv'
  <2>1. crossed => crossed'
    BY <1>8 DEF Search, SearchFails
  <2>2. pc[w] = "search" /\ at' = [at EXCEPT ![w] = k] /\ UNCHANGED <<cand, feeds, verdict>>
    BY <1>8 DEF Search, SearchFails
  <2>3. pc' = pc \/ pc' = [pc EXCEPT ![w] = "found"]
    BY <1>8 DEF Search, SearchFails
  <2> QED BY <1>0, <1>a, <2>1, <2>2, <2>3, AtWorkSettle
<1> QED BY <1>2, <1>3, <1>4, <1>5, <1>6, <1>7, <1>8

\* What a refresh reads is no more than was listed.
LEMMA RefreshReadSettle ==
  ASSUME Inv, SettleInv, NEW w \in Workers, RefreshRead(w)
  PROVE  SettleInv'
<1>1. /\ pc[w] = "refresh" /\ UNCHANGED <<kw, cand, feeds, run, pc, at, verdict, crossed>>
      /\ \A v \in Workers : seen'[v].accepted \in {seen[v].accepted, Accepted}
  <2>1. pc[w] = "refresh" /\ UNCHANGED <<kw, cand, feeds, run, pc, at, verdict, crossed>>
    BY DEF RefreshRead, rows, history, Inv, TypeOK
  <2>2. seen'[w].accepted \in {seen[w].accepted, Accepted}
    BY DEF RefreshRead, Inv, TypeOK
  <2>3. \A v \in Workers \ {w} : seen'[v] = seen[v]
    BY DEF RefreshRead, Inv, TypeOK
  <2> QED BY <2>1, <2>2, <2>3
<1>2. Accepted <= Cardinality(feeds)
  BY AcceptedAtMost DEF SettleInv
<1>3. NoneTooMany'
  BY <1>1, <1>2 DEF SettleInv, NoneTooMany
<1> QED BY <1>1, <1>3, AtWorkSettle DEF Judging

\* The provider refuses: a run that ends for it is not refreshed.
LEMMA ProviderRefusesSettle ==
  ASSUME Inv, SettleInv, NEW w \in Workers, ProviderRefuses(w)
  PROVE  SettleInv'
<1>0. pc \in [Workers -> {"idle", "queue", "list", "search", "found", "mark", "check",
                          "insert", "verdict", "refresh", "over"}]
      /\ run \in [status : {None, "running", "queued", "complete", "failed"}, accepted : Nat,
                  waiting : Nat]
  BY DEF Inv, TypeOK
<1>1. /\ pc[w] = "search" /\ UNCHANGED <<cand, feeds, at, verdict, seen, crossed>>
      /\ pc' = pc \/ pc' = [pc EXCEPT ![w] = "over"]
      /\ run'.accepted = run.accepted
  BY <1>0 DEF ProviderRefuses, GoTo
<1>2. \A v \in Workers : SameJudging(v)
  BY <1>0, <1>1 DEF SameJudging, Judging
<1>3. NoneTooMany'
  BY <1>1, NoneTooManyKept DEF SettleInv
<1>4. ~behind' => LastWordIsTrue'
  <2>1. ASSUME ~behind'
        PROVE  StillBusy
    BY <1>1, <2>1 DEF ProviderRefuses, StillBusy
  <2> QED BY <2>1, BusyIsUnsettled
<1> QED BY <1>1, <1>2, <1>3, <1>4, JudgingKeeps DEF SettleInv

LEMMA JudgeSettle ==
  ASSUME Inv, SettleInv, NEW w \in Workers, NEW s \in Sites, Judge(w, s)
  PROVE  SettleInv'
<1>0. /\ \A v \in Workers \ {w} : pc'[v] = pc[v] /\ at'[v] = at[v] /\ verdict'[v] = verdict[v]
      /\ pc[w] = "check" /\ Judging(w)' /\ at'[w] = s /\ ~Accepting(w)'
      /\ UNCHANGED <<cand, feeds, run, seen>>
  BY DEF Judge, TurnTo, GoTo, Judging, Accepting, rows, Inv, TypeOK
<1>1. ~crossed' => ~crossed /\ ~NotMine(w, s, cand[s])
  BY DEF Judge, Cross
<1>2. ~crossed' => cand[s] = "queued" /\ \A v \in Workers \ {w} : Judging(v) => at[v] # s
  BY <1>1 DEF NotMine, Judging
<1>3. ~crossed' => JudgedAlone'
  BY <1>0, <1>1, <1>2 DEF SettleInv, JudgedAlone, Judging
<1>4. \A t \in Sites : Taken(t)' <=> Taken(t)
  BY <1>0 DEF Taken, Accepting
<1>5. OneSitePerFeed' /\ (~crossed' => EveryFeedCounts')
  BY <1>0, <1>1, <1>4 DEF SettleInv, OneSitePerFeed, EveryFeedCounts
<1>6. NoneTooMany'
  BY <1>0, NoneTooManyKept DEF SettleInv
<1>7. StillBusy
  BY <1>0 DEF StillBusy, Judging
<1> QED BY <1>3, <1>5, <1>6, <1>7, BusyIsUnsettled DEF SettleInv

LEMMA InsertSettle ==
  ASSUME Inv, SettleInv, NEW w \in Workers, InsertFeed(w) \/ InsertFails(w)
  PROVE  SettleInv'
<1>0. /\ \A v \in Workers \ {w} : pc'[v] = pc[v] /\ at'[v] = at[v] /\ verdict'[v] = verdict[v]
      /\ pc[w] = "insert" /\ pc'[w] = "verdict" /\ at'[w] = at[w] /\ at[w] \in Sites
      /\ UNCHANGED <<cand, run, seen, crossed>>
  BY DEF InsertFeed, InsertFails, GoTo, rows, history, Inv, TypeOK, HandInv
<1>1. OneSitePerFeed /\ NoneTooMany /\ (~crossed => JudgedAlone /\ EveryFeedCounts)
  BY DEF SettleInv
<1>2. ~crossed' => JudgedAlone'
  BY <1>0, <1>1 DEF JudgedAlone, Judging
<1>3. \/ verdict'[w] # "accepted" /\ feeds' = feeds
      \/ /\ verdict'[w] = "accepted" /\ FeedOf[at[w]] \notin feeds
         /\ feeds' = feeds \cup {FeedOf[at[w]]}
  <2>1. CASE InsertFeed(w)
    BY <2>1 DEF InsertFeed, Inv, TypeOK
  <2>2. CASE InsertFails(w)
    BY <2>2 DEF InsertFails, Inv, TypeOK, rows
  <2> QED BY <2>1, <2>2
<1>4. OneSitePerFeed' /\ (~crossed' => EveryFeedCounts') /\ NoneTooMany'
  <2>1. CASE verdict'[w] # "accepted" /\ feeds' = feeds
    <3>1. \A t \in Sites : Taken(t)' <=> Taken(t)
      BY <1>0, <2>1 DEF Taken, Accepting
    <3>2. NoneTooMany'
      BY <1>0, <1>1, <2>1, NoneTooManyKept
    <3> QED BY <1>0, <1>1, <2>1, <3>1, <3>2 DEF OneSitePerFeed, EveryFeedCounts
  <2>2. CASE /\ verdict'[w] = "accepted" /\ FeedOf[at[w]] \notin feeds
             /\ feeds' = feeds \cup {FeedOf[at[w]]}
    <3>1. \A t \in Sites : Taken(t)' <=> Taken(t) \/ t = at[w]
      BY <1>0, <2>2 DEF Taken, Accepting
    <3>2. OneSitePerFeed'
      BY <1>0, <1>1, <2>2, <3>1 DEF OneSitePerFeed
    <3>3. ~crossed' => EveryFeedCounts'
      BY <1>0, <1>1, <2>2, <3>1 DEF EveryFeedCounts
    <3>4. Cardinality(feeds') = Cardinality(feeds) + 1
      BY <2>2, FeedsAreFinite, FS_AddElement
    <3>5. NoneTooMany'
      <4>1. run.accepted \in Nat /\ \A v \in Workers : seen[v].accepted \in Nat
        BY DEF Inv, TypeOK
      <4> QED BY <1>0, <1>1, <3>4, <4>1, FeedsAreFinite DEF NoneTooMany
    <3> QED BY <3>2, <3>3, <3>5
  <2> QED BY <1>3, <2>1, <2>2
<1>5. StillBusy
  BY <1>0 DEF StillBusy
<1> QED BY <1>2, <1>4, <1>5, BusyIsUnsettled DEF SettleInv

LEMMA MarkCandidateSettle ==
  ASSUME Inv, SettleInv, NEW w \in Workers, MarkCandidate(w)
  PROVE  SettleInv'
<1>0. /\ \A v \in Workers \ {w} : pc'[v] = pc[v] /\ at'[v] = at[v] /\ verdict'[v] = verdict[v]
      /\ pc[w] = "verdict" /\ pc'[w] = "check" /\ at[w] \in Sites
      /\ \A s \in Sites : cand'[s] = IF s = at[w] THEN verdict[w] ELSE cand[s]
      /\ UNCHANGED <<feeds, run, seen, crossed>>
  BY DEF MarkCandidate, GoTo, history, Inv, TypeOK, HandInv
<1>1. \A v \in Workers : Judging(v) => at[v] \in Sites
  BY DEF Inv, HandInv, Judging
<1>2. \A s \in Sites : Taken(s)' => Taken(s)
  BY <1>0 DEF Taken, Accepting
<1>3. OneSitePerFeed' /\ NoneTooMany'
  BY <1>0, <1>2, NoneTooManyKept DEF SettleInv, OneSitePerFeed
<1>4. ASSUME ~crossed'
      PROVE  JudgedAlone' /\ EveryFeedCounts'
  <2>1. JudgedAlone /\ EveryFeedCounts
    BY <1>0, <1>4 DEF SettleInv
  <2>2. \A v \in Workers : Judging(v)' => v # w /\ Judging(v) /\ at[v] # at[w]
    BY <1>0, <2>1 DEF JudgedAlone, Judging
  <2>3. JudgedAlone'
    BY <1>0, <1>1, <2>1, <2>2 DEF JudgedAlone, Judging
  <2>4. \A s \in Sites : Taken(s) => Taken(s)'
    <3>1. \A s \in Sites : s # at[w] => (Taken(s)' <=> Taken(s))
      BY <1>0 DEF Taken, Accepting
    <3>2. Taken(at[w])  <=> verdict[w] = "accepted"
      BY <1>0, <2>1 DEF Taken, Accepting, JudgedAlone, Judging
    <3>3. \A s \in Sites : s = at[w] => (Taken(s)' <=> verdict[w] = "accepted")
      BY <1>0, <2>2 DEF Taken, Accepting, Judging
    <3> QED BY <3>1, <3>2, <3>3
  <2> QED BY <1>0, <2>1, <2>3, <2>4 DEF EveryFeedCounts
<1>5. StillBusy
  BY <1>0 DEF StillBusy
<1> QED BY <1>3, <1>4, <1>5, BusyIsUnsettled DEF SettleInv

LEMMA RefreshWriteSettle ==
  ASSUME Inv, SettleInv, NEW w \in Workers, RefreshWrite(w)
  PROVE  SettleInv'
<1>0. /\ \A v \in Workers \ {w} : pc'[v] = pc[v] /\ at'[v] = at[v] /\ verdict'[v] = verdict[v]
      /\ pc[w] = "refresh" /\ pc'[w] \in {"over", "idle"}
      /\ UNCHANGED <<kw, cand, feeds, crossed>>
      /\ run'.accepted = seen[w].accepted
      /\ \A v \in Workers : seen'[v].accepted \in {seen[v].accepted, 0}
  BY DEF RefreshWrite, PutDown, GoTo, Unread, Inv, TypeOK
<1>1. \A v \in Workers : SameJudging(v)
  BY <1>0 DEF SameJudging, Judging
<1>2. NoneTooMany'
  BY <1>0, FeedsAreFinite DEF SettleInv, NoneTooMany
<1>3. ASSUME ~behind'
      PROVE  LastWordIsTrue'
  <2>1. run' = [status |-> IF Cardinality(QueuedKeywords) = 0 /\ Cardinality(QueuedSites) = 0
                           THEN "complete" ELSE "queued",
                accepted |-> Accepted, waiting |-> Cardinality(QueuedSites)]
    <3>1. behind' = (seen[w] # Present)
      BY DEF RefreshWrite
    <3>2. seen[w] = Present
      BY <1>3, <3>1
    <3> QED BY <3>2 DEF RefreshWrite, Present
  <2>2. QueuedKeywords' = QueuedKeywords /\ QueuedSites' = QueuedSites /\ Accepted' = Accepted
    BY <1>0 DEF QueuedKeywords, QueuedSites, Accepted
  <2> QED BY <2>1, <2>2, FS_EmptySet DEF LastWordIsTrue, Settled
<1> QED BY <1>0, <1>1, <1>2, <1>3, JudgingKeeps DEF SettleInv

LEMMA NotifySettle ==
  ASSUME Inv, SettleInv, Notify
  PROVE  SettleInv'
<1>0. UNCHANGED <<kw, cand, feeds, run, pc, at, verdict, seen, behind>> /\ (crossed => crossed')
  BY DEF Notify, work, Cross
<1>1. LastWordIsTrue => LastWordIsTrue'
  BY <1>0 DEF LastWordIsTrue, Settled, QueuedKeywords, QueuedSites, Accepted
<1>2. \A v \in Workers : SameJudging(v)
  BY <1>0 DEF SameJudging, Judging
<1>3. NoneTooMany'
  BY <1>0, NoneTooManyKept DEF SettleInv
<1> QED BY <1>0, <1>1, <1>2, <1>3, JudgingKeeps DEF SettleInv

\* A worker dies: what it was judging is judged again, and the row is behind.
LEMMA DiesSettle ==
  ASSUME Inv, SettleInv, NEW w \in Workers, Dies(w)
  PROVE  SettleInv'
<1>0. /\ \A v \in Workers \ {w} : pc'[v] = pc[v] /\ at'[v] = at[v] /\ verdict'[v] = verdict[v]
      /\ pc'[w] \in {"over", "idle"}
      /\ UNCHANGED <<cand, feeds, run>>
      /\ \A v \in Workers : seen'[v].accepted \in {seen[v].accepted, 0}
      /\ ~crossed' => ~crossed /\ ~Accepting(w)
      /\ behind'
  BY DEF Dies, PutDown, GoTo, Unread, rows, Accepting, Inv, TypeOK
<1>1. \A s \in Sites : Taken(s)' => Taken(s)
  BY <1>0 DEF Taken, Accepting
<1>2. OneSitePerFeed'
  BY <1>0, <1>1 DEF SettleInv, OneSitePerFeed
<1>3. NoneTooMany'
  BY <1>0, FeedsAreFinite DEF SettleInv, NoneTooMany
<1>4. ~crossed' => JudgedAlone'
  BY <1>0 DEF SettleInv, JudgedAlone, Judging
<1>5. ASSUME ~crossed'
      PROVE  EveryFeedCounts'
  <2>1. \A s \in Sites : Taken(s) => Taken(s)'
    BY <1>0, <1>5 DEF Taken, Accepting
  <2> QED BY <1>0, <1>5, <2>1 DEF SettleInv, EveryFeedCounts
<1> QED BY <1>0, <1>2, <1>3, <1>4, <1>5 DEF SettleInv

LEMMA NextSettle ==
  ASSUME Inv, SettleInv, [Next]_vars
  PROVE  SettleInv'
<1>1. CASE Next
  <2>1. ASSUME NEW w \in Workers, Work(w)
        PROVE  SettleInv'
    BY <2>1, SearchingSettle, JudgeSettle, InsertSettle, MarkCandidateSettle,
       RefreshReadSettle, RefreshWriteSettle DEF Work
  <2> QED BY <1>1, <2>1, SearchingSettle, ProviderRefusesSettle, InsertSettle, DiesSettle,
             NotifySettle DEF Next
<1>2. CASE UNCHANGED vars
  BY <1>2 DEF vars, rows, work, history, SettleInv, JudgedAlone, OneSitePerFeed, EveryFeedCounts,
     NoneTooMany, LastWordIsTrue, Judging, Taken, Accepting, Settled, QueuedKeywords, QueuedSites,
     Accepted
<1> QED BY <1>1, <1>2

\* With nobody at work the sites accepted and the feeds listed are equally many.
LEMMA AcceptedAreListed ==
  ASSUME Inv, OneSitePerFeed, EveryFeedCounts, Settled
  PROVE  Accepted = Cardinality(feeds)
<1> DEFINE A == {s \in Sites : cand[s] = "accepted"}
           F == [s \in A |-> FeedOf[s]]
<1>1. \A s \in Sites : Taken(s) <=> s \in A
  BY DEF Settled, Taken, Accepting
<1>2. F \in Bijection(A, feeds)
  BY <1>1 DEF OneSitePerFeed, EveryFeedCounts, Bijection, Injection, Surjection, IsInjective
<1>3. IsFiniteSet(A)
  BY SearchAssumption, FS_Subset
<1> HIDE DEF A, F
<1>4. Cardinality(A) = Cardinality(feeds)
  BY <1>2, <1>3, FS_Bijection DEF ExistsBijection
<1> QED BY <1>4 DEF A, Accepted

LEMMA SpecSettle == Spec => [](Inv /\ SettleInv)
<1>1. Init => Inv /\ SettleInv
  BY InitInv, InitSettle
<1>2. Inv /\ SettleInv /\ [Next]_vars => (Inv /\ SettleInv)'
  BY NextInv, NextSettle
<1> QED BY <1>1, <1>2, PTL DEF Spec

\* keywords.js, checkCandidate and refreshRun: for any keywords and sites, however
\* the workers cross, fail and die and however outdated a refresh is, the row never
\* counts a feed that was not listed, nor one feed twice.
THEOREM NoFeedCountedTwice == Spec => []CountsAreEarned
<1>1. Inv /\ SettleInv => CountsAreEarned
  BY DEF SettleInv, NoneTooMany, CountsAreEarned
<1> QED BY <1>1, SpecSettle, PTL

\* keywords.js, refreshRun: for any keywords and sites, the next refresh puts right
\* what dead workers and outdated refreshes left: the row of a run with nothing left
\* to do says complete unless its last word was such a worker's, and its count is
\* that of the feeds the run put in the directory if no site was in two hands.
THEOREM TheNextRefreshPutsItRight == Spec => []SettledRunIsTrue
<1>1. Inv /\ SettleInv => SettledRunIsTrue
  BY AcceptedAreListed DEF SettleInv, LastWordIsTrue, SettledRunIsTrue
<1> QED BY <1>1, SpecSettle, PTL
=============================================================================
