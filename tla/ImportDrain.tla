---------------------------- MODULE ImportDrain -----------------------------
(***************************************************************************)
(* An upload from the list a visitor hands over to the mail that says it   *)
(* is done: the staging routes (apps/web api/submit), the poller's import  *)
(* job (importTick: packages/ingest drain.js, queue.js, notify.js) and the *)
(* rows they share (import_entries, submissions, feeds in packages/db).    *)
(*                                                                         *)
(* A row of import_entries is its number in recorded[s], which says what   *)
(* place of the upload it holds; the page posts again what it had no       *)
(* answer for, so a place may be recorded twice, and late.                 *)
(* A slug is a sequence: <<notes>> is notes, <<notes, 2>> is notes-2, be   *)
(* that the second feed called Notes or the title Notes 2.                 *)
(***************************************************************************)
EXTENDS Naturals, Sequences, SequencesExt, FiniteSets

CONSTANTS Urls, Words,
          BaseOf,       \* BaseOf[u]: slugify of a feed's title
          Reserved,     \* slugs that would shadow one of the site's routes
          Invalid,      \* urls normalizeUrl refuses
          Removed,      \* urls of publishers that asked to be taken down
          Listed,       \* feeds in the directory beforehand: slug of each, or NoSlug
          NoSlug,
          Elsewhere,    \* urls that other paths (discovery, a typed url) may insert
          Calm,         \* no such insert between a drain's lookup and its writes
          Subs,
          Upload,       \* Upload[s]: the urls of the list, in order
          Wants,        \* submissions that leave an address
          Batch,        \* entries the page posts at a time
          Slice,        \* entries drained in a pass
          Chunk,        \* rows written by a statement
          Depth,        \* PREFETCH_DEPTH
          MaxRepeats,   \* bound: posts of the page that arrive again
          MaxMishaps    \* bound: passes that throw or are killed

Slugs == Seq(Words \cup Nat) \ {<<>>}

ASSUME UploadAssumption ==
    /\ Words \cap Nat = {}
    /\ IsFiniteSet(Urls) /\ IsFiniteSet(Subs) /\ Subs # {}
    /\ BaseOf \in [Urls -> Slugs]
    /\ IsFiniteSet(Reserved)
    /\ Invalid \subseteq Urls /\ Removed \subseteq Urls /\ Elsewhere \subseteq Urls
    /\ NoSlug \notin Slugs
    /\ Listed \in [Urls -> Slugs \cup {NoSlug}]
    /\ Upload \in [Subs -> Seq(Urls)]
    /\ Wants \subseteq Subs
    /\ Batch \in Nat \ {0} /\ Slice \in Nat \ {0} /\ Chunk \in Nat \ {0} /\ Depth \in Nat \ {0}
    /\ MaxRepeats \in Nat /\ MaxMishaps \in Nat /\ Calm \in BOOLEAN

VARIABLES sent,     \* sent[s]: entries of the upload the page has posted
          recorded, \* recorded[s]: the place in the upload of each row ever staged
          staged,   \* staged[s]: the rows still in import_entries
          ready,    \* submissions handed over (entries_ready_at), oldest first
          email,    \* those with an address on the row (notify_email)
          notified, \* those with notified_at
          feeds,    \* feeds[u]: [slug, by, status] of the directory, or NoFeed
          pc, cur, slice,   \* the import job: its step, submission and slice
          rows,     \* the rows it has yet to write, [url, slug]
          due,      \* submissions this pass has yet to mail
          mails,    \* the mails sent, [sub, queued]
          repeats, mishaps

vars == <<sent, recorded, staged, ready, email, notified, feeds, pc, cur, slice, rows, due, mails,
          repeats, mishaps>>
upload == <<sent, recorded, staged, ready, email, repeats>>
job == <<pc, cur, slice, rows, due>>

NoFeed == [slug |-> NoSlug]
Feed == [slug : Slugs, by : Subs \cup {"nobody"}, status : {"pending", "active", "error"}]

TypeOK ==
    /\ sent \in [Subs -> Nat]
    /\ recorded \in [Subs -> Seq(Nat)]
    /\ \A s \in Subs : Range(recorded[s]) = 1 .. sent[s] /\ sent[s] <= Len(Upload[s])
    /\ staged \in [Subs -> SUBSET Nat]
    /\ \A s \in Subs : staged[s] \subseteq DOMAIN recorded[s]
    /\ ready \in Seq(Subs)
    /\ email \subseteq Subs
    /\ notified \subseteq Subs
    /\ feeds \in [Urls -> Feed \cup {NoFeed}]
    /\ pc \in {"rest", "look", "write", "drop", "complete", "notices", "mail", "mark"}
    /\ cur \in Subs
    /\ slice \subseteq DOMAIN recorded[cur]
    /\ rows \in Seq([url : Urls, slug : Slugs])
    /\ due \in Seq(Subs)
    /\ mails \in Seq([sub : Subs, queued : Nat])
    /\ repeats \in Nat /\ mishaps \in Nat

-----------------------------------------------------------------------------
(* The visitor's side.                                                     *)

Known(u) == feeds[u] # NoFeed

\* The places the page posts after the first m.
BatchAfter(s, m) == [n \in 1 .. Min({Batch, Len(Upload[s]) - m}) |-> m + n]

\* One insert records a row for each entry; nothing else is done with them.
Record_OneTooMany(s, places) ==
    /\ recorded' = [recorded EXCEPT ![s] = @ \o places]
    /\ staged' = [staged EXCEPT ![s] =
                    @ \cup (Len(recorded[s]) + 1 .. Len(recorded[s]) + Len(places) + 1)]
Record(s, places) ==
    /\ recorded' = [recorded EXCEPT ![s] = @ \o places]
    /\ staged' = [staged EXCEPT ![s] =
                    @ \cup (Len(recorded[s]) + 1 .. Len(recorded[s]) + Len(places))]

\* The page posts the next entries of the list.
Stage(s) ==
    /\ s \notin Range(ready)
    /\ sent[s] < Len(Upload[s])
    /\ Record(s, BatchAfter(s, sent[s]))
    /\ sent' = [sent EXCEPT ![s] = @ + Len(BatchAfter(s, sent[s]))]
    /\ UNCHANGED <<ready, email, repeats, notified, feeds, job, mails, mishaps>>

\* A post whose answer was lost, or that was given up on too early, arrives
\* again: at any time, even when its entries were drained long ago.
StageAgain(s, m) ==
    /\ repeats < MaxRepeats
    /\ m < sent[s] /\ m % Batch = 0
    /\ Record(s, BatchAfter(s, m))
    /\ repeats' = repeats + 1
    /\ UNCHANGED <<sent, ready, email, notified, feeds, job, mails, mishaps>>

\* The address of a list that is handed over.
Address(s) == email' = IF s \in Wants THEN email \cup {s} ELSE email

\* The list is handed over: the address goes on the row, the poller may begin.
Finish(s) ==
    /\ s \notin Range(ready)
    /\ sent[s] = Len(Upload[s])
    /\ staged[s] # {}
    /\ ready' = Append(ready, s)
    /\ Address(s)
    /\ UNCHANGED <<sent, recorded, staged, repeats, notified, feeds, job, mails, mishaps>>

QueuedBy(s) == {u \in Urls : Known(u) /\ feeds[u].by = s}
Waiting(s) == {u \in QueuedBy(s) : feeds[u].status = "pending"}

\* The hand-over arrives again: its place among the others is the new one, or,
\* with nothing staged any more, the row is settled by what was queued.
FinishAgain(s) ==
    /\ repeats < MaxRepeats
    /\ s \in Range(ready)
    /\ IF staged[s] # {}
       THEN /\ LET at == CHOOSE i \in DOMAIN ready : ready[i] = s
               IN ready' = Append(RemoveAt(ready, at), s)
            /\ Address(s)
       ELSE /\ UNCHANGED ready
            /\ IF QueuedBy(s) # {} THEN Address(s) ELSE email' = email \ {s}
    /\ repeats' = repeats + 1
    /\ UNCHANGED <<sent, recorded, staged, notified, feeds, job, mails, mishaps>>

-----------------------------------------------------------------------------
(* The directory.                                                          *)

Taken == {feeds[u].slug : u \in Urls} \ {NoSlug}

Numbered(base, n) == IF n = 1 THEN base ELSE Append(base, n)

\* uniqueSlug: the first of base, base-2, ... that is neither reserved nor taken.
FreeSlug(base, taken) ==
    LET used == taken \cup Reserved
        n == CHOOSE k \in 1 .. Cardinality(used) + 1 :
               /\ Numbered(base, k) \notin used
               /\ \A j \in 1 .. k - 1 : Numbered(base, j) \in used
    IN Numbered(base, n)

\* The slug u would have in an empty directory.
First(u) == FreeSlug(BaseOf[u], {})

\* takenSlugs: base and all that go on from it.
TakenFrom(base) == {t \in Taken : IsPrefix(base, t)}

\* Another path inserts a feed, unless the slug it chose is taken after all.
InsertElsewhere(u) ==
    /\ u \in Elsewhere \ (Invalid \cup Removed)
    /\ ~Known(u)
    /\ Calm => pc # "write"
    /\ LET slug == FreeSlug(BaseOf[u], TakenFrom(First(u))) IN
       /\ slug \notin Taken
       /\ feeds' = [feeds EXCEPT ![u] = [slug |-> slug, by |-> "nobody", status |-> "active"]]
    /\ UNCHANGED <<upload, notified, job, mails, mishaps>>

\* The crawler settles a feed it had never read.
Crawled(u) ==
    /\ Known(u) /\ feeds[u].status = "pending"
    /\ \E outcome \in {"active", "error"} :
         feeds' = [feeds EXCEPT ![u].status = outcome]
    /\ UNCHANGED <<upload, notified, job, mails, mishaps>>

-----------------------------------------------------------------------------
(* drainImport.                                                            *)

\* The oldest handed-over submission with entries left.
DrainsNext_OldestOnly(s) == ready # <<>> /\ ready[1] = s /\ staged[s] # {}
DrainsNext(s) ==
    \E i \in DOMAIN ready : /\ ready[i] = s
                            /\ staged[s] # {}
                            /\ \A k \in 1 .. i - 1 : staged[ready[k]] = {}

Oldest(S) == {i \in S : Cardinality({k \in S : k < i}) < Slice}

PickUp ==
    /\ pc = "rest"
    /\ \E s \in Subs : /\ DrainsNext(s)
                       /\ cur' = s
                       /\ slice' = Oldest(staged[s])
    /\ pc' = "look"
    /\ UNCHANGED <<upload, notified, feeds, rows, due, mails, mishaps>>

NothingToDrain ==
    /\ pc = "rest"
    /\ \A s \in Subs : ~DrainsNext(s)
    /\ pc' = "notices"
    /\ UNCHANGED <<upload, notified, feeds, cur, slice, rows, due, mails, mishaps>>

Entry(i) == Upload[cur][recorded[cur][i]]

\* The entries of the slice that are worth a row: valid, the first with their
\* url, and not in the directory.
Fresh == {i \in slice : /\ Entry(i) \notin Invalid
                        /\ ~Known(Entry(i))
                        /\ \A k \in slice : k < i => Entry(k) # Entry(i)}

\* In the order of the list.
FreshUrls == [n \in 1 .. Cardinality(Fresh) |->
                Entry(CHOOSE i \in Fresh : Cardinality({k \in Fresh : k < i}) = n - 1)]

\* What claimSlugs asks for: the first slugs of the entries, and the next numbers of
\* those that are taken.
Asked == {First(Entry(i)) : i \in Fresh}
AskedAgain == {Append(b, n) : b \in Asked \cap Taken, n \in 2 .. Depth}
Prefetched == Taken \cap (Asked \cup AskedAgain)

SuffixOf(slug) == IF Len(slug) = 1 \/ Last(slug) \in Words THEN 1 ELSE Last(slug)

\* The slug for u, and what is known to be taken after it. A number beyond the
\* depth has not been asked about, so all that go on from u's first slug are.
Claim_ForgetsItsOwn(u, known) ==
    [slug |-> FreeSlug(BaseOf[u], Prefetched), taken |-> known]
Claim(u, known) ==
    LET free == FreeSlug(BaseOf[u], known)
        wide == IF First(u) \in known /\ SuffixOf(free) > Depth
                THEN known \cup TakenFrom(First(u)) ELSE known
        slug == FreeSlug(BaseOf[u], wide)
    IN [slug |-> slug, taken |-> wide \cup {slug}]

\* One slug per row, each counting those claimed before it as taken.
LookUp ==
    /\ pc = "look"
    /\ LET claim[n \in 0 .. Len(FreshUrls)] ==
             IF n = 0 THEN [slug |-> NoSlug, taken |-> Prefetched]
             ELSE Claim(FreshUrls[n], claim[n - 1].taken) IN
       rows' = [n \in DOMAIN FreshUrls |-> [url |-> FreshUrls[n], slug |-> claim[n].slug]]
    /\ pc' = IF Fresh = {} THEN "drop" ELSE "write"
    /\ UNCHANGED <<upload, notified, feeds, cur, slice, due, mails, mishaps>>

\* on conflict do nothing: a row whose url or slug is taken is not written.
Inserted(row) == /\ row.url \notin Removed
                 /\ ~Known(row.url)
                 /\ row.slug \notin Taken

InsertChunk ==
    /\ pc = "write"
    /\ LET n == IF Chunk < Len(rows) THEN Chunk ELSE Len(rows)
           chunk == {i \in 1 .. n : Inserted(rows[i])} IN
       /\ feeds' = [u \in Urls |->
                      IF \E i \in chunk : rows[i].url = u
                      THEN [slug |-> rows[CHOOSE i \in chunk : rows[i].url = u].slug,
                            by |-> cur, status |-> "pending"]
                      ELSE feeds[u]]
       /\ rows' = SubSeq(rows, n + 1, Len(rows))
       /\ pc' = IF n = Len(rows) THEN "drop" ELSE "write"
    /\ UNCHANGED <<upload, notified, cur, slice, due, mails, mishaps>>

\* The entries are forgotten once their feeds are written.
Drop ==
    /\ pc = "drop"
    /\ staged' = [staged EXCEPT ![cur] = @ \ slice]
    /\ pc' = IF staged[cur] \subseteq slice THEN "complete" ELSE "notices"
    /\ UNCHANGED <<sent, recorded, ready, email, repeats, notified, feeds, cur, slice, rows,
                   due, mails, mishaps>>

\* completeSubmission: an upload that queued nothing has nobody to tell.
Complete ==
    /\ pc = "complete"
    /\ email' = IF QueuedBy(cur) # {} THEN email ELSE email \ {cur}
    /\ pc' = "notices"
    /\ UNCHANGED <<sent, recorded, staged, ready, repeats, notified, feeds, cur, slice, rows,
                   due, mails, mishaps>>

-----------------------------------------------------------------------------
(* notifyFinishedSubmissions, in the same pass.                            *)

AwaitsNotice_FeedsOnly(s) ==
    /\ s \in email
    /\ s \notin notified
    /\ Waiting(s) = {}
AwaitsNotice(s) ==
    /\ s \in email
    /\ s \notin notified
    /\ Waiting(s) = {}
    /\ staged[s] = {}

FindDue ==
    /\ pc = "notices"
    /\ \E order \in SetToSeqs({s \in Subs : AwaitsNotice(s)}) : due' = order
    /\ pc' = IF {s \in Subs : AwaitsNotice(s)} = {} THEN "rest" ELSE "mail"
    /\ slice' = {}
    /\ rows' = <<>>
    /\ UNCHANGED <<upload, notified, feeds, cur, mails, mishaps>>

Mail ==
    /\ pc = "mail"
    /\ LET s == Head(due) IN
       mails' = Append(mails, [sub |-> s, queued |-> Cardinality(QueuedBy(s))])
    /\ pc' = "mark"
    /\ UNCHANGED <<upload, notified, feeds, cur, slice, rows, due, mishaps>>

\* Marked whether or not the send worked.
Mark_Forgotten ==
    /\ pc = "mark"
    /\ UNCHANGED notified
    /\ due' = Tail(due)
    /\ pc' = IF Len(due) = 1 THEN "rest" ELSE "mail"
    /\ UNCHANGED <<upload, feeds, cur, slice, rows, mails, mishaps>>
Mark ==
    /\ pc = "mark"
    /\ notified' = notified \cup {Head(due)}
    /\ due' = Tail(due)
    /\ pc' = IF Len(due) = 1 THEN "rest" ELSE "mail"
    /\ UNCHANGED <<upload, feeds, cur, slice, rows, mails, mishaps>>

-----------------------------------------------------------------------------
\* A read or a write of the drain throws: the pass goes on to the notices.
DrainThrows ==
    /\ pc \in {"look", "write", "drop", "complete"}
    /\ mishaps < MaxMishaps
    /\ pc' = "notices"
    /\ mishaps' = mishaps + 1
    /\ UNCHANGED <<upload, notified, feeds, cur, slice, rows, due, mails>>

\* The notices throw, or a deploy kills the poller at any step.
PassDies ==
    /\ pc # "rest"
    /\ mishaps < MaxMishaps
    /\ pc' = "rest"
    /\ slice' = {} /\ rows' = <<>> /\ due' = <<>>
    /\ mishaps' = mishaps + 1
    /\ UNCHANGED <<upload, notified, feeds, cur, mails>>

Init ==
    /\ sent = [s \in Subs |-> 0]
    /\ recorded = [s \in Subs |-> <<>>]
    /\ staged = [s \in Subs |-> {}]
    /\ ready = <<>>
    /\ email = {}
    /\ notified = {}
    /\ feeds = [u \in Urls |-> IF Listed[u] = NoSlug THEN NoFeed
                               ELSE [slug |-> Listed[u], by |-> "nobody", status |-> "active"]]
    /\ pc = "rest"
    /\ cur = CHOOSE s \in Subs : TRUE
    /\ slice = {}
    /\ rows = <<>>
    /\ due = <<>>
    /\ mails = <<>>
    /\ repeats = 0 /\ mishaps = 0

Visitor ==
    \E s \in Subs : \/ Stage(s) \/ Finish(s) \/ FinishAgain(s)
                   \/ \E m \in 0 .. sent[s] : StageAgain(s, m)

ImportTick ==
    \/ PickUp \/ NothingToDrain \/ LookUp \/ InsertChunk \/ Drop \/ Complete
    \/ FindDue \/ Mail \/ Mark

Next ==
    \/ Visitor
    \/ ImportTick
    \/ \E u \in Urls : InsertElsewhere(u) \/ Crawled(u)
    \/ DrainThrows \/ PassDies

Spec == Init /\ [][Next]_vars

\* The import job is scheduled again and again, and every feed is crawled once. The
\* job always has a step it can take: weak fairness is that it goes on taking them.
FairSpec ==
    /\ Spec
    /\ []<><<ImportTick>>_vars
    /\ \A u \in Urls : WF_vars(Crawled(u))

-----------------------------------------------------------------------------
(* Properties.                                                             *)

Handled(u) == u \in Invalid \cup Removed \/ Known(u)

\* An entry leaves the staging table only when its feed is in the directory,
\* or may not be: a pass killed or failing anywhere in the drain loses none,
\* and no two feeds of one name become one.
EntriesBecomeFeeds ==
    \A s \in Subs : \A i \in 1 .. sent[s] :
        Handled(Upload[s][i]) \/ \E n \in staged[s] : recorded[s][n] = i

\* The mail that says an import is done is sent when it is: the whole list is
\* drained, and each feed it queued has been read.
MailedWhenDone ==
    \A n \in DOMAIN mails : LET s == mails[n].sub IN
      /\ \A i \in DOMAIN Upload[s] : Handled(Upload[s][i])
      /\ Waiting(s) = {}

\* A submitter is mailed once, and again only for a pass that died or failed
\* between the mail and its mark.
MailedOnce ==
    \A s \in Subs : Cardinality({n \in DOMAIN mails : mails[n].sub = s}) <= 1 + mishaps

\* Nobody is mailed about an upload that queued nothing.
MailsSaySomething == \A n \in DOMAIN mails : mails[n].queued > 0

\* A list handed over is drained, and its submitter told, whatever happens to
\* the passes on the way.
HandedOverFinishes ==
    \A s \in Subs : s \in Range(ready) ~>
                      staged[s] = {} /\ (s \in email => s \in notified)
=============================================================================
