---------------------------- MODULE ImportProofs ----------------------------
(***************************************************************************)
(* ImportDrain for any lists, pages, slices and bounds: who is mailed how  *)
(* often, that every entry staged becomes a feed, and that the mail which  *)
(* says so tells the truth.                                                *)
(***************************************************************************)
EXTENDS ImportDrain, FiniteSetTheorems, SequenceTheorems, WellFoundedInduction, TLAPS

Letter == [sub : Subs, queued : Nat]
LettersTo(s) == {n \in DOMAIN mails : mails[n].sub = s}

\* A pass mails each of the submissions it found once, and none that is marked.
DueInv ==
    pc \in {"mail", "mark"} =>
        /\ due # <<>>
        /\ \A i \in DOMAIN due : due[i] \notin notified
        /\ \A i, k \in DOMAIN due : i # k => due[i] # due[k]

\* A submitter has no more mails than there were mishaps, until one that is
\* marked, or about to be, accounts for one more.
Accounted(s) == s \in notified \/ (pc = "mark" /\ s = Head(due))
OnceInv ==
    \A s \in Subs : /\ ~Accounted(s) => Cardinality(LettersTo(s)) <= mishaps
                    /\ Cardinality(LettersTo(s)) <= mishaps + 1

Kinds == /\ due \in Seq(Subs)
         /\ mails \in Seq(Letter)
         /\ mishaps \in Nat

Inv == Kinds /\ DueInv /\ OnceInv

-----------------------------------------------------------------------------
\* An order of some submissions names each of them once.
LEMMA AnOrder ==
    ASSUME NEW S \in SUBSET Subs, NEW order \in SetToSeqs(S)
    PROVE  /\ order \in Seq(Subs)
           /\ S # {} => order # <<>>
           /\ \A i \in DOMAIN order : order[i] \in S
           /\ \A i, k \in DOMAIN order : i # k => order[i] # order[k]
<1>1. IsFiniteSet(S) /\ Cardinality(S) \in Nat
    BY UploadAssumption, FS_Subset, FS_CardinalityType
<1>2. /\ order \in [1 .. Cardinality(S) -> S]
      /\ \A i, k \in 1 .. Cardinality(S) : i # k => order[i] # order[k]
    BY DEF SetToSeqs
<1>3. order \in Seq(Subs) /\ Len(order) = Cardinality(S)
    BY <1>1, <1>2
<1>4. S # {} => Cardinality(S) # 0
    BY <1>1, FS_EmptySet
<1> QED BY <1>2, <1>3, <1>4

LEMMA LettersAreCounted ==
    ASSUME Kinds, NEW s
    PROVE  IsFiniteSet(LettersTo(s)) /\ Cardinality(LettersTo(s)) \in Nat
<1>1. DOMAIN mails = 1 .. Len(mails) /\ Len(mails) \in Nat
    BY DEF Kinds
<1>2. IsFiniteSet(1 .. Len(mails))
    BY <1>1, FS_Interval
<1>3. LettersTo(s) \in SUBSET (1 .. Len(mails))
    BY <1>1 DEF LettersTo
<1> QED BY <1>2, <1>3, FS_Subset, FS_CardinalityType

\* Steps that mail nobody and leave those to be mailed as they are.
LEMMA OtherSteps ==
    ASSUME Inv, mails' = mails, mishaps' \in Nat, mishaps' >= mishaps, notified' = notified,
           \/ due' = due /\ pc' = pc
           \/ due' \in Seq(Subs) /\ pc # "mark" /\ pc' \notin {"mail", "mark"}
    PROVE  Inv'
<1>1. Kinds'
    BY DEF Inv, Kinds
<1>2. DueInv'
    BY DEF Inv, DueInv
<1>3. \A s \in Subs : LettersTo(s)' = LettersTo(s)
    BY DEF LettersTo
<1>4. ASSUME NEW s \in Subs
      PROVE  /\ ~Accounted(s)' => Cardinality(LettersTo(s)') <= mishaps'
             /\ Cardinality(LettersTo(s)') <= mishaps' + 1
    <2>1. Cardinality(LettersTo(s)) \in Nat /\ mishaps \in Nat
        BY LettersAreCounted DEF Inv, Kinds
    <2>2. Accounted(s) => Accounted(s)'
        BY DEF Accounted
    <2>3. /\ ~Accounted(s) => Cardinality(LettersTo(s)) <= mishaps
          /\ Cardinality(LettersTo(s)) <= mishaps + 1
        BY DEF Inv, OnceInv
    <2>4. ~Accounted(s)' => Cardinality(LettersTo(s)) <= mishaps'
        BY <2>1, <2>2, <2>3
    <2>5. Cardinality(LettersTo(s)) <= mishaps' + 1
        BY <2>1, <2>3
    <2> QED BY <1>3, <2>4, <2>5
<1> QED BY <1>1, <1>2, <1>4 DEF Inv, OnceInv

LEMMA FindDueKeepsInv ==
    ASSUME Inv, FindDue
    PROVE  Inv'
<1> DEFINE S == {s \in Subs : AwaitsNotice(s)}
<1>1. PICK order \in SetToSeqs(S) : due' = order
    BY DEF FindDue
<1>2. /\ pc = "notices" /\ mails' = mails /\ mishaps' = mishaps /\ notified' = notified
      /\ pc' = IF S = {} THEN "rest" ELSE "mail"
    BY DEF FindDue
<1>3. /\ order \in Seq(Subs)
      /\ S # {} => order # <<>>
      /\ \A i \in DOMAIN order : order[i] \in S
      /\ \A i, k \in DOMAIN order : i # k => order[i] # order[k]
    BY AnOrder
<1>4. \A s \in S : s \notin notified
    BY DEF AwaitsNotice
<1> HIDE DEF S
<1>5. Kinds'
    BY <1>1, <1>2, <1>3 DEF Inv, Kinds
<1>6. DueInv'
    BY <1>1, <1>2, <1>3, <1>4 DEF DueInv
<1>7. \A s \in Subs : LettersTo(s)' = LettersTo(s) /\ Accounted(s)' = Accounted(s)
    BY <1>2 DEF LettersTo, Accounted
<1>8. OnceInv'
    BY <1>2, <1>7 DEF Inv, OnceInv
<1> QED BY <1>5, <1>6, <1>8 DEF Inv

LEMMA MailKeepsInv ==
    ASSUME Inv, Mail
    PROVE  Inv'
<1>1. PICK s \in Subs : s = Head(due)
    BY DEF Inv, DueInv, Kinds, Mail
<1> DEFINE letter == [sub |-> s, queued |-> Cardinality(QueuedBy(s))]
<1>2. /\ pc = "mail" /\ pc' = "mark" /\ due' = due /\ notified' = notified /\ mishaps' = mishaps
      /\ mails' = Append(mails, letter)
    BY <1>1 DEF Mail
<1>3. letter \in Letter /\ letter.sub = s
    <2>1. QueuedBy(s) \in SUBSET Urls
        BY DEF QueuedBy
    <2>2. Cardinality(QueuedBy(s)) \in Nat
        BY <2>1, UploadAssumption, FS_Subset, FS_CardinalityType
    <2> QED BY <2>2 DEF Letter
<1> HIDE DEF letter
<1>4. /\ mails' \in Seq(Letter)
      /\ Len(mails') = Len(mails) + 1 /\ Len(mails) \in Nat
      /\ mails'[Len(mails) + 1] = letter
      /\ \A n \in 1 .. Len(mails) : mails'[n] = mails[n]
    BY <1>2, <1>3 DEF Inv, Kinds
<1>5. DOMAIN mails = 1 .. Len(mails) /\ DOMAIN mails' = 1 .. Len(mails) + 1
    BY <1>4 DEF Inv, Kinds
<1>6. Kinds'
    BY <1>2, <1>4 DEF Inv, Kinds
<1>7. DueInv'
    BY <1>2 DEF Inv, DueInv
<1>8. LettersTo(s)' = LettersTo(s) \cup {Len(mails) + 1}
    BY <1>3, <1>4, <1>5 DEF LettersTo
<1>9. \A t \in Subs \ {s} : LettersTo(t)' = LettersTo(t)
    BY <1>3, <1>4, <1>5 DEF LettersTo
<1>10. s \notin notified
    BY <1>1, <1>2 DEF Inv, DueInv, Kinds
<1>11. Cardinality(LettersTo(s)) <= mishaps /\ Cardinality(LettersTo(s)) \in Nat
    BY <1>2, <1>10, LettersAreCounted DEF Inv, OnceInv, Accounted
<1>12. Cardinality(LettersTo(s)') <= mishaps + 1
    <2>1. Len(mails) + 1 \notin LettersTo(s)
        BY <1>4, <1>5 DEF LettersTo
    <2>2. Cardinality(LettersTo(s)') = Cardinality(LettersTo(s)) + 1
        BY <1>8, <2>1, LettersAreCounted, FS_AddElement DEF Inv
    <2> QED BY <1>11, <2>2 DEF Inv, Kinds
<1>13. Accounted(s)'
    BY <1>1, <1>2 DEF Accounted
<1>14. ASSUME NEW t \in Subs \ {s}
       PROVE  /\ ~Accounted(t)' => Cardinality(LettersTo(t)') <= mishaps'
              /\ Cardinality(LettersTo(t)') <= mishaps' + 1
    <2>1. Accounted(t) => Accounted(t)'
        BY <1>2 DEF Accounted
    <2> QED BY <1>2, <1>9, <2>1 DEF Inv, OnceInv
<1>15. OnceInv'
    BY <1>2, <1>12, <1>13, <1>14 DEF OnceInv
<1> QED BY <1>6, <1>7, <1>15 DEF Inv

LEMMA MarkKeepsInv ==
    ASSUME Inv, Mark
    PROVE  Inv'
<1>1. PICK s \in Subs : s = Head(due) /\ s = due[1] /\ 1 \in DOMAIN due
    BY DEF Inv, DueInv, Kinds, Mark
<1>2. /\ pc = "mark" /\ notified' = notified \cup {s} /\ due' = Tail(due)
      /\ mails' = mails /\ mishaps' = mishaps
      /\ pc' = IF Len(due) = 1 THEN "rest" ELSE "mail"
    BY <1>1 DEF Mark
<1>3. /\ due' \in Seq(Subs) /\ Len(due) \in Nat \ {0}
      /\ Len(due') = Len(due) - 1 /\ DOMAIN due = 1 .. Len(due)
      /\ \A i \in DOMAIN due' : i \in Nat /\ i + 1 \in DOMAIN due /\ i + 1 # 1 /\ due'[i] = due[i + 1]
    BY <1>2 DEF Inv, DueInv, Kinds
<1>4. Kinds'
    BY <1>2, <1>3 DEF Inv, Kinds
<1>5. DueInv'
    <2> SUFFICES ASSUME pc' = "mail"
                 PROVE  /\ due' # <<>>
                        /\ \A i \in DOMAIN due' : due'[i] \notin notified'
                        /\ \A i, k \in DOMAIN due' : i # k => due'[i] # due'[k]
        BY <1>2 DEF DueInv
    <2>1. due' # <<>>
        <3>1. Len(due) # 1
            BY <1>2
        <3>2. Len(due') # 0
            BY <1>3, <3>1
        <3> QED BY <3>2
    <2>2. ASSUME NEW i \in DOMAIN due'
          PROVE  due'[i] \notin notified'
        BY <1>1, <1>2, <1>3 DEF Inv, DueInv
    <2>3. ASSUME NEW i \in DOMAIN due', NEW k \in DOMAIN due', i # k
          PROVE  due'[i] # due'[k]
        <3>1. i + 1 # k + 1
            BY <1>3, <2>3
        <3> QED BY <1>2, <1>3, <3>1 DEF Inv, DueInv
    <2> QED BY <2>1, <2>2, <2>3
<1>6. \A t \in Subs : LettersTo(t)' = LettersTo(t) /\ (Accounted(t) => Accounted(t)')
    BY <1>1, <1>2 DEF LettersTo, Accounted
<1>7. OnceInv'
    BY <1>2, <1>6 DEF Inv, OnceInv
<1> QED BY <1>4, <1>5, <1>7 DEF Inv

\* A pass that dies between the mail and its mark is the mishap that is counted.
LEMMA PassDiesKeepsInv ==
    ASSUME Inv, PassDies
    PROVE  Inv'
<1>1. /\ pc' = "rest" /\ due' = <<>> /\ mails' = mails /\ notified' = notified
      /\ mishaps' = mishaps + 1 /\ mishaps \in Nat
    BY DEF PassDies, Inv, Kinds
<1>2. Kinds' /\ DueInv'
    BY <1>1 DEF Inv, Kinds, DueInv
<1>3. ASSUME NEW s \in Subs
      PROVE  Cardinality(LettersTo(s)') <= mishaps' /\ Cardinality(LettersTo(s)') <= mishaps' + 1
    <2>1. LettersTo(s)' = LettersTo(s)
        BY <1>1 DEF LettersTo
    <2>2. Cardinality(LettersTo(s)) \in Nat /\ Cardinality(LettersTo(s)) <= mishaps + 1
        BY LettersAreCounted DEF Inv, OnceInv
    <2>3. Cardinality(LettersTo(s)) <= mishaps' /\ Cardinality(LettersTo(s)) <= mishaps' + 1
        BY <1>1, <2>2
    <2> QED BY <2>1, <2>3
<1> QED BY <1>2, <1>3 DEF Inv, OnceInv

LEMMA NextInv ==
    ASSUME Inv, [Next]_vars
    PROVE  Inv'
<1>1. mishaps \in Nat /\ due \in Seq(Subs)
    BY DEF Inv, Kinds
<1>2. CASE Visitor \/ (\E u \in Urls : InsertElsewhere(u) \/ Crawled(u)) \/ UNCHANGED vars
    <2>1. UNCHANGED <<mails, mishaps, notified, due, pc>>
        BY <1>2 DEF Visitor, Stage, StageAgain, Finish, FinishAgain, InsertElsewhere, Crawled, vars, job
    <2>2. mishaps' >= mishaps /\ mishaps' \in Nat
        BY <1>1, <2>1
    <2> QED BY <2>1, <2>2, OtherSteps
<1>3. CASE PickUp \/ NothingToDrain \/ LookUp \/ InsertChunk \/ Drop \/ Complete
    <2>1. /\ UNCHANGED <<mails, mishaps, notified, due>>
          /\ pc # "mark" /\ pc' \notin {"mail", "mark"}
        BY <1>3 DEF PickUp, NothingToDrain, LookUp, InsertChunk, Drop, Complete
    <2>2. mishaps' >= mishaps /\ mishaps' \in Nat
        BY <1>1, <2>1
    <2> QED BY <1>1, <2>1, <2>2, OtherSteps
<1>4. CASE DrainThrows
    <2>1. /\ UNCHANGED <<mails, notified, due>> /\ mishaps' = mishaps + 1
          /\ pc # "mark" /\ pc' \notin {"mail", "mark"}
        BY <1>4 DEF DrainThrows
    <2>2. mishaps' >= mishaps /\ mishaps' \in Nat
        BY <1>1, <2>1
    <2> QED BY <1>1, <2>1, <2>2, OtherSteps
<1> QED BY <1>2, <1>3, <1>4, FindDueKeepsInv, MailKeepsInv, MarkKeepsInv, PassDiesKeepsInv
        DEF Next, ImportTick

LEMMA InitInv ==
    ASSUME Init
    PROVE  Inv
<1>1. due = <<>> /\ mails = <<>> /\ mishaps = 0 /\ pc = "rest"
    BY DEF Init
<1>2. Kinds /\ DueInv
    BY <1>1 DEF Kinds, DueInv
<1>3. ASSUME NEW s \in Subs
      PROVE  Cardinality(LettersTo(s)) = 0
    <2>1. LettersTo(s) = {}
        BY <1>1 DEF LettersTo
    <2> QED BY <2>1, FS_EmptySet
<1> QED BY <1>1, <1>2, <1>3 DEF Inv, OnceInv

\* notify.js: for any lists and any number of submitters, nobody is mailed about
\* one import more often than once, and once more for every pass that failed.
THEOREM NobodyIsMailedTwice == Spec => []MailedOnce
<1>1. Init => Inv
    BY InitInv
<1>2. Inv /\ [Next]_vars => Inv'
    BY NextInv
<1>3. Inv => MailedOnce
    <2> SUFFICES ASSUME Inv, NEW s \in Subs
                 PROVE  Cardinality(LettersTo(s)) <= 1 + mishaps
        BY DEF MailedOnce, LettersTo
    <2>1. Cardinality(LettersTo(s)) <= mishaps + 1 /\ mishaps \in Nat
        BY DEF Inv, OnceInv, Kinds
    <2> QED BY <2>1
<1> QED BY <1>1, <1>2, <1>3, PTL DEF Spec

-----------------------------------------------------------------------------
(* Slugs.                                                                  *)

\* A set of naturals with a member has a least one.
LEMMA LeastOf ==
    ASSUME NEW S \in SUBSET Nat, S # {}
    PROVE  \E m \in S : \A k \in S : m <= k
<1>1. PICK m \in S : \A k \in S : ~ (<<k, m>> \in OpToRel(<, Nat))
    BY NatLessThanWellFounded, WFMin, Zenon
<1>2. \A k \in S : ~ (k < m)
    BY <1>1, Zenon DEF OpToRel
<1> QED BY <1>2

\* A function of a finite set has finitely many values.
LEMMA ImageFinite ==
    ASSUME NEW S, IsFiniteSet(S), NEW f
    PROVE  IsFiniteSet({f[x] : x \in S})
<1> DEFINE g == [x \in S |-> f[x]]
           T == {f[x] : x \in S}
<1>1. g \in Surjection(S, T)
    BY DEF Surjection
<1> QED BY <1>1, FS_Surjection

\* The numbered slugs of a base are different slugs.
LEMMA NumberedIs ==
    ASSUME NEW b \in Slugs, NEW n \in Nat \ {0}
    PROVE  /\ Numbered(b, n) \in Slugs
           /\ n # 1 => Numbered(b, n) = Append(b, n) /\ Len(Numbered(b, n)) = Len(b) + 1
           /\ \A k \in Nat \ {0} : Numbered(b, n) = Numbered(b, k) => n = k
<1> DEFINE W == Words \cup Nat
<1>1. b \in Seq(W) /\ b # <<>> /\ n \in W
    BY DEF Slugs
<1>2. Numbered(b, n) = IF n = 1 THEN b ELSE Append(b, n)
    BY DEF Numbered
<1>3. \A k \in Nat : k \in W
    OBVIOUS
<1> HIDE DEF W
<1>4. Append(b, n) \in Seq(W) /\ Append(b, n) # <<>> /\ Len(Append(b, n)) = Len(b) + 1
    BY <1>1
<1>5. Numbered(b, n) \in Seq(W) \ {<<>>}
    BY <1>1, <1>2, <1>4
<1>6. ASSUME NEW k \in Nat \ {0}, Numbered(b, n) = Numbered(b, k)
      PROVE  n = k
    <2>1. Numbered(b, k) = IF k = 1 THEN b ELSE Append(b, k)
        BY DEF Numbered
    <2>2. Len(Append(b, k)) = Len(b) + 1 /\ Append(b, k)[Len(b) + 1] = k
          /\ Append(b, n)[Len(b) + 1] = n /\ Len(b) \in Nat
        BY <1>1, <1>3
    <2>3. b # Append(b, k) /\ b # Append(b, n)
        BY <1>4, <2>2
    <2> QED BY <1>2, <1>6, <2>1, <2>2, <2>3
<1> QED BY <1>2, <1>4, <1>5, <1>6 DEF Slugs, W

\* There is always a free slug, and all before it are taken or reserved.
LEMMA FreeSlugIs ==
    ASSUME NEW b \in Slugs, NEW T, IsFiniteSet(T)
    PROVE  \E n \in Nat \ {0} : /\ FreeSlug(b, T) = Numbered(b, n)
                                /\ Numbered(b, n) \notin T \cup Reserved
                                /\ \A j \in 1 .. n - 1 : Numbered(b, j) \in T \cup Reserved
<1> DEFINE used == T \cup Reserved
           C == Cardinality(used)
           Free == {k \in 1 .. C + 1 : Numbered(b, k) \notin used}
<1>0. IsFiniteSet(used)
    BY FS_Union, UploadAssumption
<1> HIDE DEF used
<1>1. C \in Nat
    BY <1>0, FS_CardinalityType
<1>2. Free # {}
    <2> SUFFICES ASSUME Free = {}
                 PROVE  FALSE
        OBVIOUS
    <2> DEFINE K == 1 .. C + 1
               f == [k \in K |-> Numbered(b, k)]
    <2>a. \A x, y \in K : Numbered(b, x) = Numbered(b, y) => x = y
        BY <1>1, NumberedIs
    <2>1. f \in [K -> used] /\ \A x, y \in K : f[x] = f[y] => x = y
        BY <2>a
    <2>2. IsFiniteSet(K) /\ Cardinality(K) = C + 1
        BY <1>1, FS_Interval
    <2>3. Cardinality(used) < Cardinality(K)
        BY <1>1, <2>2
    <2> HIDE DEF f, K, C
    <2>4. \E x, y \in K : x # y /\ f[x] = f[y]
        BY <1>0, <2>1, <2>2, <2>3, FS_PigeonHole
    <2> QED BY <2>1, <2>4
<1>3. Free \in SUBSET Nat
    BY <1>1
<1>4. PICK n \in Free : \A k \in Free : n <= k
    BY <1>2, <1>3, LeastOf
<1>5. n \in 1 .. C + 1 /\ Numbered(b, n) \notin used
    BY <1>4
<1>6. ASSUME NEW j \in 1 .. n - 1
      PROVE  Numbered(b, j) \in used
    <2>1. j \in 1 .. C + 1 /\ ~ (n <= j)
        BY <1>1, <1>5, <1>6
    <2> QED BY <1>4, <2>1
<1> DEFINE P(k) == Numbered(b, k) \notin used /\ \A j \in 1 .. k - 1 : Numbered(b, j) \in used
           m == CHOOSE k \in 1 .. C + 1 : P(k)
<1>7. P(n)
    BY <1>5, <1>6
<1> HIDE DEF P
<1>8. m \in 1 .. C + 1 /\ P(m)
    BY <1>5, <1>7
<1>9. FreeSlug(b, T) = Numbered(b, m)
    BY DEF FreeSlug, P, used
<1> HIDE DEF m
<1>10. m \in Nat \ {0}
    BY <1>1, <1>8
<1> QED BY <1>8, <1>9, <1>10 DEF P, used

\* The directory's slugs are finitely many; a feed that is not known has none.
LEMMA TakenIs ==
    ASSUME feeds \in [Urls -> Feed \cup {NoFeed}]
    PROVE  /\ IsFiniteSet(Taken) /\ Taken \in SUBSET Slugs
           /\ \A t : t \in Taken <=> \E u \in Urls : Known(u) /\ feeds[u].slug = t
           /\ \A u \in Urls : Known(u) => feeds[u] \in Feed /\ feeds[u].slug \in Slugs
<1> DEFINE f == [u \in Urls |-> feeds[u].slug]
<1>1. {feeds[u].slug : u \in Urls} = {f[u] : u \in Urls}
    OBVIOUS
<1>2. IsFiniteSet({feeds[u].slug : u \in Urls})
    <2> HIDE DEF f
    <2>1. IsFiniteSet(Urls)
        BY UploadAssumption
    <2>2. IsFiniteSet({f[x] : x \in Urls})
        BY <2>1, ImageFinite
    <2> QED BY <1>1, <2>2
<1>3. IsFiniteSet(Taken)
    BY <1>2, FS_Difference DEF Taken
<1>4. NoFeed.slug = NoSlug /\ NoSlug \notin Slugs
    BY UploadAssumption DEF NoFeed
<1>5. \A u \in Urls : Known(u) => feeds[u] \in Feed /\ feeds[u].slug \in Slugs
    BY DEF Known, Feed
<1>6. \A u \in Urls : ~Known(u) => feeds[u].slug = NoSlug
    BY <1>4 DEF Known
<1>7. \A t : t \in Taken <=> \E u \in Urls : Known(u) /\ feeds[u].slug = t
    BY <1>4, <1>5, <1>6 DEF Taken
<1> QED BY <1>3, <1>5, <1>7

Titles == {BaseOf[u] : u \in Urls}

\* A title that is not reserved and has numbered slugs has its own: what claimSlugs goes
\* by when it asks for the numbers of those that are taken.
Headed == \A b \in Titles \ Reserved, n \in Nat \ {0} : Numbered(b, n) \in Taken => b \in Taken

\* Nobody has a slug of a reserved title but the feed of that title.
Vacant == \A u \in Urls, n \in Nat \ {0} :
             BaseOf[u] \in Reserved /\ ~Known(u) => Numbered(BaseOf[u], n) \notin Taken

\* The numbered slugs of a base go on from it, and end in their number.
LEMMA NumberedGoesOn ==
    ASSUME NEW b \in Slugs, NEW n \in Nat \ {0}
    PROVE  /\ IsPrefix(b, Numbered(b, n))
           /\ n # 1 => SuffixOf(Numbered(b, n)) = n
<1> DEFINE W == Words \cup Nat
<1>1. b \in Seq(W) /\ b # <<>> /\ n \in W
    BY DEF Slugs
<1> HIDE DEF W
<1>2. Len(b) \in Nat /\ Len(b) # 0
    BY <1>1
<1>3. IsPrefix(b, b)
    BY <1>1 DEF IsPrefix
<1>4. IsPrefix(b, Append(b, n))
    <2>1. Append(b, n) \in Seq(W) /\ Len(Append(b, n)) = Len(b) + 1
          /\ \A i \in 1 .. Len(b) : Append(b, n)[i] = b[i]
        BY <1>1
    <2>2. SubSeq(Append(b, n), 1, Len(b)) = SubSeq(b, 1, Len(b))
        BY <1>1, <2>1
    <2> QED BY <1>2, <2>1, <2>2 DEF IsPrefix
<1>5. n # 1 => SuffixOf(Append(b, n)) = n
    <2>1. Len(Append(b, n)) = Len(b) + 1 /\ Append(b, n)[Len(b) + 1] = n
        BY <1>1
    <2> QED BY <1>2, <2>1, UploadAssumption DEF SuffixOf, Last
<1> QED BY <1>3, <1>4, <1>5 DEF Numbered

\* A claim is a slug of its title that was not known to be taken, and is known from then
\* on; where each title has its own slug, and the reserved ones no other's, a free one.
LEMMA ClaimIs ==
    ASSUME feeds \in [Urls -> Feed \cup {NoFeed}],
           NEW u \in Urls, NEW known, IsFiniteSet(known), Prefetched \subseteq known
    PROVE  /\ IsFiniteSet(Claim(u, known).taken)
           /\ \A t : t \in known \/ t = Claim(u, known).slug => t \in Claim(u, known).taken
           /\ \A t : t \in Claim(u, known).taken =>
                        t \in known \/ t \in Taken \/ t = Claim(u, known).slug
           /\ \E n \in Nat \ {0} :
                /\ Claim(u, known).slug = Numbered(BaseOf[u], n)
                /\ Numbered(BaseOf[u], n) \notin known
                /\ n # 1 /\ BaseOf[u] \notin Reserved => BaseOf[u] \in known \cup Taken
                /\ Headed /\ Vacant /\ (\E i \in Fresh : Entry(i) = u) =>
                      Numbered(BaseOf[u], n) \notin Taken
<1> DEFINE b == BaseOf[u]
           free == FreeSlug(b, known)
           widens == First(u) \in known /\ SuffixOf(free) > Depth
           wide == IF widens THEN known \cup TakenFrom(First(u)) ELSE known
           slug == FreeSlug(b, wide)
<1>1. b \in Slugs /\ IsFiniteSet(Taken)
    BY TakenIs, UploadAssumption
<1>2. Claim(u, known) = [slug |-> slug, taken |-> wide \cup {slug}]
    BY DEF Claim
<1>3. TakenFrom(First(u)) \subseteq Taken
    BY DEF TakenFrom
<1>4. IsFiniteSet(wide) /\ known \subseteq wide /\ \A t \in wide : t \in known \/ t \in Taken
    <2>1. IsFiniteSet(TakenFrom(First(u)))
        BY <1>1, <1>3, FS_Subset
    <2> QED BY <1>3, <2>1, FS_Union
<1>5. PICK n \in Nat \ {0} : /\ slug = Numbered(b, n)
                             /\ Numbered(b, n) \notin wide \cup Reserved
                             /\ \A j \in 1 .. n - 1 : Numbered(b, j) \in wide \cup Reserved
    <2> HIDE DEF b, wide
    <2> QED BY <1>1, <1>4, FreeSlugIs
<1>6. ASSUME n # 1, b \notin Reserved
      PROVE  b \in known \cup Taken
    <2>1. 1 \in 1 .. n - 1 /\ Numbered(b, 1) = b
        BY <1>6 DEF Numbered
    <2> QED BY <1>4, <1>5, <1>6, <2>1
<1>7. ASSUME Headed, Vacant, NEW i \in Fresh, Entry(i) = u, Numbered(b, n) \in Taken
      PROVE  FALSE
    <2>1. ~Known(u)
        BY <1>7 DEF Fresh
    <2>2. b \notin Reserved
        BY <1>7, <2>1 DEF Vacant
    <2>3. b \in Taken
        BY <1>7, <2>2 DEF Headed, Titles
    <2>4. First(u) = b
        <3>1. PICK k \in Nat \ {0} : /\ FreeSlug(b, {}) = Numbered(b, k)
                                     /\ \A j \in 1 .. k - 1 : Numbered(b, j) \in {} \cup Reserved
            <4>1. IsFiniteSet({})
                BY FS_EmptySet
            <4> HIDE DEF b
            <4> QED BY <1>1, <4>1, FreeSlugIs
        <3>2. k # 1 => 1 \in 1 .. k - 1
            OBVIOUS
        <3>3. Numbered(b, 1) = b
            BY DEF Numbered
        <3>4. k = 1
            BY <2>2, <3>1, <3>2, <3>3
        <3> QED BY <3>1, <3>3, <3>4 DEF First
    <2>5. b \in Asked /\ b \in known
        BY <1>7, <2>3, <2>4 DEF Asked, Prefetched
    <2>6. n # 1
        BY <1>4, <1>5, <2>5 DEF Numbered
    <2>7. Numbered(b, n) = Append(b, n) /\ SuffixOf(Numbered(b, n)) = n
          /\ IsPrefix(b, Numbered(b, n))
        BY <1>1, <2>6, NumberedIs, NumberedGoesOn
    <2>8. CASE widens
        <3>1. Numbered(b, n) \in wide
            BY <1>7, <2>4, <2>7, <2>8 DEF TakenFrom
        <3> QED BY <1>5, <3>1
    <2>9. CASE ~widens
        <3>1. slug = free /\ SuffixOf(slug) = n
            BY <1>5, <2>7, <2>9
        <3>2. n <= Depth
            <4>1. ~ (SuffixOf(free) > Depth)
                BY <2>4, <2>5, <2>9
            <4>2. SuffixOf(free) = n
                BY <3>1
            <4> HIDE DEF free
            <4> QED BY <4>1, <4>2, UploadAssumption
        <3>3. n \in 2 .. Depth
            BY <2>6, <3>2, UploadAssumption
        <3>4. Append(b, n) \in AskedAgain
            BY <2>3, <2>5, <3>3 DEF AskedAgain
        <3>5. Numbered(b, n) \in known
            BY <1>7, <2>7, <3>4 DEF Prefetched
        <3> QED BY <1>4, <1>5, <3>5
    <2> QED BY <2>8, <2>9
<1>8. IsFiniteSet(wide \cup {slug})
    BY <1>4, FS_AddElement
<1> HIDE DEF wide, slug, b
<1>9. Claim(u, known).slug = slug /\ Claim(u, known).taken = wide \cup {slug}
    BY <1>2
<1> QED BY <1>4, <1>5, <1>6, <1>7, <1>8, <1>9 DEF b

-----------------------------------------------------------------------------
(* What the lookup makes of a slice.                                       *)

Below(S, i) == {k \in S : k < i}

\* The places of a finite set of naturals, counted from the lowest.
LEMMA Ranked ==
    ASSUME NEW S \in SUBSET Nat, IsFiniteSet(S)
    PROVE  \E order \in [1 .. Cardinality(S) -> S] :
             /\ \A n \in 1 .. Cardinality(S) :
                   order[n] = CHOOSE i \in S : Cardinality({k \in S : k < i}) = n - 1
             /\ \A n, m \in 1 .. Cardinality(S) : order[n] = order[m] => n = m
             /\ \A i \in S : \E n \in 1 .. Cardinality(S) : order[n] = i
<1> DEFINE C == Cardinality(S)
           K == 1 .. C
           f == [i \in S |-> Cardinality(Below(S, i)) + 1]
           order == [n \in K |-> CHOOSE i \in S : Cardinality(Below(S, i)) = n - 1]
<1>1. C \in Nat
    BY FS_CardinalityType
<1>2. ASSUME NEW i \in S
      PROVE  /\ IsFiniteSet(Below(S, i)) /\ Cardinality(Below(S, i)) \in Nat
             /\ Cardinality(Below(S, i)) < C
    <2>1. Below(S, i) \in SUBSET (S \ {i})
        BY DEF Below
    <2>2. IsFiniteSet(S \ {i}) /\ Cardinality(S \ {i}) = C - 1
        BY FS_RemoveElement
    <2>3. IsFiniteSet(Below(S, i)) /\ Cardinality(Below(S, i)) <= C - 1
        BY <2>1, <2>2, FS_Subset
    <2>4. Cardinality(Below(S, i)) \in Nat
        BY <2>3, FS_CardinalityType
    <2> HIDE DEF C
    <2> QED BY <1>1, <2>3, <2>4
<1>3. ASSUME NEW i \in S, NEW k \in S, i < k
      PROVE  Cardinality(Below(S, i)) < Cardinality(Below(S, k))
    <2>1. Below(S, i) \cup {i} \in SUBSET Below(S, k) /\ i \notin Below(S, i)
        <3>1. \A j \in S : j \in Nat
            OBVIOUS
        <3>2. \A j \in S : j < i => j < k
            BY <1>3, <3>1
        <3>3. ~ (i < i)
            BY <3>1
        <3> QED BY <1>3, <3>2, <3>3 DEF Below
    <2>2. Cardinality(Below(S, i) \cup {i}) = Cardinality(Below(S, i)) + 1
        BY <1>2, <2>1, FS_AddElement
    <2>3. Cardinality(Below(S, i) \cup {i}) <= Cardinality(Below(S, k))
        BY <1>2, <2>1, FS_Subset
    <2>4. Cardinality(Below(S, i)) \in Nat /\ Cardinality(Below(S, k)) \in Nat
        BY <1>2
    <2> QED BY <2>2, <2>3, <2>4
<1>4. f \in [S -> K] /\ \A i, k \in S : f[i] = f[k] => i = k
    <2> HIDE DEF C
    <2>1. \A i \in S : f[i] = Cardinality(Below(S, i)) + 1 /\ f[i] \in K
        BY <1>1, <1>2
    <2>2. \A i, k \in S : f[i] = f[k] => i = k
        <3>1. ASSUME NEW i \in S, NEW k \in S, i # k
              PROVE  f[i] # f[k]
            <4>1. i \in Nat /\ k \in Nat
                OBVIOUS
            <4>2. i < k \/ k < i
                BY <3>1, <4>1
            <4> QED BY <1>2, <1>3, <2>1, <4>2
        <3> QED BY <3>1
    <2> QED BY <2>1, <2>2
<1>5. IsFiniteSet(K) /\ Cardinality(K) = C
    BY <1>1, FS_Interval
<1>6. \A n \in K : \E i \in S : f[i] = n
    <2>1. f \in Injection(S, K)
        BY <1>4 DEF Injection, IsInjective
    <2> HIDE DEF f, K
    <2>2. f \in Surjection(S, K)
        BY <1>5, <2>1, FS_Injection
    <2> QED BY <2>2 DEF Surjection
<1>7. ASSUME NEW n \in K
      PROVE  order[n] \in S /\ f[order[n]] = n
    <2>1. PICK i \in S : f[i] = n
        BY <1>6
    <2>2. Cardinality(Below(S, i)) = n - 1
        BY <1>2, <2>1
    <2>3. order[n] \in S /\ Cardinality(Below(S, order[n])) = n - 1
        BY <2>2
    <2> HIDE DEF order
    <2> QED BY <1>1, <2>3
<1>8. order \in [K -> S]
    BY <1>7
<1>9. \A n, m \in K : order[n] = order[m] => n = m
    <2> HIDE DEF order, f, K
    <2> QED BY <1>7
<1>10. \A i \in S : \E n \in K : order[n] = i
    <2>1. ASSUME NEW i \in S
          PROVE  f[i] \in K /\ order[f[i]] = i
        <3> HIDE DEF order, f, K
        <3> QED BY <1>4, <1>7
    <2> QED BY <2>1
<1>11. \A n \in K : order[n] = CHOOSE i \in S : Cardinality({k \in S : k < i}) = n - 1
    BY DEF Below
<1> QED BY <1>8, <1>9, <1>10, <1>11

\* Claims can be made one after the other, each knowing those before it.
NoneClaimed == [slug |-> NoSlug, taken |-> Prefetched]
Claimed(C, m, U) ==
    C = [n \in 0 .. m |-> IF n = 0 THEN NoneClaimed ELSE Claim(U[n], C[n - 1].taken)]

\* There are such claims: the recursive function of the lookup is one.
LEMMA ClaimsExist ==
    ASSUME NEW m \in Nat, NEW U
    PROVE  \E C : Claimed(C, m, U)
<1> DEFINE Not == {k \in 0 .. m : ~ \E C : Claimed(C, k, U)}
<1>1. Not = {}
    <2> SUFFICES ASSUME Not # {}
                 PROVE  FALSE
        OBVIOUS
    <2>1. PICK k \in Not : \A j \in Not : k <= j
        <3>1. Not \in SUBSET Nat
            OBVIOUS
        <3> QED BY <3>1, LeastOf
    <2>2. k \in 0 .. m /\ ~ \E C : Claimed(C, k, U)
        BY <2>1
    <2>3. CASE k = 0
        <3> DEFINE C == [n \in 0 .. 0 |-> NoneClaimed]
        <3>1. C = [n \in 0 .. 0 |-> IF n = 0 THEN NoneClaimed ELSE Claim(U[n], C[n - 1].taken)]
            OBVIOUS
        <3> QED BY <2>2, <2>3, <3>1 DEF Claimed
    <2>4. CASE k # 0
        <3>1. k - 1 \in 0 .. m /\ k - 1 \notin Not /\ k \in Nat
            BY <2>1, <2>2, <2>4
        <3>2. PICK D : Claimed(D, k - 1, U)
            BY <3>1
        <3> DEFINE C == [n \in 0 .. k |-> IF n = k THEN Claim(U[k], D[k - 1].taken) ELSE D[n]]
        <3>3. \A n \in 0 .. k - 1 : C[n] = D[n]
            BY <3>1
        <3>4. ASSUME NEW n \in 0 .. k
              PROVE  C[n] = IF n = 0 THEN NoneClaimed ELSE Claim(U[n], C[n - 1].taken)
            <4>1. CASE n = k
                <5>1. C[n] = Claim(U[n], D[n - 1].taken) /\ n # 0
                    BY <2>4, <4>1
                <5>2. C[n - 1] = D[n - 1]
                    BY <3>1, <3>3, <4>1
                <5> HIDE DEF C
                <5> QED BY <5>1, <5>2
            <4>2. CASE n # k
                <5>1. n \in 0 .. k - 1
                    BY <3>1, <4>2
                <5>2. C[n] = D[n] /\ (n # 0 => C[n - 1] = D[n - 1])
                    BY <3>1, <3>3, <5>1
                <5>3. D[n] = IF n = 0 THEN NoneClaimed ELSE Claim(U[n], D[n - 1].taken)
                    BY <3>2, <5>1 DEF Claimed
                <5> HIDE DEF C
                <5> QED BY <5>2, <5>3
            <4> QED BY <4>1, <4>2
        <3>5. C = [n \in 0 .. k |-> IF n = 0 THEN NoneClaimed ELSE Claim(U[n], C[n - 1].taken)]
            <4>1. C = [n \in 0 .. k |-> C[n]]
                OBVIOUS
            <4> HIDE DEF C
            <4> QED BY <3>4, <4>1
        <3> HIDE DEF C
        <3> QED BY <2>2, <3>5 DEF Claimed
    <2> QED BY <2>3, <2>4
<1>2. m \in 0 .. m
    OBVIOUS
<1> QED BY <1>1, <1>2

\* What is known to be taken after n claims: what was asked for, and the claims.
KnownAfter(C, n) ==
    /\ IsFiniteSet(C[n].taken) /\ Prefetched \subseteq C[n].taken
    /\ \A k \in 1 .. n : C[k].slug \in C[n].taken
    /\ \A t \in C[n].taken : t \in Taken \/ \E k \in 1 .. n : t = C[k].slug

LEMMA KnownIs ==
    ASSUME feeds \in [Urls -> Feed \cup {NoFeed}],
           NEW m \in Nat, NEW U \in [1 .. m -> Urls], NEW C, Claimed(C, m, U)
    PROVE  \A n \in 0 .. m : KnownAfter(C, n)
<1> DEFINE Not == {k \in 0 .. m : ~KnownAfter(C, k)}
<1>1. C[0] = NoneClaimed /\ \A n \in 1 .. m : C[n] = Claim(U[n], C[n - 1].taken)
    BY DEF Claimed
<1> SUFFICES ASSUME Not # {}
             PROVE  FALSE
    OBVIOUS
<1>2. PICK k \in Not : \A j \in Not : k <= j
    <2>1. Not \in SUBSET Nat
        OBVIOUS
    <2> QED BY <2>1, LeastOf
<1>3. CASE k = 0
    <2>1. C[0].taken = Prefetched
        BY <1>1 DEF NoneClaimed
    <2>2. IsFiniteSet(Prefetched) /\ Prefetched \subseteq Taken
        BY TakenIs, FS_Subset DEF Prefetched
    <2>3. KnownAfter(C, 0)
        BY <2>1, <2>2 DEF KnownAfter
    <2> QED BY <1>2, <1>3, <2>3
<1>4. CASE k # 0
    <2>1. k \in 1 .. m /\ k - 1 \in 0 .. m /\ k - 1 \notin Not
        BY <1>2, <1>4
    <2>2. KnownAfter(C, k - 1)
        BY <2>1
    <2> DEFINE known == C[k - 1].taken
    <2>3. /\ IsFiniteSet(known) /\ Prefetched \subseteq known
          /\ \A j \in 1 .. k - 1 : C[j].slug \in known
          /\ \A t \in known : t \in Taken \/ \E j \in 1 .. k - 1 : t = C[j].slug
        BY <2>2 DEF KnownAfter
    <2>4. C[k] = Claim(U[k], known) /\ U[k] \in Urls
        BY <1>1, <2>1
    <2> HIDE DEF known
    <2>5. /\ IsFiniteSet(C[k].taken)
          /\ \A t : t \in known \/ t = C[k].slug => t \in C[k].taken
          /\ \A t : t \in C[k].taken => t \in known \/ t \in Taken \/ t = C[k].slug
        BY <2>3, <2>4, ClaimIs
    <2>6. \A j \in 1 .. k : j = k \/ j \in 1 .. k - 1
        BY <2>1
    <2>7. \A j \in 1 .. k - 1 : j \in 1 .. k
        BY <2>1
    <2>8. k \in 1 .. k
        BY <2>1
    <2>9. \A t \in C[k].taken : t \in Taken \/ \E j \in 1 .. k : t = C[j].slug
        BY <2>3, <2>5, <2>7, <2>8
    <2>10. \A j \in 1 .. k : C[j].slug \in C[k].taken
        BY <2>3, <2>5, <2>6
    <2>11. Prefetched \subseteq C[k].taken
        BY <2>3, <2>5
    <2>12. KnownAfter(C, k)
        BY <2>5, <2>9, <2>10, <2>11 DEF KnownAfter
    <2> QED BY <1>2, <2>12
<1> QED BY <1>3, <1>4

-----------------------------------------------------------------------------
(* Types: what is staged is of the list, and rows are feeds to be.         *)

\* The page posts whole batches.
PageInv == \A s \in Subs : sent[s] = Len(Upload[s]) \/ sent[s] % Batch = 0

Typed == Inv /\ TypeOK /\ PageInv

\* The lesser of two numbers.
LEMMA MinOfTwo ==
    ASSUME NEW a \in Nat, NEW b \in Nat
    PROVE  Min({a, b}) = IF a <= b THEN a ELSE b
<1> DEFINE m == IF a <= b THEN a ELSE b
           P(x) == \A y \in {a, b} : x <= y
<1>1. m \in {a, b} /\ P(m)
    OBVIOUS
<1>2. \A x \in {a, b} : P(x) => x = m
    OBVIOUS
<1>3. Min({a, b}) = CHOOSE x \in {a, b} : P(x)
    BY DEF Min
<1> HIDE DEF m, P
<1> QED BY <1>1, <1>2, <1>3 DEF m

\* A multiple of the batch is a batch away from the next.
LEMMA Quotient ==
    ASSUME NEW a \in Nat, NEW b \in Nat \ {0}, a % b = 0
    PROVE  \E q \in Nat : a = b * q
<1>1. a = b * (a \div b) + (a % b)
    OBVIOUS
<1>2. a \div b \in Nat
    OBVIOUS
<1> QED BY <1>1, <1>2

\* What whole batches make up is met or passed batch by batch.
LEMMA WholeBatches ==
    ASSUME NEW m \in Nat, NEW n \in Nat, NEW b \in Nat \ {0}, m % b = 0
    PROVE  /\ (m + b) % b = 0
           /\ n % b = 0 /\ m < n => m + b <= n
<1>1. PICK q \in Nat : m = b * q
    BY Quotient
<1>2. (b * (q + 1)) % b = 0 /\ b * (q + 1) = b * q + b
    OBVIOUS
<1>3. ASSUME n % b = 0, m < n
      PROVE  m + b <= n
    <2>1. PICK r \in Nat : n = b * r
        BY <1>3, Quotient
    <2>2. b * q < b * r => b * q + b <= b * r
        OBVIOUS
    <2> QED BY <1>1, <1>3, <2>1, <2>2
<1> QED BY <1>1, <1>2, <1>3

\* A batch posted after the first m places.
LEMMA BatchIs ==
    ASSUME NEW s \in Subs, NEW m \in Nat, m < Len(Upload[s])
    PROVE  LET b == BatchAfter(s, m) IN
           /\ b \in Seq(Nat) /\ Len(b) \in Nat \ {0}
           /\ Len(b) = IF Batch <= Len(Upload[s]) - m THEN Batch ELSE Len(Upload[s]) - m
           /\ \A n \in 1 .. Len(b) : b[n] = m + n
           /\ m + Len(b) <= Len(Upload[s])
<1> DEFINE L == Len(Upload[s])
           z == IF Batch <= L - m THEN Batch ELSE L - m
<1>1. L \in Nat /\ Batch \in Nat \ {0} /\ L - m \in Nat \ {0}
    BY UploadAssumption
<1>2. Min({Batch, L - m}) = z
    BY <1>1, MinOfTwo
<1>3. BatchAfter(s, m) = [n \in 1 .. z |-> m + n]
    BY <1>2 DEF BatchAfter
<1>4. z \in Nat \ {0} /\ m + z <= L
    BY <1>1
<1> HIDE DEF z
<1>5. BatchAfter(s, m) \in Seq(Nat) /\ Len(BatchAfter(s, m)) = z
    BY <1>3, <1>4
<1> QED BY <1>3, <1>4, <1>5 DEF z

\* Places recorded go behind what is there, and are staged.
LEMMA RecordIs ==
    ASSUME TypeOK, NEW s \in Subs, NEW places \in Seq(Nat), Record(s, places)
    PROVE  /\ recorded' \in [Subs -> Seq(Nat)] /\ staged' \in [Subs -> SUBSET Nat]
           /\ \A t \in Subs \ {s} : recorded'[t] = recorded[t] /\ staged'[t] = staged[t]
           /\ DOMAIN recorded[s] = 1 .. Len(recorded[s])
           /\ DOMAIN recorded'[s] = 1 .. Len(recorded[s]) + Len(places)
           /\ DOMAIN recorded[s] \subseteq DOMAIN recorded'[s]
           /\ \A n \in DOMAIN recorded[s] : recorded'[s][n] = recorded[s][n]
           /\ \A n \in 1 .. Len(places) : recorded'[s][Len(recorded[s]) + n] = places[n]
           /\ staged'[s] = staged[s]
                \cup (Len(recorded[s]) + 1 .. Len(recorded[s]) + Len(places))
           /\ Range(recorded'[s]) = Range(recorded[s]) \cup Range(places)
           /\ staged'[s] \subseteq DOMAIN recorded'[s]
<1> DEFINE r == recorded[s]
           q == r \o places
<1>1. recorded \in [Subs -> Seq(Nat)] /\ staged \in [Subs -> SUBSET Nat]
      /\ staged[s] \subseteq DOMAIN r
    BY DEF TypeOK
<1>2. r \in Seq(Nat) /\ Len(r) \in Nat /\ Len(places) \in Nat /\ DOMAIN r = 1 .. Len(r)
      /\ DOMAIN places = 1 .. Len(places)
    BY <1>1
<1>3. q \in Seq(Nat) /\ DOMAIN q = 1 .. Len(r) + Len(places)
      /\ (\A n \in 1 .. Len(r) : q[n] = r[n])
      /\ (\A n \in 1 .. Len(places) : q[Len(r) + n] = places[n])
    BY <1>2
<1>4. recorded' = [recorded EXCEPT ![s] = q]
      /\ staged' = [staged EXCEPT ![s] = staged[s] \cup (Len(r) + 1 .. Len(r) + Len(places))]
    BY DEF Record
<1> HIDE DEF q
<1>5. recorded' \in [Subs -> Seq(Nat)] /\ recorded'[s] = q
      /\ \A t \in Subs \ {s} : recorded'[t] = recorded[t]
    BY <1>1, <1>3, <1>4
<1>6. /\ staged'[s] = staged[s] \cup (Len(r) + 1 .. Len(r) + Len(places))
      /\ \A t \in Subs \ {s} : staged'[t] = staged[t]
      /\ staged' \in [Subs -> SUBSET Nat]
    BY <1>1, <1>2, <1>4
<1>7. Range(q) = Range(r) \cup Range(places)
    <2>1. ASSUME NEW x \in Range(q)
          PROVE  x \in Range(r) \cup Range(places)
        <3>1. PICK n \in 1 .. Len(r) + Len(places) : x = q[n]
            BY <1>3 DEF Range
        <3>2. n \in 1 .. Len(r) \/ (n - Len(r) \in 1 .. Len(places) /\ n = Len(r) + (n - Len(r)))
            BY <1>2
        <3> QED BY <1>2, <1>3, <3>1, <3>2 DEF Range
    <2>2. ASSUME NEW x \in Range(r)
          PROVE  x \in Range(q)
        <3>1. PICK n \in 1 .. Len(r) : x = q[n]
            BY <1>2, <1>3 DEF Range
        <3>2. n \in DOMAIN q
            BY <1>2, <1>3
        <3> QED BY <3>1, <3>2 DEF Range
    <2>3. ASSUME NEW x \in Range(places)
          PROVE  x \in Range(q)
        <3>1. PICK n \in 1 .. Len(places) : x = q[Len(r) + n]
            BY <1>2, <1>3 DEF Range
        <3>2. Len(r) + n \in DOMAIN q
            BY <1>2, <1>3
        <3> QED BY <3>1, <3>2 DEF Range
    <2> QED BY <2>1, <2>2, <2>3
<1>8. staged'[s] \subseteq 1 .. Len(r) + Len(places)
    BY <1>1, <1>2, <1>6
<1>9. DOMAIN r \subseteq DOMAIN q
    BY <1>2, <1>3
<1> QED BY <1>2, <1>3, <1>5, <1>6, <1>7, <1>8, <1>9

\* Steps that touch neither the rows staged nor the directory nor the job.
LEMMA StageTyped ==
    ASSUME Typed, NEW s \in Subs, Stage(s)
    PROVE  Typed'
<1> DEFINE b == BatchAfter(s, sent[s])
           L == Len(Upload[s])
<1>1. /\ sent[s] < L /\ Record(s, b)
      /\ sent' = [sent EXCEPT ![s] = sent[s] + Len(b)]
      /\ UNCHANGED <<ready, email, repeats, notified, feeds, job, mails, mishaps>>
    BY DEF Stage
<1>2. sent \in [Subs -> Nat] /\ L \in Nat /\ Batch \in Nat \ {0}
    BY UploadAssumption DEF Typed, TypeOK
<1>3. /\ b \in Seq(Nat) /\ Len(b) \in Nat \ {0}
      /\ Len(b) = IF Batch <= L - sent[s] THEN Batch ELSE L - sent[s]
      /\ \A n \in 1 .. Len(b) : b[n] = sent[s] + n
      /\ sent[s] + Len(b) <= L
    BY <1>1, <1>2, BatchIs
<1> HIDE DEF b
<1>4. /\ sent' \in [Subs -> Nat] /\ sent'[s] = sent[s] + Len(b)
      /\ \A t \in Subs \ {s} : sent'[t] = sent[t]
    BY <1>1, <1>2, <1>3
<1>5. Range(b) = sent[s] + 1 .. sent[s] + Len(b)
    <2>1. DOMAIN b = 1 .. Len(b)
        BY <1>3
    <2>2. ASSUME NEW k \in sent[s] + 1 .. sent[s] + Len(b)
          PROVE  k - sent[s] \in DOMAIN b /\ b[k - sent[s]] = k
        <3>1. k - sent[s] \in 1 .. Len(b)
            BY <1>2, <1>3
        <3> QED BY <1>2, <1>3, <2>1, <3>1
    <2>3. \A n \in 1 .. Len(b) : b[n] \in sent[s] + 1 .. sent[s] + Len(b)
        BY <1>2, <1>3
    <2> QED BY <2>1, <2>2, <2>3 DEF Range
<1>6. /\ recorded' \in [Subs -> Seq(Nat)] /\ staged' \in [Subs -> SUBSET Nat]
      /\ \A t \in Subs \ {s} : recorded'[t] = recorded[t] /\ staged'[t] = staged[t]
      /\ Range(recorded'[s]) = Range(recorded[s]) \cup Range(b)
      /\ staged'[s] \subseteq DOMAIN recorded'[s]
      /\ DOMAIN recorded[s] \subseteq DOMAIN recorded'[s]
    BY <1>1, <1>3, RecordIs DEF Typed
<1>7. \A t \in Subs : Range(recorded'[t]) = 1 .. sent'[t] /\ sent'[t] <= Len(Upload[t])
    <2>1. \A t \in Subs : Range(recorded[t]) = 1 .. sent[t] /\ sent[t] <= Len(Upload[t])
        BY DEF Typed, TypeOK
    <2>2. 1 .. sent[s] + Len(b) = 1 .. sent[s] \cup (sent[s] + 1 .. sent[s] + Len(b))
        BY <1>2, <1>3
    <2>3. Range(recorded'[s]) = 1 .. sent'[s] /\ sent'[s] <= Len(Upload[s])
        BY <1>3, <1>4, <1>5, <1>6, <2>1, <2>2
    <2> QED BY <1>4, <1>6, <2>1, <2>3
<1>8. TypeOK'
    <2>1. \A t \in Subs : staged'[t] \subseteq DOMAIN recorded'[t]
        BY <1>6 DEF Typed, TypeOK
    <2>2. slice' \subseteq DOMAIN recorded'[cur']
        BY <1>1, <1>6 DEF Typed, TypeOK, job
    <2> QED BY <1>1, <1>4, <1>6, <1>7, <2>1, <2>2 DEF Typed, TypeOK, job
<1>9. PageInv'
    <2>1. \A t \in Subs \ {s} : sent'[t] = Len(Upload[t]) \/ sent'[t] % Batch = 0
        BY <1>4 DEF Typed, PageInv
    <2>2. sent'[s] = L \/ sent'[s] % Batch = 0
        <3>1. sent[s] # L
            BY <1>1, <1>2
        <3>2. sent[s] % Batch = 0
            BY <3>1 DEF Typed, PageInv
        <3>3. (sent[s] + Batch) % Batch = 0
            BY <1>2, <3>2, WholeBatches
        <3> QED BY <1>2, <1>3, <1>4, <3>3
    <2> QED BY <2>1, <2>2 DEF PageInv
<1>10. Inv'
    <2>1. [Next]_vars
        BY DEF Next, Visitor
    <2> QED BY <2>1, NextInv DEF Typed
<1> QED BY <1>8, <1>9, <1>10 DEF Typed

\* A post that arrives again is one the page has made.
LEMMA StageAgainTyped ==
    ASSUME Typed, NEW s \in Subs, NEW m \in 0 .. sent[s], StageAgain(s, m)
    PROVE  Typed'
<1> DEFINE b == BatchAfter(s, m)
           L == Len(Upload[s])
<1>1. /\ m < sent[s] /\ m % Batch = 0 /\ Record(s, b) /\ repeats' = repeats + 1
      /\ UNCHANGED <<sent, ready, email, notified, feeds, job, mails, mishaps>>
    BY DEF StageAgain
<1>2. sent[s] \in Nat /\ m \in Nat /\ L \in Nat /\ Batch \in Nat \ {0} /\ sent[s] <= L
    BY UploadAssumption DEF Typed, TypeOK
<1>3. /\ b \in Seq(Nat) /\ Len(b) \in Nat \ {0}
      /\ Len(b) = IF Batch <= L - m THEN Batch ELSE L - m
      /\ \A n \in 1 .. Len(b) : b[n] = m + n
      /\ m + Len(b) <= L
    BY <1>1, <1>2, BatchIs
<1> HIDE DEF b
<1>4. m + Len(b) <= sent[s]
    <2>1. CASE sent[s] = L
        BY <1>3, <2>1
    <2>2. CASE sent[s] # L
        <3>1. sent[s] % Batch = 0
            BY <2>2 DEF Typed, PageInv
        <3>2. m + Batch <= sent[s]
            BY <1>1, <1>2, <3>1, WholeBatches
        <3> QED BY <1>2, <1>3, <3>2
    <2> QED BY <2>1, <2>2
<1>5. Range(b) \subseteq 1 .. sent[s]
    <2>1. DOMAIN b = 1 .. Len(b)
        BY <1>3
    <2>2. \A n \in 1 .. Len(b) : b[n] \in 1 .. sent[s]
        BY <1>2, <1>3, <1>4
    <2> QED BY <2>1, <2>2 DEF Range
<1>6. /\ recorded' \in [Subs -> Seq(Nat)] /\ staged' \in [Subs -> SUBSET Nat]
      /\ \A t \in Subs \ {s} : recorded'[t] = recorded[t] /\ staged'[t] = staged[t]
      /\ Range(recorded'[s]) = Range(recorded[s]) \cup Range(b)
      /\ staged'[s] \subseteq DOMAIN recorded'[s]
      /\ DOMAIN recorded[s] \subseteq DOMAIN recorded'[s]
    BY <1>1, <1>3, RecordIs DEF Typed
<1>7. \A t \in Subs : Range(recorded'[t]) = 1 .. sent'[t] /\ sent'[t] <= Len(Upload[t])
    <2>1. \A t \in Subs : Range(recorded[t]) = 1 .. sent[t] /\ sent[t] <= Len(Upload[t])
        BY DEF Typed, TypeOK
    <2>2. Range(recorded'[s]) = 1 .. sent[s]
        BY <1>5, <1>6, <2>1
    <2> QED BY <1>1, <1>6, <2>1, <2>2
<1>8. TypeOK'
    <2>1. \A t \in Subs : staged'[t] \subseteq DOMAIN recorded'[t]
        BY <1>6 DEF Typed, TypeOK
    <2>2. slice' \subseteq DOMAIN recorded'[cur']
        BY <1>1, <1>6 DEF Typed, TypeOK, job
    <2>3. repeats' \in Nat
        BY <1>1 DEF Typed, TypeOK
    <2> QED BY <1>1, <1>6, <1>7, <2>1, <2>2, <2>3 DEF Typed, TypeOK, job
<1>9. PageInv'
    BY <1>1 DEF Typed, PageInv
<1>10. Inv'
    <2>1. [Next]_vars
        BY DEF Next, Visitor
    <2> QED BY <2>1, NextInv DEF Typed
<1> QED BY <1>8, <1>9, <1>10 DEF Typed

\* A sequence without one of its places.
LEMMA RemovedAt ==
    ASSUME NEW S, NEW s \in Seq(S), NEW at \in 1 .. Len(s)
    PROVE  /\ RemoveAt(s, at) \in Seq(S)
           /\ \A i \in 1 .. Len(RemoveAt(s, at)) :
                 \E k \in DOMAIN s : RemoveAt(s, at)[i] = s[k]
<1> DEFINE a == SubSeq(s, 1, at - 1)
           b == SubSeq(s, at + 1, Len(s))
<1>1. Len(s) \in Nat /\ DOMAIN s = 1 .. Len(s) /\ RemoveAt(s, at) = a \o b
    BY DEF RemoveAt
<1>2. /\ a \in Seq(S)
      /\ \A i \in 1 .. Len(a) : \E k \in 1 .. Len(s) : a[i] = s[k]
    <2>1. 1 \in 1 .. Len(s) + 1 /\ at - 1 \in 1 - 1 .. Len(s)
        BY <1>1
    <2>2. /\ a \in Seq(S) /\ Len(a) = (at - 1) - 1 + 1
          /\ \A i \in 1 .. (at - 1) - 1 + 1 : a[i] = s[1 + i - 1]
        BY <2>1, SubSeqProperties
    <2> HIDE DEF a
    <2> QED BY <1>1, <2>2
<1>3. /\ b \in Seq(S)
      /\ \A i \in 1 .. Len(b) : \E k \in 1 .. Len(s) : b[i] = s[k]
    <2>1. at + 1 \in 1 .. Len(s) + 1 /\ Len(s) \in (at + 1) - 1 .. Len(s)
        BY <1>1
    <2>2. /\ b \in Seq(S) /\ Len(b) = Len(s) - (at + 1) + 1
          /\ \A i \in 1 .. Len(s) - (at + 1) + 1 : b[i] = s[(at + 1) + i - 1]
        BY <2>1, SubSeqProperties
    <2> HIDE DEF b
    <2> QED BY <1>1, <2>2
<1> HIDE DEF a, b
<1>4. /\ a \o b \in Seq(S) /\ Len(a \o b) = Len(a) + Len(b)
      /\ Len(a) \in Nat /\ Len(b) \in Nat
      /\ \A i \in 1 .. Len(a) + Len(b) :
            (a \o b)[i] = IF i <= Len(a) THEN a[i] ELSE b[i - Len(a)]
    BY <1>2, <1>3, ConcatProperties
<1>5. ASSUME NEW i \in 1 .. Len(a \o b)
      PROVE  \E k \in DOMAIN s : (a \o b)[i] = s[k]
    <2>1. CASE i <= Len(a)
        <3>1. i \in 1 .. Len(a) /\ (a \o b)[i] = a[i]
            BY <1>4, <2>1
        <3> QED BY <1>1, <1>2, <3>1
    <2>2. CASE ~ (i <= Len(a))
        <3>1. i - Len(a) \in 1 .. Len(b)
            BY <1>4, <2>2
        <3> QED BY <1>1, <1>3, <1>4, <2>2, <3>1
    <2> QED BY <2>1, <2>2
<1> QED BY <1>1, <1>4, <1>5

LEMMA HandOverTyped ==
    ASSUME Typed, NEW s \in Subs, Finish(s) \/ FinishAgain(s)
    PROVE  /\ Typed'
           /\ \A i \in DOMAIN ready' : ready'[i] = s \/ \E k \in DOMAIN ready : ready'[i] = ready[k]
<1>1. ready \in Seq(Subs) /\ email \subseteq Subs /\ repeats \in Nat
    BY DEF Typed, TypeOK
<1>2. /\ ready' \in Seq(Subs)
      /\ \A i \in DOMAIN ready' : ready'[i] = s \/ \E k \in DOMAIN ready : ready'[i] = ready[k]
    <2>1. CASE ready' = Append(ready, s)
        <3>1. /\ Append(ready, s) \in Seq(Subs)
              /\ \A i \in DOMAIN Append(ready, s) :
                    Append(ready, s)[i] = s \/ (i \in DOMAIN ready /\ Append(ready, s)[i] = ready[i])
            BY <1>1
        <3> QED BY <2>1, <3>1
    <2>2. CASE ready' = ready
        BY <1>1, <2>2
    <2>3. CASE FinishAgain(s) /\ ready' # ready
        <3> DEFINE at == CHOOSE i \in DOMAIN ready : ready[i] = s
                   q == RemoveAt(ready, at)
        <3>1. at \in 1 .. Len(ready)
            BY <1>1, <2>3 DEF FinishAgain, Range
        <3>2. ready' = Append(q, s)
            BY <2>3 DEF FinishAgain
        <3> HIDE DEF at
        <3>3. q \in Seq(Subs) /\ \A i \in 1 .. Len(q) : \E k \in DOMAIN ready : q[i] = ready[k]
            BY <1>1, <3>1, RemovedAt
        <3> HIDE DEF q
        <3>7. q \in Seq(Subs) /\ ready' = Append(q, s)
              /\ \A i \in 1 .. Len(q) : \E k \in DOMAIN ready : q[i] = ready[k]
            BY <3>2, <3>3
        <3>8. \A i \in DOMAIN Append(q, s) :
                  Append(q, s)[i] = s \/ (i \in 1 .. Len(q) /\ Append(q, s)[i] = q[i])
            BY <3>7
        <3> QED BY <3>7, <3>8
    <2> QED BY <2>1, <2>2, <2>3 DEF Finish, FinishAgain
<1>3. email' \subseteq Subs
    BY <1>1 DEF Finish, FinishAgain, Address
<1>4. repeats' \in Nat
    BY <1>1 DEF Finish, FinishAgain
<1>5. UNCHANGED <<sent, recorded, staged, notified, feeds, pc, cur, slice, rows, due, mails, mishaps>>
    BY DEF Finish, FinishAgain, job
<1>6. TypeOK'
    BY <1>2, <1>3, <1>4, <1>5 DEF Typed, TypeOK
<1>7. PageInv'
    BY <1>5 DEF Typed, PageInv
<1>8. Inv'
    <2>1. [Next]_vars
        BY DEF Next, Visitor
    <2> QED BY <2>1, NextInv DEF Typed
<1> QED BY <1>2, <1>6, <1>7, <1>8 DEF Typed

\* Other paths and the crawler keep the directory a directory.
LEMMA DirectoryTyped ==
    ASSUME Typed, NEW u \in Urls, InsertElsewhere(u) \/ Crawled(u)
    PROVE  Typed'
<1>1. feeds \in [Urls -> Feed \cup {NoFeed}]
    BY DEF Typed, TypeOK
<1>2. feeds' \in [Urls -> Feed \cup {NoFeed}]
    <2>1. CASE InsertElsewhere(u)
        <3> DEFINE slug == FreeSlug(BaseOf[u], TakenFrom(First(u)))
        <3>1. IsFiniteSet(TakenFrom(First(u))) /\ BaseOf[u] \in Slugs
            <4>1. TakenFrom(First(u)) \subseteq Taken /\ IsFiniteSet(Taken)
                BY <1>1, TakenIs DEF TakenFrom
            <4> QED BY <4>1, FS_Subset, UploadAssumption
        <3>2. slug \in Slugs
            <4>1. \E n \in Nat \ {0} : slug = Numbered(BaseOf[u], n)
                BY <3>1, FreeSlugIs
            <4> QED BY <3>1, <4>1, NumberedIs
        <3>3. [slug |-> slug, by |-> "nobody", status |-> "active"] \in Feed
            BY <3>2 DEF Feed
        <3> QED BY <1>1, <2>1, <3>3 DEF InsertElsewhere
    <2>2. CASE Crawled(u)
        <3>1. PICK outcome \in {"active", "error"} : feeds' = [feeds EXCEPT ![u].status = outcome]
            BY <2>2 DEF Crawled
        <3>2. feeds[u] \in Feed
            BY <1>1, <2>2 DEF Crawled, Known
        <3>3. [feeds[u] EXCEPT !.status = outcome] \in Feed
            BY <3>2 DEF Feed
        <3> QED BY <1>1, <3>1, <3>3
    <2> QED BY <2>1, <2>2
<1>3. UNCHANGED <<sent, recorded, staged, ready, email, repeats, notified, pc, cur, slice, rows,
                  due, mails, mishaps>>
    BY DEF InsertElsewhere, Crawled, upload, job
<1>4. TypeOK' /\ PageInv'
    BY <1>2, <1>3 DEF Typed, TypeOK, PageInv
<1>5. Inv'
    <2>1. [Next]_vars
        BY DEF Next
    <2> QED BY <2>1, NextInv DEF Typed
<1> QED BY <1>4, <1>5 DEF Typed

\* A place of the slice holds a url of the list.
LEMMA EntryIs ==
    ASSUME Typed, NEW i \in slice
    PROVE  /\ i \in DOMAIN recorded[cur] /\ i \in Nat
           /\ recorded[cur][i] \in 1 .. sent[cur] /\ recorded[cur][i] \in DOMAIN Upload[cur]
           /\ Entry(i) \in Urls /\ BaseOf[Entry(i)] \in Slugs
<1>1. /\ cur \in Subs /\ slice \subseteq DOMAIN recorded[cur] /\ recorded \in [Subs -> Seq(Nat)]
      /\ Range(recorded[cur]) = 1 .. sent[cur] /\ sent[cur] <= Len(Upload[cur])
      /\ sent \in [Subs -> Nat]
    BY DEF Typed, TypeOK
<1>2. i \in DOMAIN recorded[cur] /\ DOMAIN recorded[cur] = 1 .. Len(recorded[cur])
      /\ Len(recorded[cur]) \in Nat
    BY <1>1
<1>3. recorded[cur][i] \in 1 .. sent[cur]
    BY <1>1, <1>2 DEF Range
<1>4. Upload[cur] \in Seq(Urls) /\ sent[cur] \in Nat
    BY <1>1, UploadAssumption
<1>5. recorded[cur][i] \in DOMAIN Upload[cur] /\ Upload[cur][recorded[cur][i]] \in Urls
    BY <1>1, <1>3, <1>4
<1> QED BY <1>2, <1>3, <1>5, UploadAssumption DEF Entry

\* The urls of the rows are those of the fresh places, each once.
LEMMA FreshUrlsAre ==
    ASSUME Typed
    PROVE  \E m \in Nat :
             /\ FreshUrls \in [1 .. m -> Urls]
             /\ \E order \in [1 .. m -> Fresh] :
                  /\ \A n \in 1 .. m : FreshUrls[n] = Entry(order[n])
                  /\ \A n, k \in 1 .. m : order[n] = order[k] => n = k
                  /\ \A i \in Fresh : \E n \in 1 .. m : order[n] = i
<1>1. Fresh \in SUBSET Nat /\ IsFiniteSet(Fresh)
    <2>1. Fresh \subseteq slice /\ slice \subseteq DOMAIN recorded[cur]
        BY DEF Fresh, Typed, TypeOK
    <2>2. recorded[cur] \in Seq(Nat)
        BY DEF Typed, TypeOK
    <2>3. Len(recorded[cur]) \in Nat /\ DOMAIN recorded[cur] = 1 .. Len(recorded[cur])
        BY <2>2
    <2>4. IsFiniteSet(1 .. Len(recorded[cur]))
        BY <2>3, FS_Interval
    <2>5. Fresh \in SUBSET (1 .. Len(recorded[cur]))
        BY <2>1, <2>3
    <2>6. IsFiniteSet(Fresh)
        BY <2>4, <2>5, FS_Subset
    <2> QED BY <2>5, <2>6
<1> DEFINE m == Cardinality(Fresh)
<1>2. m \in Nat
    BY <1>1, FS_CardinalityType
<1>3. PICK order \in [1 .. m -> Fresh] :
             /\ \A n \in 1 .. m :
                   order[n] = CHOOSE i \in Fresh : Cardinality({k \in Fresh : k < i}) = n - 1
             /\ \A n, k \in 1 .. m : order[n] = order[k] => n = k
             /\ \A i \in Fresh : \E n \in 1 .. m : order[n] = i
    BY <1>1, Ranked
<1>4. FreshUrls = [n \in 1 .. m |-> Entry(order[n])]
    <2> DEFINE at(n) == CHOOSE i \in Fresh : Cardinality({k \in Fresh : k < i}) = n - 1
    <2>1. FreshUrls = [n \in 1 .. m |-> Entry(at(n))]
        BY DEF FreshUrls
    <2>2. \A n \in 1 .. m : at(n) = order[n]
        BY <1>3
    <2> HIDE DEF at, m
    <2> QED BY <2>1, <2>2
<1>5. \A n \in 1 .. m : Entry(order[n]) \in Urls
    BY <1>3, EntryIs DEF Fresh
<1> HIDE DEF m
<1> QED BY <1>2, <1>3, <1>4, <1>5

\* The rows are the fresh urls, each with a slug of its title that no row before it has.
SlugIs(rs, n) ==
    LET b == BaseOf[FreshUrls[n]] IN
    \E x \in Nat \ {0} :
        /\ rs[n].slug = Numbered(b, x)
        /\ \A k \in 1 .. n - 1 : rs[k].slug # Numbered(b, x)
        /\ x # 1 /\ b \notin Reserved => b \in Taken \/ \E k \in 1 .. n - 1 : rs[k].slug = b
        /\ Headed /\ Vacant => Numbered(b, x) \notin Taken

LEMMA LookUpIs ==
    ASSUME Typed, LookUp
    PROVE  /\ rows' \in Seq([url : Urls, slug : Slugs])
           /\ DOMAIN rows' = DOMAIN FreshUrls
           /\ \A n \in DOMAIN FreshUrls : rows'[n].url = FreshUrls[n] /\ SlugIs(rows', n)
<1>1. PICK m \in Nat : /\ FreshUrls \in [1 .. m -> Urls]
                       /\ \A n \in 1 .. m : \E i \in Fresh : Entry(i) = FreshUrls[n]
    <2>1. PICK m \in Nat : /\ FreshUrls \in [1 .. m -> Urls]
                           /\ \E order \in [1 .. m -> Fresh] :
                                \A n \in 1 .. m : FreshUrls[n] = Entry(order[n])
        BY FreshUrlsAre
    <2> QED BY <2>1
<1> DEFINE Rec(f) == [n \in 0 .. Len(FreshUrls) |->
                        IF n = 0 THEN [slug |-> NoSlug, taken |-> Prefetched]
                        ELSE Claim(FreshUrls[n], f[n - 1].taken)]
           claim == CHOOSE f : f = Rec(f)
<1>2. rows' = [n \in DOMAIN FreshUrls |-> [url |-> FreshUrls[n], slug |-> claim[n].slug]]
    BY DEF LookUp
<1>3. Len(FreshUrls) = m /\ DOMAIN FreshUrls = 1 .. m /\ \A n \in 1 .. m : FreshUrls[n] \in Urls
    BY <1>1
<1>4. Claimed(claim, m, FreshUrls)
    <2>1. PICK C : Claimed(C, m, FreshUrls)
        BY ClaimsExist
    <2>2. C = Rec(C)
        BY <1>3, <2>1 DEF Claimed, NoneClaimed
    <2> HIDE DEF Rec
    <2>3. claim = Rec(claim)
        BY <2>2
    <2> HIDE DEF claim
    <2> QED BY <1>3, <2>3 DEF Claimed, NoneClaimed, Rec
<1> HIDE DEF claim, Rec
<1>5. feeds \in [Urls -> Feed \cup {NoFeed}]
    BY DEF Typed, TypeOK
<1>6. \A n \in 0 .. m : KnownAfter(claim, n)
    BY <1>1, <1>4, <1>5, KnownIs
<1>7. rows' = [n \in 1 .. m |-> [url |-> FreshUrls[n], slug |-> claim[n].slug]]
    BY <1>2, <1>3
<1>8. \A n \in 1 .. m : rows'[n].url = FreshUrls[n] /\ rows'[n].slug = claim[n].slug
    BY <1>7
<1>9. ASSUME NEW n \in 1 .. m
      PROVE  SlugIs(rows', n)
    <2> DEFINE u == FreshUrls[n]
               known == claim[n - 1].taken
    <2>1. /\ u \in Urls /\ (\E i \in Fresh : Entry(i) = u)
          /\ claim[n] = Claim(u, known)
        BY <1>1, <1>4 DEF Claimed
    <2>2. /\ IsFiniteSet(known) /\ Prefetched \subseteq known
          /\ \A k \in 1 .. n - 1 : claim[k].slug \in known
          /\ \A t \in known : t \in Taken \/ \E k \in 1 .. n - 1 : t = claim[k].slug
        <3>1. n - 1 \in 0 .. m
            OBVIOUS
        <3> QED BY <1>6, <3>1 DEF KnownAfter
    <2> HIDE DEF known
    <2>3. PICK x \in Nat \ {0} :
                /\ Claim(u, known).slug = Numbered(BaseOf[u], x)
                /\ Numbered(BaseOf[u], x) \notin known
                /\ x # 1 /\ BaseOf[u] \notin Reserved => BaseOf[u] \in known \cup Taken
                /\ Headed /\ Vacant /\ (\E i \in Fresh : Entry(i) = u) =>
                      Numbered(BaseOf[u], x) \notin Taken
        BY <1>5, <2>1, <2>2, ClaimIs
    <2>4. \A k \in 1 .. n - 1 : rows'[k].slug = claim[k].slug
        BY <1>8
    <2>5. /\ rows'[n].slug = Numbered(BaseOf[u], x)
          /\ \A k \in 1 .. n - 1 : rows'[k].slug # Numbered(BaseOf[u], x)
          /\ x # 1 /\ BaseOf[u] \notin Reserved =>
                BaseOf[u] \in Taken \/ \E k \in 1 .. n - 1 : rows'[k].slug = BaseOf[u]
          /\ Headed /\ Vacant => Numbered(BaseOf[u], x) \notin Taken
        BY <1>8, <2>1, <2>2, <2>3, <2>4
    <2> QED BY <2>5 DEF SlugIs
<1>10. rows' \in Seq([url : Urls, slug : Slugs])
    <2>1. ASSUME NEW n \in 1 .. m
          PROVE  claim[n].slug \in Slugs
        <3>1. BaseOf[FreshUrls[n]] \in Slugs
            BY <1>3, UploadAssumption
        <3>2. PICK x \in Nat \ {0} : rows'[n].slug = Numbered(BaseOf[FreshUrls[n]], x)
            BY <1>9 DEF SlugIs
        <3> QED BY <1>8, <3>1, <3>2, NumberedIs
    <2> QED BY <1>3, <1>7, <2>1
<1>11. DOMAIN rows' = 1 .. m
    BY <1>7
<1> QED BY <1>3, <1>8, <1>9, <1>10, <1>11

LEMMA WriteTyped ==
    ASSUME Typed, InsertChunk
    PROVE  feeds' \in [Urls -> Feed \cup {NoFeed}] /\ rows' \in Seq([url : Urls, slug : Slugs])
<1> DEFINE n == IF Chunk < Len(rows) THEN Chunk ELSE Len(rows)
           chunk == {i \in 1 .. n : Inserted(rows[i])}
           Row == [url : Urls, slug : Slugs]
           new(u) == [slug |-> rows[CHOOSE i \in chunk : rows[i].url = u].slug,
                      by |-> cur, status |-> "pending"]
<1>1. /\ rows \in Seq(Row) /\ cur \in Subs /\ feeds \in [Urls -> Feed \cup {NoFeed}]
      /\ Chunk \in Nat \ {0} /\ Len(rows) \in Nat
    BY UploadAssumption DEF Typed, TypeOK
<1>2. n \in 0 .. Len(rows)
    BY <1>1
<1>3. /\ feeds' = [u \in Urls |-> IF \E i \in chunk : rows[i].url = u THEN new(u) ELSE feeds[u]]
      /\ rows' = SubSeq(rows, n + 1, Len(rows))
    BY DEF InsertChunk
<1> HIDE DEF n
<1>4. \A i \in chunk : rows[i] \in Row /\ rows[i].slug \in Slugs
    <2>1. \A i \in chunk : i \in 1 .. Len(rows)
        BY <1>1, <1>2
    <2> HIDE DEF chunk, Row
    <2>2. \A i \in chunk : rows[i] \in Row
        BY <1>1, <2>1
    <2> QED BY <2>2 DEF Row
<1>5. ASSUME NEW u \in Urls, \E i \in chunk : rows[i].url = u
      PROVE  new(u) \in Feed
    <2> DEFINE k == CHOOSE i \in chunk : rows[i].url = u
    <2>1. k \in chunk
        BY <1>5
    <2> HIDE DEF k, chunk
    <2>2. rows[k].slug \in Slugs
        BY <1>4, <2>1
    <2>3. new(u) = [slug |-> rows[k].slug, by |-> cur, status |-> "pending"]
        BY DEF k
    <2> HIDE DEF new
    <2> QED BY <1>1, <2>2, <2>3 DEF Feed
<1> HIDE DEF new, chunk
<1>6. feeds' \in [Urls -> Feed \cup {NoFeed}]
    BY <1>1, <1>3, <1>5
<1>7. rows' \in Seq(Row)
    <2> HIDE DEF Row
    <2>1. n + 1 \in Int /\ Len(rows) \in Int
        BY <1>1, <1>2
    <2>2. \A i \in n + 1 .. Len(rows) : rows[i] \in Row
        BY <1>1, <1>2
    <2>3. SubSeq(rows, n + 1, Len(rows)) \in Seq(Row)
        BY <2>1, <2>2, SubSeqProperties
    <2> QED BY <1>3, <2>3
<1> QED BY <1>6, <1>7

LEMMA JobTyped ==
    ASSUME Typed, ImportTick \/ DrainThrows \/ PassDies
    PROVE  Typed'
<1>1. Inv'
    <2>1. [Next]_vars
        BY DEF Next
    <2> QED BY <2>1, NextInv DEF Typed
<1>2. due' \in Seq(Subs) /\ mails' \in Seq([sub : Subs, queued : Nat]) /\ mishaps' \in Nat
    BY <1>1 DEF Inv, Kinds, Letter
<1>3. UNCHANGED <<sent, recorded, ready, repeats>>
    BY DEF ImportTick, PickUp, NothingToDrain, LookUp, InsertChunk, Drop, Complete, FindDue, Mail,
           Mark, DrainThrows, PassDies, upload
<1>4. /\ cur \in Subs /\ slice \subseteq DOMAIN recorded[cur] /\ notified \subseteq Subs
      /\ email \subseteq Subs /\ staged \in [Subs -> SUBSET Nat]
      /\ \A s \in Subs : staged[s] \subseteq DOMAIN recorded[s]
      /\ feeds \in [Urls -> Feed \cup {NoFeed}] /\ rows \in Seq([url : Urls, slug : Slugs])
      /\ due \in Seq(Subs)
    BY DEF Typed, TypeOK
<1>5. pc' \in {"rest", "look", "write", "drop", "complete", "notices", "mail", "mark"}
    BY DEF ImportTick, PickUp, NothingToDrain, LookUp, InsertChunk, Drop, Complete, FindDue, Mail,
           Mark, DrainThrows, PassDies
<1>6. cur' \in Subs /\ slice' \subseteq DOMAIN recorded[cur']
    <2>1. CASE PickUp
        BY <1>4, <2>1 DEF PickUp, Oldest
    <2>2. CASE ~PickUp
        <3>1. cur' = cur /\ (slice' = slice \/ slice' = {})
            BY <2>2 DEF ImportTick, NothingToDrain, LookUp, InsertChunk, Drop, Complete, FindDue,
                        Mail, Mark, DrainThrows, PassDies
        <3> QED BY <1>4, <3>1
    <2> QED BY <2>1, <2>2
<1>7. email' \subseteq Subs
    <2>1. email' = email \/ email' = email \ {cur}
        BY DEF ImportTick, PickUp, NothingToDrain, LookUp, InsertChunk, Drop, Complete, FindDue,
               Mail, Mark, DrainThrows, PassDies, upload
    <2> QED BY <1>4, <2>1
<1>8. notified' \subseteq Subs
    <2>1. CASE Mark
        <3>1. due # <<>>
            BY <2>1 DEF Typed, Inv, DueInv, Mark
        <3>2. Head(due) \in Subs
            BY <1>4, <3>1
        <3> QED BY <1>4, <2>1, <3>2 DEF Mark
    <2>2. CASE ~Mark
        BY <1>4, <2>2 DEF ImportTick, PickUp, NothingToDrain, LookUp, InsertChunk, Drop, Complete,
                          FindDue, Mail, DrainThrows, PassDies
    <2> QED BY <2>1, <2>2
<1>9. staged' \in [Subs -> SUBSET Nat] /\ \A s \in Subs : staged'[s] \subseteq DOMAIN recorded[s]
    <2>1. CASE Drop
        <3>1. staged' = [staged EXCEPT ![cur] = staged[cur] \ slice]
            BY <2>1 DEF Drop
        <3> QED BY <1>4, <3>1
    <2>2. CASE ~Drop
        <3>1. staged' = staged
            BY <2>2 DEF ImportTick, PickUp, NothingToDrain, LookUp, InsertChunk, Complete, FindDue,
                        Mail, Mark, DrainThrows, PassDies, upload
        <3> QED BY <1>4, <3>1
    <2> QED BY <2>1, <2>2
<1>10. feeds' \in [Urls -> Feed \cup {NoFeed}] /\ rows' \in Seq([url : Urls, slug : Slugs])
    <2>1. CASE LookUp
        BY <1>4, <2>1, LookUpIs DEF LookUp
    <2>2. CASE InsertChunk
        BY <2>2, WriteTyped
    <2>3. CASE ~LookUp /\ ~InsertChunk
        <3>1. feeds' = feeds /\ (rows' = rows \/ rows' = <<>>)
            BY <2>3 DEF ImportTick, PickUp, NothingToDrain, Drop, Complete, FindDue, Mail, Mark,
                        DrainThrows, PassDies
        <3>2. <<>> \in Seq([url : Urls, slug : Slugs])
            OBVIOUS
        <3> QED BY <1>4, <3>1, <3>2
    <2> QED BY <2>1, <2>2, <2>3
<1>11. TypeOK'
    BY <1>2, <1>3, <1>5, <1>6, <1>7, <1>8, <1>9, <1>10 DEF Typed, TypeOK
<1>12. PageInv'
    BY <1>3 DEF Typed, PageInv
<1> QED BY <1>1, <1>11, <1>12 DEF Typed

LEMMA NextTyped ==
    ASSUME Typed, [Next]_vars
    PROVE  Typed'
<1>1. CASE UNCHANGED vars
    BY <1>1 DEF Typed, Inv, Kinds, DueInv, OnceInv, Accounted, LettersTo, TypeOK, PageInv, vars
<1>2. CASE Next
    BY <1>2, StageTyped, StageAgainTyped, HandOverTyped, DirectoryTyped, JobTyped
       DEF Next, Visitor
<1> QED BY <1>1, <1>2

LEMMA InitTyped ==
    ASSUME Init
    PROVE  Typed
<1>1. /\ sent = [s \in Subs |-> 0] /\ recorded = [s \in Subs |-> <<>>]
      /\ staged = [s \in Subs |-> {}] /\ cur = CHOOSE s \in Subs : TRUE
    BY DEF Init
<1>2. cur \in Subs
    BY <1>1, UploadAssumption
<1>3. /\ sent \in [Subs -> Nat] /\ recorded \in [Subs -> Seq(Nat)]
      /\ staged \in [Subs -> SUBSET Nat]
      /\ \A s \in Subs : sent[s] = 0 /\ recorded[s] = <<>> /\ staged[s] = {}
    BY <1>1
<1>4. \A s \in Subs : Range(recorded[s]) = 1 .. sent[s] /\ sent[s] <= Len(Upload[s])
    <2>1. \A s \in Subs : Len(Upload[s]) \in Nat
        BY UploadAssumption
    <2>2. Range(<<>>) = {} /\ 1 .. 0 = {}
        BY DEF Range
    <2>3. ASSUME NEW s \in Subs
          PROVE  Range(recorded[s]) = 1 .. sent[s] /\ sent[s] <= Len(Upload[s])
        <3>1. Range(recorded[s]) = {}
            BY <1>3, <2>2
        <3>2. sent[s] = 0 /\ Len(Upload[s]) \in Nat
            BY <1>3, <2>1
        <3> QED BY <2>2, <3>1, <3>2
    <2> QED BY <2>3
<1>5. feeds \in [Urls -> Feed \cup {NoFeed}]
    <2>1. \A u \in Urls : Listed[u] # NoSlug =>
             [slug |-> Listed[u], by |-> "nobody", status |-> "active"] \in Feed
        BY UploadAssumption DEF Feed
    <2> QED BY <2>1 DEF Init
<1>6. TypeOK
    BY <1>2, <1>3, <1>4, <1>5 DEF Init, TypeOK
<1>7. PageInv
    <2>1. 0 % Batch = 0
        BY UploadAssumption
    <2> QED BY <1>3, <2>1 DEF PageInv
<1> QED BY <1>6, <1>7, InitInv DEF Typed

\* packages/ingest and the staging routes: for any lists, pages, slices and faults,
\* what is staged is of the list, and a row to write is a url with a slug.
THEOREM ImportsTyped == Spec => []TypeOK
<1>1. Typed /\ [Next]_vars => Typed'
    BY NextTyped
<1>2. Typed => TypeOK
    BY DEF Typed
<1> QED BY InitTyped, <1>1, <1>2, PTL DEF Spec

-----------------------------------------------------------------------------
(* What a drain writes: every entry becomes a feed.                        *)

\* A slug found free is free when it is written. Nobody else inserts feeds between a
\* lookup and its writes; a title with numbered slugs in the directory has its own there;
\* no title is another with a number; a reserved title is of one feed, and no slug of it is
\* another's; and no publisher that asked to be taken down shares a title with a feed that
\* may be listed.
Tidy ==
    /\ Calm
    /\ \A u \in Urls, b \in Titles \ Reserved, n \in Nat \ {0} :
          Listed[u] = Numbered(b, n) => \E v \in Urls : Listed[v] = b
    /\ \A b, c \in Titles, n \in Nat \ {0} : b = Numbered(c, n) => b = c
    /\ \A u, v \in Urls, n \in Nat \ {0} :
          BaseOf[u] \in Reserved /\ (BaseOf[v] = BaseOf[u] \/ Listed[v] = Numbered(BaseOf[u], n))
             => v = u
    /\ \A u \in Removed \ Invalid, v \in Urls \ (Invalid \cup Removed) :
          BaseOf[u] # BaseOf[v]

\* The numbered slugs of two titles are different slugs.
LEMMA Apart ==
    ASSUME Tidy
    PROVE  \A b, c \in Titles : \A n, m \in Nat \ {0} :
              Numbered(b, n) = Numbered(c, m) => b = c /\ n = m
<1> SUFFICES ASSUME NEW b \in Titles, NEW c \in Titles,
                    NEW n \in Nat \ {0}, NEW m \in Nat \ {0}, Numbered(b, n) = Numbered(c, m)
             PROVE  b = c /\ n = m
    OBVIOUS
<1>1. b \in Slugs /\ c \in Slugs
    BY UploadAssumption DEF Titles
<1>2. b = c
    <2>1. CASE n = 1
        <3>1. b = Numbered(c, m)
            BY <2>1 DEF Numbered
        <3> QED BY <3>1 DEF Tidy
    <2>2. CASE m = 1
        <3>1. c = Numbered(b, n)
            BY <2>2 DEF Numbered
        <3> QED BY <3>1 DEF Tidy
    <2>3. CASE n # 1 /\ m # 1
        <3> DEFINE W == Words \cup Nat
        <3>1. b \in Seq(W) /\ c \in Seq(W) /\ n \in W /\ m \in W
            BY <1>1 DEF Slugs
        <3>2. Append(b, n) = Append(c, m)
            BY <2>3 DEF Numbered
        <3> HIDE DEF W
        <3>3. /\ Len(b) \in Nat /\ Len(c) \in Nat
              /\ Len(Append(b, n)) = Len(b) + 1 /\ Len(Append(c, m)) = Len(c) + 1
              /\ \A i \in 1 .. Len(b) : Append(b, n)[i] = b[i]
              /\ \A i \in 1 .. Len(c) : Append(c, m)[i] = c[i]
            BY <3>1
        <3>4. Len(b) = Len(c) /\ \A i \in 1 .. Len(b) : b[i] = c[i]
            BY <3>2, <3>3
        <3> QED BY <3>1, <3>4, SeqEqual
    <2> QED BY <2>1, <2>2, <2>3
<1> QED BY <1>1, <1>2, NumberedIs

\* A row to write is of a url the directory has not, with a slug it has not.
RowIs(i) ==
    /\ rows[i].url \notin Invalid /\ ~Known(rows[i].url)
    /\ \E n \in Nat \ {0} : rows[i].slug = Numbered(BaseOf[rows[i].url], n)
    /\ rows[i].slug \notin Taken

\* Its title is the slug of a feed, or of a row before it, unless it is its own.
Lower(i) ==
    LET b == BaseOf[rows[i].url] IN
    rows[i].url \notin Removed /\ b \notin Reserved /\ rows[i].slug # b =>
       b \in Taken \/ \E k \in 1 .. i - 1 : rows[k].slug = b

RowsInv ==
    pc = "write" =>
       /\ \A i \in DOMAIN rows : RowIs(i) /\ Lower(i)
       /\ \A i, k \in DOMAIN rows : i # k => /\ rows[i].url # rows[k].url
                                             /\ rows[i].slug # rows[k].slug

\* An entry of the slice has its feed, or a row that will be one.
Covered(i) == Handled(Entry(i)) \/ \E k \in DOMAIN rows : rows[k].url = Entry(i)

SliceInv ==
    /\ pc = "write" => \A i \in slice : Covered(i)
    /\ pc = "drop" => \A i \in slice : Handled(Entry(i))

Drained == Headed /\ Vacant /\ RowsInv /\ SliceInv /\ EntriesBecomeFeeds

\* A feed of the directory stays, under its slug.
LEMMA DirectoryGrows ==
    ASSUME Typed, Typed',
           \A u \in Urls : Known(u) => Known(u)' /\ feeds'[u].slug = feeds[u].slug
    PROVE  /\ \A u \in Urls : Handled(u) => Handled(u)'
           /\ \A t : t \in Taken => t \in Taken'
           /\ \A t : t \in Taken' <=> \E u \in Urls : Known(u)' /\ feeds'[u].slug = t
<1>1. feeds \in [Urls -> Feed \cup {NoFeed}] /\ feeds' \in [Urls -> Feed \cup {NoFeed}]
    BY DEF Typed, TypeOK
<1>2. \A t : t \in Taken <=> \E u \in Urls : Known(u) /\ feeds[u].slug = t
    BY <1>1, TakenIs
<1>3. \A t : t \in Taken' <=> \E u \in Urls : Known(u)' /\ feeds'[u].slug = t
    <2>1. NoFeed.slug = NoSlug /\ NoSlug \notin Slugs
        BY UploadAssumption DEF NoFeed
    <2>2. \A u \in Urls : Known(u)' => feeds'[u].slug \in Slugs
        BY <1>1 DEF Known, Feed
    <2>3. \A u \in Urls : ~Known(u)' => feeds'[u].slug = NoSlug
        BY <2>1 DEF Known
    <2> QED BY <2>1, <2>2, <2>3 DEF Taken
<1> QED BY <1>2, <1>3 DEF Handled

\* Steps that leave the directory and the rows to write alone.
LEMMA RowsKept ==
    ASSUME Drained, feeds' = feeds, cur' = cur, slice' = slice, rows' = rows, pc' = pc,
           \A i \in slice : recorded'[cur][i] = recorded[cur][i]
    PROVE  Headed' /\ Vacant' /\ RowsInv' /\ SliceInv'
<1>1. Taken' = Taken /\ \A u : (Known(u)' <=> Known(u)) /\ (Handled(u)' <=> Handled(u))
    BY DEF Taken, Known, Handled
<1>2. \A i \in slice : Entry(i)' = Entry(i)
    BY DEF Entry
<1>3. Headed' /\ Vacant'
    BY <1>1 DEF Drained, Headed, Vacant
<1>4. \A i : (RowIs(i)' <=> RowIs(i)) /\ (Lower(i)' <=> Lower(i))
    BY <1>1 DEF RowIs, Lower
<1>5. RowsInv'
    BY <1>4 DEF Drained, RowsInv
<1>6. \A i \in slice : (Covered(i)' <=> Covered(i)) /\ (Handled(Entry(i))' <=> Handled(Entry(i)))
    BY <1>1, <1>2 DEF Covered
<1>7. SliceInv'
    BY <1>6 DEF Drained, SliceInv
<1> QED BY <1>3, <1>5, <1>7

\* Steps that end outside the drain's writes.
LEMMA RowsLeft ==
    ASSUME Drained, feeds' = feeds, pc' \notin {"write", "drop"}
    PROVE  Headed' /\ Vacant' /\ RowsInv' /\ SliceInv'
<1>1. Taken' = Taken /\ \A u : Known(u)' <=> Known(u)
    BY DEF Taken, Known
<1> QED BY <1>1 DEF Drained, Headed, Vacant, RowsInv, SliceInv

\* The staged rows and the places they hold are what they were.
LEMMA EntriesKept ==
    ASSUME Drained, sent' = sent, recorded' = recorded, staged' = staged,
           \A u \in Urls : Handled(u) => Handled(u)', Typed
    PROVE  EntriesBecomeFeeds'
<1> SUFFICES ASSUME NEW s \in Subs, NEW i \in 1 .. sent[s]
             PROVE  Handled(Upload[s][i])' \/ \E n \in staged[s] : recorded[s][n] = i
    BY DEF EntriesBecomeFeeds
<1>1. Handled(Upload[s][i]) \/ \E n \in staged[s] : recorded[s][n] = i
    BY DEF Drained, EntriesBecomeFeeds
<1>2. Upload[s] \in Seq(Urls) /\ sent[s] \in Nat /\ sent[s] <= Len(Upload[s])
    BY UploadAssumption DEF Typed, TypeOK
<1>3. Upload[s][i] \in Urls
    BY <1>2
<1> QED BY <1>1, <1>3

\* Recording a batch of places loses none of those posted.
LEMMA StageDrains ==
    ASSUME Typed, Drained, NEW s \in Subs, NEW places \in Seq(Nat), Record(s, places),
           feeds' = feeds, UNCHANGED job, sent' \in [Subs -> Nat],
           \A t \in Subs \ {s} : sent'[t] = sent[t],
           \A i \in 1 .. sent'[s] : i \in 1 .. sent[s] \/ \E n \in 1 .. Len(places) : places[n] = i
    PROVE  Drained'
<1>1. /\ \A t \in Subs \ {s} : recorded'[t] = recorded[t] /\ staged'[t] = staged[t]
      /\ DOMAIN recorded[s] = 1 .. Len(recorded[s])
      /\ \A n \in DOMAIN recorded[s] : recorded'[s][n] = recorded[s][n]
      /\ \A n \in 1 .. Len(places) : recorded'[s][Len(recorded[s]) + n] = places[n]
      /\ staged'[s] = staged[s] \cup (Len(recorded[s]) + 1 .. Len(recorded[s]) + Len(places))
    BY RecordIs DEF Typed
<1>2. /\ cur \in Subs /\ slice \subseteq DOMAIN recorded[cur]
      /\ staged[s] \subseteq DOMAIN recorded[s]
      /\ recorded[s] \in Seq(Nat)
    BY DEF Typed, TypeOK
<1>3. \A i \in slice : recorded'[cur][i] = recorded[cur][i]
    BY <1>1, <1>2
<1>4. Headed' /\ Vacant' /\ RowsInv' /\ SliceInv'
    BY <1>3, RowsKept DEF job
<1>5. \A u : Handled(u)' <=> Handled(u)
    BY DEF Handled, Known
<1>6. ASSUME NEW t \in Subs, NEW i \in 1 .. sent'[t]
      PROVE  Handled(Upload[t][i])' \/ \E n \in staged'[t] : recorded'[t][n] = i
    <2>1. \A k \in 1 .. sent[t] : Handled(Upload[t][k]) \/ \E n \in staged[t] : recorded[t][n] = k
        BY DEF Drained, EntriesBecomeFeeds
    <2>2. CASE t # s
        BY <1>1, <1>5, <2>1, <2>2
    <2>3. CASE t = s /\ i \in 1 .. sent[s]
        BY <1>1, <1>2, <1>5, <2>1, <2>3
    <2>4. CASE t = s /\ \E n \in 1 .. Len(places) : places[n] = i
        <3>1. PICK n \in 1 .. Len(places) : places[n] = i
            BY <2>4
        <3>2. Len(recorded[s]) + n \in Len(recorded[s]) + 1 .. Len(recorded[s]) + Len(places)
            BY <1>2
        <3>3. Len(recorded[s]) + n \in staged'[s] /\ recorded'[s][Len(recorded[s]) + n] = i
            BY <1>1, <3>1, <3>2
        <3> QED BY <2>4, <3>3
    <2> QED BY <2>2, <2>3, <2>4
<1>7. EntriesBecomeFeeds'
    BY <1>6 DEF EntriesBecomeFeeds
<1> QED BY <1>4, <1>7 DEF Drained

\* The page's posts and hand-overs lose no entry.
LEMMA VisitorDrains ==
    ASSUME Typed, Drained, Visitor
    PROVE  Drained'
<1>1. ASSUME NEW s \in Subs, Stage(s)
      PROVE  Drained'
    <2> DEFINE b == BatchAfter(s, sent[s])
    <2>1. /\ sent[s] < Len(Upload[s]) /\ Record(s, b) /\ feeds' = feeds /\ UNCHANGED job
          /\ sent' = [sent EXCEPT ![s] = sent[s] + Len(b)]
        BY <1>1 DEF Stage
    <2>2. sent \in [Subs -> Nat] /\ sent[s] \in Nat
        BY DEF Typed, TypeOK
    <2>3. b \in Seq(Nat) /\ Len(b) \in Nat /\ \A n \in 1 .. Len(b) : b[n] = sent[s] + n
        BY <2>1, <2>2, BatchIs
    <2> HIDE DEF b
    <2>4. /\ sent' \in [Subs -> Nat] /\ sent'[s] = sent[s] + Len(b)
          /\ \A t \in Subs \ {s} : sent'[t] = sent[t]
        BY <2>1, <2>2, <2>3
    <2>5. ASSUME NEW i \in 1 .. sent'[s]
          PROVE  i \in 1 .. sent[s] \/ \E n \in 1 .. Len(b) : b[n] = i
        <3>1. i \in 1 .. sent[s] \/ (i - sent[s] \in 1 .. Len(b) /\ sent[s] + (i - sent[s]) = i)
            BY <2>2, <2>3, <2>4
        <3> QED BY <2>3, <3>1
    <2> QED BY <2>1, <2>3, <2>4, <2>5, StageDrains
<1>2. ASSUME NEW s \in Subs, NEW m \in 0 .. sent[s], StageAgain(s, m)
      PROVE  Drained'
    <2>1. /\ m < sent[s] /\ Record(s, BatchAfter(s, m)) /\ feeds' = feeds /\ UNCHANGED job
          /\ sent' = sent
        BY <1>2 DEF StageAgain
    <2>2. sent \in [Subs -> Nat] /\ sent[s] <= Len(Upload[s]) /\ Len(Upload[s]) \in Nat
        BY UploadAssumption DEF Typed, TypeOK
    <2>3. m \in Nat /\ m < Len(Upload[s])
        BY <2>1, <2>2
    <2>4. BatchAfter(s, m) \in Seq(Nat)
        BY <2>3, BatchIs
    <2> QED BY <2>1, <2>2, <2>4, StageDrains
<1>3. ASSUME NEW s \in Subs, Finish(s) \/ FinishAgain(s)
      PROVE  Drained'
    <2>1. UNCHANGED <<sent, recorded, staged, feeds, pc, cur, slice, rows>>
        BY <1>3 DEF Finish, FinishAgain, job
    <2>2. Headed' /\ Vacant' /\ RowsInv' /\ SliceInv'
        BY <2>1, RowsKept
    <2>3. \A u : Handled(u)' <=> Handled(u)
        BY <2>1 DEF Handled, Known
    <2> QED BY <2>1, <2>2, <2>3, EntriesKept DEF Drained
<1> QED BY <1>1, <1>2, <1>3 DEF Visitor

\* Rows to write are of urls, with slugs.
LEMMA RowTypes ==
    ASSUME Typed
    PROVE  /\ DOMAIN rows = 1 .. Len(rows) /\ Len(rows) \in Nat
           /\ \A i \in DOMAIN rows : rows[i].url \in Urls /\ rows[i].slug \in Slugs
<1> DEFINE Row == [url : Urls, slug : Slugs]
<1>1. rows \in Seq(Row)
    BY DEF Typed, TypeOK
<1> HIDE DEF Row
<1>2. DOMAIN rows = 1 .. Len(rows) /\ Len(rows) \in Nat /\ \A i \in DOMAIN rows : rows[i] \in Row
    BY <1>1
<1> QED BY <1>2 DEF Row

\* A feed inserted by another path, outside the window, leaves no base without its own slug.
LEMMA ElsewhereDrains ==
    ASSUME Tidy, Typed, Typed', Drained, NEW u \in Urls, InsertElsewhere(u)
    PROVE  Drained'
<1> DEFINE b == BaseOf[u]
           slug == FreeSlug(b, TakenFrom(First(u)))
<1>1. /\ ~Known(u) /\ pc # "write" /\ slug \notin Taken
      /\ feeds' = [feeds EXCEPT ![u] = [slug |-> slug, by |-> "nobody", status |-> "active"]]
      /\ UNCHANGED <<sent, recorded, staged, pc, cur, slice, rows>>
    BY DEF InsertElsewhere, Tidy, upload, job
<1>2. feeds \in [Urls -> Feed \cup {NoFeed}] /\ IsFiniteSet(Taken) /\ b \in Slugs /\ b \in Titles
    BY TakenIs, UploadAssumption DEF Typed, TypeOK, Titles
<1>3. PICK n \in Nat \ {0} : /\ slug = Numbered(b, n)
                             /\ slug \notin Taken
                             /\ n # 1 => b \in Taken \cup Reserved
    <2> DEFINE T == TakenFrom(First(u))
    <2>a. T \subseteq Taken /\ IsFiniteSet(T)
        BY <1>2, FS_Subset DEF TakenFrom
    <2>b. slug = FreeSlug(b, T) /\ b \in Slugs
        BY <1>2
    <2> HIDE DEF b, T, slug
    <2>1. PICK n \in Nat \ {0} : /\ FreeSlug(b, T) = Numbered(b, n)
                                 /\ \A j \in 1 .. n - 1 : Numbered(b, j) \in T \cup Reserved
        BY <2>a, <2>b, FreeSlugIs
    <2>2. n # 1 => 1 \in 1 .. n - 1
        OBVIOUS
    <2>3. Numbered(b, 1) = b
        BY DEF Numbered
    <2> QED BY <1>1, <2>a, <2>b, <2>1, <2>2, <2>3
<1> HIDE DEF slug
<1>4. /\ feeds'[u].slug = slug /\ \A v \in Urls \ {u} : feeds'[v] = feeds[v]
      /\ feeds'[u] = [slug |-> slug, by |-> "nobody", status |-> "active"]
    BY <1>1, <1>2
<1>5. Known(u)'
    <2>1. NoFeed.slug = NoSlug /\ NoSlug \notin Slugs /\ slug \in Slugs
        BY <1>2, <1>3, NumberedIs, UploadAssumption DEF NoFeed
    <2> QED BY <1>4, <2>1 DEF Known
<1>6. /\ \A v \in Urls : Handled(v) => Handled(v)'
      /\ \A t : t \in Taken => t \in Taken'
      /\ \A t : t \in Taken' <=> \E v \in Urls : Known(v)' /\ feeds'[v].slug = t
    <2>1. \A v \in Urls : Known(v) => Known(v)' /\ feeds'[v].slug = feeds[v].slug
        BY <1>1, <1>4 DEF Known
    <2> QED BY <2>1, DirectoryGrows
<1>7. \A t : t \in Taken' => t \in Taken \/ t = slug
    <2>1. \A v \in Urls \ {u} : Known(v)' => Known(v) /\ feeds'[v].slug = feeds[v].slug
        BY <1>4 DEF Known
    <2> QED BY <1>2, <1>4, <1>6, <2>1, TakenIs
<1>8. Headed'
    <2> SUFFICES ASSUME NEW c \in Titles \ Reserved, NEW m \in Nat \ {0}, Numbered(c, m) \in Taken'
                 PROVE  c \in Taken'
        BY DEF Headed
    <2>1. CASE Numbered(c, m) \in Taken
        BY <1>6, <2>1 DEF Drained, Headed
    <2>2. CASE Numbered(c, m) = slug
        <3>1. c = b /\ m = n
            BY <1>2, <1>3, <2>2, Apart
        <3>2. n = 1 => slug = b
            BY <1>3 DEF Numbered
        <3>3. slug \in Taken'
            BY <2>2
        <3> QED BY <1>3, <1>6, <3>1, <3>2, <3>3
    <2> QED BY <1>7, <2>1, <2>2
<1>11. Vacant'
    <2> SUFFICES ASSUME NEW v \in Urls, NEW m \in Nat \ {0}, BaseOf[v] \in Reserved, ~Known(v)'
                 PROVE  Numbered(BaseOf[v], m) \notin Taken'
        BY DEF Vacant
    <2>1. v # u /\ ~Known(v)
        BY <1>4, <1>5 DEF Known
    <2>2. Numbered(BaseOf[v], m) \notin Taken
        BY <2>1 DEF Drained, Vacant
    <2>3. ASSUME Numbered(BaseOf[v], m) = slug
          PROVE  FALSE
        <3>1. BaseOf[v] \in Titles
            BY DEF Titles
        <3>2. BaseOf[v] = b
            BY <1>2, <1>3, <2>3, <3>1, Apart
        <3> QED BY <2>1, <3>2 DEF Tidy
    <2> QED BY <1>7, <2>2, <2>3
<1>9. RowsInv'
    BY <1>1 DEF RowsInv
<1>10. SliceInv'
    <2>1. \A i \in slice : Entry(i)' = Entry(i) /\ Entry(i) \in Urls
        BY <1>1, EntryIs DEF Entry
    <2> QED BY <1>1, <1>6, <2>1 DEF Drained, SliceInv
<1> QED BY <1>1, <1>6, <1>8, <1>9, <1>10, <1>11, EntriesKept DEF Drained

\* The crawler settles a feed without touching its slug.
LEMMA CrawledDrains ==
    ASSUME Typed, Typed', Drained, NEW u \in Urls, Crawled(u)
    PROVE  Drained'
<1>1. PICK outcome : feeds' = [feeds EXCEPT ![u].status = outcome]
    BY DEF Crawled
<1>2. /\ Known(u) /\ UNCHANGED <<sent, recorded, staged, pc, cur, slice, rows>>
    BY DEF Crawled, upload, job
<1>3. feeds \in [Urls -> Feed \cup {NoFeed}] /\ feeds' \in [Urls -> Feed \cup {NoFeed}]
      /\ feeds[u] \in Feed
    BY <1>2 DEF Typed, TypeOK, Known
<1>4. feeds'[u].slug = feeds[u].slug /\ \A v \in Urls \ {u} : feeds'[v] = feeds[v]
    BY <1>1, <1>3 DEF Feed
<1>5. Known(u)'
    <2>1. NoFeed.slug = NoSlug /\ NoSlug \notin Slugs /\ feeds[u].slug \in Slugs
        BY <1>3, UploadAssumption DEF NoFeed, Feed
    <2> QED BY <1>4, <2>1 DEF Known
<1>6. \A v \in Urls : /\ Known(v)' <=> Known(v)
                      /\ feeds'[v].slug = feeds[v].slug
    BY <1>2, <1>4, <1>5 DEF Known
<1>7. /\ \A v \in Urls : Handled(v)' <=> Handled(v)
      /\ \A t : t \in Taken' <=> t \in Taken
    <2>1. \A t : t \in Taken' <=> \E v \in Urls : Known(v)' /\ feeds'[v].slug = t
        BY <1>6, DirectoryGrows
    <2>2. \A t : t \in Taken <=> \E v \in Urls : Known(v) /\ feeds[v].slug = t
        BY <1>3, TakenIs
    <2> QED BY <1>6, <2>1, <2>2 DEF Handled
<1>8. Headed' /\ Vacant'
    BY <1>6, <1>7 DEF Drained, Headed, Vacant
<1>9. RowsInv'
    <2>1. \A i \in DOMAIN rows : rows[i].url \in Urls
        BY RowTypes
    <2>2. \A i \in DOMAIN rows : (RowIs(i) => RowIs(i)') /\ (Lower(i) => Lower(i)')
        BY <1>2, <1>6, <1>7, <2>1 DEF RowIs, Lower
    <2> QED BY <1>2, <2>2 DEF Drained, RowsInv
<1>10. SliceInv'
    <2>1. \A i \in slice : Entry(i)' = Entry(i) /\ Entry(i) \in Urls
        BY <1>2, EntryIs DEF Entry
    <2> QED BY <1>2, <1>7, <2>1 DEF Drained, SliceInv, Covered
<1> QED BY <1>2, <1>7, <1>8, <1>9, <1>10, EntriesKept DEF Drained

\* The lookup's rows cover the slice, under slugs that are free and leave no gap.
LEMMA LookUpDrains ==
    ASSUME Typed, Drained, LookUp
    PROVE  Drained'
<1>1. /\ UNCHANGED <<feeds, cur, slice, sent, recorded, staged>>
      /\ pc' = IF Fresh = {} THEN "drop" ELSE "write"
    BY DEF LookUp, upload
<1>2. PICK m \in Nat : /\ FreshUrls \in [1 .. m -> Urls]
                       /\ \E order \in [1 .. m -> Fresh] :
                            /\ \A n \in 1 .. m : FreshUrls[n] = Entry(order[n])
                            /\ \A n, k \in 1 .. m : order[n] = order[k] => n = k
                            /\ \A i \in Fresh : \E n \in 1 .. m : order[n] = i
    BY FreshUrlsAre
<1>3. PICK order \in [1 .. m -> Fresh] :
                            /\ \A n \in 1 .. m : FreshUrls[n] = Entry(order[n])
                            /\ \A n, k \in 1 .. m : order[n] = order[k] => n = k
                            /\ \A i \in Fresh : \E n \in 1 .. m : order[n] = i
    BY <1>2
<1>4. /\ DOMAIN rows' = 1 .. m
      /\ \A n \in 1 .. m : rows'[n].url = Entry(order[n]) /\ SlugIs(rows', n)
    <2>1. DOMAIN FreshUrls = 1 .. m
        BY <1>2
    <2> QED BY <1>3, <2>1, LookUpIs
<1>5. \A n \in 1 .. m : /\ order[n] \in Fresh /\ order[n] \in slice /\ order[n] \in Nat
                        /\ Entry(order[n]) \in Urls /\ Entry(order[n]) \notin Invalid
                        /\ ~Known(Entry(order[n]))
    BY <1>3, EntryIs DEF Fresh
<1>6. ASSUME NEW n \in 1 .. m
      PROVE  \E x \in Nat \ {0} : LET b == BaseOf[Entry(order[n])] IN
               /\ rows'[n].slug = Numbered(b, x)
               /\ Numbered(b, x) \notin Taken
               /\ \A k \in 1 .. n - 1 : rows'[k].slug # Numbered(b, x)
               /\ x # 1 /\ b \notin Reserved =>
                     b \in Taken \/ \E k \in 1 .. n - 1 : rows'[k].slug = b
    <2>1. FreshUrls[n] = Entry(order[n]) /\ SlugIs(rows', n)
        BY <1>3, <1>4
    <2>2. Headed /\ Vacant
        BY DEF Drained
    <2> QED BY <2>1, <2>2 DEF SlugIs
<1>7. Taken' = Taken /\ \A u : (Known(u)' <=> Known(u)) /\ (Handled(u)' <=> Handled(u))
    BY <1>1 DEF Taken, Known, Handled
<1>8. \A i \in slice : Entry(i)' = Entry(i)
    BY <1>1 DEF Entry
<1>9. Headed' /\ Vacant'
    BY <1>7 DEF Drained, Headed, Vacant
<1>10. RowsInv'
    <2>1. ASSUME NEW n \in 1 .. m
          PROVE  RowIs(n)' /\ Lower(n)'
        <3>1. rows'[n].url = Entry(order[n])
            BY <1>4
        <3>2. PICK x \in Nat \ {0} : LET b == BaseOf[Entry(order[n])] IN
               /\ rows'[n].slug = Numbered(b, x)
               /\ Numbered(b, x) \notin Taken
               /\ \A k \in 1 .. n - 1 : rows'[k].slug # Numbered(b, x)
               /\ x # 1 /\ b \notin Reserved =>
                     b \in Taken \/ \E k \in 1 .. n - 1 : rows'[k].slug = b
            BY <1>6
        <3>3. x = 1 => rows'[n].slug = BaseOf[Entry(order[n])]
            BY <3>2 DEF Numbered
        <3>4. RowIs(n)'
            BY <1>5, <1>7, <3>1, <3>2 DEF RowIs
        <3>5. Lower(n)'
            BY <1>7, <3>1, <3>2, <3>3 DEF Lower
        <3> QED BY <3>4, <3>5
    <2>2. ASSUME NEW n \in 1 .. m, NEW k \in 1 .. m, k < n
          PROVE  rows'[n].url # rows'[k].url /\ rows'[n].slug # rows'[k].slug
        <3>1. k \in 1 .. n - 1
            BY <2>2
        <3>2. rows'[n].slug # rows'[k].slug
            <4>1. PICK x : /\ rows'[n].slug = Numbered(BaseOf[Entry(order[n])], x)
                           /\ \A j \in 1 .. n - 1 :
                                 rows'[j].slug # Numbered(BaseOf[Entry(order[n])], x)
                BY <1>6
            <4> QED BY <3>1, <4>1
        <3>3. order[n] < order[k] \/ order[k] < order[n]
            BY <1>3, <1>5, <2>2
        <3>4. Entry(order[n]) # Entry(order[k])
            BY <1>5, <3>3 DEF Fresh
        <3> QED BY <1>4, <3>2, <3>4
    <2>3. \A n, k \in 1 .. m : n # k => n < k \/ k < n
        OBVIOUS
    <2>4. \A n, k \in 1 .. m : n # k => rows'[n].url # rows'[k].url /\ rows'[n].slug # rows'[k].slug
        BY <2>2, <2>3
    <2> QED BY <1>4, <2>1, <2>4 DEF RowsInv
<1>11. ASSUME NEW i \in slice
       PROVE  Handled(Entry(i)) \/ \E n \in 1 .. m : rows'[n].url = Entry(i)
    <2> DEFINE S == {k \in slice : Entry(k) = Entry(i)}
    <2>1. PICK k \in S : \A j \in S : k <= j
        <3>1. S \in SUBSET Nat /\ S # {}
            BY EntryIs
        <3> QED BY <3>1, LeastOf
    <2>2. k \in slice /\ Entry(k) = Entry(i) /\ k \in Nat
        BY <2>1, EntryIs
    <2>3. \A j \in slice : j < k => Entry(j) # Entry(k)
        <3>1. ASSUME NEW j \in slice, Entry(j) = Entry(k)
              PROVE  ~ (j < k)
            <4>1. j \in S /\ j \in Nat
                BY <2>2, <3>1, EntryIs
            <4>2. k <= j
                BY <2>1, <4>1
            <4> QED BY <2>2, <4>1, <4>2
        <3> QED BY <3>1
    <2>4. Handled(Entry(k)) \/ k \in Fresh
        BY <2>2, <2>3 DEF Fresh, Handled
    <2>5. k \in Fresh => \E n \in 1 .. m : rows'[n].url = Entry(k)
        <3>1. ASSUME k \in Fresh
              PROVE  \E n \in 1 .. m : rows'[n].url = Entry(k)
            <4>1. PICK n \in 1 .. m : order[n] = k
                BY <1>3, <3>1
            <4> QED BY <1>4, <4>1
        <3> QED BY <3>1
    <2> QED BY <2>2, <2>4, <2>5
<1>12. SliceInv'
    <2>1. Fresh = {} => ~ \E n \in 1 .. m : TRUE
        BY <1>5
    <2> QED BY <1>1, <1>4, <1>7, <1>8, <1>11, <2>1 DEF SliceInv, Covered
<1>13. EntriesBecomeFeeds'
    BY <1>1, <1>7, EntriesKept
<1> QED BY <1>9, <1>10, <1>12, <1>13 DEF Drained

\* A row whose slug is the title of one that may be listed may be listed too.
LEMMA BaseMates ==
    ASSUME Tidy, Typed, Drained, pc = "write",
           NEW i \in DOMAIN rows, NEW k \in DOMAIN rows,
           rows[i].url \notin Removed, rows[k].slug = BaseOf[rows[i].url]
    PROVE  rows[k].url \notin Removed
<1>1. RowIs(i) /\ RowIs(k) /\ rows[i].url \in Urls /\ rows[k].url \in Urls
    BY RowTypes DEF Drained, RowsInv
<1>2. BaseOf[rows[i].url] = BaseOf[rows[k].url]
    <2>1. PICK n \in Nat \ {0} : rows[k].slug = Numbered(BaseOf[rows[k].url], n)
        BY <1>1 DEF RowIs
    <2>2. rows[k].slug = Numbered(BaseOf[rows[i].url], 1)
        BY DEF Numbered
    <2>3. BaseOf[rows[i].url] \in Titles /\ BaseOf[rows[k].url] \in Titles
        BY <1>1 DEF Titles
    <2>4. Numbered(BaseOf[rows[k].url], n) = Numbered(BaseOf[rows[i].url], 1) /\ 1 \in Nat \ {0}
        BY <2>1, <2>2
    <2> QED BY <2>3, <2>4, Apart
<1>3. rows[i].url \in Urls \ (Invalid \cup Removed) /\ rows[k].url \notin Invalid
    BY <1>1 DEF RowIs
<1> QED BY <1>2, <1>3 DEF Tidy

\* A statement's rows become feeds, but of publishers taken down; the rest waits.
LEMMA WriteIs ==
    ASSUME Typed, Typed', Drained, InsertChunk
    PROVE  \E n \in 0 .. Len(rows) :
             /\ pc' = IF n = Len(rows) THEN "drop" ELSE "write"
             /\ DOMAIN rows' = 1 .. Len(rows) - n
             /\ \A i \in 1 .. Len(rows) - n : rows'[i] = rows[n + i]
             /\ \A u \in Urls : Known(u) => feeds'[u] = feeds[u]
             /\ \A u \in Urls : Known(u)' <=> \/ Known(u)
                                              \/ u \notin Removed /\ \E i \in 1 .. n : rows[i].url = u
             /\ \A t : t \in Taken' <=> \/ t \in Taken
                                        \/ \E i \in 1 .. n : /\ rows[i].url \notin Removed
                                                             /\ rows[i].slug = t
<1> DEFINE n == IF Chunk < Len(rows) THEN Chunk ELSE Len(rows)
           chunk == {i \in 1 .. n : Inserted(rows[i])}
           new(u) == [slug |-> rows[CHOOSE i \in chunk : rows[i].url = u].slug,
                      by |-> cur, status |-> "pending"]
<1>1. /\ pc = "write" /\ pc' = IF n = Len(rows) THEN "drop" ELSE "write"
      /\ feeds' = [u \in Urls |-> IF \E i \in chunk : rows[i].url = u THEN new(u) ELSE feeds[u]]
      /\ rows' = SubSeq(rows, n + 1, Len(rows))
    BY DEF InsertChunk
<1>2. n \in 0 .. Len(rows) /\ DOMAIN rows = 1 .. Len(rows) /\ Len(rows) \in Nat
    BY RowTypes, UploadAssumption
<1> HIDE DEF n
<1>3. rows \in Seq([url : Urls, slug : Slugs]) /\ feeds \in [Urls -> Feed \cup {NoFeed}]
    BY DEF Typed, TypeOK
<1>4. DOMAIN rows' = 1 .. Len(rows) - n /\ \A i \in 1 .. Len(rows) - n : rows'[i] = rows[n + i]
    <2>1. n + 1 \in Int /\ Len(rows) \in Int
        BY <1>2
    <2> DEFINE Row == [url : Urls, slug : Slugs]
    <2>a. rows \in Seq(Row)
        BY <1>3
    <2> HIDE DEF Row
    <2>b. \A i \in n + 1 .. Len(rows) : i \in 1 .. Len(rows)
        BY <1>2
    <2>2. \A i \in n + 1 .. Len(rows) : rows[i] \in Row
        BY <1>2, <2>a, <2>b
    <2>3. /\ rows' \in Seq(Row)
          /\ Len(rows') = IF n + 1 <= Len(rows) THEN Len(rows) - (n + 1) + 1 ELSE 0
          /\ \A i \in 1 .. Len(rows) - (n + 1) + 1 : rows'[i] = rows[(n + 1) + i - 1]
        BY <1>1, <2>1, <2>2, SubSeqProperties
    <2>4. Len(rows') = Len(rows) - n
        <3>1. CASE n + 1 <= Len(rows)
            BY <1>2, <2>3, <3>1
        <3>2. CASE ~ (n + 1 <= Len(rows))
            <4>1. \A x \in Nat : n <= x /\ ~ (n + 1 <= x) => n = x
                <5>1. n \in Nat
                    BY <1>2
                <5> QED BY <5>1
            <4>2. n <= Len(rows)
                BY <1>2
            <4>3. n = Len(rows)
                BY <1>2, <3>2, <4>1, <4>2
            <4> QED BY <1>2, <2>3, <3>2, <4>3
        <3> QED BY <3>1, <3>2
    <2>c. DOMAIN rows' = 1 .. Len(rows')
        BY <2>3
    <2>5. ASSUME NEW i \in 1 .. Len(rows) - n
          PROVE  rows'[i] = rows[n + i]
        <3>1. (n + 1) + i - 1 = n + i /\ i \in 1 .. Len(rows) - (n + 1) + 1
            BY <1>2
        <3> QED BY <2>3, <3>1
    <2> QED BY <2>c, <2>4, <2>5
<1>5. \A i \in 1 .. n : i \in DOMAIN rows /\ rows[i].url \in Urls /\ rows[i].slug \in Slugs
    BY <1>2, RowTypes
<1>6. /\ \A i \in 1 .. n : ~Known(rows[i].url) /\ rows[i].slug \notin Taken
      /\ \A i, k \in 1 .. n : rows[i].url = rows[k].url => i = k
    BY <1>1, <1>5 DEF Drained, RowsInv, RowIs
<1>7. \A i : i \in chunk <=> i \in 1 .. n /\ rows[i].url \notin Removed
    BY <1>6 DEF Inserted
<1> HIDE DEF chunk
<1>8. ASSUME NEW i \in chunk
      PROVE  feeds'[rows[i].url] = [slug |-> rows[i].slug, by |-> cur, status |-> "pending"]
    <2> DEFINE k == CHOOSE j \in chunk : rows[j].url = rows[i].url
    <2>1. k \in chunk /\ rows[k].url = rows[i].url
        OBVIOUS
    <2> HIDE DEF k
    <2>2. k = i
        BY <1>6, <1>7, <2>1
    <2>3. new(rows[i].url) = [slug |-> rows[k].slug, by |-> cur, status |-> "pending"]
        BY DEF k
    <2> HIDE DEF new
    <2> QED BY <1>1, <1>5, <1>7, <2>2, <2>3
<1> HIDE DEF new
<1>9. \A u \in Urls : (~ \E i \in chunk : rows[i].url = u) => feeds'[u] = feeds[u]
    BY <1>1
<1>10. \A i \in chunk : feeds'[rows[i].url] # NoFeed /\ feeds'[rows[i].url].slug = rows[i].slug
    <2>1. NoFeed.slug = NoSlug /\ NoSlug \notin Slugs
        BY UploadAssumption DEF NoFeed
    <2>2. ASSUME NEW i \in chunk
          PROVE  feeds'[rows[i].url] # NoFeed /\ feeds'[rows[i].url].slug = rows[i].slug
        <3>1. rows[i].slug \in Slugs
            BY <1>5, <1>7, <2>2
        <3>2. feeds'[rows[i].url].slug = rows[i].slug
            <4>1. feeds'[rows[i].url] = [slug |-> rows[i].slug, by |-> cur, status |-> "pending"]
                BY <1>8, <2>2
            <4> QED BY <4>1
        <3>3. feeds'[rows[i].url] # NoFeed
            BY <2>1, <3>1, <3>2
        <3> QED BY <3>2, <3>3
    <2> QED BY <2>2
<1>11. \A u \in Urls : Known(u) => feeds'[u] = feeds[u]
    BY <1>6, <1>7, <1>9
<1>12. \A u \in Urls : Known(u)' <=> \/ Known(u)
                                     \/ u \notin Removed /\ \E i \in 1 .. n : rows[i].url = u
    <2>1. \A u \in Urls : (~ \E i \in chunk : rows[i].url = u) => (Known(u)' <=> Known(u))
        BY <1>9 DEF Known
    <2>2. ASSUME NEW u \in Urls, \E i \in chunk : rows[i].url = u
          PROVE  Known(u)'
        <3>1. PICK i \in chunk : rows[i].url = u
            BY <2>2
        <3>2. feeds'[rows[i].url] # NoFeed
            BY <1>10
        <3> QED BY <3>1, <3>2 DEF Known
    <2> QED BY <1>7, <2>1, <2>2
<1>13. \A t : t \in Taken' <=> \/ t \in Taken
                               \/ \E i \in 1 .. n : rows[i].url \notin Removed /\ rows[i].slug = t
    <2>1. \A t : t \in Taken' <=> \E u \in Urls : Known(u)' /\ feeds'[u].slug = t
        <3>1. \A u \in Urls : Known(u) => Known(u)' /\ feeds'[u].slug = feeds[u].slug
            BY <1>11, <1>12
        <3> QED BY <3>1, DirectoryGrows
    <2>2. \A t : t \in Taken <=> \E u \in Urls : Known(u) /\ feeds[u].slug = t
        BY <1>3, TakenIs
    <2>3. ASSUME NEW t, t \in Taken'
          PROVE  \/ t \in Taken
                 \/ \E i \in 1 .. n : rows[i].url \notin Removed /\ rows[i].slug = t
        <3>1. PICK u \in Urls : Known(u)' /\ feeds'[u].slug = t
            BY <2>1, <2>3
        <3>2. CASE \E i \in chunk : rows[i].url = u
            BY <1>7, <1>10, <3>1, <3>2
        <3>3. CASE ~ \E i \in chunk : rows[i].url = u
            BY <1>7, <1>9, <1>12, <2>2, <3>1, <3>3
        <3> QED BY <3>2, <3>3
    <2>4. \A t \in Taken : t \in Taken'
        BY <1>11, <1>12, <2>1, <2>2
    <2>5. ASSUME NEW i \in chunk
          PROVE  rows[i].slug \in Taken'
        <3>1. rows[i].url \in Urls
            BY <1>5, <1>7
        <3>2. \E u \in Urls : feeds'[u] # NoFeed /\ feeds'[u].slug = rows[i].slug
            <4>1. feeds'[rows[i].url] # NoFeed /\ feeds'[rows[i].url].slug = rows[i].slug
                BY <1>10
            <4> QED BY <3>1, <4>1
        <3> QED BY <2>1, <3>2 DEF Known
    <2> QED BY <1>7, <2>3, <2>4, <2>5
<1> QED BY <1>1, <1>2, <1>4, <1>11, <1>12, <1>13

\* What is not yet written keeps a slug that is free.
LEMMA WriteDrains ==
    ASSUME Tidy, Typed, Typed', Drained, InsertChunk
    PROVE  Drained'
<1>1. pc = "write" /\ UNCHANGED <<sent, recorded, staged, cur, slice>>
    BY DEF InsertChunk, upload
<1>2. PICK n \in 0 .. Len(rows) :
             /\ pc' = IF n = Len(rows) THEN "drop" ELSE "write"
             /\ DOMAIN rows' = 1 .. Len(rows) - n
             /\ \A i \in 1 .. Len(rows) - n : rows'[i] = rows[n + i]
             /\ \A u \in Urls : Known(u) => feeds'[u] = feeds[u]
             /\ \A u \in Urls : Known(u)' <=> \/ Known(u)
                                              \/ u \notin Removed /\ \E i \in 1 .. n : rows[i].url = u
             /\ \A t : t \in Taken' <=> \/ t \in Taken
                                        \/ \E i \in 1 .. n : /\ rows[i].url \notin Removed
                                                             /\ rows[i].slug = t
    BY WriteIs
<1>3. /\ DOMAIN rows = 1 .. Len(rows) /\ Len(rows) \in Nat
      /\ \A i \in DOMAIN rows : rows[i].url \in Urls /\ rows[i].slug \in Slugs
    BY RowTypes
<1>4. /\ \A i \in DOMAIN rows : RowIs(i) /\ Lower(i)
      /\ \A i, k \in DOMAIN rows : i # k => /\ rows[i].url # rows[k].url
                                            /\ rows[i].slug # rows[k].slug
    BY <1>1 DEF Drained, RowsInv
<1>5. \A u \in Urls : Handled(u) => Handled(u)'
    BY <1>2 DEF Handled
<1>6. ASSUME NEW i \in DOMAIN rows, rows[i].url \notin Removed,
             BaseOf[rows[i].url] \notin Reserved, rows[i].slug # BaseOf[rows[i].url]
      PROVE  \/ BaseOf[rows[i].url] \in Taken
             \/ \E k \in 1 .. i - 1 : /\ k \in DOMAIN rows /\ rows[k].url \notin Removed
                                      /\ rows[k].slug = BaseOf[rows[i].url]
    <2>1. \/ BaseOf[rows[i].url] \in Taken
          \/ \E k \in 1 .. i - 1 : rows[k].slug = BaseOf[rows[i].url]
        BY <1>4, <1>6 DEF Lower
    <2>2. ASSUME NEW k \in 1 .. i - 1, rows[k].slug = BaseOf[rows[i].url]
          PROVE  k \in DOMAIN rows /\ rows[k].url \notin Removed
        <3>1. k \in DOMAIN rows
            BY <1>3
        <3> QED BY <1>1, <1>6, <2>2, <3>1, BaseMates
    <2> QED BY <2>1, <2>2
<1>a. ASSUME NEW i \in 1 .. n, NEW b \in Titles, NEW m \in Nat \ {0}, rows[i].slug = Numbered(b, m)
      PROVE  BaseOf[rows[i].url] = b /\ i \in DOMAIN rows /\ rows[i].url \in Urls
    <2>1. i \in DOMAIN rows /\ rows[i].url \in Urls
        BY <1>3
    <2>2. PICK x \in Nat \ {0} : rows[i].slug = Numbered(BaseOf[rows[i].url], x)
        BY <1>4, <2>1 DEF RowIs
    <2>3. BaseOf[rows[i].url] \in Titles
        BY <2>1 DEF Titles
    <2>4. Numbered(BaseOf[rows[i].url], x) = Numbered(b, m)
        BY <1>a, <2>2
    <2>5. BaseOf[rows[i].url] = b
        BY <2>3, <2>4, Apart
    <2> QED BY <2>1, <2>5
<1>7. Headed'
    <2> SUFFICES ASSUME NEW b \in Titles \ Reserved, NEW m \in Nat \ {0}, Numbered(b, m) \in Taken'
                 PROVE  b \in Taken'
        BY DEF Headed
    <2>1. CASE Numbered(b, m) \in Taken
        BY <1>2, <2>1 DEF Drained, Headed
    <2>2. CASE \E i \in 1 .. n : rows[i].url \notin Removed /\ rows[i].slug = Numbered(b, m)
        <3>1. PICK i \in 1 .. n : rows[i].url \notin Removed /\ rows[i].slug = Numbered(b, m)
            BY <2>2
        <3>2. i \in DOMAIN rows /\ BaseOf[rows[i].url] = b
            BY <1>a, <3>1
        <3>3. CASE rows[i].slug = b
            BY <1>2, <3>1, <3>3
        <3>4. CASE rows[i].slug # b
            <4>1. \/ b \in Taken
                  \/ \E k \in 1 .. i - 1 : rows[k].url \notin Removed /\ rows[k].slug = b
                BY <1>6, <3>1, <3>2, <3>4
            <4>2. \A k \in 1 .. i - 1 : k \in 1 .. n
                OBVIOUS
            <4> QED BY <1>2, <4>1, <4>2
        <3> QED BY <3>3, <3>4
    <2> QED BY <1>2, <2>1, <2>2
<1>b. Vacant'
    <2> SUFFICES ASSUME NEW u \in Urls, NEW m \in Nat \ {0}, BaseOf[u] \in Reserved, ~Known(u)'
                 PROVE  Numbered(BaseOf[u], m) \notin Taken'
        BY DEF Vacant
    <2>1. Numbered(BaseOf[u], m) \notin Taken
        BY <1>2 DEF Drained, Vacant
    <2>2. ASSUME NEW i \in 1 .. n, rows[i].url \notin Removed,
                 rows[i].slug = Numbered(BaseOf[u], m)
          PROVE  FALSE
        <3> DEFINE b == BaseOf[u]
        <3>a. b \in Titles
            BY DEF Titles
        <3>b. rows[i].slug = Numbered(b, m)
            BY <2>2
        <3> HIDE DEF b
        <3>c. BaseOf[rows[i].url] = b /\ rows[i].url \in Urls
            BY <1>a, <3>a, <3>b
        <3>1. BaseOf[rows[i].url] = BaseOf[u] /\ rows[i].url \in Urls
            BY <3>c DEF b
        <3>2. rows[i].url = u
            BY <3>1 DEF Tidy
        <3> QED BY <1>2, <2>2, <3>2
    <2> QED BY <1>2, <2>1, <2>2
<1>8. ASSUME NEW i \in 1 .. Len(rows) - n
      PROVE  RowIs(i)' /\ Lower(i)'
    <2>1. /\ n + i \in DOMAIN rows /\ rows'[i] = rows[n + i]
          /\ \A k \in 1 .. n : k # n + i /\ k \in DOMAIN rows
        <3>1. n + i \in 1 .. Len(rows)
            BY <1>3
        <3>2. \A k \in 1 .. n : k # n + i /\ k \in 1 .. Len(rows)
            BY <1>3
        <3> QED BY <1>2, <1>3, <3>1, <3>2
    <2>2. RowIs(n + i) /\ rows[n + i].url \in Urls
        BY <1>3, <1>4, <2>1
    <2>3. feeds'[rows[n + i].url] = NoFeed /\ rows[n + i].slug \notin Taken'
        <3>1. ~Known(rows[n + i].url) /\ rows[n + i].slug \notin Taken
            BY <2>2 DEF RowIs
        <3>2. \A k \in 1 .. n : rows[k].url # rows[n + i].url /\ rows[k].slug # rows[n + i].slug
            BY <1>4, <2>1
        <3>3. feeds'[rows[n + i].url] = NoFeed
            <4>1. ASSUME NEW u \in Urls, u = rows[n + i].url
                  PROVE  ~Known(u)'
                BY <1>2, <3>1, <3>2, <4>1
            <4> QED BY <2>2, <4>1 DEF Known
        <3>4. rows[n + i].slug \notin Taken'
            <4> DEFINE t == rows[n + i].slug
            <4>1. t \in Taken' => t \in Taken \/ \E k \in 1 .. n : rows[k].slug = t
                BY <1>2
            <4> QED BY <3>1, <3>2, <4>1
        <3> QED BY <3>3, <3>4
    <2>4. RowIs(i)'
        <3>2. /\ rows'[i].url \notin Invalid /\ feeds'[rows'[i].url] = NoFeed
              /\ \E x \in Nat \ {0} : rows'[i].slug = Numbered(BaseOf[rows'[i].url], x)
              /\ rows'[i].slug \notin Taken'
            BY <2>1, <2>2, <2>3 DEF RowIs
        <3> QED BY <3>2 DEF RowIs, Known
    <2>5. ASSUME rows[n + i].url \notin Removed,
                 BaseOf[rows[n + i].url] \notin Reserved, rows[n + i].slug # BaseOf[rows[n + i].url]
          PROVE  \/ BaseOf[rows[n + i].url] \in Taken'
                 \/ \E k \in 1 .. i - 1 : rows'[k].slug = BaseOf[rows[n + i].url]
        <3>1. CASE BaseOf[rows[n + i].url] \in Taken
            BY <1>2, <3>1
        <3>2. CASE \E k \in 1 .. n + i - 1 : /\ k \in DOMAIN rows /\ rows[k].url \notin Removed
                                             /\ rows[k].slug = BaseOf[rows[n + i].url]
            <4>1. PICK k \in 1 .. n + i - 1 : /\ rows[k].url \notin Removed
                                              /\ rows[k].slug = BaseOf[rows[n + i].url]
                BY <3>2
            <4>2. CASE k \in 1 .. n
                BY <1>2, <4>1, <4>2
            <4>3. CASE k \notin 1 .. n
                <5>1. k - n \in 1 .. i - 1 /\ k - n \in 1 .. Len(rows) - n /\ n + (k - n) = k
                    <6>1. Len(rows) \in Nat /\ n \in Nat /\ k \in Nat /\ i \in Nat /\ k <= n + i - 1
                          /\ i <= Len(rows) - n /\ n <= Len(rows)
                        BY <1>3
                    <6>2. k > n
                        BY <4>3, <6>1
                    <6> QED BY <6>1, <6>2
                <5>2. rows'[k - n] = rows[k]
                    BY <1>2, <5>1
                <5> QED BY <4>1, <5>1, <5>2
            <4> QED BY <4>2, <4>3
        <3>3. ASSUME NEW m \in DOMAIN rows, m = n + i
              PROVE  \/ BaseOf[rows[m].url] \in Taken
                     \/ \E k \in 1 .. m - 1 : /\ k \in DOMAIN rows /\ rows[k].url \notin Removed
                                              /\ rows[k].slug = BaseOf[rows[m].url]
            <4>1. rows[m].url \notin Removed /\ BaseOf[rows[m].url] \notin Reserved
                  /\ rows[m].slug # BaseOf[rows[m].url]
                BY <2>5, <3>3
            <4> QED BY <1>6, <4>1
        <3> QED BY <2>1, <3>1, <3>2, <3>3
    <2>6. Lower(i)'
        BY <2>1, <2>5 DEF Lower
    <2> QED BY <2>4, <2>6
<1>9. RowsInv'
    <2>1. ASSUME NEW i \in 1 .. Len(rows) - n, NEW k \in 1 .. Len(rows) - n, i # k
          PROVE  rows'[i].url # rows'[k].url /\ rows'[i].slug # rows'[k].slug
        <3>1. n + i \in DOMAIN rows /\ n + k \in DOMAIN rows /\ n + i # n + k
            BY <1>3, <2>1
        <3> QED BY <1>2, <1>4, <3>1
    <2> QED BY <1>2, <1>8, <2>1 DEF RowsInv
<1>10. ASSUME NEW i \in slice
       PROVE  Handled(Entry(i))' \/ (n # Len(rows) /\ Covered(i)')
    <2>1. Entry(i)' = Entry(i) /\ Entry(i) \in Urls
        BY <1>1, EntryIs DEF Entry
    <2>2. CASE Handled(Entry(i))
        BY <1>5, <2>1, <2>2
    <2>3. CASE \E k \in DOMAIN rows : rows[k].url = Entry(i)
        <3>1. PICK k \in DOMAIN rows : rows[k].url = Entry(i)
            BY <2>3
        <3>2. CASE k \in 1 .. n
            BY <1>2, <2>1, <3>1, <3>2 DEF Handled
        <3>3. CASE k \notin 1 .. n
            <4>1. n # Len(rows) /\ k - n \in 1 .. Len(rows) - n /\ n + (k - n) = k
                <5>1. Len(rows) \in Nat /\ n \in Nat /\ k \in 1 .. Len(rows)
                    BY <1>3
                <5>2. k > n
                    BY <3>3, <5>1
                <5> QED BY <5>1, <5>2
            <4>2. rows'[k - n] = rows[k] /\ k - n \in DOMAIN rows'
                BY <1>2, <4>1
            <4> QED BY <2>1, <3>1, <4>1, <4>2 DEF Covered
        <3> QED BY <3>2, <3>3
    <2> QED BY <1>1, <2>2, <2>3 DEF Drained, SliceInv, Covered
<1>11. SliceInv'
    BY <1>1, <1>2, <1>10 DEF SliceInv, Covered
<1>12. EntriesBecomeFeeds'
    BY <1>1, <1>5, EntriesKept
<1> QED BY <1>7, <1>9, <1>11, <1>12, <1>b DEF Drained

\* What is forgotten has its feed.
LEMMA DropDrains ==
    ASSUME Typed, Drained, Drop
    PROVE  Drained'
<1>1. /\ pc = "drop" /\ pc' \notin {"write", "drop"}
      /\ staged' = [staged EXCEPT ![cur] = staged[cur] \ slice]
      /\ UNCHANGED <<sent, recorded, feeds>>
    BY DEF Drop
<1>2. Headed' /\ Vacant' /\ RowsInv' /\ SliceInv'
    BY <1>1, RowsLeft
<1>3. \A i \in slice : Handled(Entry(i))
    BY <1>1 DEF Drained, SliceInv
<1>4. ASSUME NEW s \in Subs, NEW i \in 1 .. sent[s]
      PROVE  Handled(Upload[s][i])' \/ \E n \in staged'[s] : recorded[s][n] = i
    <2>1. Handled(Upload[s][i]) \/ \E n \in staged[s] : recorded[s][n] = i
        BY DEF Drained, EntriesBecomeFeeds
    <2>2. ASSUME NEW n \in staged[s], recorded[s][n] = i, n \notin staged'[s]
          PROVE  Handled(Upload[s][i])
        <3>1. s = cur /\ n \in slice
            BY <1>1, <2>2 DEF Typed, TypeOK
        <3> QED BY <1>3, <2>2, <3>1 DEF Entry
    <2>3. Handled(Upload[s][i])' <=> Handled(Upload[s][i])
        BY <1>1 DEF Handled, Known
    <2> QED BY <2>1, <2>2, <2>3
<1>5. EntriesBecomeFeeds'
    BY <1>1, <1>4 DEF EntriesBecomeFeeds
<1> QED BY <1>2, <1>5 DEF Drained

LEMMA NextDrains ==
    ASSUME Tidy, Typed, Drained, [Next]_vars
    PROVE  Drained'
<1>1. Typed'
    BY NextTyped
<1>2. CASE Visitor
    BY <1>2, VisitorDrains
<1>3. ASSUME NEW u \in Urls, InsertElsewhere(u) \/ Crawled(u)
      PROVE  Drained'
    BY <1>1, <1>3, ElsewhereDrains, CrawledDrains
<1>4. CASE LookUp \/ InsertChunk \/ Drop
    BY <1>1, <1>4, LookUpDrains, WriteDrains, DropDrains
<1>5. CASE PickUp \/ NothingToDrain \/ Complete \/ FindDue \/ Mail \/ Mark \/ DrainThrows \/ PassDies
    <2>1. pc' \notin {"write", "drop"} /\ UNCHANGED <<sent, recorded, staged, feeds>>
        BY <1>5 DEF PickUp, NothingToDrain, Complete, FindDue, Mail, Mark, DrainThrows, PassDies,
                    upload
    <2>2. Headed' /\ Vacant' /\ RowsInv' /\ SliceInv'
        BY <2>1, RowsLeft
    <2>3. \A u : Handled(u)' <=> Handled(u)
        BY <2>1 DEF Handled, Known
    <2> QED BY <2>1, <2>2, <2>3, EntriesKept DEF Drained
<1>6. CASE UNCHANGED vars
    <2>1. UNCHANGED <<sent, recorded, staged, feeds, pc, cur, slice, rows>>
        BY <1>6 DEF vars
    <2>2. Headed' /\ Vacant' /\ RowsInv' /\ SliceInv'
        BY <2>1, RowsKept
    <2>3. \A u : Handled(u)' <=> Handled(u)
        BY <2>1 DEF Handled, Known
    <2> QED BY <2>1, <2>2, <2>3, EntriesKept DEF Drained
<1> QED BY <1>2, <1>3, <1>4, <1>5, <1>6 DEF Next, ImportTick

LEMMA InitDrains ==
    ASSUME Tidy, Init
    PROVE  Drained
<1>1. /\ feeds = [u \in Urls |-> IF Listed[u] = NoSlug THEN NoFeed
                               ELSE [slug |-> Listed[u], by |-> "nobody", status |-> "active"]]
      /\ sent = [s \in Subs |-> 0] /\ pc = "rest"
    BY DEF Init
<1>2. \A t : t \in Taken <=> \E u \in Urls : Listed[u] # NoSlug /\ Listed[u] = t
    <2>1. \A u \in Urls : feeds[u].slug = Listed[u]
        BY <1>1 DEF NoFeed
    <2> QED BY <2>1 DEF Taken
<1>3. Headed
    <2> SUFFICES ASSUME NEW b \in Titles \ Reserved, NEW n \in Nat \ {0}, Numbered(b, n) \in Taken
                 PROVE  b \in Taken
        BY DEF Headed
    <2>1. PICK u \in Urls : Listed[u] = Numbered(b, n)
        BY <1>2
    <2>2. PICK v \in Urls : Listed[v] = b
        BY <2>1 DEF Tidy
    <2>3. b # NoSlug
        BY UploadAssumption DEF Titles
    <2> QED BY <1>2, <2>2, <2>3
<1>5. Vacant
    <2> SUFFICES ASSUME NEW u \in Urls, NEW n \in Nat \ {0}, BaseOf[u] \in Reserved,
                        Numbered(BaseOf[u], n) \in Taken
                 PROVE  Known(u)
        BY DEF Vacant
    <2>1. PICK v \in Urls : Listed[v] # NoSlug /\ Listed[v] = Numbered(BaseOf[u], n)
        BY <1>2
    <2>2. v = u
        BY <2>1 DEF Tidy
    <2>3. feeds[u].slug # NoSlug /\ NoFeed.slug = NoSlug
        BY <1>1, <2>1, <2>2 DEF NoFeed
    <2> QED BY <2>3 DEF Known
<1>4. EntriesBecomeFeeds
    BY <1>1 DEF EntriesBecomeFeeds
<1> QED BY <1>1, <1>3, <1>4, <1>5 DEF Drained, RowsInv, SliceInv

\* packages/ingest drain.js and queue.js: for any lists, slices, statements, posts that
\* arrive again and passes that die, an entry leaves the staging table only when its feed
\* is in the directory or may not be, so long as a slug found free is free when it is
\* written (Tidy).
THEOREM EveryEntryBecomesAFeed ==
    ASSUME Tidy
    PROVE  Spec => []EntriesBecomeFeeds
<1>1. Init => Typed /\ Drained
    BY InitTyped, InitDrains
<1>2. Typed /\ Drained /\ [Next]_vars => Typed' /\ Drained'
    BY NextTyped, NextDrains
<1>3. Drained => EntriesBecomeFeeds
    BY DEF Drained
<1> QED BY <1>1, <1>2, <1>3, PTL DEF Spec

-----------------------------------------------------------------------------
(* When a submitter is told: an upload is done for good.                   *)

\* The whole list is in the directory, and its feeds have been read.
Finished(s) ==
    /\ \A i \in DOMAIN Upload[s] : Handled(Upload[s][i])
    /\ Waiting(s) = {}

\* Only a whole list is handed over.
HandedWhole ==
    /\ \A s \in email : sent[s] = Len(Upload[s])
    /\ \A i \in DOMAIN ready : sent[ready[i]] = Len(Upload[ready[i]])

\* A drain writes rows of the list it drains.
FromList ==
    pc = "write" => \A k \in DOMAIN rows : \E i \in DOMAIN Upload[cur] : rows[k].url = Upload[cur][i]

\* Those mailed, and those this pass is to mail, are done.
DoneInv ==
    /\ \A n \in DOMAIN mails : Finished(mails[n].sub)
    /\ pc \in {"mail", "mark"} => \A i \in DOMAIN due : Finished(due[i])

Told == Drained /\ HandedWhole /\ FromList /\ DoneInv

\* What a step can do to a feed: leave it, settle it, or write it from the drain's rows.
LEMMA DirectorySteps ==
    ASSUME Typed, Drained, [Next]_vars, NEW u \in Urls
    PROVE  \/ feeds'[u] = feeds[u]
           \/ /\ feeds'[u].status # "pending"
              /\ Handled(u) => Handled(u)'
           \/ /\ InsertChunk
              /\ feeds'[u].by = cur
              /\ ~Handled(u)
              /\ \E k \in DOMAIN rows : rows[k].url = u
<1>1. feeds \in [Urls -> Feed \cup {NoFeed}]
    BY DEF Typed, TypeOK
<1>2. CASE Visitor \/ DrainThrows \/ PassDies \/ UNCHANGED vars
    BY <1>2 DEF Visitor, Stage, StageAgain, Finish, FinishAgain, DrainThrows, PassDies, vars
<1>3. CASE PickUp \/ NothingToDrain \/ LookUp \/ Drop \/ Complete \/ FindDue \/ Mail \/ Mark
    BY <1>3 DEF PickUp, NothingToDrain, LookUp, Drop, Complete, FindDue, Mail, Mark
<1>4. ASSUME NEW v \in Urls, InsertElsewhere(v)
      PROVE  \/ feeds'[u] = feeds[u]
             \/ feeds'[u].status # "pending" /\ (Handled(u) => Handled(u)')
    <2> DEFINE slug == FreeSlug(BaseOf[v], TakenFrom(First(v)))
    <2>1. /\ ~Known(v) /\ v \notin Invalid \cup Removed
          /\ feeds' = [feeds EXCEPT ![v] = [slug |-> slug, by |-> "nobody", status |-> "active"]]
        BY <1>4 DEF InsertElsewhere
    <2> HIDE DEF slug
    <2>2. CASE u # v
        BY <1>1, <2>1, <2>2
    <2>3. CASE u = v
        <3>1. feeds'[u] = [slug |-> slug, by |-> "nobody", status |-> "active"]
            BY <1>1, <2>1, <2>3
        <3>2. feeds'[u].status = "active"
            BY <3>1
        <3> QED BY <2>1, <2>3, <3>2 DEF Handled
    <2> QED BY <2>2, <2>3
<1>5. ASSUME NEW v \in Urls, Crawled(v)
      PROVE  \/ feeds'[u] = feeds[u]
             \/ feeds'[u].status # "pending" /\ (Handled(u) => Handled(u)')
    <2>1. PICK outcome \in {"active", "error"} : feeds' = [feeds EXCEPT ![v].status = outcome]
        BY <1>5 DEF Crawled
    <2>2. CASE u # v
        BY <1>1, <2>1, <2>2
    <2>3. CASE u = v
        <3>1. Known(u) /\ feeds[u] \in Feed
            BY <1>1, <1>5, <2>3 DEF Crawled, Known
        <3>2. feeds'[u] = [feeds[u] EXCEPT !.status = outcome]
            BY <1>1, <2>1, <2>3
        <3>3. feeds'[u].status = outcome /\ feeds'[u].slug = feeds[u].slug /\ feeds[u].slug \in Slugs
            BY <3>1, <3>2 DEF Feed
        <3>4. NoFeed.slug = NoSlug /\ NoSlug \notin Slugs
            BY UploadAssumption DEF NoFeed
        <3>5. feeds'[u] # NoFeed
            BY <3>3, <3>4
        <3> QED BY <3>3, <3>5 DEF Handled, Known
    <2> QED BY <2>2, <2>3
<1>6. CASE InsertChunk
    <2> DEFINE n == IF Chunk < Len(rows) THEN Chunk ELSE Len(rows)
               chunk == {i \in 1 .. n : Inserted(rows[i])}
               new(w) == [slug |-> rows[CHOOSE i \in chunk : rows[i].url = w].slug,
                          by |-> cur, status |-> "pending"]
    <2>1. /\ pc = "write"
          /\ feeds' = [w \in Urls |-> IF \E i \in chunk : rows[i].url = w THEN new(w) ELSE feeds[w]]
        BY <1>6 DEF InsertChunk
    <2>2. n \in Nat /\ n <= Len(rows) /\ DOMAIN rows = 1 .. Len(rows) /\ Len(rows) \in Nat
        BY RowTypes, UploadAssumption
    <2>3. new(u).by = cur
        OBVIOUS
    <2> HIDE DEF n, new
    <2>4. CASE \E i \in chunk : rows[i].url = u
        <3>1. PICK i \in chunk : rows[i].url = u
            BY <2>4
        <3>2. i \in DOMAIN rows /\ Inserted(rows[i])
            BY <2>2
        <3>3. RowIs(i)
            BY <2>1, <3>2 DEF Drained, RowsInv
        <3>4. ~Handled(u)
            BY <3>1, <3>2, <3>3 DEF Handled, RowIs, Inserted
        <3>5. feeds'[u] = new(u)
            BY <2>1, <2>4
        <3> QED BY <1>6, <2>3, <3>1, <3>2, <3>4, <3>5
    <2>5. CASE ~ \E i \in chunk : rows[i].url = u
        BY <2>1, <2>5
    <2> QED BY <2>4, <2>5
<1> QED BY <1>2, <1>3, <1>4, <1>5, <1>6 DEF Next, ImportTick

\* What is done stays done: a later drain of the same list writes nothing.
LEMMA FinishedStays ==
    ASSUME Typed, Drained, FromList, [Next]_vars, NEW s \in Subs, Finished(s)
    PROVE  Finished(s)'
<1>1. ASSUME NEW i \in DOMAIN Upload[s]
      PROVE  Handled(Upload[s][i])'
    <2>1. Handled(Upload[s][i]) /\ Upload[s][i] \in Urls
        BY UploadAssumption DEF Finished
    <2>2. \/ feeds'[Upload[s][i]] = feeds[Upload[s][i]]
          \/ Handled(Upload[s][i])'
        BY <2>1, DirectorySteps
    <2> QED BY <2>1, <2>2 DEF Handled, Known
<1>2. ASSUME NEW u \in Urls, feeds'[u] # NoFeed, feeds'[u].by = s, feeds'[u].status = "pending"
      PROVE  FALSE
    <2>1. feeds'[u] # feeds[u]
        BY <1>2 DEF Finished, Waiting, QueuedBy, Known
    <2>2. /\ InsertChunk /\ feeds'[u].by = cur /\ ~Handled(u)
          /\ \E k \in DOMAIN rows : rows[k].url = u
        BY <1>2, <2>1, DirectorySteps
    <2>3. pc = "write" /\ cur = s
        BY <1>2, <2>2 DEF InsertChunk
    <2>4. PICK i \in DOMAIN Upload[s] : u = Upload[s][i]
        BY <2>2, <2>3 DEF FromList
    <2> QED BY <2>2, <2>4 DEF Finished
<1>3. Waiting(s)' = {}
    BY <1>2 DEF Waiting, QueuedBy, Known
<1> QED BY <1>1, <1>3 DEF Finished

\* A hand-over that arrives again is of a whole list too.
LEMMA HandedWholeStays ==
    ASSUME Typed, HandedWhole, [Next]_vars
    PROVE  HandedWhole'
<1>1. /\ sent \in [Subs -> Nat] /\ ready \in Seq(Subs) /\ email \subseteq Subs
      /\ \A i \in DOMAIN ready : ready[i] \in Subs
    BY DEF Typed, TypeOK
<1>2. ASSUME NEW s \in Subs, Stage(s)
      PROVE  HandedWhole'
    <2>1. /\ s \notin Range(ready) /\ sent[s] < Len(Upload[s])
          /\ sent' = [sent EXCEPT ![s] = @ + Len(BatchAfter(s, sent[s]))]
          /\ ready' = ready /\ email' = email
        BY <1>2 DEF Stage
    <2>2. s \notin email /\ \A i \in DOMAIN ready : ready[i] # s
        BY <1>1, <2>1, UploadAssumption DEF HandedWhole, Range
    <2>3. \A t \in Subs : t # s => sent'[t] = sent[t]
        BY <1>1, <2>1
    <2> QED BY <1>1, <2>1, <2>2, <2>3 DEF HandedWhole
<1>3. ASSUME NEW s \in Subs, Finish(s) \/ FinishAgain(s)
      PROVE  HandedWhole'
    <2>1. sent' = sent /\ (email' \subseteq email \cup {s})
        BY <1>3 DEF Finish, FinishAgain, Address
    <2>2. sent[s] = Len(Upload[s])
        BY <1>3 DEF Finish, FinishAgain, HandedWhole, Range
    <2>3. \A i \in DOMAIN ready' : ready'[i] = s \/ \E k \in DOMAIN ready : ready'[i] = ready[k]
        BY <1>3, HandOverTyped
    <2> QED BY <2>1, <2>2, <2>3 DEF HandedWhole
<1>4. CASE UNCHANGED <<sent, ready>> /\ email' \subseteq email
    BY <1>4 DEF HandedWhole
<1>5. ASSUME NEW s \in Subs, NEW m \in 0 .. sent[s], StageAgain(s, m)
      PROVE  UNCHANGED <<sent, ready>> /\ email' \subseteq email
    BY <1>5 DEF StageAgain
<1>6. CASE ImportTick \/ DrainThrows \/ PassDies \/ UNCHANGED vars
    <2>1. UNCHANGED <<sent, ready>> /\ email' \subseteq email
        BY <1>6 DEF ImportTick, PickUp, NothingToDrain, LookUp, InsertChunk, Drop, Complete,
                    FindDue, Mail, Mark, DrainThrows, PassDies, upload, vars
    <2> QED BY <1>4, <2>1
<1>7. ASSUME NEW u \in Urls, InsertElsewhere(u) \/ Crawled(u)
      PROVE  UNCHANGED <<sent, ready>> /\ email' \subseteq email
    BY <1>7 DEF InsertElsewhere, Crawled, upload
<1> QED BY <1>2, <1>3, <1>4, <1>5, <1>6, <1>7 DEF Next, Visitor

\* A lookup and its writes stay within the list.
LEMMA FromListStays ==
    ASSUME Typed, Typed', Drained, FromList, [Next]_vars
    PROVE  FromList'
<1>1. CASE LookUp
    <2>1. /\ rows' \in Seq([url : Urls, slug : Slugs]) /\ DOMAIN rows' = DOMAIN FreshUrls
          /\ \A n \in DOMAIN FreshUrls : rows'[n].url = FreshUrls[n]
        BY <1>1, LookUpIs
    <2>2. ASSUME NEW n \in DOMAIN FreshUrls
          PROVE  \E i \in DOMAIN Upload[cur] : FreshUrls[n] = Upload[cur][i]
        <3>1. PICK m \in Nat :
                /\ FreshUrls \in [1 .. m -> Urls]
                /\ \E order \in [1 .. m -> Fresh] : \A k \in 1 .. m : FreshUrls[k] = Entry(order[k])
            BY FreshUrlsAre
        <3>2. PICK i \in Fresh : FreshUrls[n] = Entry(i)
            BY <3>1
        <3>3. i \in slice
            BY DEF Fresh
        <3> QED BY <3>2, <3>3, EntryIs DEF Entry
    <2>3. cur' = cur
        BY <1>1 DEF LookUp
    <2> QED BY <2>1, <2>2, <2>3 DEF FromList
<1>2. CASE InsertChunk
    <2>1. PICK n \in 0 .. Len(rows) : /\ DOMAIN rows' = 1 .. Len(rows) - n
                                      /\ \A i \in 1 .. Len(rows) - n : rows'[i] = rows[n + i]
        BY <1>2, WriteIs
    <2>2. DOMAIN rows = 1 .. Len(rows) /\ Len(rows) \in Nat
        BY RowTypes
    <2>3. \A i \in 1 .. Len(rows) - n : n + i \in DOMAIN rows
        BY <2>2
    <2>4. pc = "write" /\ cur' = cur
        BY <1>2 DEF InsertChunk
    <2> QED BY <2>1, <2>3, <2>4 DEF FromList
<1>3. CASE Visitor \/ (\E u \in Urls : InsertElsewhere(u) \/ Crawled(u)) \/ UNCHANGED vars
    <2>1. UNCHANGED <<pc, rows, cur>>
        BY <1>3 DEF Visitor, Stage, StageAgain, Finish, FinishAgain, InsertElsewhere, Crawled, vars, job
    <2> QED BY <2>1 DEF FromList
<1>4. CASE PickUp \/ NothingToDrain \/ Drop \/ Complete \/ FindDue \/ Mail \/ Mark \/ DrainThrows \/ PassDies
    <2>1. pc' # "write"
        BY <1>4 DEF PickUp, NothingToDrain, Drop, Complete, FindDue, Mail, Mark, DrainThrows, PassDies
    <2> QED BY <2>1 DEF FromList
<1> QED BY <1>1, <1>2, <1>3, <1>4 DEF Next, ImportTick

\* A submission that awaits its notice is done.
LEMMA AwaitedAreFinished ==
    ASSUME Typed, Drained, HandedWhole, NEW s \in Subs, AwaitsNotice(s)
    PROVE  Finished(s)
<1>1. sent[s] = Len(Upload[s]) /\ staged[s] = {} /\ Waiting(s) = {}
    BY DEF AwaitsNotice, HandedWhole
<1>2. DOMAIN Upload[s] = 1 .. sent[s]
    BY <1>1, UploadAssumption
<1>3. \A i \in 1 .. sent[s] : Handled(Upload[s][i])
    BY <1>1 DEF Drained, EntriesBecomeFeeds
<1> QED BY <1>1, <1>2, <1>3 DEF Finished

\* The pass mails those it found done, and they stay so.
LEMMA DoneStays ==
    ASSUME Typed, Told, [Next]_vars
    PROVE  DoneInv'
<1>1. /\ due \in Seq(Subs) /\ mails \in Seq([sub : Subs, queued : Nat])
      /\ pc = "mail" \/ pc = "mark" => due # <<>>
    BY DEF Typed, TypeOK, Inv, DueInv
<1>2. /\ \A i \in DOMAIN due : due[i] \in Subs
      /\ \A n \in DOMAIN mails : mails[n].sub \in Subs
    <2> DEFINE L == [sub : Subs, queued : Nat]
    <2>1. mails \in Seq(L)
        BY <1>1
    <2> HIDE DEF L
    <2>2. \A n \in DOMAIN mails : mails[n] \in L
        BY <2>1
    <2> QED BY <1>1, <2>2 DEF L
<1>3. \A s \in Subs : Finished(s) => Finished(s)'
    BY FinishedStays DEF Told
<1>4. \A n \in DOMAIN mails : Finished(mails[n].sub)
    BY DEF Told, DoneInv
<1>5. CASE UNCHANGED <<mails, due, pc>> \/ (mails' = mails /\ pc' \notin {"mail", "mark"})
    <2>1. \A n \in DOMAIN mails' : mails'[n].sub \in Subs /\ Finished(mails'[n].sub)
        BY <1>2, <1>4, <1>5
    <2>2. ASSUME NEW n \in DOMAIN mails'
          PROVE  Finished(mails[n].sub)'
        <3>1. PICK s \in Subs : s = mails'[n].sub /\ Finished(s)
            BY <2>1
        <3>2. Finished(s)'
            BY <1>3, <3>1
        <3> QED BY <3>1, <3>2 DEF Finished, Waiting, QueuedBy
    <2>3. ASSUME pc' \in {"mail", "mark"}, NEW i \in DOMAIN due'
          PROVE  Finished(due[i])'
        <3>1. due' = due /\ pc' = pc
            BY <1>5, <2>3
        <3>2. PICK s \in Subs : s = due'[i] /\ Finished(s)
            BY <1>2, <2>3, <3>1 DEF Told, DoneInv
        <3>3. Finished(s)'
            BY <1>3, <3>2
        <3> QED BY <3>2, <3>3 DEF Finished, Waiting, QueuedBy
    <2> QED BY <2>2, <2>3 DEF DoneInv
<1>6. CASE FindDue
    <2> DEFINE S == {s \in Subs : AwaitsNotice(s)}
    <2>1. /\ mails' = mails /\ \E order \in SetToSeqs(S) : due' = order
        BY <1>6 DEF FindDue
    <2>2. \A i \in DOMAIN due' : due'[i] \in S
        BY <2>1, AnOrder
    <2>3. ASSUME NEW i \in DOMAIN due'
          PROVE  Finished(due[i])'
        <3>1. PICK s \in Subs : s = due'[i] /\ Finished(s)
            BY <2>2, AwaitedAreFinished DEF Told
        <3>2. Finished(s)'
            BY <1>3, <3>1
        <3> QED BY <3>1, <3>2 DEF Finished, Waiting, QueuedBy
    <2>4. ASSUME NEW n \in DOMAIN mails'
          PROVE  Finished(mails[n].sub)'
        <3>1. PICK s \in Subs : s = mails'[n].sub /\ Finished(s)
            BY <1>2, <1>4, <2>1
        <3>2. Finished(s)'
            BY <1>3, <3>1
        <3> QED BY <3>1, <3>2 DEF Finished, Waiting, QueuedBy
    <2> QED BY <2>3, <2>4 DEF DoneInv
<1>7. CASE Mail
    <2>1. PICK s \in Subs : s = Head(due) /\ Finished(s)
        <3>1. due # <<>> /\ pc = "mail"
            BY <1>1, <1>7 DEF Mail
        <3>2. 1 \in DOMAIN due /\ Head(due) = due[1]
            BY <1>1, <3>1
        <3> QED BY <1>2, <3>1, <3>2 DEF Told, DoneInv
    <2> DEFINE letter == [sub |-> s, queued |-> Cardinality(QueuedBy(s))]
    <2>2. letter.sub = s
        OBVIOUS
    <2>3. mails' = Append(mails, letter) /\ due' = due /\ pc = "mail"
        BY <1>7, <2>1 DEF Mail
    <2> HIDE DEF letter
    <2>4. \A n \in DOMAIN mails' : mails'[n] = letter \/ (n \in DOMAIN mails /\ mails'[n] = mails[n])
        BY <1>1, <2>3
    <2>5. ASSUME NEW n \in DOMAIN mails'
          PROVE  Finished(mails[n].sub)'
        <3>1. PICK t \in Subs : t = mails'[n].sub /\ Finished(t)
            BY <1>2, <1>4, <2>1, <2>2, <2>4
        <3>2. Finished(t)'
            BY <1>3, <3>1
        <3> QED BY <3>1, <3>2 DEF Finished, Waiting, QueuedBy
    <2>6. ASSUME NEW i \in DOMAIN due'
          PROVE  Finished(due[i])'
        <3>1. PICK t \in Subs : t = due'[i] /\ Finished(t)
            BY <1>2, <2>3 DEF Told, DoneInv
        <3>2. Finished(t)'
            BY <1>3, <3>1
        <3> QED BY <3>1, <3>2 DEF Finished, Waiting, QueuedBy
    <2> QED BY <2>5, <2>6 DEF DoneInv
<1>8. CASE Mark
    <2>1. due # <<>> /\ due' = Tail(due) /\ pc = "mark" /\ mails' = mails
        BY <1>1, <1>8 DEF Mark
    <2>2. \A i \in DOMAIN due' : i + 1 \in DOMAIN due /\ due'[i] = due[i + 1]
        BY <1>1, <2>1
    <2>3. ASSUME NEW i \in DOMAIN due'
          PROVE  Finished(due[i])'
        <3>1. PICK t \in Subs : t = due'[i] /\ Finished(t)
            BY <1>2, <2>1, <2>2 DEF Told, DoneInv
        <3>2. Finished(t)'
            BY <1>3, <3>1
        <3> QED BY <3>1, <3>2 DEF Finished, Waiting, QueuedBy
    <2>4. ASSUME NEW n \in DOMAIN mails'
          PROVE  Finished(mails[n].sub)'
        <3>1. PICK s \in Subs : s = mails'[n].sub /\ Finished(s)
            BY <1>2, <1>4, <2>1
        <3>2. Finished(s)'
            BY <1>3, <3>1
        <3> QED BY <3>1, <3>2 DEF Finished, Waiting, QueuedBy
    <2> QED BY <2>3, <2>4 DEF DoneInv
<1>9. CASE \/ Visitor \/ (\E u \in Urls : InsertElsewhere(u) \/ Crawled(u)) \/ UNCHANGED vars
           \/ PickUp \/ NothingToDrain \/ LookUp \/ InsertChunk \/ Drop \/ Complete
           \/ DrainThrows \/ PassDies
    BY <1>5, <1>9 DEF Visitor, Stage, StageAgain, Finish, FinishAgain, InsertElsewhere, Crawled,
                      PickUp, NothingToDrain, LookUp, InsertChunk, Drop, Complete, DrainThrows,
                      PassDies, vars, job
<1> QED BY <1>6, <1>7, <1>8, <1>9 DEF Next, ImportTick

\* packages/ingest notify.js: for any lists, posts and hand-overs that arrive again and
\* passes that die, the mail that an import is done goes to those whose whole list is in
\* the directory with every feed of it read, and stays true, so long as a slug found free
\* is free when it is written (Tidy).
THEOREM MailsTellTheTruth ==
    ASSUME Tidy
    PROVE  Spec => []MailedWhenDone
<1>1. Init => Typed /\ Told
    <2> SUFFICES ASSUME Init
                 PROVE  Typed /\ Told
        OBVIOUS
    <2>1. email = {} /\ ready = <<>> /\ pc = "rest" /\ mails = <<>>
        BY DEF Init
    <2>2. HandedWhole /\ FromList /\ DoneInv
        BY <2>1 DEF HandedWhole, FromList, DoneInv
    <2> QED BY <2>2, InitTyped, InitDrains DEF Told
<1>2. Typed /\ Told /\ [Next]_vars => Typed' /\ Told'
    <2> SUFFICES ASSUME Typed, Told, [Next]_vars
                 PROVE  Typed' /\ Told'
        OBVIOUS
    <2>1. Typed' /\ Drained'
        BY NextTyped, NextDrains DEF Told
    <2> QED BY <2>1, HandedWholeStays, FromListStays, DoneStays DEF Told
<1>3. Told => MailedWhenDone
    BY DEF Told, DoneInv, Finished, MailedWhenDone
<1> QED BY <1>1, <1>2, <1>3, PTL DEF Spec
=============================================================================
