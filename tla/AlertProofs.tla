------------------------------ MODULE AlertProofs ------------------------------
(* Theorems about AlertDelivery, for every number of posts, sources and         *)
(* channels and every value of the limits.                                      *)
EXTENDS AlertDelivery, FiniteSetTheorems, WellFoundedInduction, TLAPS

-----------------------------------------------------------------------------
(* The least and the greatest of a set of instants. *)

LEMMA MinIsLeast ==
    ASSUME NEW S \in SUBSET Nat, S # {}
    PROVE  Min(S) \in S /\ \A y \in S : Min(S) <= y
<1>1. PICK x \in S : \A y \in S : ~ (<<y, x>> \in OpToRel(<, Nat))
    BY NatLessThanWellFounded, WFMin, Zenon
<1>2. \A y \in S : ~ (y < x)
    BY <1>1, Zenon DEF OpToRel
<1>3. \A y \in S : x <= y
    BY <1>2
<1> QED BY <1>3 DEF Min

LEMMA MaxIsGreatest ==
    ASSUME NEW S \in SUBSET Moment, S # {}
    PROVE  Max(S) \in S /\ \A y \in S : Max(S) >= y
<1> DEFINE T == {LastInstant - x : x \in S}
<1>0. ASSUME NEW x \in S PROVE LastInstant - x \in Nat
    BY ConstantsOK DEF Moment
<1>1. T \in SUBSET Nat /\ T # {}
    BY <1>0
<1>2. PICK t \in T : \A y \in T : t <= y
    BY <1>1, MinIsLeast
<1>3. PICK x \in S : t = LastInstant - x
    BY <1>2
<1>4. ASSUME NEW y \in S PROVE x >= y
    <2>1. t <= LastInstant - y
        BY <1>2
    <2> QED BY <2>1, <1>3, ConstantsOK DEF Moment
<1> QED BY <1>4 DEF Max

-----------------------------------------------------------------------------
(* What selectBatch computes, given a pass that has read its sources. *)

ReadPassOK == post \in [Items -> Post] /\ pass \in Pass

LEMMA StampsAreMoments ==
    ASSUME ReadPassOK, NEW I \in SUBSET Items
    PROVE  Stamps(I) \in SUBSET Moment /\ (I # {} => Stamps(I) # {})
BY DEF ReadPassOK, Stamps, Post

LEMMA PoolIsPosts == ReadPassOK => Pool \in SUBSET Items
BY DEF ReadPassOK, Pool, Seen, Pass

LEMMA HorizonsAreMoments == ReadPassOK => Horizons \in SUBSET Moment
<1> SUFFICES ASSUME ReadPassOK, NEW s \in Sources, Capped(s)
             PROVE  Max(Stamps(pass.rows[s])) \in Moment
    BY DEF Horizons
<1> DEFINE R == pass.rows[s]
<1>1. R \in SUBSET Items
    BY DEF ReadPassOK, Pass
<1>2. R # {}
    <2> SUFFICES ASSUME R = {} PROVE FALSE OBVIOUS
    <2>1. Cardinality(R) = 0
        BY FS_EmptySet
    <2> QED BY <2>1, ConstantsOK DEF Capped
<1>3. Stamps(R) \in SUBSET Moment /\ Stamps(R) # {}
    BY <1>1, <1>2, StampsAreMoments
<1> HIDE DEF R
<1> QED BY <1>3, MaxIsGreatest DEF R

LEMMA ExhaustedIsMoment ==
    ASSUME ReadPassOK, cursor \in Moment
    PROVE  Exhausted \in Moment
<1>1. CASE Horizons # {}
    <2>1. Min(Horizons) \in Horizons
        BY <1>1, HorizonsAreMoments, MinIsLeast, ConstantsOK DEF Moment
    <2> QED BY <1>1, <2>1, HorizonsAreMoments DEF Exhausted
<1>2. CASE Horizons = {} /\ Pool # {}
    <2>1. Stamps(Pool) \in SUBSET Moment /\ Stamps(Pool) # {}
        BY <1>2, PoolIsPosts, StampsAreMoments
    <2>2. Max(Stamps(Pool)) \in Moment
        BY <2>1, MaxIsGreatest
    <2> QED BY <1>2, <2>2 DEF Exhausted
<1> QED BY <1>1, <1>2 DEF Exhausted

LEMMA FirstAtIsMoment ==
    ASSUME ReadPassOK, NEW k \in Fresh
    PROVE  FirstAt(k) \in Moment
<1> DEFINE I == {i \in Pool : post[i].story = k}
<1>1. I \in SUBSET Items /\ I # {}
    BY PoolIsPosts DEF Fresh
<1>2. Stamps(I) \in SUBSET Moment /\ Stamps(I) # {}
    BY <1>1, StampsAreMoments
<1>3. Min(Stamps(I)) \in Stamps(I)
    BY <1>2, MinIsLeast, ConstantsOK DEF Moment
<1> QED BY <1>2, <1>3 DEF FirstAt

LEMMA FreshIsFinite == ReadPassOK => IsFiniteSet(Fresh)
<1> SUFFICES ASSUME ReadPassOK PROVE IsFiniteSet(Fresh)
    OBVIOUS
<1> DEFINE T == {post[i].story : i \in Pool}
           f == [i \in Pool |-> post[i].story]
<1>1. IsFiniteSet(Pool)
    BY PoolIsPosts, ConstantsOK, FS_Subset
<1>2. f \in Surjection(Pool, T)
    BY DEF Surjection
<1>3. IsFiniteSet(T)
    BY <1>1, <1>2, FS_Surjection
<1> QED BY <1>3, FS_Subset DEF Fresh

\* A batch that is too long is cut at an instant that exists.
LEMMA BoundaryIsMoment ==
    ASSUME ReadPassOK, TooLong
    PROVE  Boundary \in Instants
<1> DEFINE B == {b \in Instants : Cardinality(Until(b)) >= ItemsPerMessage}
<1>1. Until(LastInstant) = Fresh
    BY FirstAtIsMoment, ConstantsOK DEF Until, Moment
<1>2. Cardinality(Fresh) \in Nat
    BY FreshIsFinite, FS_CardinalityType
<1>3. LastInstant \in B
    BY <1>1, <1>2, ConstantsOK DEF TooLong, Instants
<1>4. B \in SUBSET Nat
    BY DEF Instants
<1> HIDE DEF B
<1>5. Min(B) \in B
    BY <1>3, <1>4, MinIsLeast
<1> QED BY <1>5 DEF Boundary, B

LEMMA NextCursorIsMoment ==
    ASSUME ReadPassOK, cursor \in Moment
    PROVE  NextCursor \in Moment
BY ExhaustedIsMoment, BoundaryIsMoment DEF NextCursor, Instants, Moment

LEMMA BatchIsFresh == Batch \subseteq Fresh
BY DEF Batch, Until

LEMMA FreshIsUntold == ReadPassOK => Fresh \subseteq Stories \ Told
BY PoolIsPosts DEF Fresh, ReadPassOK, Post

-----------------------------------------------------------------------------
(* Type correctness. *)

LEMMA HeededAreSources == Heeded \subseteq Sources
BY DEF Heeded, Listed, Sources

LEMMA TypeInit == Init => TypeOK
<1> SUFFICES ASSUME Init PROVE TypeOK
    OBVIOUS
<1>1. Idle \in Pass
    BY ConstantsOK DEF Idle, Pass, Moment
<1>2. post \in [Items -> Post]
    <2>1. (CHOOSE k \in Stories : TRUE) \in Stories
        BY ConstantsOK
    <2>2. Unwritten \in Post
        BY <2>1, ConstantsOK DEF Unwritten, Post, Moment
    <2> QED BY <2>2 DEF Init
<1>3. chan \in [Channels -> ChannelRow]
    BY DEF Init, ChannelRow
<1>4. heard \in [Stories -> [Channels -> [Instants -> Nat]]]
    BY DEF Init
<1>5. 0 \in Moment /\ 1 \in Moment /\ 1 \in Instants
    BY ConstantsOK DEF Instants, Moment
<1>6. pass = Idle /\ now = 1 /\ cursor = 0 /\ since = 1 /\ start = 0
    BY DEF Init
<1>7. ledger \in [Stories -> Moment]
    BY <1>5 DEF Init
<1>8. /\ batched = {} /\ late = {} /\ cut = {} /\ mishaps \in Nat
      /\ bells \subseteq Sources /\ steady = Heeded
    BY ConstantsOK DEF Init
<1>9. Heeded \subseteq Sources
    BY HeededAreSources
<1> QED BY <1>1, <1>2, <1>3, <1>4, <1>5, <1>6, <1>7, <1>8, <1>9 DEF TypeOK

LEMMA IdleIsPass == Idle \in Pass
BY ConstantsOK DEF Idle, Pass, Moment

\* What recordChannelResult leaves in a row is a row.
LEMMA RowAfterIsRow ==
    ASSUME NEW row \in ChannelRow, NEW result \in Results
    PROVE  RowAfter(row, result) \in ChannelRow
BY ConstantsOK DEF RowAfter, AfterFailure, ChannelRow, Results

LEMMA RevivedIsRow ==
    ASSUME NEW row \in ChannelRow
    PROVE  Revived(row) \in ChannelRow
BY DEF Revived, ChannelRow

LEMMA StoredIsPost ==
    ASSUME NEW p \in Post
    PROVE  [p EXCEPT !.stored = TRUE] \in Post
BY DEF Post

\* What is stamped is a story in some of the sources.
LEMMA TellingsAreKnown ==
    ASSUME NEW i \in Items, NEW p \in Tellings[i]
    PROVE  p.story \in Stories /\ p.from \in SUBSET Sources
BY ConstantsOK

LEMMA TypeNext == TypeOK /\ [Next]_vars => TypeOK'
<1> SUFFICES ASSUME TypeOK, [Next]_vars PROVE TypeOK'
    OBVIOUS
<1> USE ConstantsOK
<1> pass \in Pass /\ post \in [Items -> Post]
    BY DEF TypeOK
<1>1. CASE Begin
    <2> DEFINE p == [Idle EXCEPT !.at = "read", !.since = since,
                                 !.unread = Blogs \cup Heeded]
    <2>0. since \in Moment /\ Blogs \cup Heeded \subseteq Sources
        BY HeededAreSources DEF TypeOK, Sources
    <2>3. p \in Pass
        BY <2>0, IdleIsPass DEF Pass
    <2>4. pass' = pass \/ pass' = p
        BY <1>1 DEF Begin
    <2> HIDE DEF p
    <2>1. pass' \in Pass
        BY <2>3, <2>4
    <2>2. cursor' \in Moment /\ start' \in Moment
        BY <1>1 DEF Begin, FirstCursor, TypeOK, Instants, Moment
    <2> QED BY <1>1, <2>1, <2>2 DEF Begin, TypeOK, world
<1>2. ASSUME NEW s \in Sources, ReadSource(s) PROVE TypeOK'
    <2>1. PICK R \in SUBSET Newer(s) :
            /\ pass' = [pass EXCEPT !.unread = @ \ {s}, !.rows[s] = R]
            /\ cut' = cut \cup CutOff(R, Newer(s))
        BY <1>2 DEF ReadSource
    <2>2. R \in SUBSET Items /\ CutOff(R, Newer(s)) \subseteq Items
        BY DEF Newer, CutOff
    <2>3. pass' \in Pass
        BY <2>1, <2>2 DEF Pass
    <2>4. cut' \subseteq Items
        BY <2>1, <2>2 DEF TypeOK
    <2> QED BY <1>2, <2>3, <2>4 DEF ReadSource, TypeOK, world
<1>3. CASE SelectBatch
    <2>1. Batch \subseteq Stories
        BY BatchIsFresh, FreshIsUntold DEF ReadPassOK
    <2>2. pass' \in Pass
        BY <1>3, <2>1, IdleIsPass DEF SelectBatch, Pass
    <2>3. cursor' \in Moment
        BY <1>3, NextCursorIsMoment DEF SelectBatch, TypeOK, ReadPassOK
    <2> QED BY <1>3, <2>1, <2>2, <2>3 DEF SelectBatch, TypeOK, world
<1>4. CASE MarkSent
    <2>0. now \in Moment
        BY DEF TypeOK, Instants, Moment
    <2>1. pass' \in Pass
        BY <1>4, <2>0 DEF MarkSent, Pass
    <2>2. ledger' \in [Stories -> Moment]
        BY <1>4, <2>0 DEF MarkSent, Record, TypeOK
    <2> QED BY <1>4, <2>1, <2>2 DEF MarkSent, TypeOK, world, history
<1>5. ASSUME NEW c \in Channels, Deliver(c) PROVE TypeOK'
    <2>1. PICK result \in Results :
            /\ chan' = [chan EXCEPT ![c] = RowAfter(@, result)]
            /\ heard' = [k \in Stories |-> IF k \in pass.batch
                    THEN [heard[k] EXCEPT ![c][pass.told] = @ + Copies(result)] ELSE heard[k]]
        BY <1>5 DEF Deliver
    <2>2. pass' \in Pass
        BY <1>5 DEF Deliver, Pass
    <2>3. chan' \in [Channels -> ChannelRow]
        BY <2>1, RowAfterIsRow DEF TypeOK
    <2>4. heard' \in [Stories -> [Channels -> [Instants -> Nat]]]
        <3>1. heard \in [Stories -> [Channels -> [Instants -> Nat]]] /\ Copies(result) \in Nat
            BY DEF TypeOK, Copies
        <3>2. ASSUME NEW k \in Stories
              PROVE  [heard[k] EXCEPT ![c][pass.told] = @ + Copies(result)]
                        \in [Channels -> [Instants -> Nat]]
            <4> DEFINE h == heard[k]
                       t == pass.told
                       n == Copies(result)
            <4>1. h \in [Channels -> [Instants -> Nat]] /\ h[c] \in [Instants -> Nat] /\ n \in Nat
                BY <3>1
            <4> HIDE DEF h, t, n
            <4>2. [h[c] EXCEPT ![t] = @ + n] \in [Instants -> Nat]
                <5>1. ASSUME NEW u \in Instants
                      PROVE  (IF u = t THEN h[c][t] + n ELSE h[c][u]) \in Nat
                    BY <4>1
                <5> QED BY <4>1, <5>1
            <4>3. [h EXCEPT ![c] = [h[c] EXCEPT ![t] = @ + n]] \in [Channels -> [Instants -> Nat]]
                BY <4>1, <4>2
            <4> QED BY <4>3 DEF h, t, n
        <3> QED BY <2>1, <3>1, <3>2
    <2> QED BY <1>5, <2>2, <2>3, <2>4 DEF Deliver, TypeOK
<1>6. CASE PassEnds
    BY <1>6, IdleIsPass DEF PassEnds, TypeOK, world, history
<1>7. CASE Crash
    BY <1>7, IdleIsPass DEF Crash, TypeOK, world, history
<1>8. ASSUME NEW i \in Items, NEW k \in Stories, NEW F \in SUBSET Sources,
             StampItem(i, k, F)
      PROVE  TypeOK'
    <2>1. post' \in [Items -> Post]
        BY <1>8 DEF StampItem, Post, TypeOK, Instants, Moment
    <2> QED BY <1>8, <2>1 DEF StampItem, TypeOK, history
<1>9. ASSUME NEW i \in Items, CommitItem(i) PROVE TypeOK'
    <2>1. post' \in [Items -> Post]
        <3>1. [post[i] EXCEPT !.stored = TRUE] \in Post
            BY StoredIsPost
        <3> QED BY <1>9, <3>1 DEF CommitItem
    <2>2. late' \subseteq Items
        BY <1>9 DEF CommitItem, TypeOK
    <2> QED BY <1>9, <2>1, <2>2 DEF CommitItem, TypeOK
<1>10. ASSUME NEW s \in Sources, SetAlerts(s) PROVE TypeOK'
    BY <1>10 DEF SetAlerts, Switched, TypeOK, Instants, Moment
<1>11. ASSUME NEW c \in Channels, SetChannel(c) PROVE TypeOK'
    <2>1. chan' \in [Channels -> ChannelRow]
        <3>1. chan \in [Channels -> ChannelRow]
            BY DEF TypeOK
        <3>2. [chan[c] EXCEPT !.state = "off"] \in ChannelRow /\ Revived(chan[c]) \in ChannelRow
            BY <3>1, RevivedIsRow DEF ChannelRow
        <3> QED BY <1>11, <3>1, <3>2 DEF SetChannel
    <2> QED BY <1>11, <2>1 DEF SetChannel, Switched, TypeOK, Instants, Moment
<1>12. CASE TimePasses
    BY <1>12 DEF TimePasses, TypeOK, world, history
<1>13. CASE UNCHANGED vars
    BY <1>13 DEF vars, world, history, TypeOK
<1>14. CASE PruneAlertSent
    <2>1. ledger' \in [Stories -> Moment]
        BY <1>14, ConstantsOK DEF PruneAlertSent, TypeOK, Moment
    <2> QED BY <1>14, <2>1 DEF PruneAlertSent, TypeOK, world, history
<1> QED BY <1>1, <1>2, <1>3, <1>4, <1>5, <1>6, <1>7, <1>8, <1>9, <1>10, <1>11, <1>12, <1>13,
           <1>14, TellingsAreKnown DEF Next, PassStep

\* Every variable stays in its range, whatever the limits and however many
\* posts, sources and channels: deliver.js never moves a watermark to a time no
\* post or pass ever had, and no channel row leaves its three states.
THEOREM TypeCorrect == Spec => []TypeOK
BY TypeInit, TypeNext, PTL DEF Spec

-----------------------------------------------------------------------------
(* Nobody is told a story twice while the ledger remembers it.                 *)
(*                                                                             *)
(* The ledger is written between choosing a batch and sending it.  So what has *)
(* been heard is in the ledger or was recorded too long ago, a batch about to  *)
(* be recorded is not in the ledger, and while a pass sends, a channel it has  *)
(* left heard of the batch too long before it was recorded, if ever.           *)

\* The ledger still knows what was recorded at t, or may have forgotten it.
Kept(k, t) == t <= ledger[k] \/ t + SentTtl < now

HeardOK == \A k \in Stories, c \in Channels, t \in Instants :
    heard[k][c][t] <= 1 /\ (heard[k][c][t] > 0 => Kept(k, t))
MarkOK == pass.at = "mark" => \A k \in pass.batch : ledger[k] = 0
FanOK == pass.at = "fan" =>
    /\ pass.told \in Instants
    /\ \A k \in pass.batch : Kept(k, pass.told)
    /\ \A k \in pass.batch, c \in pass.left, t \in Instants :
            heard[k][c][t] > 0 => t + SentTtl < pass.told

TellInv == TypeOK /\ NeverTwice /\ HeardOK /\ MarkOK /\ FanOK

LEMMA TellInit == Init => TellInv
<1> SUFFICES ASSUME Init PROVE TellInv
    OBVIOUS
<1>0. \A k \in Stories, c \in Channels, t \in Instants : heard[k][c][t] = 0
    BY DEF Init
<1>1. HeardOK /\ NeverTwice
    BY <1>0 DEF HeardOK, NeverTwice
<1>2. MarkOK /\ FanOK
    BY DEF Init, Idle, MarkOK, FanOK
<1> QED BY <1>1, <1>2, TypeInit DEF TellInv

\* A step that leaves the clock, the ledger and what was heard alone, and the pass
\* either alone or not past its reading, disturbs none of them.
LEMMA TellKeeps ==
    ASSUME TellInv, TypeOK', UNCHANGED <<now, ledger, heard>>,
           UNCHANGED pass \/ pass'.at \in {"idle", "read"}
    PROVE  TellInv'
<1>1. NeverTwice' /\ HeardOK'
    BY DEF TellInv, NeverTwice, HeardOK, Kept
<1>2. MarkOK' /\ FanOK'
    BY DEF TellInv, MarkOK, FanOK, Kept
<1> QED BY <1>1, <1>2 DEF TellInv

\* So does one that leaves the pass and what was heard alone, when the ledger and
\* the clock move the way they may.
LEMMA TellForgets ==
    ASSUME TellInv, TypeOK', UNCHANGED <<pass, heard>>,
           \A k \in Stories, t \in Instants : Kept(k, t) => Kept(k, t)',
           \A k \in Stories : ledger[k] = 0 => ledger'[k] = 0
    PROVE  TellInv'
<1>1. HeardOK' /\ NeverTwice'
    BY DEF TellInv, HeardOK, NeverTwice
<1>2. MarkOK'
    BY DEF TellInv, TypeOK, Pass, MarkOK
<1>3. FanOK'
    BY DEF TellInv, TypeOK, Pass, FanOK
<1> QED BY <1>1, <1>2, <1>3 DEF TellInv

LEMMA IdleIsIdle == Idle.at = "idle"
BY DEF Idle

LEMMA TellMarkSent ==
    ASSUME TellInv, TypeOK', MarkSent
    PROVE  TellInv'
<1>0. /\ pass \in Pass /\ ledger \in [Stories -> Moment] /\ now \in Instants
      /\ heard \in [Stories -> [Channels -> [Instants -> Nat]]]
    BY DEF TellInv, TypeOK
<1>1. /\ pass'.at = "fan" /\ pass'.batch = pass.batch /\ pass'.left \subseteq Channels
      /\ pass'.told = now /\ pass.batch \subseteq Stories
    BY <1>0 DEF MarkSent, Pass
<1>2. heard' = heard /\ now' = now /\ ledger' = Record
    BY DEF MarkSent, history
<1>3. \A k \in Stories : ledger'[k] = IF k \in pass.batch THEN now ELSE ledger[k]
    BY <1>2 DEF Record, TellInv, MarkOK, MarkSent
<1>4. \A k \in pass.batch : ledger[k] = 0
    BY DEF TellInv, MarkOK, MarkSent
<1>5. ASSUME NEW k \in Stories, NEW t \in Instants, Kept(k, t)
      PROVE  Kept(k, t)'
    BY <1>0, <1>1, <1>2, <1>3, <1>4, <1>5 DEF Kept, Instants, Moment
<1>6. HeardOK' /\ NeverTwice'
    BY <1>2, <1>5 DEF TellInv, HeardOK, NeverTwice
<1>7. MarkOK'
    BY <1>1 DEF MarkOK
<1>8. ASSUME NEW k \in pass.batch PROVE Kept(k, pass.told)'
    BY <1>0, <1>1, <1>2, <1>3 DEF Kept, Instants
<1>9. ASSUME NEW k \in pass.batch, NEW c \in Channels, NEW t \in Instants, heard[k][c][t] > 0
      PROVE  t + SentTtl < now
    <2>1. Kept(k, t) /\ ledger[k] = 0
        BY <1>1, <1>4, <1>9 DEF TellInv, HeardOK
    <2> QED BY <2>1 DEF Kept, Instants
<1>10. FanOK'
    BY <1>0, <1>1, <1>2, <1>8, <1>9 DEF FanOK
<1> QED BY <1>6, <1>7, <1>10 DEF TellInv

LEMMA TellDeliver ==
    ASSUME TellInv, TypeOK', NEW c \in Channels, Deliver(c)
    PROVE  TellInv'
<1>0. /\ pass \in Pass /\ ledger \in [Stories -> Moment] /\ now \in Instants /\ SentTtl \in Nat
      /\ heard \in [Stories -> [Channels -> [Instants -> Nat]]]
    BY ConstantsOK DEF TellInv, TypeOK
<1>1. PICK result \in Results :
        heard' = [k \in Stories |-> IF k \in pass.batch
                    THEN [heard[k] EXCEPT ![c][pass.told] = @ + Copies(result)] ELSE heard[k]]
    BY DEF Deliver
<1> DEFINE n == Copies(result)
           told == pass.told
<1>2. n \in {0, 1}
    BY DEF Copies
<1>3. /\ pass.at = "fan" /\ c \in pass.left /\ UNCHANGED <<now, ledger>>
      /\ told \in Instants /\ pass.batch \subseteq Stories /\ pass.left \subseteq Channels
    BY <1>0 DEF Deliver, TellInv, FanOK, Pass
<1>4. pass'.at = "fan" /\ pass'.batch = pass.batch /\ pass'.left = pass.left \ {c}
      /\ pass'.told = told
    BY <1>0, <1>3 DEF Deliver, Pass
<1>5. ASSUME NEW k \in Stories, NEW d \in Channels, NEW t \in Instants
      PROVE  heard'[k][d][t] = IF k \in pass.batch /\ d = c /\ t = told
                               THEN heard[k][c][told] + n ELSE heard[k][d][t]
    <2>1. CASE k \in pass.batch
        <3> DEFINE h == heard[k]
        <3>1. h \in [Channels -> [Instants -> Nat]]
            BY <1>0
        <3>2. heard'[k] = [h EXCEPT ![c][told] = @ + n]
            BY <1>1, <2>1
        <3> HIDE DEF h, n, told
        <3>3. heard'[k][d][t] = IF d = c /\ t = told THEN h[c][told] + n ELSE h[d][t]
            BY <3>1, <3>2
        <3> QED BY <2>1, <3>3 DEF h
    <2>2. CASE k \notin pass.batch
        BY <1>1, <2>2
    <2> QED BY <2>1, <2>2
<1> HIDE DEF n, told
<1>6. ASSUME NEW k \in pass.batch, NEW d \in pass.left, NEW t \in Instants, heard[k][d][t] > 0
      PROVE  t + SentTtl < told
    BY <1>3, <1>6 DEF TellInv, FanOK, told
<1>7. \A k \in pass.batch : heard[k][c][told] = 0
    <2> SUFFICES ASSUME NEW k \in pass.batch, heard[k][c][told] # 0 PROVE FALSE
        OBVIOUS
    <2>1. heard[k][c][told] \in Nat
        BY <1>0, <1>3
    <2>2. heard[k][c][told] > 0
        BY <2>1
    <2>3. told + SentTtl < told
        BY <1>3, <1>6, <2>2
    <2> QED BY <1>0, <1>3, <2>3 DEF Instants
<1>8. HeardOK'
    <2> SUFFICES ASSUME NEW k \in Stories, NEW d \in Channels, NEW t \in Instants
                 PROVE  heard'[k][d][t] <= 1 /\ (heard'[k][d][t] > 0 => Kept(k, t)')
        BY DEF HeardOK
    <2>1. Kept(k, t)' <=> Kept(k, t)
        BY <1>3 DEF Kept
    <2>2. CASE k \in pass.batch /\ d = c /\ t = told
        <3>1. Kept(k, told)
            BY <1>3, <2>2 DEF TellInv, FanOK, told
        <3> QED BY <1>2, <1>5, <1>7, <2>1, <2>2, <3>1
    <2>3. CASE ~(k \in pass.batch /\ d = c /\ t = told)
        <3>1. heard'[k][d][t] = heard[k][d][t]
            BY <1>5, <2>3
        <3> QED BY <2>1, <3>1 DEF TellInv, HeardOK
    <2> QED BY <2>2, <2>3
<1>9. NeverTwice'
    <2> SUFFICES ASSUME NEW k \in Stories, NEW d \in Channels, NEW t \in Instants, NEW u \in Instants,
                        heard'[k][d][t] > 0, heard'[k][d][u] > 0, t < u
                 PROVE  u > t + SentTtl
        BY <1>8 DEF NeverTwice, HeardOK
    <2>1. CASE k \in pass.batch /\ d = c /\ t = told
        <3>1. heard[k][c][u] > 0
            BY <1>5, <2>1 DEF Instants
        <3>2. u + SentTtl < told
            BY <1>3, <1>6, <2>1, <3>1
        <3> QED BY <1>0, <2>1, <3>2 DEF Instants
    <2>2. CASE k \in pass.batch /\ d = c /\ u = told
        <3>1. heard[k][c][t] > 0
            BY <1>5, <2>2 DEF Instants
        <3>2. t + SentTtl < told
            BY <1>3, <1>6, <2>2, <3>1
        <3> QED BY <1>0, <2>2, <3>2 DEF Instants
    <2>3. CASE ~(k \in pass.batch /\ d = c /\ t = told) /\ ~(k \in pass.batch /\ d = c /\ u = told)
        <3>1. heard[k][d][t] > 0 /\ heard[k][d][u] > 0
            BY <1>5, <2>3
        <3> QED BY <3>1 DEF TellInv, NeverTwice
    <2> QED BY <2>1, <2>2, <2>3
<1>10. FanOK'
    <2>1. \A k \in pass.batch : Kept(k, told)'
        <3>1. pass'.told = pass.told
            BY <1>4 DEF told
        <3>2. \A k \in pass.batch : Kept(k, pass.told)
            BY <1>3 DEF TellInv, FanOK
        <3> QED BY <1>3, <3>1, <3>2 DEF Kept, told
    <2>2. ASSUME NEW k \in pass.batch, NEW d \in pass.left \ {c}, NEW t \in Instants,
                 heard'[k][d][t] > 0
          PROVE  t + SentTtl < told
        <3>1. heard'[k][d][t] = heard[k][d][t]
            BY <1>3, <1>5
        <3> QED BY <1>6, <2>2, <3>1
    <2>3. pass'.told \in Instants /\ told' = pass'.told
        BY <1>3, <1>4 DEF told
    <2> QED BY <1>3, <1>4, <2>1, <2>2, <2>3 DEF FanOK
<1> QED BY <1>4, <1>8, <1>9, <1>10 DEF TellInv, MarkOK

LEMMA TellNext == TellInv /\ [Next]_vars => TellInv'
<1> SUFFICES ASSUME TellInv, [Next]_vars PROVE TellInv'
    OBVIOUS
<1>0. TypeOK /\ TypeOK'
    BY TypeNext DEF TellInv
<1> pass \in Pass /\ post \in [Items -> Post]
    BY <1>0 DEF TypeOK
<1>1. CASE Begin
    <2> DEFINE p == [Idle EXCEPT !.at = "read", !.since = since,
                                 !.unread = Blogs \cup Heeded]
    <2>1. p.at = "read"
        BY DEF Idle
    <2>2. UNCHANGED pass \/ pass' = p
        BY <1>1 DEF Begin
    <2> HIDE DEF p
    <2> QED BY <1>0, <1>1, <2>1, <2>2, TellKeeps DEF Begin
<1>2. ASSUME NEW s \in Sources, ReadSource(s) PROVE TellInv'
    <2>1. pass'.at = "read"
        BY <1>2 DEF ReadSource, Pass
    <2> QED BY <1>0, <1>2, <2>1, TellKeeps DEF ReadSource
<1>3. CASE SelectBatch
    <2>1. \A k \in Batch : ledger[k] = 0
        BY BatchIsFresh, FreshIsUntold DEF ReadPassOK, Told
    <2>2. pass' = Idle \/ (pass'.at = "mark" /\ pass'.batch = Batch)
        BY <1>3 DEF SelectBatch, Pass
    <2>3. UNCHANGED <<now, ledger, heard>>
        BY <1>3 DEF SelectBatch
    <2>4. CASE pass' = Idle
        BY <1>0, <2>3, <2>4, IdleIsIdle, TellKeeps
    <2>5. CASE pass'.at = "mark" /\ pass'.batch = Batch
        <3>1. MarkOK' /\ FanOK'
            BY <2>1, <2>3, <2>5 DEF MarkOK, FanOK
        <3>2. HeardOK' /\ NeverTwice'
            BY <2>3 DEF TellInv, HeardOK, NeverTwice, Kept
        <3> QED BY <1>0, <3>1, <3>2 DEF TellInv
    <2> QED BY <2>2, <2>4, <2>5
<1>4. CASE MarkSent
    BY <1>0, <1>4, TellMarkSent
<1>5. ASSUME NEW c \in Channels, Deliver(c) PROVE TellInv'
    BY <1>0, <1>5, TellDeliver
<1>6. CASE PassEnds
    BY <1>0, <1>6, IdleIsIdle, TellKeeps DEF PassEnds, history
<1>7. CASE Crash
    BY <1>0, <1>7, IdleIsIdle, TellKeeps DEF Crash, history
<1>8. ASSUME NEW i \in Items, NEW k \in Stories, NEW F \in SUBSET Sources,
             StampItem(i, k, F)
      PROVE  TellInv'
    BY <1>0, <1>8, TellKeeps DEF StampItem, history
<1>9. ASSUME NEW i \in Items, CommitItem(i) PROVE TellInv'
    BY <1>0, <1>9, TellKeeps DEF CommitItem
<1>10. ASSUME NEW s \in Sources, SetAlerts(s) PROVE TellInv'
    BY <1>0, <1>10, TellKeeps DEF SetAlerts, Switched
<1>11. ASSUME NEW c \in Channels, SetChannel(c) PROVE TellInv'
    BY <1>0, <1>11, TellKeeps DEF SetChannel, Switched
<1>12. CASE TimePasses
    <2>1. now \in Nat /\ now' = now + 1 /\ UNCHANGED <<ledger, pass, heard>>
        BY <1>0, <1>12 DEF TimePasses, history, TypeOK, Instants
    <2>2. \A k \in Stories, t \in Instants : Kept(k, t) => Kept(k, t)'
        BY <2>1, ConstantsOK DEF Kept, Instants
    <2> QED BY <1>0, <2>1, <2>2, TellForgets
<1>13. CASE UNCHANGED vars
    BY <1>0, <1>13, TellKeeps DEF vars, history
<1>14. CASE PruneAlertSent
    <2>1. UNCHANGED <<now, pass, heard>>
          /\ ledger' = [k \in Stories |-> IF k \in Outdated THEN 0 ELSE ledger[k]]
        BY <1>14 DEF PruneAlertSent, history
    <2>2. ASSUME NEW k \in Stories, NEW t \in Instants, Kept(k, t) PROVE Kept(k, t)'
        <3>1. CASE k \in Outdated
            <4>1. ledger[k] + SentTtl < now /\ ledger[k] \in Nat /\ now \in Nat
                BY <1>0, <3>1 DEF Outdated, TypeOK, Instants, Moment
            <4>2. t + SentTtl < now
                BY <2>2, <4>1, ConstantsOK DEF Kept, Instants
            <4> QED BY <2>1, <4>2 DEF Kept
        <3>2. CASE k \notin Outdated
            BY <2>1, <2>2, <3>2 DEF Kept
        <3> QED BY <3>1, <3>2
    <2>3. \A k \in Stories : ledger[k] = 0 => ledger'[k] = 0
        BY <2>1
    <2> QED BY <1>0, <2>1, <2>2, <2>3, TellForgets
<1> QED BY <1>1, <1>2, <1>3, <1>4, <1>5, <1>6, <1>7, <1>8, <1>9, <1>10, <1>11, <1>12, <1>13,
           <1>14, TellingsAreKnown DEF Next, PassStep

\* deliver.js invariant 3, as far as alert_sent remembers: a channel gets one copy
\* of what a pass recorded, and a copy of the same story again only when it was
\* recorded more than the ledger's keep later, whatever is retold, however passes
\* are killed, whenever the purge runs and whatever the reader switches meanwhile.
THEOREM NobodyToldTwice == Spec => []NeverTwice
<1>1. TellInv => NeverTwice
    BY DEF TellInv
<1> QED BY <1>1, TellInit, TellNext, PTL DEF Spec

-----------------------------------------------------------------------------
(* A channel that is on is below the limit.                                    *)

ChannelInv == TypeOK /\ OnMeansBelowTheLimit

LEMMA ChannelKeeps ==
    ASSUME ChannelInv, TypeOK', UNCHANGED chan
    PROVE  ChannelInv'
BY DEF ChannelInv, OnMeansBelowTheLimit

LEMMA ChannelNext == ChannelInv /\ [Next]_vars => ChannelInv'
<1> SUFFICES ASSUME ChannelInv, [Next]_vars PROVE ChannelInv'
    OBVIOUS
<1>0. TypeOK /\ TypeOK' /\ chan \in [Channels -> ChannelRow]
    BY TypeNext DEF ChannelInv, TypeOK
<1>1. ASSUME NEW c \in Channels, Deliver(c) PROVE ChannelInv'
    <2>1. PICK result \in Results : chan' = [chan EXCEPT ![c] = RowAfter(@, result)]
        BY <1>1 DEF Deliver
    <2> DEFINE row == RowAfter(chan[c], result)
    <2>2. row.state = "on" => row.failures < MaxFailures
        BY <1>0, ConstantsOK DEF RowAfter, AfterFailure, ChannelRow, Results,
                                 ChannelInv, OnMeansBelowTheLimit
    <2>3. \A d \in Channels : chan'[d] = IF d = c THEN row ELSE chan[d]
        BY <1>0, <2>1
    <2> HIDE DEF row
    <2>4. OnMeansBelowTheLimit'
        BY <2>2, <2>3 DEF ChannelInv, OnMeansBelowTheLimit
    <2> QED BY <1>0, <2>4 DEF ChannelInv
<1>2. ASSUME NEW c \in Channels, SetChannel(c) PROVE ChannelInv'
    <2> DEFINE row == IF chan[c].state = "on" THEN [chan[c] EXCEPT !.state = "off"]
                      ELSE Revived(chan[c])
    <2>1. \A d \in Channels : chan'[d] = IF d = c THEN row ELSE chan[d]
        BY <1>0, <1>2 DEF SetChannel
    <2>2. row.state = "on" => row.failures < MaxFailures
        BY <1>0, ConstantsOK DEF Revived, ChannelRow
    <2> HIDE DEF row
    <2>3. OnMeansBelowTheLimit'
        BY <2>1, <2>2 DEF ChannelInv, OnMeansBelowTheLimit
    <2> QED BY <1>0, <2>3 DEF ChannelInv
<1>3. CASE UNCHANGED chan
    BY <1>0, <1>3, ChannelKeeps
<1>4. Next => UNCHANGED chan \/ \E c \in Channels : Deliver(c) \/ SetChannel(c)
    BY DEF Next, PassStep, Begin, ReadSource, SelectBatch, MarkSent, PassEnds, Crash,
           StampItem, CommitItem, SetAlerts, PruneAlertSent, TimePasses, world
<1>5. UNCHANGED vars => UNCHANGED chan
    BY DEF vars, world
<1> QED BY <1>1, <1>2, <1>3, <1>4, <1>5

\* recordChannelResult, setChannelEnabled and addChannel together: a channel that
\* is on is below the retirement limit, however sends and the reader interleave.
THEOREM ChannelsOnAreBelowTheLimit == Spec => []OnMeansBelowTheLimit
<1>1. Init => ChannelInv
    <2> SUFFICES ASSUME Init PROVE ChannelInv
        OBVIOUS
    <2>1. \A c \in Channels : chan[c].failures = 0
        BY DEF Init
    <2>2. OnMeansBelowTheLimit
        BY <2>1, ConstantsOK DEF OnMeansBelowTheLimit
    <2> QED BY <2>2, TypeInit DEF ChannelInv
<1> QED BY <1>1, ChannelNext, PTL DEF Spec, ChannelInv

-----------------------------------------------------------------------------
(* Nobody's post is passed over.                                               *)
(*                                                                             *)
(* While a pass reads, a post of a steady bell is on the page of each source   *)
(* it has read, or strictly behind that page: the ones that came late and the  *)
(* ones cut off from their siblings are counted apart.  The watermark never    *)
(* passes the end of a full page, so the ones strictly behind are ahead of it. *)

\* What a pass has read is newer than the watermark, and complete up to its end.
ReadingOK ==
    pass.at = "read" =>
        /\ \A s \in Sources : \A i \in pass.rows[s] : post[i].at > cursor
        /\ \A s \in steady \ pass.unread, i \in Items \ (late \cup cut) :
            post[i].stored /\ s \in post[i].from /\ post[i].at > cursor =>
                \/ i \in pass.rows[s]
                \/ Capped(s) /\ \A j \in pass.rows[s] : post[j].at < post[i].at

BatchedOK == Told \cup pass.batch \subseteq batched

PassOverInv ==
    /\ TypeOK /\ steady \subseteq Heeded
    /\ ReadingOK /\ BatchedOK /\ NothingPassedOver

-----------------------------------------------------------------------------
(* selectBatch moves the watermark, and no further than its pool reaches.      *)

\* No fresh story is first seen after an instant that bounds the whole pool.
LEMMA FreshByBound ==
    ASSUME ReadPassOK, NEW b \in Moment, \A i \in Pool : post[i].at <= b
    PROVE  \A k \in Fresh : FirstAt(k) <= b
<1> SUFFICES ASSUME NEW k \in Fresh PROVE FirstAt(k) <= b
    OBVIOUS
<1> DEFINE I == {i \in Pool : post[i].story = k}
<1>1. I \in SUBSET Items /\ I # {}
    BY PoolIsPosts DEF Fresh
<1>2. Stamps(I) \in SUBSET Moment /\ Stamps(I) # {}
    BY <1>1, StampsAreMoments
<1>3. Min(Stamps(I)) \in Stamps(I)
    BY <1>2, MinIsLeast, ConstantsOK DEF Moment
<1> QED BY <1>3 DEF FirstAt, Stamps

\* A cut batch ends within any bound of the pool.
LEMMA BoundaryByBound ==
    ASSUME ReadPassOK, TooLong, NEW b \in Instants, \A i \in Pool : post[i].at <= b
    PROVE  Boundary <= b
<1> DEFINE B == {c \in Instants : Cardinality(Until(c)) >= ItemsPerMessage}
<1>1. Until(b) = Fresh
    BY FreshByBound DEF Until, Instants, Moment
<1>2. Cardinality(Fresh) \in Nat
    BY FreshIsFinite, FS_CardinalityType
<1>3. b \in B
    BY <1>1, <1>2, ConstantsOK DEF TooLong
<1>4. B \in SUBSET Nat
    BY DEF Instants
<1> HIDE DEF B
<1>5. Min(B) <= b
    BY <1>3, <1>4, MinIsLeast
<1> QED BY <1>5 DEF Boundary, B

\* What a pass reads is newer than the watermark.
SeenLater == ReadPassOK /\ cursor \in Moment /\ \A i \in Seen : post[i].at > cursor

\* A horizon is the instant of a post on a page.
LEMMA HorizonIsSeen ==
    ASSUME SeenLater, NEW s \in Sources, Capped(s)
    PROVE  \E i \in pass.rows[s] : post[i].at = Max(Stamps(pass.rows[s]))
<1> DEFINE R == pass.rows[s]
<1>1. R \in SUBSET Items
    BY DEF SeenLater, ReadPassOK, Pass
<1>2. R # {}
    <2> SUFFICES ASSUME R = {} PROVE FALSE OBVIOUS
    <2>1. Cardinality(R) = 0
        BY FS_EmptySet
    <2> QED BY <2>1, ConstantsOK DEF Capped
<1>3. Stamps(R) \in SUBSET Moment /\ Stamps(R) # {}
    BY <1>1, <1>2, StampsAreMoments DEF SeenLater
<1> HIDE DEF R
<1>4. Max(Stamps(R)) \in Stamps(R)
    BY <1>3, MaxIsGreatest
<1> QED BY <1>4 DEF R, Stamps

\* The watermark does not pass the end of a full page.
LEMMA NextCursorWithinHorizons ==
    ASSUME SeenLater, NEW h \in Horizons
    PROVE  NextCursor <= h
<1>1. h \in Moment /\ Horizons # {} /\ Horizons \in SUBSET Nat
    BY HorizonsAreMoments, ConstantsOK DEF Moment, SeenLater
<1>2. CASE ~TooLong
    BY <1>1, <1>2, MinIsLeast DEF NextCursor, Exhausted
<1>3. CASE TooLong
    <2>1. \A i \in Pool : post[i].at <= h
        BY DEF Pool
    <2>2. PICK s \in Sources : Capped(s) /\ h = Max(Stamps(pass.rows[s]))
        BY DEF Horizons
    <2>3. PICK i \in pass.rows[s] : post[i].at = h
        BY <2>2, HorizonIsSeen
    <2>4. i \in Seen /\ i \in Items
        BY DEF Seen, SeenLater, ReadPassOK, Pass
    <2>5. h \in Instants
        BY <1>1, <2>3, <2>4 DEF SeenLater, Moment, Instants
    <2> QED BY <1>3, <2>1, <2>5, BoundaryByBound DEF NextCursor, SeenLater
<1> QED BY <1>2, <1>3

\* A post of a pool that the watermark is about to cover has had its story
\* told, or has it in the batch.
LEMMA PoolIsDealtWith ==
    ASSUME SeenLater, NEW i \in Pool, post[i].at <= NextCursor
    PROVE  post[i].story \in Told \cup Batch
<1> SUFFICES ASSUME post[i].story \in Fresh PROVE post[i].story \in Batch
    BY DEF Fresh
<1>1. CASE ~TooLong
    BY <1>1 DEF Batch
<1>2. CASE TooLong
    <2> DEFINE k == post[i].story
               I == {j \in Pool : post[j].story = k}
    <2>1. I \in SUBSET Items /\ i \in I /\ i \in Items
        BY PoolIsPosts DEF SeenLater
    <2>2. Stamps(I) \in SUBSET Moment /\ post[i].at \in Stamps(I)
        BY <2>1, StampsAreMoments DEF SeenLater, Stamps
    <2>3. Min(Stamps(I)) <= post[i].at /\ Min(Stamps(I)) \in Moment
        BY <2>2, MinIsLeast, ConstantsOK DEF Moment
    <2>4. Boundary \in Instants /\ post[i].at \in Moment /\ NextCursor = Boundary
        BY <1>2, <2>2, BoundaryIsMoment DEF NextCursor, SeenLater
    <2>5. FirstAt(k) <= Boundary
        BY <2>3, <2>4 DEF FirstAt, Moment, Instants
    <2> QED BY <1>2, <2>5 DEF Batch, Until
<1> QED BY <1>1, <1>2

\* A pass that read anything moves the watermark.
LEMMA NextCursorIsAhead ==
    ASSUME SeenLater, Seen # {}
    PROVE  NextCursor > cursor
<1>0. Pool \in SUBSET Items /\ Pool \subseteq Seen
    BY PoolIsPosts DEF SeenLater, Pool
<1>1. CASE TooLong
    <2> DEFINE B == {c \in Instants : Cardinality(Until(c)) >= ItemsPerMessage}
    <2>1. Boundary \in B
        <3>1. B # {} /\ B \in SUBSET Nat
            <4>1. Until(LastInstant) = Fresh
                BY FirstAtIsMoment, ConstantsOK DEF Until, Moment, SeenLater
            <4>2. Cardinality(Fresh) \in Nat
                BY FreshIsFinite, FS_CardinalityType DEF SeenLater
            <4>3. LastInstant \in B
                BY <1>1, <4>1, <4>2, ConstantsOK DEF TooLong, Instants
            <4> QED BY <4>3 DEF Instants
        <3> HIDE DEF B
        <3>2. Min(B) \in B
            BY <3>1, MinIsLeast
        <3> QED BY <3>2 DEF Boundary, B
    <2>2. Until(Boundary) # {}
        <3> SUFFICES ASSUME Until(Boundary) = {} PROVE FALSE
            OBVIOUS
        <3>1. Cardinality(Until(Boundary)) = 0
            BY FS_EmptySet
        <3> QED BY <2>1, <3>1, ConstantsOK
    <2>3. PICK k \in Fresh : FirstAt(k) <= Boundary
        BY <2>2 DEF Until
    <2> DEFINE I == {i \in Pool : post[i].story = k}
    <2>4. I \in SUBSET Items /\ I # {}
        BY <1>0 DEF Fresh
    <2>5. Stamps(I) \in SUBSET Moment /\ Stamps(I) # {}
        BY <2>4, StampsAreMoments DEF SeenLater
    <2>6. Min(Stamps(I)) \in Stamps(I)
        BY <2>5, MinIsLeast, ConstantsOK DEF Moment
    <2>7. PICK i \in Pool : FirstAt(k) = post[i].at
        BY <2>6 DEF FirstAt, Stamps
    <2>8. post[i].at > cursor /\ cursor \in Moment /\ post[i].at \in Moment
        BY <1>0 DEF SeenLater, ReadPassOK, Post
    <2>9. NextCursor = Boundary /\ Boundary \in Nat
        BY <1>1, <2>1 DEF NextCursor, Instants
    <2> QED BY <2>3, <2>7, <2>8, <2>9, ConstantsOK DEF Moment
<1>2. CASE ~TooLong /\ Horizons # {}
    <2>1. Min(Horizons) \in Horizons
        BY <1>2, HorizonsAreMoments, MinIsLeast, ConstantsOK DEF Moment, SeenLater
    <2>2. PICK s \in Sources : Capped(s) /\ Min(Horizons) = Max(Stamps(pass.rows[s]))
        BY <2>1 DEF Horizons
    <2>3. PICK i \in pass.rows[s] : post[i].at = Min(Horizons)
        BY <2>2, HorizonIsSeen
    <2>4. i \in Seen
        BY DEF Seen
    <2> QED BY <1>2, <2>3, <2>4 DEF NextCursor, Exhausted, SeenLater
<1>3. CASE ~TooLong /\ Horizons = {}
    <2>1. Pool = Seen
        BY <1>3 DEF Pool
    <2>2. Stamps(Pool) \in SUBSET Moment /\ Stamps(Pool) # {}
        BY <1>0, <2>1, StampsAreMoments DEF SeenLater
    <2>3. Max(Stamps(Pool)) \in Stamps(Pool)
        BY <2>2, MaxIsGreatest
    <2>4. PICK i \in Pool : Max(Stamps(Pool)) = post[i].at
        BY <2>3 DEF Stamps
    <2> QED BY <1>3, <2>1, <2>4 DEF NextCursor, Exhausted, SeenLater
<1> QED BY <1>1, <1>2, <1>3

-----------------------------------------------------------------------------
LEMMA PassOverInit == Init => PassOverInv
<1> SUFFICES ASSUME Init PROVE PassOverInv
    OBVIOUS
<1>1. pass.at = "idle" /\ pass.batch = {} /\ Told = {}
    BY DEF Init, Idle, Told
<1>2. \A i \in Items : ~post[i].stored
    BY DEF Init, Unwritten
<1>3. ReadingOK /\ BatchedOK /\ NothingPassedOver /\ steady \subseteq Heeded
    BY <1>1, <1>2 DEF Init, ReadingOK, BatchedOK, NothingPassedOver, Covered
<1> QED BY <1>3, TypeInit DEF PassOverInv

LEMMA OnPageOrBehind ==
    ASSUME PassOverInv, pass.at = "read",
           NEW s \in steady, s \notin pass.unread,
           NEW i \in Items, i \notin late, i \notin cut,
           post[i].stored, s \in post[i].from, post[i].at > cursor
    PROVE  \/ i \in pass.rows[s]
           \/ Capped(s) /\ \A j \in pass.rows[s] : post[j].at < post[i].at
BY Zenon DEF PassOverInv, ReadingOK

\* A pass between its last read and selectBatch has read newer posts only.
LEMMA ReadIsLater ==
    ASSUME PassOverInv, pass.at = "read"
    PROVE  SeenLater
BY DEF PassOverInv, TypeOK, SeenLater, ReadPassOK, Seen, ReadingOK

LEMMA SelectBatchPassOver ==
    ASSUME PassOverInv, SelectBatch
    PROVE  PassOverInv'
<1>0. TypeOK /\ TypeOK' /\ pass \in Pass /\ post \in [Items -> Post] /\ cursor \in Moment
      /\ pass.at = "read" /\ pass.unread = {} /\ start \in Moment
    BY TypeNext DEF PassOverInv, TypeOK, Next, PassStep, SelectBatch
<1>1. SeenLater
    BY <1>0, ReadIsLater
<1>2. UNCHANGED <<post, bells, ledger, start, steady, late, cut>> /\ cursor' = NextCursor
      /\ batched' = batched \cup Batch
    BY DEF SelectBatch, world
<1>3. pass'.at # "read" /\ pass'.batch \subseteq Batch
    BY <1>0 DEF SelectBatch, Idle, Pass
<1>4. BatchedOK' /\ ReadingOK' /\ (steady \subseteq Heeded)'
    BY <1>2, <1>3 DEF PassOverInv, BatchedOK, ReadingOK, Told, Heeded, Listed
<1>5. NothingPassedOver'
    <2> SUFFICES ASSUME NEW i \in Items \ (late \cup cut), post[i].stored,
                        NEW s \in steady, s \in post[i].from,
                        post[i].at \in start + 1 .. NextCursor
                 PROVE  post[i].story \in batched \cup Batch
        BY <1>2 DEF NothingPassedOver, Covered
    <2>0. post[i].at \in Moment /\ NextCursor \in Moment /\ s \in Sources /\ i \in Items
        BY <1>0, NextCursorIsMoment DEF Post, TypeOK, ReadPassOK
    <2>1. CASE post[i].at <= cursor
        <3>1. Covered(i)
            BY <1>0, <2>0, <2>1, ConstantsOK DEF Covered, Moment
        <3> QED BY <3>1 DEF PassOverInv, NothingPassedOver
    <2>2. CASE post[i].at > cursor
        <3>0. i \in Items /\ i \notin late /\ i \notin cut /\ s \notin pass.unread
            BY <1>0
        <3>1. i \in pass.rows[s] \/ (Capped(s) /\ \A j \in pass.rows[s] : post[j].at < post[i].at)
            BY <1>0, <2>2, <3>0, OnPageOrBehind, Zenon
        <3>2. \A h \in Horizons : post[i].at <= h
            BY <1>1, <2>0, NextCursorWithinHorizons, HorizonsAreMoments, ConstantsOK
               DEF SeenLater, Moment
        <3>3. i \in pass.rows[s]
            <4> SUFFICES ASSUME Capped(s), \A j \in pass.rows[s] : post[j].at < post[i].at
                         PROVE  FALSE
                BY <3>1
            <4>1. PICK j \in pass.rows[s] : post[j].at = Max(Stamps(pass.rows[s]))
                BY <1>1, <2>0, HorizonIsSeen
            <4>2. post[j].at < post[i].at /\ post[i].at <= post[j].at
                BY <2>0, <3>2, <4>1 DEF Horizons
            <4>3. j \in Items /\ post[j].at \in Moment
                BY <1>0, <2>0 DEF Pass, Post
            <4> QED BY <2>0, <4>2, <4>3, ConstantsOK DEF Moment
        <3>4. i \in Pool
            BY <2>0, <3>2, <3>3 DEF Pool, Seen
        <3>5. post[i].at <= NextCursor
            BY <1>0, <2>0, ConstantsOK DEF Moment
        <3>6. post[i].story \in Told \cup Batch
            BY <1>1, <3>4, <3>5, PoolIsDealtWith
        <3> QED BY <3>6 DEF PassOverInv, BatchedOK
    <2> QED BY <1>0, <2>0, <2>1, <2>2, ConstantsOK DEF Moment
<1> QED BY <1>0, <1>4, <1>5 DEF PassOverInv

\* A step that leaves the posts, the watermark and the reading alone.
LEMMA PassOverKeeps ==
    ASSUME PassOverInv, TypeOK', UNCHANGED <<post, cursor, start, late, cut, batched>>,
           pass' = pass \/ (pass'.at # "read" /\ pass'.batch \subseteq pass.batch),
           steady' \subseteq steady, (steady \subseteq Heeded)',
           Told' \subseteq Told \cup pass.batch
    PROVE  PassOverInv'
<1>1. ReadingOK'
    <2>1. CASE pass' = pass
        BY <2>1 DEF PassOverInv, ReadingOK, Capped
    <2>2. CASE pass'.at # "read"
        BY <2>2 DEF ReadingOK
    <2> QED BY <2>1, <2>2
<1>2. BatchedOK' /\ NothingPassedOver'
    BY DEF PassOverInv, BatchedOK, NothingPassedOver, Covered
<1> QED BY <1>1, <1>2 DEF PassOverInv

LEMMA BeginPassOver ==
    ASSUME PassOverInv, Begin
    PROVE  PassOverInv'
<1>0. TypeOK /\ TypeOK' /\ pass \in Pass /\ now \in Instants /\ pass.at = "idle"
    BY TypeNext DEF PassOverInv, TypeOK, Next, PassStep, Begin
<1>1. UNCHANGED <<now, post, bells, ledger, steady, late, cut, batched>>
    BY DEF Begin, world
<1>2. (steady \subseteq Heeded)' /\ Told' = Told
    BY <1>1 DEF PassOverInv, Heeded, Listed, Told
<1>3. CASE cursor' = now /\ start' = now /\ pass' = pass
    <2>1. NothingPassedOver'
        BY <1>0, <1>1, <1>3 DEF NothingPassedOver, Covered, Instants
    <2>2. ReadingOK' /\ BatchedOK'
        BY <1>0, <1>1, <1>2, <1>3 DEF ReadingOK, BatchedOK, PassOverInv
    <2> QED BY <1>0, <1>2, <2>1, <2>2 DEF PassOverInv
<1>4. CASE UNCHANGED <<cursor, start>>
           /\ pass' = [Idle EXCEPT !.at = "read", !.since = since,
                                   !.unread = Blogs \cup Heeded]
    <2>1. /\ pass'.at = "read" /\ pass'.unread = Blogs \cup Heeded
          /\ pass'.batch = {} /\ pass'.rows = [s \in Sources |-> {}]
        BY <1>4 DEF Idle
    <2>2. steady' \subseteq pass'.unread
        BY <1>1, <2>1 DEF PassOverInv
    <2>3. ReadingOK'
        BY <2>1, <2>2 DEF ReadingOK
    <2>4. BatchedOK' /\ NothingPassedOver'
        BY <1>1, <1>2, <1>4, <2>1 DEF BatchedOK, NothingPassedOver, Covered, PassOverInv
    <2> QED BY <1>0, <1>2, <2>3, <2>4 DEF PassOverInv
<1> QED BY <1>3, <1>4 DEF Begin, FirstCursor

LEMMA ReadSourcePassOver ==
    ASSUME PassOverInv, NEW s \in Sources, ReadSource(s)
    PROVE  PassOverInv'
<1>0. TypeOK /\ TypeOK' /\ pass \in Pass /\ pass.at = "read"
      /\ post \in [Items -> Post] /\ steady \subseteq Heeded
    BY TypeNext DEF PassOverInv, TypeOK, Next, PassStep, ReadSource
<1>1. PICK R \in SUBSET Newer(s) :
        /\ IsPage(R, Newer(s))
        /\ pass' = [pass EXCEPT !.unread = @ \ {s}, !.rows[s] = R]
        /\ cut' = cut \cup CutOff(R, Newer(s))
    BY DEF ReadSource
<1>2. UNCHANGED <<post, bells, cursor, ledger, start, steady, late, batched>>
    BY DEF ReadSource, world
<1>3. /\ pass'.at = "read" /\ pass'.unread = pass.unread \ {s} /\ pass'.batch = pass.batch
      /\ \A t \in Sources : pass'.rows[t] = IF t = s THEN R ELSE pass.rows[t]
    BY <1>0, <1>1 DEF Pass
<1>4. \A t \in Sources : \A i \in pass'.rows[t] : post[i].at > cursor
    BY <1>0, <1>1, <1>3 DEF PassOverInv, ReadingOK, Newer
<1>5. ASSUME NEW t \in steady \ pass'.unread, NEW i \in Items \ (late \cup cut'),
             post[i].stored, t \in post[i].from, post[i].at > cursor
      PROVE  \/ i \in pass'.rows[t]
             \/ Cardinality(pass'.rows[t]) >= PerSource
                /\ \A j \in pass'.rows[t] : post[j].at < post[i].at
    <2>0. t \in Sources
        BY <1>0 DEF TypeOK
    <2>1. CASE t = s
        <3>1. i \in Newer(s)
            BY <1>0, <1>5, <2>1 DEF Newer, Heeded, Listed
        <3>2. ASSUME i \notin R
              PROVE  Cardinality(R) = PerSource /\ \A j \in R : post[j].at < post[i].at
            <4>1. Cardinality(R) = PerSource
                BY <1>1, <3>1, <3>2 DEF IsPage
            <4>2. ASSUME NEW j \in R PROVE post[j].at < post[i].at
                <5>1. post[j].at <= post[i].at
                    BY <1>1, <3>1, <3>2 DEF IsPage
                <5>2. post[j].at # post[i].at
                    BY <1>1, <1>5, <3>1, <3>2 DEF CutOff
                <5>3. post[j].at \in Int /\ post[i].at \in Int
                    BY <1>0, <1>1, ConstantsOK DEF Newer, Post, Moment
                <5> QED BY <5>1, <5>2, <5>3
            <4> QED BY <4>1, <4>2
        <3> QED BY <1>3, <2>0, <2>1, <3>2, ConstantsOK
    <2>2. CASE t # s
        <3>1. t \in steady \ pass.unread /\ i \in Items \ (late \cup cut)
            BY <1>1, <1>3, <2>2
        <3> QED BY <1>0, <1>3, <1>5, <2>0, <2>2, <3>1 DEF PassOverInv, ReadingOK, Capped
    <2> QED BY <2>1, <2>2
<1>6. ReadingOK'
    BY <1>2, <1>4, <1>5 DEF ReadingOK, Capped
<1>7. BatchedOK' /\ NothingPassedOver'
    BY <1>1, <1>2, <1>3 DEF BatchedOK, NothingPassedOver, Covered, PassOverInv, Told
<1>8. (steady \subseteq Heeded)'
    BY <1>2 DEF PassOverInv, Heeded, Listed
<1> QED BY <1>0, <1>6, <1>7, <1>8 DEF PassOverInv

LEMMA StampItemPassOver ==
    ASSUME PassOverInv, TypeOK', NEW i \in Items, NEW k \in Stories,
           NEW F \in SUBSET Sources, StampItem(i, k, F)
    PROVE  PassOverInv'
<1>0. TypeOK /\ pass \in Pass /\ cursor \in Moment
    BY DEF PassOverInv, TypeOK
<1>1. UNCHANGED <<bells, cursor, ledger, pass, start, steady, late, cut, batched>>
    BY DEF StampItem, history
<1>2. /\ \A j \in Items : j # i => post'[j] = post[j]
      /\ ~post'[i].stored /\ post[i].at = 0
    BY <1>0 DEF StampItem, TypeOK
<1>3. ReadingOK'
    <2> SUFFICES ASSUME pass.at = "read" PROVE ReadingOK'
        BY <1>1 DEF ReadingOK
    <2>1. \A s \in Sources : i \notin pass.rows[s]
        <3> SUFFICES ASSUME NEW s \in Sources, i \in pass.rows[s] PROVE FALSE
            OBVIOUS
        <3>1. 0 > cursor
            BY <1>2 DEF PassOverInv, ReadingOK
        <3> QED BY <1>0, <3>1, ConstantsOK DEF Moment
    <2>2. \A s \in Sources : pass.rows[s] \subseteq Items
        BY <1>0 DEF Pass
    <2>3. \A s \in Sources, j \in Items : j \in pass.rows[s] => post'[j] = post[j]
        BY <1>2, <2>1
    <2>4. \A s \in Sources : \A j \in pass.rows[s] : post'[j].at > cursor
        BY <2>2, <2>3 DEF PassOverInv, ReadingOK
    <2>5. ASSUME NEW s \in steady \ pass.unread, NEW j \in Items \ (late \cup cut),
                 post'[j].stored, s \in post'[j].from, post'[j].at > cursor
          PROVE  \/ j \in pass.rows[s]
                 \/ Capped(s) /\ \A l \in pass.rows[s] : post'[l].at < post'[j].at
        <3>1. s \in Sources /\ post'[j] = post[j]
            BY <1>0, <1>2, <2>5 DEF TypeOK
        <3>2. j \in pass.rows[s] \/ (Capped(s) /\ \A l \in pass.rows[s] : post[l].at < post[j].at)
            <4>1. /\ j \in Items /\ j \notin late /\ j \notin cut
                  /\ s \in steady /\ s \notin pass.unread
                OBVIOUS
            <4>2. post[j].stored /\ s \in post[j].from /\ post[j].at > cursor
                BY <2>5, <3>1
            <4> QED BY <4>1, <4>2, OnPageOrBehind, Zenon
        <3> QED BY <2>2, <2>3, <3>1, <3>2
    <2> QED BY <1>1, <2>4, <2>5 DEF ReadingOK, Capped
<1>4. BatchedOK' /\ (steady \subseteq Heeded)'
    BY <1>1 DEF BatchedOK, PassOverInv, Told, Heeded, Listed
<1>5. NothingPassedOver'
    BY <1>1, <1>2 DEF NothingPassedOver, Covered, PassOverInv
<1> QED BY <1>3, <1>4, <1>5 DEF PassOverInv

LEMMA CommitItemPassOver ==
    ASSUME PassOverInv, TypeOK', NEW i \in Items, CommitItem(i)
    PROVE  PassOverInv'
<1>0. TypeOK /\ pass \in Pass /\ post \in [Items -> Post] /\ cursor \in Moment
      /\ start \in Moment
    BY DEF PassOverInv, TypeOK
<1>1. UNCHANGED <<bells, cursor, ledger, pass, start, steady, cut, batched>>
      /\ late \subseteq late' /\ (TooLate(i) => i \in late')
    BY DEF CommitItem
<1>2. \A j \in Items : /\ post'[j].at = post[j].at /\ post'[j].story = post[j].story
                       /\ post'[j].from = post[j].from
                       /\ j # i => post'[j].stored = post[j].stored
    BY <1>0 DEF CommitItem, Post
<1>3. ReadingOK'
    <2> SUFFICES ASSUME pass.at = "read" PROVE ReadingOK'
        BY <1>1 DEF ReadingOK
    <2>1. \A s \in Sources : pass.rows[s] \subseteq Items
        BY <1>0 DEF Pass
    <2>2. \A s \in Sources : \A j \in pass.rows[s] : post'[j].at > cursor
        BY <1>2, <2>1 DEF PassOverInv, ReadingOK
    <2>3. ASSUME NEW s \in steady \ pass.unread, NEW j \in Items \ (late' \cup cut),
                 post'[j].stored, s \in post'[j].from, post'[j].at > cursor
          PROVE  \/ j \in pass.rows[s]
                 \/ Capped(s) /\ \A l \in pass.rows[s] : post'[l].at < post'[j].at
        <3>1. s \in Sources /\ s \in post[j].from /\ post[j].at > cursor
            BY <1>0, <1>2, <2>3 DEF TypeOK
        <3>2. j # i
            BY <1>1, <3>1 DEF TooLate
        <3>3. /\ j \in Items /\ j \notin late /\ j \notin cut /\ post[j].stored
              /\ s \in steady /\ s \notin pass.unread
            BY <1>1, <1>2, <2>3, <3>2
        <3>4. j \in pass.rows[s] \/ (Capped(s) /\ \A l \in pass.rows[s] : post[l].at < post[j].at)
            BY <3>1, <3>3, OnPageOrBehind, Zenon
        <3> QED BY <1>2, <2>1, <3>1, <3>4
    <2> QED BY <1>1, <2>2, <2>3 DEF ReadingOK, Capped
<1>4. BatchedOK' /\ (steady \subseteq Heeded)'
    BY <1>1 DEF BatchedOK, PassOverInv, Told, Heeded, Listed
<1>5. NothingPassedOver'
    <2> SUFFICES ASSUME NEW j \in Items, Covered(j)', j \notin late' \cup cut
                 PROVE  post[j].story \in batched
        BY <1>1, <1>2 DEF NothingPassedOver
    <2>1. post[j].at <= cursor
        BY <1>0, <1>1, <1>2, ConstantsOK DEF Covered, Moment, Post
    <2>2. j # i
        BY <1>1, <2>1 DEF TooLate
    <2>3. Covered(j) /\ j \notin late \cup cut
        BY <1>1, <1>2, <2>2 DEF Covered
    <2> QED BY <2>3 DEF PassOverInv, NothingPassedOver
<1> QED BY <1>3, <1>4, <1>5 DEF PassOverInv

LEMMA PassOverNext == PassOverInv /\ [Next]_vars => PassOverInv'
<1> SUFFICES ASSUME PassOverInv, [Next]_vars PROVE PassOverInv'
    OBVIOUS
<1>0. TypeOK /\ TypeOK' /\ pass \in Pass /\ steady \subseteq Heeded
    BY TypeNext DEF PassOverInv, TypeOK
<1>1. CASE UNCHANGED <<post, cursor, start, late, cut, batched, bells, steady>>
           /\ (pass' = pass \/ (pass'.at # "read" /\ pass'.batch \subseteq pass.batch))
           /\ Told' \subseteq Told \cup pass.batch
    <2>1. (steady \subseteq Heeded)'
        BY <1>0, <1>1 DEF Heeded, Listed
    <2> QED BY <1>0, <1>1, <2>1, PassOverKeeps
<1>2. CASE MarkSent
    <2>1. pass'.at = "fan" /\ pass'.batch = pass.batch
          /\ Told' \subseteq Told \cup pass.batch
          /\ UNCHANGED <<post, cursor, start, late, cut, batched, bells, steady>>
        BY <1>0, <1>2 DEF MarkSent, Record, Told, Pass, world, history
    <2> QED BY <1>1, <2>1
<1>3. ASSUME NEW c \in Channels, Deliver(c) PROVE PassOverInv'
    <2>1. pass'.at = "fan" /\ pass'.batch = pass.batch /\ Told' = Told
          /\ UNCHANGED <<post, cursor, start, late, cut, batched, bells, steady>>
        BY <1>0, <1>3 DEF Deliver, Told, Pass
    <2> QED BY <1>1, <2>1
<1>4. CASE PassEnds \/ Crash
    <2>1. pass'.at = "idle" /\ pass'.batch = {} /\ Told' = Told
          /\ UNCHANGED <<post, cursor, start, late, cut, batched, bells, steady>>
        BY <1>4 DEF PassEnds, Crash, Told, Idle, world, history
    <2> QED BY <1>1, <2>1
<1>5. CASE PruneAlertSent
    <2>1. pass' = pass /\ Told' \subseteq Told
          /\ UNCHANGED <<post, cursor, start, late, cut, batched, bells, steady>>
        BY <1>5 DEF PruneAlertSent, Told, world, history
    <2> QED BY <1>1, <2>1
<1>6. ASSUME NEW s \in Sources, SetAlerts(s) PROVE PassOverInv'
    <2>1. UNCHANGED <<post, cursor, start, late, cut, batched, ledger, pass>>
          /\ steady' = steady \cap Heeded'
        BY <1>6 DEF SetAlerts, Switched
    <2>2. Told' = Told /\ (steady \subseteq Heeded)' /\ steady' \subseteq steady
        BY <2>1 DEF Told
    <2> QED BY <1>0, <2>1, <2>2, PassOverKeeps
<1>7. ASSUME NEW c \in Channels, SetChannel(c) PROVE PassOverInv'
    <2>1. UNCHANGED <<post, cursor, start, late, cut, batched, ledger, pass, bells, steady>>
        BY <1>7 DEF SetChannel, Switched
    <2> QED BY <1>1, <2>1 DEF Told
<1>8. CASE TimePasses
    <2>1. UNCHANGED <<post, cursor, start, late, cut, batched, ledger, pass, bells, steady>>
        BY <1>8 DEF TimePasses, world, history
    <2> QED BY <1>1, <2>1 DEF Told
<1>9. CASE UNCHANGED vars
    BY <1>1, <1>9 DEF vars, world, history, Told
<1> QED BY <1>0, <1>2, <1>3, <1>4, <1>5, <1>6, <1>7, <1>8, <1>9, BeginPassOver,
           ReadSourcePassOver, SelectBatchPassOver, StampItemPassOver, CommitItemPassOver,
           TellingsAreKnown DEF Next, PassStep

\* What is left of deliver.js invariant 2, for any number of posts, sources and
\* passes, killed wherever: every post of a bell that every pass would have read,
\* once the watermark has covered it, was put in a batch, except those stored
\* after reading had gone past them and those behind a full page that ended among
\* their siblings.
THEOREM NobodyIsPassedOver == Spec => []NothingPassedOver
<1>1. PassOverInv => NothingPassedOver
    BY DEF PassOverInv
<1> QED BY <1>1, PassOverInit, PassOverNext, PTL DEF Spec

\* selectBatch never leaves a pass where it was: whatever was read, told already
\* or not, the watermark moves, so no page is read for ever.
THEOREM PassesReadOn == Spec => ReadingMovesOn
<1>1. PassOverInv /\ [Next]_vars => [SelectBatch /\ Seen # {} => cursor' > cursor]_vars
    <2> SUFFICES ASSUME PassOverInv, SelectBatch, Seen # {}
                 PROVE  cursor' > cursor
        OBVIOUS
    <2>1. SeenLater
        BY ReadIsLater DEF SelectBatch
    <2> QED BY <2>1, NextCursorIsAhead DEF SelectBatch
<1> QED BY <1>1, PassOverInit, PassOverNext, PTL DEF Spec, ReadingMovesOn
=============================================================================
