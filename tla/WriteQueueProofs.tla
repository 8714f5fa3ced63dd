-------------------------- MODULE WriteQueueProofs --------------------------
(***************************************************************************)
(* The write path for any processes, calls and ceiling: it implements the  *)
(* service it stands for and blames the caller at fault.                   *)
(***************************************************************************)
EXTENDS WriteQueue, WellFoundedInduction, TLAPS

Job == [by : Procs, writes : Seq(Writes), tries : Nat,
        state : {"open", "done", "statement", "transport"}]

\* What TypeOK says, but of the rows.
Ranges ==
    /\ asked \in [Procs -> Nat]
    /\ waiting \in [Procs -> Seq(Writes)]
    /\ group \in [Procs -> Seq(Writes)]
    /\ alone \in [Procs -> Nat]
    /\ \A p \in Procs : alone[p] \in 0 .. Len(group[p])
    /\ flight \in [Procs -> Nat]
    /\ \A p \in Procs : flight[p] \in 0 .. Len(jobs)
    /\ jobs \in Seq(Job)
    /\ line \in Seq(Nat) /\ \A i \in DOMAIN line : line[i] \in 1 .. Len(jobs)
    /\ delayed \subseteq 1 .. Len(jobs)
    /\ active \in 0 .. Len(jobs)
    /\ log \in Seq(Seq(Writes))
    /\ answer \in [Writes -> {"new", "asked"} \cup Verdicts]
    /\ faults \in [transport : Nat, wait : Nat, crash : Nat]

\* The calls a process holds, in its group and waiting, are different calls of its
\* program, those not yet answered still ask, and those to come are new.
Held(P, n, g, w, al, ans) ==
    /\ n <= Len(P)
    /\ g = <<>> => w = <<>>
    /\ \A i \in 1 .. Len(g) : \E k \in 1 .. n : g[i] = P[k]
    /\ \A i \in 1 .. Len(w) : \E k \in 1 .. n : w[i] = P[k]
    /\ \A i, j \in 1 .. Len(g) : g[i] = g[j] => i = j
    /\ \A i, j \in 1 .. Len(w) : w[i] = w[j] => i = j
    /\ \A i \in 1 .. Len(g), j \in 1 .. Len(w) : g[i] # w[j]
    /\ \A i \in 1 .. Len(g) : al <= i => ans[g[i]] = "asked"
    /\ \A i \in 1 .. Len(w) : ans[w[i]] = "asked"
    /\ \A k \in n + 1 .. Len(P) : ans[P[k]] = "new"

HeldInv ==
    \A p \in Procs : Held(Program[p], asked[p], group[p], waiting[p], alone[p], answer)

\* A process in wait has posted what it has in hand.
FlightInv ==
    \A p \in Procs : flight[p] # 0 => group[p] # <<>> /\ jobs[flight[p]].writes = Payload(p)

InLog(lg, x) == \E i \in DOMAIN lg : \E j \in DOMAIN lg[i] : lg[i][j] = x

\* A job carries calls that were made, and is done once it is committed.
JobInv ==
    \A n \in 1 .. Len(jobs) : LET ws == jobs[n].writes IN
        /\ ws # <<>>
        /\ \A i \in 1 .. Len(ws) : answer[ws[i]] # "new"
        /\ jobs[n].state = "done" => \A i \in 1 .. Len(ws) : InLog(log, ws[i])

Inv == Ranges /\ HeldInv /\ FlightInv /\ JobInv

-----------------------------------------------------------------------------
(* The folder takes the next group.                                        *)

LEMMA FillIsAPlace ==
  ASSUME NEW q \in Seq(Writes), q # <<>>
  PROVE  Fill(q) \in 1 .. Len(q)
<1> DEFINE S == {n \in 1 .. Len(q) : GroupEnds(q, n)}
<1>1. Len(q) \in S
  <2>1. Len(q) \in 1 .. Len(q)
    OBVIOUS
  <2> QED BY <2>1 DEF GroupEnds
<1>2. S \in SUBSET Nat /\ S # {}
  BY <1>1
<1>3. PICK n \in S : \A k \in S : ~ (<<k, n>> \in OpToRel(<, Nat))
  BY <1>2, NatLessThanWellFounded, WFMin, Zenon
<1>4. \A k \in S : ~ (k < n)
  BY <1>2, <1>3, Zenon DEF OpToRel
<1>5. n \in 1 .. Len(q) /\ GroupEnds(q, n)
  BY <1>3
<1>6. \A k \in 1 .. n - 1 : k \in 1 .. Len(q) /\ k < n
  BY <1>5
<1>7. \A k \in 1 .. n - 1 : ~GroupEnds(q, k)
  BY <1>4, <1>6
<1> QED BY <1>5, <1>7 DEF Fill

\* What TakeGroup leaves of q: a group, and the rest in order.
LEMMA TakenApart ==
  ASSUME NEW p \in Procs, NEW q \in Seq(Writes), TakeGroup(p, q),
         group \in [Procs -> Seq(Writes)], waiting \in [Procs -> Seq(Writes)]
  PROVE  /\ group' \in [Procs -> Seq(Writes)] /\ waiting' \in [Procs -> Seq(Writes)]
         /\ \A r \in Procs \ {p} : group'[r] = group[r] /\ waiting'[r] = waiting[r]
         /\ group'[p] = <<>> => q = <<>> /\ waiting'[p] = <<>>
         /\ Len(group'[p]) \in Nat /\ Len(group'[p]) + Len(waiting'[p]) = Len(q)
         /\ \A i \in 1 .. Len(group'[p]) : i \in 1 .. Len(q) /\ group'[p][i] = q[i]
         /\ \A i \in 1 .. Len(waiting'[p]) :
               Len(group'[p]) + i \in 1 .. Len(q) /\ waiting'[p][i] = q[Len(group'[p]) + i]
<1> DEFINE n == IF q = <<>> THEN 0 ELSE Fill(q)
<1>1. n \in 0 .. Len(q) /\ (q # <<>> => n # 0)
  BY FillIsAPlace
<1>2. group' = [group EXCEPT ![p] = SubSeq(q, 1, n)]
      /\ waiting' = [waiting EXCEPT ![p] = SubSeq(q, n + 1, Len(q))]
  BY DEF TakeGroup
<1> HIDE DEF n
<1>3. SubSeq(q, 1, n) \in Seq(Writes) /\ Len(SubSeq(q, 1, n)) = n
      /\ \A i \in 1 .. n : i \in 1 .. Len(q) /\ SubSeq(q, 1, n)[i] = q[i]
  BY <1>1
<1>4. SubSeq(q, n + 1, Len(q)) \in Seq(Writes) /\ Len(SubSeq(q, n + 1, Len(q))) = Len(q) - n
      /\ \A i \in 1 .. Len(q) - n : n + i \in 1 .. Len(q) /\ SubSeq(q, n + 1, Len(q))[i] = q[n + i]
  BY <1>1
<1>5. group'[p] = SubSeq(q, 1, n) /\ waiting'[p] = SubSeq(q, n + 1, Len(q))
  BY <1>2
<1>6. group'[p] = <<>> => q = <<>> /\ waiting'[p] = <<>>
  BY <1>1, <1>3, <1>4, <1>5
<1>7. group' \in [Procs -> Seq(Writes)] /\ waiting' \in [Procs -> Seq(Writes)]
      /\ \A r \in Procs \ {p} : group'[r] = group[r] /\ waiting'[r] = waiting[r]
  BY <1>2, <1>3, <1>4
<1>8. Len(group'[p]) = n /\ Len(waiting'[p]) = Len(q) - n
  BY <1>3, <1>4, <1>5
<1>9. Len(group'[p]) \in Nat /\ Len(group'[p]) + Len(waiting'[p]) = Len(q)
  BY <1>1, <1>8
<1>10. \A i \in 1 .. Len(group'[p]) : i \in 1 .. Len(q) /\ group'[p][i] = q[i]
  BY <1>3, <1>5, <1>8
<1>11. \A i \in 1 .. Len(waiting'[p]) :
         Len(group'[p]) + i \in 1 .. Len(q) /\ waiting'[p][i] = q[Len(group'[p]) + i]
  BY <1>4, <1>5, <1>8
<1> QED BY <1>6, <1>7, <1>9, <1>10, <1>11

-----------------------------------------------------------------------------
(* What a process holds, as its calls are made, taken up and answered.     *)

Answers == {"new", "asked"} \cup Verdicts
OneToOne(P) == \A i, j \in 1 .. Len(P) : P[i] = P[j] => i = j

\* Another process's calls are answered.
LEMMA HeldBeside ==
  ASSUME NEW P \in Seq(Writes), NEW n \in Nat, NEW g \in Seq(Writes), NEW w \in Seq(Writes),
         NEW al \in Nat, NEW ans, NEW ans2,
         Held(P, n, g, w, al, ans),
         \A k \in 1 .. Len(P) : ans2[P[k]] = ans[P[k]]
  PROVE  Held(P, n, g, w, al, ans2)
<1>1. \A k \in 1 .. n : k \in 1 .. Len(P)
  BY DEF Held
<1>2. \A i \in 1 .. Len(g) : ans2[g[i]] = ans[g[i]]
  <2>1. \A i \in 1 .. Len(g) : \E k \in 1 .. n : g[i] = P[k]
    BY DEF Held
  <2> QED BY <1>1, <2>1
<1>3. \A i \in 1 .. Len(w) : ans2[w[i]] = ans[w[i]]
  <2>1. \A i \in 1 .. Len(w) : \E k \in 1 .. n : w[i] = P[k]
    BY DEF Held
  <2> QED BY <1>1, <2>1
<1>4. \A k \in n + 1 .. Len(P) : ans2[P[k]] = ans[P[k]]
  OBVIOUS
<1> QED BY <1>2, <1>3, <1>4 DEF Held

\* A caller run by itself is answered, and the next one's turn comes.
LEMMA HeldOneByOne ==
  ASSUME NEW P \in Seq(Writes), NEW n \in Nat, NEW g \in Seq(Writes), NEW w \in Seq(Writes),
         NEW al \in 1 .. Len(g), NEW ans, NEW ans2,
         Held(P, n, g, w, al, ans),
         \A x \in Writes : x # g[al] => ans2[x] = ans[x]
  PROVE  Held(P, n, g, w, al + 1, ans2)
<1>1. \A i \in 1 .. Len(g) : al + 1 <= i => g[i] \in Writes /\ g[i] # g[al] /\ al <= i
  BY DEF Held
<1>2. \A i \in 1 .. Len(g) : al + 1 <= i => ans2[g[i]] = "asked"
  BY <1>1 DEF Held
<1>3. \A i \in 1 .. Len(w) : w[i] \in Writes /\ w[i] # g[al]
  BY DEF Held
<1>4. \A i \in 1 .. Len(w) : ans2[w[i]] = "asked"
  BY <1>3 DEF Held
<1>5. ans[g[al]] = "asked"
  BY DEF Held
<1>6. \A k \in n + 1 .. Len(P) : P[k] \in Writes /\ P[k] # g[al]
  BY <1>5 DEF Held
<1>7. \A k \in n + 1 .. Len(P) : ans2[P[k]] = "new"
  BY <1>6 DEF Held
<1> QED BY <1>2, <1>4, <1>7 DEF Held

\* Only the callers of g are answered.
AnswersKept(g, ans, ans2) ==
    \A x \in Writes : (\A i \in 1 .. Len(g) : x # g[i]) => ans2[x] = ans[x]

\* w is taken apart into a group and the rest.
TakenFrom(w, g2, w2) ==
    /\ g2 = <<>> => w2 = <<>>
    /\ \A i \in 1 .. Len(g2) : i \in 1 .. Len(w) /\ g2[i] = w[i]
    /\ \A i \in 1 .. Len(w2) : Len(g2) + i \in 1 .. Len(w) /\ w2[i] = w[Len(g2) + i]

\* The group is answered, or was answered, and the next one is taken.
LEMMA HeldTaken ==
  ASSUME NEW P \in Seq(Writes), OneToOne(P),
         NEW n \in Nat, NEW g \in Seq(Writes), NEW w \in Seq(Writes),
         NEW al \in Nat, NEW ans, NEW ans2,
         Held(P, n, g, w, al, ans),
         AnswersKept(g, ans, ans2),
         NEW g2 \in Seq(Writes), NEW w2 \in Seq(Writes), TakenFrom(w, g2, w2)
  PROVE  Held(P, n, g2, w2, 0, ans2)
<1> USE DEF AnswersKept, TakenFrom
<1>1. \A i \in 1 .. Len(w) : w[i] \in Writes /\ ans2[w[i]] = "asked"
  BY DEF Held
<1>2. \A k \in n + 1 .. Len(P) : ans2[P[k]] = "new"
  <2>1. ASSUME NEW k \in n + 1 .. Len(P), NEW i \in 1 .. Len(g)
        PROVE  P[k] # g[i]
    <3>1. PICK m \in 1 .. n : g[i] = P[m]
      BY DEF Held
    <3>2. m \in 1 .. Len(P) /\ k \in 1 .. Len(P) /\ m # k
      BY <2>1, <3>1 DEF Held
    <3> QED BY <3>1, <3>2 DEF OneToOne
  <2>2. \A k \in n + 1 .. Len(P) : P[k] \in Writes
    OBVIOUS
  <2> QED BY <2>1, <2>2 DEF Held
<1>3. \A i \in 1 .. Len(g2) : \E k \in 1 .. n : g2[i] = P[k]
  BY DEF Held
<1>4. \A i \in 1 .. Len(w2) : \E k \in 1 .. n : w2[i] = P[k]
  <2>1. \A i \in 1 .. Len(w) : \E k \in 1 .. n : w[i] = P[k]
    BY DEF Held
  <2> QED BY <2>1
<1>5. \A i, j \in 1 .. Len(g2) : g2[i] = g2[j] => i = j
  BY DEF Held
<1>6. \A i, j \in 1 .. Len(w2) : w2[i] = w2[j] => i = j
  BY DEF Held
<1>7. \A i \in 1 .. Len(g2), j \in 1 .. Len(w2) : g2[i] # w2[j]
  BY DEF Held
<1>8. \A i \in 1 .. Len(g2) : ans2[g2[i]] = "asked"
  BY <1>1
<1>9. \A i \in 1 .. Len(w2) : ans2[w2[i]] = "asked"
  BY <1>1
<1>10. n <= Len(P)
  BY DEF Held
<1> QED BY <1>2, <1>3, <1>4, <1>5, <1>6, <1>7, <1>8, <1>9, <1>10 DEF Held

\* A caller joins those that wait.
LEMMA HeldJoined ==
  ASSUME NEW P \in Seq(Writes), OneToOne(P),
         NEW n \in Nat, NEW g \in Seq(Writes), NEW w \in Seq(Writes),
         NEW al \in Nat, NEW ans \in [Writes -> Answers],
         Held(P, n, g, w, al, ans), n < Len(P)
  PROVE  LET ans2 == [ans EXCEPT ![P[n + 1]] = "asked"] IN
         /\ g # <<>> => Held(P, n + 1, g, Append(w, P[n + 1]), al, ans2)
         /\ g = <<>> => Held(P, n + 1, <<P[n + 1]>>, <<>>, 0, ans2)
<1> DEFINE x == P[n + 1]
           ans2 == [ans EXCEPT ![x] = "asked"]
           w2 == Append(w, x)
<1>1. x \in Writes /\ n + 1 \in 1 .. Len(P)
  OBVIOUS
<1>2. \A k \in 1 .. n : P[k] # x
  BY <1>1 DEF OneToOne
<1>3. \A i \in 1 .. Len(g) : g[i] # x
  BY <1>2 DEF Held
<1>4. \A i \in 1 .. Len(w) : w[i] # x
  BY <1>2 DEF Held
<1>5. \A k \in n + 2 .. Len(P) : P[k] # x /\ P[k] \in Writes
  BY <1>1 DEF OneToOne
<1>6. \A k \in (n + 1) + 1 .. Len(P) : ans2[P[k]] = "new"
  BY <1>5 DEF Held
<1>7. ans2[x] = "asked"
  BY <1>1
<1>8. CASE g # <<>>
  <2>1. Len(w2) = Len(w) + 1 /\ \A i \in 1 .. Len(w2) : w2[i] = IF i <= Len(w) THEN w[i] ELSE x
    OBVIOUS
  <2> HIDE DEF x, w2, ans2
  <2>2. \A i \in 1 .. Len(w2) : i \in 1 .. Len(w) \/ (i = Len(w) + 1 /\ w2[i] = x)
    BY <2>1
  <2>3. \A i \in 1 .. Len(g) : \E k \in 1 .. n + 1 : g[i] = P[k]
    BY DEF Held
  <2>4. \A i \in 1 .. Len(w2) : \E k \in 1 .. n + 1 : w2[i] = P[k]
    BY <2>1, <2>2 DEF Held, x
  <2>5. \A i, j \in 1 .. Len(w2) : w2[i] = w2[j] => i = j
    <3>1. \A i, j \in 1 .. Len(w) : w[i] = w[j] => i = j
      BY DEF Held
    <3>2. \A i \in 1 .. Len(w) : w2[i] = w[i]
      BY <2>1
    <3> QED BY <1>4, <2>2, <3>1, <3>2
  <2>6. \A i \in 1 .. Len(g), j \in 1 .. Len(w2) : g[i] # w2[j]
    <3>1. \A i \in 1 .. Len(g), j \in 1 .. Len(w) : g[i] # w[j]
      BY DEF Held
    <3>2. \A i \in 1 .. Len(w) : w2[i] = w[i]
      BY <2>1
    <3> QED BY <1>3, <2>2, <3>1, <3>2
  <2>7. \A i \in 1 .. Len(g) : al <= i => ans2[g[i]] = "asked"
    BY <1>3 DEF Held, ans2
  <2>8. \A i \in 1 .. Len(w2) : ans2[w2[i]] = "asked"
    <3>1. \A i \in 1 .. Len(w) : w[i] \in Writes /\ ans2[w[i]] = "asked"
      BY <1>4 DEF Held, ans2
    <3>2. \A i \in 1 .. Len(w) : w2[i] = w[i]
      BY <2>1
    <3> QED BY <1>7, <2>2, <3>1, <3>2
  <2>9. Held(P, n + 1, g, w2, al, ans2)
    BY <1>6, <1>8, <2>3, <2>4, <2>5, <2>6, <2>7, <2>8 DEF Held
  <2> QED BY <1>8, <2>9 DEF x, w2, ans2
<1>9. CASE g = <<>>
  <2>1. Held(P, n + 1, <<x>>, <<>>, 0, ans2)
    BY <1>1, <1>6, <1>7 DEF Held
  <2> QED BY <1>9, <2>1
<1> QED BY <1>8, <1>9

-----------------------------------------------------------------------------
(* What the steps have in common.                                          *)

LEMMA ProgramsApart ==
  /\ \A p \in Procs : Program[p] \in Seq(Writes) /\ OneToOne(Program[p])
  /\ \A p, q \in Procs : \A i \in 1 .. Len(Program[p]), j \in 1 .. Len(Program[q]) :
        Program[p][i] = Program[q][j] => p = q
<1>1. \A p \in Procs : Program[p] \in Seq(Writes)
  BY CallsAssumption
<1>2. \A p \in Procs : DOMAIN Program[p] = 1 .. Len(Program[p])
  BY <1>1
<1> QED BY <1>1, <1>2, CallsAssumption DEF OneToOne

\* What is committed stays committed.
LEMMA CommittedStays ==
  ASSUME log \in Seq(Seq(Writes)), NEW ws \in Seq(Writes),
         log' = log \/ log' = Append(log, ws)
  PROVE  /\ \A x : InLog(log, x) => InLog(log', x)
         /\ log' = Append(log, ws) => \A i \in 1 .. Len(ws) : InLog(log', ws[i])
<1>1. CASE log' = log
  <2>1. \A x : InLog(log, x) => InLog(log', x)
    BY <1>1 DEF InLog
  <2>2. log' # Append(log, ws)
    BY <1>1
  <2> QED BY <2>1, <2>2
<1>2. CASE log' = Append(log, ws)
  <2>1. /\ DOMAIN log = 1 .. Len(log) /\ DOMAIN log' = 1 .. Len(log) + 1
        /\ Len(log) \in Nat /\ log'[Len(log) + 1] = ws
        /\ \A i \in 1 .. Len(log) : log'[i] = log[i]
    BY <1>2
  <2>2. DOMAIN ws = 1 .. Len(ws)
    OBVIOUS
  <2>3. ASSUME NEW x, InLog(log, x)
        PROVE  InLog(log', x)
    <3>1. PICK i \in DOMAIN log : \E j \in DOMAIN log[i] : log[i][j] = x
      BY <2>3 DEF InLog
    <3>2. i \in DOMAIN log' /\ log'[i] = log[i]
      BY <2>1
    <3> QED BY <3>1, <3>2 DEF InLog
  <2>4. ASSUME NEW i \in 1 .. Len(ws)
        PROVE  InLog(log', ws[i])
    <3>1. Len(log) + 1 \in DOMAIN log' /\ i \in DOMAIN log'[Len(log) + 1]
          /\ log'[Len(log) + 1][i] = ws[i]
      BY <2>1, <2>2
    <3> QED BY <3>1 DEF InLog
  <2> QED BY <2>3, <2>4
<1> QED BY <1>1, <1>2

\* What a process has in hand is part of its group, not yet answered.
LEMMA PayloadIsHeld ==
  ASSUME Ranges, HeldInv, NEW p \in Procs, group[p] # <<>>
  PROVE  /\ Payload(p) \in Seq(Writes) /\ Payload(p) # <<>>
         /\ \A i \in 1 .. Len(Payload(p)) : \E j \in 1 .. Len(group[p]) :
               Payload(p)[i] = group[p][j] /\ alone[p] <= j
         /\ \A i \in 1 .. Len(Payload(p)) : answer[Payload(p)[i]] = "asked"
         /\ alone[p] # 0 => \A i \in 1 .. Len(Payload(p)) : Payload(p)[i] = group[p][alone[p]]
         /\ \A i \in 1 .. Len(Payload(p)) : \E k \in 1 .. Len(Program[p]) :
               Payload(p)[i] = Program[p][k]
<1>1. group[p] \in Seq(Writes) /\ alone[p] \in 0 .. Len(group[p])
  BY DEF Ranges
<1>4. /\ Payload(p) \in Seq(Writes) /\ Payload(p) # <<>>
      /\ \A i \in 1 .. Len(Payload(p)) : \E j \in 1 .. Len(group[p]) :
            Payload(p)[i] = group[p][j] /\ alone[p] <= j
      /\ alone[p] # 0 => \A i \in 1 .. Len(Payload(p)) : Payload(p)[i] = group[p][alone[p]]
  <2>1. CASE alone[p] = 0
    BY <1>1, <2>1 DEF Payload
  <2>2. CASE alone[p] # 0
    <3>1. Payload(p) = <<group[p][alone[p]]>> /\ alone[p] \in 1 .. Len(group[p])
      BY <1>1, <2>2 DEF Payload
    <3>2. group[p][alone[p]] \in Writes
      BY <1>1, <3>1
    <3>3. Payload(p) \in Seq(Writes) /\ Len(Payload(p)) = 1
          /\ Payload(p)[1] = group[p][alone[p]]
      BY <3>1, <3>2
    <3> QED BY <2>2, <3>1, <3>3
  <2> QED BY <2>1, <2>2
<1>5. \A j \in 1 .. Len(group[p]) : alone[p] <= j => answer[group[p][j]] = "asked"
  BY DEF HeldInv, Held
<1>6. \A j \in 1 .. Len(group[p]) : \E k \in 1 .. asked[p] : group[p][j] = Program[p][k]
  BY DEF HeldInv, Held
<1>7. asked[p] \in Nat /\ asked[p] <= Len(Program[p]) /\ Len(Program[p]) \in Nat
  BY ProgramsApart DEF HeldInv, Held, Ranges
<1>8. \A j \in 1 .. Len(group[p]) : \E k \in 1 .. Len(Program[p]) : group[p][j] = Program[p][k]
  BY <1>6, <1>7
<1> QED BY <1>4, <1>5, <1>8

LEMMA AnsweredIs ==
  ASSUME NEW ws \in Seq(Writes), NEW verdict, Answered(ws, verdict)
  PROVE  \A x \in Writes :
           answer'[x] = IF \E i \in 1 .. Len(ws) : x = ws[i] THEN verdict ELSE answer[x]
<1>1. \A x : x \in Range(ws) <=> \E i \in 1 .. Len(ws) : x = ws[i]
  BY DEF Range
<1> QED BY <1>1 DEF Answered

\* A job whose calls and state are as they were.
LEMMA JobsAsTheyWere ==
  ASSUME JobInv, jobs' = jobs, log' = log,
         \A n \in 1 .. Len(jobs) : \A i \in 1 .. Len(jobs[n].writes) :
            answer'[jobs[n].writes[i]] = "new" => answer[jobs[n].writes[i]] = "new"
  PROVE  JobInv'
BY DEF JobInv

-----------------------------------------------------------------------------
(* Each action keeps the invariant.                                        *)

LEMMA InitInv == Init => Inv
<1> SUFFICES ASSUME Init PROVE Inv
  OBVIOUS
<1>1. Ranges
  <2>1. asked \in [Procs -> Nat] /\ alone \in [Procs -> Nat] /\ flight \in [Procs -> Nat]
        /\ waiting \in [Procs -> Seq(Writes)] /\ group \in [Procs -> Seq(Writes)]
    BY DEF Init
  <2>2. \A p \in Procs : alone[p] \in 0 .. Len(group[p]) /\ flight[p] \in 0 .. Len(jobs)
    BY DEF Init
  <2>3. jobs \in Seq(Job) /\ delayed \subseteq 1 .. Len(jobs) /\ active \in 0 .. Len(jobs)
        /\ log \in Seq(Seq(Writes))
    BY DEF Init
  <2>4. line \in Seq(Nat) /\ \A i \in DOMAIN line : line[i] \in 1 .. Len(jobs)
    BY DEF Init
  <2>5. answer \in [Writes -> {"new", "asked"} \cup Verdicts]
    BY DEF Init
  <2>6. faults \in [transport : Nat, wait : Nat, crash : Nat]
    BY DEF Init
  <2> QED BY <2>1, <2>2, <2>3, <2>4, <2>5, <2>6 DEF Ranges
<1>2. HeldInv
  <2>1. ASSUME NEW p \in Procs
        PROVE  Held(Program[p], 0, <<>>, <<>>, 0, answer)
    BY ProgramsApart DEF Init, Held
  <2> QED BY <2>1 DEF Init, HeldInv
<1>3. FlightInv
  BY DEF Init, FlightInv
<1>4. JobInv
  BY DEF Init, JobInv
<1> QED BY <1>1, <1>2, <1>3, <1>4 DEF Inv

LEMMA EnqueueInv ==
  ASSUME Inv, NEW p \in Procs, Enqueue(p)
  PROVE  Inv'
<1> DEFINE w == Program[p][asked[p] + 1]
<1>1. /\ asked[p] < Len(Program[p]) /\ asked' = [asked EXCEPT ![p] = @ + 1]
      /\ answer' = [answer EXCEPT ![w] = "asked"]
      /\ alone' = alone /\ flight' = flight /\ faults' = faults
      /\ jobs' = jobs /\ line' = line /\ delayed' = delayed /\ active' = active /\ log' = log
  BY DEF Enqueue, broker
<1>2. IF group[p] = <<>> THEN TakeGroup(p, <<w>>)
      ELSE waiting' = [waiting EXCEPT ![p] = Append(@, w)] /\ group' = group
  BY DEF Enqueue
<1>3. w \in Writes /\ asked[p] \in Nat /\ answer \in [Writes -> Answers]
      /\ asked[p] + 1 \in 1 .. Len(Program[p])
  BY <1>1, ProgramsApart DEF Inv, Ranges, Answers
<1>4. group \in [Procs -> Seq(Writes)] /\ waiting \in [Procs -> Seq(Writes)]
      /\ alone \in [Procs -> Nat] /\ alone[p] \in 0 .. Len(group[p])
  BY DEF Inv, Ranges
<1>5. Held(Program[p], asked[p], group[p], waiting[p], alone[p], answer)
  BY DEF Inv, HeldInv
<1>6. \A q \in Procs \ {p} : \A k \in 1 .. Len(Program[q]) :
         answer'[Program[q][k]] = answer[Program[q][k]]
  BY <1>1, <1>3, ProgramsApart
<1> HIDE DEF w
<1>7. /\ group' \in [Procs -> Seq(Writes)] /\ waiting' \in [Procs -> Seq(Writes)]
      /\ \A q \in Procs \ {p} : group'[q] = group[q] /\ waiting'[q] = waiting[q]
      /\ group[p] # <<>> => group'[p] = group[p] /\ waiting'[p] = Append(waiting[p], w)
      /\ group[p] = <<>> => group'[p] = <<w>> /\ waiting'[p] = <<>>
  <2>1. CASE group[p] # <<>>
    <3>1. Append(waiting[p], w) \in Seq(Writes)
      BY <1>3, <1>4
    <3>2. waiting' = [waiting EXCEPT ![p] = Append(waiting[p], w)] /\ group' = group
      BY <1>2, <2>1
    <3> QED BY <1>4, <2>1, <3>1, <3>2
  <2>2. CASE group[p] = <<>>
    <3>1. <<w>> \in Seq(Writes) /\ <<w>> # <<>> /\ Len(<<w>>) = 1
      BY <1>3
    <3>2. TakeGroup(p, <<w>>)
      BY <1>2, <2>2
    <3>3. /\ group' \in [Procs -> Seq(Writes)] /\ waiting' \in [Procs -> Seq(Writes)]
          /\ \A q \in Procs \ {p} : group'[q] = group[q] /\ waiting'[q] = waiting[q]
          /\ group'[p] # <<>> /\ Len(group'[p]) + Len(waiting'[p]) = 1
          /\ \A i \in 1 .. Len(group'[p]) : group'[p][i] = <<w>>[i]
      BY <1>4, <3>1, <3>2, TakenApart
    <3>4. Len(group'[p]) = 1 /\ Len(waiting'[p]) = 0
      BY <3>3
    <3>5. group'[p] = <<w>> /\ waiting'[p] = <<>>
      BY <3>3, <3>4
    <3> QED BY <2>2, <3>3, <3>5
  <2> QED BY <2>1, <2>2
<1>8. Ranges'
  <2>1. asked' \in [Procs -> Nat] /\ answer' \in [Writes -> {"new", "asked"} \cup Verdicts]
    BY <1>1, <1>3 DEF Inv, Ranges
  <2>2. \A q \in Procs : alone'[q] \in 0 .. Len(group'[q])
    <3>1. CASE group[p] # <<>>
      BY <1>1, <1>7, <3>1 DEF Inv, Ranges
    <3>2. CASE group[p] = <<>>
      <4>1. alone[p] = 0 /\ Len(group'[p]) \in Nat
        BY <1>4, <1>7, <3>2
      <4>2. alone'[p] \in 0 .. Len(group'[p])
        BY <1>1, <4>1
      <4>3. \A q \in Procs \ {p} : alone'[q] \in 0 .. Len(group'[q])
        BY <1>1, <1>7 DEF Inv, Ranges
      <4> QED BY <4>2, <4>3
    <3> QED BY <3>1, <3>2
  <2> QED BY <1>1, <1>7, <2>1, <2>2 DEF Inv, Ranges
<1>9. HeldInv'
  <2>1. ASSUME NEW q \in Procs \ {p}
        PROVE  Held(Program[q], asked[q], group[q], waiting[q], alone[q], answer')
    <3>1. Held(Program[q], asked[q], group[q], waiting[q], alone[q], answer)
      BY DEF Inv, HeldInv
    <3>2. Program[q] \in Seq(Writes) /\ asked[q] \in Nat /\ group[q] \in Seq(Writes)
          /\ waiting[q] \in Seq(Writes) /\ alone[q] \in Nat
      BY ProgramsApart DEF Inv, Ranges
    <3> QED BY <1>6, <3>1, <3>2, HeldBeside
  <2>2. Held(Program[p], asked[p] + 1, group'[p], waiting'[p], alone[p], answer')
    <3>1. Program[p] \in Seq(Writes) /\ OneToOne(Program[p])
      BY ProgramsApart
    <3>2. LET ans2 == [answer EXCEPT ![Program[p][asked[p] + 1]] = "asked"] IN
          /\ group[p] # <<>> => Held(Program[p], asked[p] + 1, group[p],
                                     Append(waiting[p], Program[p][asked[p] + 1]), alone[p], ans2)
          /\ group[p] = <<>> => Held(Program[p], asked[p] + 1, <<Program[p][asked[p] + 1]>>,
                                     <<>>, 0, ans2)
      <4>1. group[p] \in Seq(Writes) /\ waiting[p] \in Seq(Writes) /\ alone[p] \in Nat
        BY <1>4
      <4> QED BY <1>1, <1>3, <1>5, <3>1, <4>1, HeldJoined
    <3>3. CASE group[p] # <<>>
      BY <1>1, <1>7, <3>2, <3>3 DEF w
    <3>4. CASE group[p] = <<>>
      <4>1. alone[p] = 0
        BY <1>4, <3>4
      <4> QED BY <1>1, <1>7, <3>2, <3>4, <4>1 DEF w
    <3> QED BY <3>3, <3>4
  <2>3. asked'[p] = asked[p] + 1 /\ \A q \in Procs \ {p} : asked'[q] = asked[q]
    BY <1>1 DEF Inv, Ranges
  <2> QED BY <1>1, <1>7, <2>1, <2>2, <2>3 DEF HeldInv
<1>10. FlightInv'
  BY <1>1, <1>7 DEF Inv, FlightInv, Payload
<1>11. JobInv'
  BY <1>1, <1>3, JobsAsTheyWere DEF Inv, Ranges
<1> QED BY <1>8, <1>9, <1>10, <1>11 DEF Inv

LEMMA PostInv ==
  ASSUME Inv, NEW p \in Procs, Post(p)
  PROVE  Inv'
<1> DEFINE job == [by |-> p, writes |-> Payload(p), tries |-> 0, state |-> "open"]
<1>1. /\ group[p] # <<>> /\ jobs' = Append(jobs, job) /\ line' = Append(line, Len(jobs) + 1)
      /\ flight' = [flight EXCEPT ![p] = Len(jobs) + 1]
      /\ UNCHANGED <<asked, waiting, group, alone, delayed, active, log, answer, rows, faults>>
  BY DEF Post
<1>2. /\ Payload(p) \in Seq(Writes) /\ Payload(p) # <<>>
      /\ \A i \in 1 .. Len(Payload(p)) : answer[Payload(p)[i]] = "asked"
  BY <1>1, PayloadIsHeld DEF Inv
<1>3. job \in Job
  BY <1>2 DEF Job
<1>4. job.writes = Payload(p) /\ job.state = "open"
  OBVIOUS
<1> HIDE DEF job
<1>5. /\ jobs \in Seq(Job) /\ Len(jobs) \in Nat /\ jobs' \in Seq(Job)
      /\ Len(jobs') = Len(jobs) + 1 /\ jobs'[Len(jobs) + 1] = job
      /\ \A n \in 1 .. Len(jobs) : jobs'[n] = jobs[n]
  BY <1>1, <1>3 DEF Inv, Ranges
<1>6. Ranges'
  <2>1. flight' \in [Procs -> Nat] /\ \A q \in Procs : flight'[q] \in 0 .. Len(jobs')
    <3>1. flight \in [Procs -> Nat] /\ \A q \in Procs : flight[q] \in 0 .. Len(jobs)
      BY DEF Inv, Ranges
    <3>2. flight' \in [Procs -> Nat] /\ flight'[p] = Len(jobs) + 1
          /\ \A q \in Procs \ {p} : flight'[q] = flight[q]
      BY <1>1, <1>5, <3>1
    <3>3. ASSUME NEW q \in Procs
          PROVE  flight'[q] \in 0 .. Len(jobs')
      BY <1>5, <3>1, <3>2
    <3> QED BY <3>2, <3>3
  <2>2. line' \in Seq(Nat) /\ \A i \in DOMAIN line' : line'[i] \in 1 .. Len(jobs')
    <3>1. line \in Seq(Nat) /\ \A i \in DOMAIN line : line[i] \in 1 .. Len(jobs)
      BY DEF Inv, Ranges
    <3>2. DOMAIN line = 1 .. Len(line) /\ DOMAIN line' = 1 .. Len(line) + 1 /\ Len(line) \in Nat
          /\ line'[Len(line) + 1] = Len(jobs) + 1 /\ \A i \in 1 .. Len(line) : line'[i] = line[i]
      BY <1>1, <1>5, <3>1
    <3>3. line' \in Seq(Nat)
      BY <1>1, <1>5, <3>1
    <3>4. ASSUME NEW i \in DOMAIN line'
          PROVE  line'[i] \in 1 .. Len(jobs')
      <4>1. i \in 1 .. Len(line) \/ i = Len(line) + 1
        BY <3>2
      <4> QED BY <1>5, <3>1, <3>2, <4>1
    <3> QED BY <3>3, <3>4
  <2>3. delayed' \subseteq 1 .. Len(jobs') /\ active' \in 0 .. Len(jobs')
    BY <1>1, <1>5 DEF Inv, Ranges
  <2> QED BY <1>1, <1>5, <2>1, <2>2, <2>3 DEF Inv, Ranges
<1>7. HeldInv'
  BY <1>1 DEF Inv, HeldInv
<1>8. FlightInv'
  <2>1. \A q \in Procs : Payload(q)' = Payload(q)
    BY <1>1 DEF Payload
  <2>2. flight'[p] = Len(jobs) + 1 /\ \A q \in Procs \ {p} : flight'[q] = flight[q]
    BY <1>1 DEF Inv, Ranges
  <2>3. \A q \in Procs : flight[q] \in 0 .. Len(jobs)
    BY DEF Inv, Ranges
  <2> QED BY <1>1, <1>4, <1>5, <2>1, <2>2, <2>3 DEF Inv, FlightInv
<1>9. JobInv'
  <2>1. ASSUME NEW n \in 1 .. Len(jobs)
        PROVE  LET ws == jobs'[n].writes IN
                 /\ ws # <<>>
                 /\ \A i \in 1 .. Len(ws) : answer'[ws[i]] # "new"
                 /\ jobs'[n].state = "done" => \A i \in 1 .. Len(ws) : InLog(log', ws[i])
    <3>1. jobs'[n] = jobs[n] /\ answer' = answer /\ log' = log
      BY <1>1, <1>5
    <3>2. /\ jobs[n].writes # <<>>
          /\ \A i \in 1 .. Len(jobs[n].writes) : answer[jobs[n].writes[i]] # "new"
          /\ jobs[n].state = "done" =>
                \A i \in 1 .. Len(jobs[n].writes) : InLog(log, jobs[n].writes[i])
      BY DEF Inv, JobInv
    <3> QED BY <3>1, <3>2
  <2>2. \A n \in 1 .. Len(jobs') : n \in 1 .. Len(jobs) \/ n = Len(jobs) + 1
    BY <1>5
  <2>3. LET ws == jobs'[Len(jobs) + 1].writes IN
          /\ ws # <<>>
          /\ \A i \in 1 .. Len(ws) : answer'[ws[i]] # "new"
          /\ jobs'[Len(jobs) + 1].state # "done"
    <3>1. jobs'[Len(jobs) + 1].writes = Payload(p) /\ jobs'[Len(jobs) + 1].state = "open"
      BY <1>4, <1>5
    <3>2. answer' = answer
      BY <1>1
    <3> QED BY <1>2, <3>1, <3>2
  <2> QED BY <2>1, <2>2, <2>3 DEF JobInv
<1> QED BY <1>6, <1>7, <1>8, <1>9 DEF Inv

\* The calls in hand are answered, and the process goes on to the next run.
LEMMA AnswerStep ==
  ASSUME Inv, NEW p \in Procs, flight[p] # 0, NEW verdict \in Verdicts,
         Answered(Payload(p), verdict), NextRun(p), asked' = asked, UNCHANGED broker,
         faults' \in [transport : Nat, wait : Nat, crash : Nat]
  PROVE  Inv'
<1> DEFINE ws == Payload(p)
<1>1. group[p] # <<>>
  BY DEF Inv, FlightInv
<1>2. /\ ws \in Seq(Writes)
      /\ \A i \in 1 .. Len(ws) : \E j \in 1 .. Len(group[p]) : ws[i] = group[p][j]
      /\ alone[p] # 0 => \A i \in 1 .. Len(ws) : ws[i] = group[p][alone[p]]
      /\ \A i \in 1 .. Len(ws) : \E k \in 1 .. Len(Program[p]) : ws[i] = Program[p][k]
  BY <1>1, PayloadIsHeld DEF Inv
<1>3. \A x \in Writes :
        answer'[x] = IF \E i \in 1 .. Len(ws) : x = ws[i] THEN verdict ELSE answer[x]
  BY <1>2, AnsweredIs
<1>4. jobs' = jobs /\ line' = line /\ delayed' = delayed /\ active' = active /\ log' = log
      /\ asked' = asked /\ flight' = [flight EXCEPT ![p] = 0]
  BY DEF broker, NextRun
<1>5. IF alone[p] \in 1 .. Len(group[p]) - 1
      THEN alone' = [alone EXCEPT ![p] = alone[p] + 1] /\ group' = group /\ waiting' = waiting
      ELSE alone' = [alone EXCEPT ![p] = 0] /\ TakeGroup(p, waiting[p])
  BY DEF NextRun
<1>6. answer' \in [Writes -> {"new", "asked"} \cup Verdicts]
  <2>1. answer' = [x \in Writes |-> IF x \in Range(Payload(p)) THEN verdict ELSE answer[x]]
    BY DEF Answered
  <2> QED BY <2>1 DEF Inv, Ranges
<1>7. group \in [Procs -> Seq(Writes)] /\ waiting \in [Procs -> Seq(Writes)]
      /\ alone \in [Procs -> Nat] /\ alone[p] \in 0 .. Len(group[p])
  BY DEF Inv, Ranges
<1> HIDE DEF ws
<1>8. \A x \in Writes : (\A i \in 1 .. Len(ws) : x # ws[i]) => answer'[x] = answer[x]
  BY <1>3
<1>9. ASSUME NEW q \in Procs \ {p}
      PROVE  Held(Program[q], asked[q], group[q], waiting[q], alone[q], answer')
  <2>1. \A k \in 1 .. Len(Program[q]) : answer'[Program[q][k]] = answer[Program[q][k]]
    <3>1. ASSUME NEW k \in 1 .. Len(Program[q])
          PROVE  answer'[Program[q][k]] = answer[Program[q][k]]
      <4>1. Program[q][k] \in Writes
        BY ProgramsApart
      <4>2. \A m \in 1 .. Len(Program[p]) : Program[q][k] # Program[p][m]
        BY ProgramsApart
      <4>3. \A i \in 1 .. Len(ws) : Program[q][k] # ws[i]
        BY <1>2, <4>2
      <4> QED BY <1>8, <4>1, <4>3
    <3> QED BY <3>1
  <2>2. Held(Program[q], asked[q], group[q], waiting[q], alone[q], answer)
    BY DEF Inv, HeldInv
  <2>3. Program[q] \in Seq(Writes) /\ asked[q] \in Nat /\ group[q] \in Seq(Writes)
        /\ waiting[q] \in Seq(Writes) /\ alone[q] \in Nat
    BY ProgramsApart DEF Inv, Ranges
  <2> QED BY <2>1, <2>2, <2>3, HeldBeside
<1>10. Held(Program[p], asked[p], group[p], waiting[p], alone[p], answer)
  BY DEF Inv, HeldInv
<1>11. /\ Program[p] \in Seq(Writes) /\ OneToOne(Program[p]) /\ asked[p] \in Nat
       /\ group[p] \in Seq(Writes) /\ waiting[p] \in Seq(Writes) /\ alone[p] \in Nat
  BY ProgramsApart DEF Inv, Ranges
<1>12. /\ group' \in [Procs -> Seq(Writes)] /\ waiting' \in [Procs -> Seq(Writes)]
       /\ alone' \in [Procs -> Nat] /\ alone'[p] \in 0 .. Len(group'[p])
       /\ \A q \in Procs \ {p} : group'[q] = group[q] /\ waiting'[q] = waiting[q]
                                  /\ alone'[q] = alone[q]
       /\ Held(Program[p], asked[p], group'[p], waiting'[p], alone'[p], answer')
  <2>1. CASE alone[p] \in 1 .. Len(group[p]) - 1
    <3>1. alone' = [alone EXCEPT ![p] = alone[p] + 1] /\ group' = group /\ waiting' = waiting
      BY <1>5, <2>1
    <3>2. \A x \in Writes : x # group[p][alone[p]] => answer'[x] = answer[x]
      BY <1>2, <1>8, <2>1
    <3>3. alone[p] \in 1 .. Len(group[p])
      BY <1>11, <2>1
    <3>4. Held(Program[p], asked[p], group[p], waiting[p], alone[p] + 1, answer')
      BY <1>10, <1>11, <3>2, <3>3, HeldOneByOne
    <3> QED BY <1>7, <1>11, <2>1, <3>1, <3>4
  <2>2. CASE ~(alone[p] \in 1 .. Len(group[p]) - 1)
    <3>1. alone' = [alone EXCEPT ![p] = 0] /\ TakeGroup(p, waiting[p])
      BY <1>5, <2>2
    <3>2. /\ group' \in [Procs -> Seq(Writes)] /\ waiting' \in [Procs -> Seq(Writes)]
          /\ \A q \in Procs \ {p} : group'[q] = group[q] /\ waiting'[q] = waiting[q]
          /\ group'[p] = <<>> => waiting'[p] = <<>>
          /\ \A i \in 1 .. Len(group'[p]) :
                i \in 1 .. Len(waiting[p]) /\ group'[p][i] = waiting[p][i]
          /\ \A i \in 1 .. Len(waiting'[p]) :
                /\ Len(group'[p]) + i \in 1 .. Len(waiting[p])
                /\ waiting'[p][i] = waiting[p][Len(group'[p]) + i]
      BY <1>7, <1>11, <3>1, TakenApart
    <3>3. \A x \in Writes : (\A i \in 1 .. Len(group[p]) : x # group[p][i])
                            => answer'[x] = answer[x]
      <4>1. ASSUME NEW x \in Writes, \A i \in 1 .. Len(group[p]) : x # group[p][i]
            PROVE  answer'[x] = answer[x]
        <5>1. \A i \in 1 .. Len(ws) : x # ws[i]
          BY <1>2, <4>1
        <5> QED BY <1>8, <5>1
      <4> QED BY <4>1
    <3>4. group'[p] \in Seq(Writes) /\ waiting'[p] \in Seq(Writes)
      BY <3>2
    <3>5. Held(Program[p], asked[p], group'[p], waiting'[p], 0, answer')
      <4>1. AnswersKept(group[p], answer, answer')
        BY <3>3 DEF AnswersKept
      <4>2. TakenFrom(waiting[p], group'[p], waiting'[p])
        BY <3>2 DEF TakenFrom
      <4> QED BY <1>10, <1>11, <3>4, <4>1, <4>2, HeldTaken
    <3>6. alone' \in [Procs -> Nat] /\ alone'[p] = 0
          /\ \A q \in Procs \ {p} : alone'[q] = alone[q]
      BY <1>7, <3>1
    <3>7. 0 \in 0 .. Len(group'[p])
      BY <3>4
    <3> QED BY <3>2, <3>5, <3>6, <3>7
  <2> QED BY <2>1, <2>2
<1>13. Ranges'
  <2>1. \A q \in Procs : alone'[q] \in 0 .. Len(group'[q])
    <3>1. \A q \in Procs : alone[q] \in 0 .. Len(group[q])
      BY DEF Inv, Ranges
    <3>2. \A q \in Procs \ {p} : alone'[q] = alone[q] /\ group'[q] = group[q]
      BY <1>12
    <3> QED BY <1>12, <3>1, <3>2
  <2>2. flight' \in [Procs -> Nat] /\ \A q \in Procs : flight'[q] \in 0 .. Len(jobs')
    <3>1. flight \in [Procs -> Nat] /\ Len(jobs) \in Nat
          /\ \A q \in Procs : flight[q] \in 0 .. Len(jobs)
      BY DEF Inv, Ranges
    <3>2. flight' \in [Procs -> Nat] /\ \A q \in Procs : flight'[q] \in {0, flight[q]}
      BY <1>4, <3>1
    <3> QED BY <1>4, <3>1, <3>2
  <2> QED BY <1>4, <1>6, <1>12, <2>1, <2>2 DEF Inv, Ranges
<1>14. HeldInv'
  BY <1>4, <1>9, <1>12 DEF HeldInv
<1>15. FlightInv'
  <2>1. flight'[p] = 0 /\ \A q \in Procs \ {p} : flight'[q] = flight[q]
    BY <1>4 DEF Inv, Ranges
  <2>2. \A q \in Procs \ {p} : Payload(q)' = Payload(q)
    BY <1>12 DEF Payload
  <2> QED BY <1>4, <1>12, <2>1, <2>2 DEF Inv, FlightInv
<1>16. JobInv'
  <2>1. ASSUME NEW n \in 1 .. Len(jobs), NEW i \in 1 .. Len(jobs[n].writes),
               answer'[jobs[n].writes[i]] = "new"
        PROVE  answer[jobs[n].writes[i]] = "new"
    <3>1. jobs[n].writes[i] \in Writes
      <4>1. jobs \in Seq(Job)
        BY DEF Inv, Ranges
      <4>2. jobs[n] \in Job
        BY <4>1
      <4>3. jobs[n].writes \in Seq(Writes)
        BY <4>2 DEF Job
      <4> QED BY <4>3
    <3>2. verdict # "new"
      BY DEF Verdicts
    <3> QED BY <1>3, <2>1, <3>1, <3>2
  <2> QED BY <1>4, <2>1, JobsAsTheyWere DEF Inv
<1> QED BY <1>13, <1>14, <1>15, <1>16 DEF Inv

LEMMA SettleInv ==
  ASSUME Inv, NEW p \in Procs, Settle(p)
  PROVE  Inv'
<1> DEFINE job == jobs[flight[p]]
           verdict == IF job.state = "done" THEN "stored" ELSE job.state
<1>1. flight[p] # 0 /\ job.state # "open" /\ asked' = asked /\ faults' = faults /\ UNCHANGED broker
  BY DEF Settle
<1>2. verdict \in Verdicts
  <2>1. flight[p] \in 1 .. Len(jobs) /\ jobs \in Seq(Job)
    BY <1>1 DEF Inv, Ranges
  <2>2. job \in Job
    BY <2>1
  <2> QED BY <1>1, <2>2 DEF Job, Verdicts
<1>3. CASE Splits(p, verdict)
  <2>1. alone' = [alone EXCEPT ![p] = 1] /\ flight' = [flight EXCEPT ![p] = 0]
        /\ answer' = answer /\ rows' = rows /\ group' = group /\ waiting' = waiting
    BY <1>3 DEF Settle
  <2>2. Len(group[p]) > 1 /\ alone[p] = 0
    BY <1>3 DEF Splits
  <2>3. jobs' = jobs /\ line' = line /\ delayed' = delayed /\ active' = active /\ log' = log
    BY <1>1 DEF broker
  <2>4. alone'[p] = 1 /\ flight'[p] = 0
        /\ \A q \in Procs \ {p} : alone'[q] = alone[q] /\ flight'[q] = flight[q]
    BY <2>1 DEF Inv, Ranges
  <2>5. Ranges'
    <3>1. alone' \in [Procs -> Nat] /\ flight' \in [Procs -> Nat]
      BY <2>1 DEF Inv, Ranges
    <3>2. Len(group[p]) \in Nat
      BY DEF Inv, Ranges
    <3>3. \A q \in Procs : alone'[q] \in 0 .. Len(group'[q]) /\ flight'[q] \in 0 .. Len(jobs')
      BY <2>1, <2>2, <2>3, <2>4, <3>2 DEF Inv, Ranges
    <3> QED BY <1>1, <2>1, <2>3, <3>1, <3>3 DEF Inv, Ranges
  <2>6. HeldInv'
    <3>1. Held(Program[p], asked[p], group[p], waiting[p], 0, answer)
      BY <2>2 DEF Inv, HeldInv
    <3>2. Held(Program[p], asked[p], group[p], waiting[p], 1, answer)
      BY <3>1 DEF Held
    <3> QED BY <1>1, <2>1, <2>4, <3>2 DEF Inv, HeldInv
  <2>7. FlightInv'
    <3>1. \A q \in Procs \ {p} : Payload(q)' = Payload(q)
      BY <2>1, <2>4 DEF Payload
    <3> QED BY <2>1, <2>3, <2>4, <3>1 DEF Inv, FlightInv
  <2>8. JobInv'
    BY <2>1, <2>3, JobsAsTheyWere DEF Inv
  <2> QED BY <2>5, <2>6, <2>7, <2>8 DEF Inv
<1>4. CASE ~Splits(p, verdict)
  <2>1. Answered(Payload(p), verdict) /\ NextRun(p)
    BY <1>4 DEF Settle
  <2>2. faults' \in [transport : Nat, wait : Nat, crash : Nat]
    BY <1>1 DEF Inv, Ranges
  <2> HIDE DEF verdict
  <2> QED BY <1>1, <1>2, <2>1, <2>2, AnswerStep
<1> QED BY <1>3, <1>4

LEMMA ExpireInv ==
  ASSUME Inv, NEW p \in Procs, Expire(p)
  PROVE  Inv'
<1>1. /\ flight[p] # 0 /\ Answered(Payload(p), "expired") /\ NextRun(p) /\ asked' = asked
      /\ UNCHANGED broker /\ faults' = [faults EXCEPT !.wait = @ + 1]
  BY DEF Expire
<1>2. faults' \in [transport : Nat, wait : Nat, crash : Nat]
  <2>1. faults \in [transport : Nat, wait : Nat, crash : Nat]
    BY DEF Inv, Ranges
  <2>2. faults' = [faults EXCEPT !.wait = @ + 1]
    BY <1>1
  <2> QED BY <2>1, <2>2
<1>3. "expired" \in Verdicts
  BY DEF Verdicts
<1> QED BY <1>1, <1>2, <1>3, AnswerStep

\* The worker and the broker leave the callers as they are.
LEMMA WorkerStep ==
  ASSUME Inv, UNCHANGED <<asked, waiting, group, alone, flight, answer>>,
         Len(jobs') = Len(jobs), \A n \in 1 .. Len(jobs) : jobs'[n].writes = jobs[n].writes,
         jobs' \in Seq(Job), log' \in Seq(Seq(Writes)),
         line' \in Seq(Nat) /\ \A i \in DOMAIN line' : line'[i] \in 1 .. Len(jobs),
         delayed' \subseteq 1 .. Len(jobs), active' \in 0 .. Len(jobs),
         faults' \in [transport : Nat, wait : Nat, crash : Nat],
         \A x : InLog(log, x) => InLog(log', x),
         \A n \in 1 .. Len(jobs) : jobs'[n].state = "done" =>
            jobs[n].state = "done" \/ \A i \in 1 .. Len(jobs[n].writes) :
                                         InLog(log', jobs[n].writes[i])
  PROVE  Inv'
<1>1. Ranges'
  BY DEF Inv, Ranges
<1>2. HeldInv'
  BY DEF Inv, HeldInv
<1>3. FlightInv'
  <2>1. \A q \in Procs : Payload(q)' = Payload(q) /\ flight[q] \in 0 .. Len(jobs)
    BY DEF Payload, Inv, Ranges
  <2>2. \A q \in Procs : flight[q] # 0 => flight[q] \in 1 .. Len(jobs)
    BY <2>1
  <2> QED BY <2>1, <2>2 DEF Inv, FlightInv
<1>4. JobInv'
  <2>1. ASSUME NEW n \in 1 .. Len(jobs)
        PROVE  /\ jobs[n].writes # <<>>
               /\ \A i \in 1 .. Len(jobs[n].writes) : answer[jobs[n].writes[i]] # "new"
               /\ jobs'[n].state = "done" =>
                     \A i \in 1 .. Len(jobs[n].writes) : InLog(log', jobs[n].writes[i])
    BY DEF Inv, JobInv
  <2> QED BY <2>1 DEF JobInv
<1> QED BY <1>1, <1>2, <1>3, <1>4 DEF Inv

LEMMA TakeInv ==
  ASSUME Inv, Take
  PROVE  Inv'
<1>1. /\ line # <<>> /\ active' = Head(line) /\ line' = Tail(line)
      /\ UNCHANGED <<asked, waiting, group, alone, flight, jobs, delayed, log, answer, rows, faults>>
  BY DEF Take
<1>2. line \in Seq(Nat) /\ \A i \in 1 .. Len(line) : line[i] \in 1 .. Len(jobs)
  BY DEF Inv, Ranges
<1>3. Head(line) \in 1 .. Len(jobs)
  BY <1>1, <1>2
<1>4. /\ Tail(line) \in Seq(Nat) /\ DOMAIN Tail(line) = 1 .. Len(line) - 1
      /\ \A i \in 1 .. Len(line) - 1 : i + 1 \in 1 .. Len(line) /\ Tail(line)[i] = line[i + 1]
  BY <1>1, <1>2
<1>5. \A i \in DOMAIN line' : line'[i] \in 1 .. Len(jobs)
  BY <1>1, <1>2, <1>4
<1>6. active' \in 0 .. Len(jobs) /\ line' \in Seq(Nat)
  BY <1>1, <1>3, <1>4
<1>7. jobs \in Seq(Job) /\ log \in Seq(Seq(Writes)) /\ delayed \subseteq 1 .. Len(jobs)
      /\ faults \in [transport : Nat, wait : Nat, crash : Nat]
  BY DEF Inv, Ranges
<1> QED BY <1>1, <1>5, <1>6, <1>7, WorkerStep

\* A job that is changed keeps its calls.
LEMMA JobChanged ==
  ASSUME jobs \in Seq(Job), NEW id \in 1 .. Len(jobs), NEW tries \in Nat,
         NEW state \in {"open", "done", "statement", "transport"},
         jobs' = [jobs EXCEPT ![id].tries = tries, ![id].state = state]
  PROVE  /\ jobs' \in Seq(Job) /\ Len(jobs') = Len(jobs)
         /\ \A n \in 1 .. Len(jobs) :
               jobs'[n].writes = jobs[n].writes /\ (n # id => jobs'[n] = jobs[n])
         /\ jobs'[id].state = state
<1>1. jobs[id] \in Job
  OBVIOUS
<1> DEFINE job == [[jobs[id] EXCEPT !.tries = tries] EXCEPT !.state = state]
<1>2. job \in Job /\ job.writes = jobs[id].writes /\ job.state = state
  BY <1>1 DEF Job
<1>3. jobs' = [jobs EXCEPT ![id] = job]
  OBVIOUS
<1> HIDE DEF job
<1>4. jobs' \in Seq(Job) /\ Len(jobs') = Len(jobs)
  BY <1>2, <1>3
<1>5. DOMAIN jobs = 1 .. Len(jobs)
  OBVIOUS
<1>6. jobs'[id] = job
  BY <1>3, <1>5
<1>7. \A n \in 1 .. Len(jobs) : n # id => jobs'[n] = jobs[n]
  BY <1>3, <1>5
<1> QED BY <1>2, <1>4, <1>6, <1>7

LEMMA AgainStep ==
  ASSUME Inv, active # 0, Again(active), active' = 0,
         UNCHANGED <<asked, waiting, group, alone, flight, answer, line>>,
         log' \in Seq(Seq(Writes)), \A x : InLog(log, x) => InLog(log', x),
         faults' \in [transport : Nat, wait : Nat, crash : Nat]
  PROVE  Inv'
<1> DEFINE tries == jobs[active].tries + 1
<1>1. jobs \in Seq(Job) /\ active \in 1 .. Len(jobs) /\ delayed \subseteq 1 .. Len(jobs)
  BY DEF Inv, Ranges
<1>2. jobs[active] \in Job
  BY <1>1
<1>3. tries \in Nat /\ jobs[active].state \in {"open", "done", "statement", "transport"}
  BY <1>2 DEF Job
<1>4. IF tries < Attempts
      THEN jobs' = [jobs EXCEPT ![active].tries = tries] /\ delayed' = delayed \cup {active}
      ELSE jobs' = [jobs EXCEPT ![active].tries = tries, ![active].state = "transport"]
           /\ delayed' = delayed
  BY DEF Again
<1> HIDE DEF tries
<1>5. delayed' \subseteq 1 .. Len(jobs)
  BY <1>1, <1>4
<1>6. /\ jobs' \in Seq(Job) /\ Len(jobs') = Len(jobs)
      /\ \A n \in 1 .. Len(jobs) : jobs'[n].writes = jobs[n].writes
      /\ \A n \in 1 .. Len(jobs) : jobs'[n].state = "done" => jobs[n].state = "done"
  <2>1. CASE tries < Attempts
    <3> DEFINE job == [jobs[active] EXCEPT !.tries = tries]
    <3>1. job \in Job /\ job.writes = jobs[active].writes /\ job.state = jobs[active].state
      BY <1>2, <1>3 DEF Job
    <3>2. jobs' = [jobs EXCEPT ![active] = job]
      BY <1>4, <2>1
    <3> HIDE DEF job
    <3> QED BY <1>1, <3>1, <3>2
  <2>2. CASE ~(tries < Attempts)
    <3>1. jobs' = [jobs EXCEPT ![active].tries = tries, ![active].state = "transport"]
      BY <1>4, <2>2
    <3> QED BY <1>1, <1>3, <3>1, JobChanged
  <2> QED BY <2>1, <2>2
<1>7. line \in Seq(Nat) /\ \A i \in DOMAIN line : line[i] \in 1 .. Len(jobs)
  BY DEF Inv, Ranges
<1> QED BY <1>1, <1>5, <1>6, <1>7, WorkerStep

LEMMA RunJobInv ==
  ASSUME Inv, RunJob
  PROVE  Inv'
<1> DEFINE ws == jobs[active].writes
<1>1. /\ active # 0 /\ active' = 0
      /\ UNCHANGED <<asked, waiting, group, alone, flight, line, answer, rows, faults>>
  BY DEF RunJob
<1>2. IF Rejected(ws) = {}
      THEN /\ log' = Append(log, ws) /\ delayed' = delayed
           /\ jobs' = [jobs EXCEPT ![active].state = "done"]
      ELSE /\ log' = log
           /\ \/ jobs' = [jobs EXCEPT ![active].state = "statement"] /\ delayed' = delayed
              \/ Again(active)
  BY DEF RunJob
<1>3. jobs \in Seq(Job) /\ active \in 1 .. Len(jobs) /\ delayed \subseteq 1 .. Len(jobs)
      /\ log \in Seq(Seq(Writes)) /\ line \in Seq(Nat)
      /\ (\A i \in DOMAIN line : line[i] \in 1 .. Len(jobs))
      /\ faults \in [transport : Nat, wait : Nat, crash : Nat]
  BY <1>1 DEF Inv, Ranges
<1>4. jobs[active] \in Job
  BY <1>3
<1>5. ws \in Seq(Writes)
  BY <1>4 DEF Job
<1> HIDE DEF ws
<1>6. ASSUME NEW state \in {"done", "statement"}, jobs' = [jobs EXCEPT ![active].state = state]
      PROVE  /\ jobs' \in Seq(Job) /\ Len(jobs') = Len(jobs)
             /\ \A n \in 1 .. Len(jobs) :
                   jobs'[n].writes = jobs[n].writes /\ (n # active => jobs'[n] = jobs[n])
             /\ jobs'[active].state = state
  <2> DEFINE job == [jobs[active] EXCEPT !.state = state]
  <2>1. job \in Job /\ job.writes = jobs[active].writes /\ job.state = state
    BY <1>4, <1>6 DEF Job
  <2>2. jobs' = [jobs EXCEPT ![active] = job]
    BY <1>6
  <2> HIDE DEF job
  <2> QED BY <1>3, <2>1, <2>2
<1>7. CASE Rejected(ws) = {}
  <2>1. log' = Append(log, ws) /\ delayed' = delayed /\ jobs' = [jobs EXCEPT ![active].state = "done"]
    BY <1>2, <1>7
  <2>2. /\ \A x : InLog(log, x) => InLog(log', x)
        /\ \A i \in 1 .. Len(ws) : InLog(log', ws[i])
    BY <1>3, <1>5, <2>1, CommittedStays
  <2>3. log' \in Seq(Seq(Writes))
    BY <1>3, <1>5, <2>1
  <2>4. /\ jobs' \in Seq(Job) /\ Len(jobs') = Len(jobs)
        /\ \A n \in 1 .. Len(jobs) :
              jobs'[n].writes = jobs[n].writes /\ (n # active => jobs'[n] = jobs[n])
    BY <1>6, <2>1
  <2>5. \A n \in 1 .. Len(jobs) : jobs'[n].state = "done" =>
            jobs[n].state = "done" \/ \A i \in 1 .. Len(jobs[n].writes) :
                                         InLog(log', jobs[n].writes[i])
    BY <2>2, <2>4 DEF ws
  <2>6. active' \in 0 .. Len(jobs)
    BY <1>1, <1>3
  <2> QED BY <1>1, <1>3, <2>1, <2>2, <2>3, <2>4, <2>5, <2>6, WorkerStep
<1>8. CASE Rejected(ws) # {}
  <2>1. log' = log
    BY <1>2, <1>8
  <2>2. CASE Again(active)
    BY <1>1, <1>3, <2>1, <2>2, AgainStep
  <2>3. CASE jobs' = [jobs EXCEPT ![active].state = "statement"] /\ delayed' = delayed
    <3>1. /\ jobs' \in Seq(Job) /\ Len(jobs') = Len(jobs)
          /\ \A n \in 1 .. Len(jobs) :
                jobs'[n].writes = jobs[n].writes /\ (n # active => jobs'[n] = jobs[n])
          /\ jobs'[active].state = "statement"
      BY <1>6, <2>3
    <3>2. active' \in 0 .. Len(jobs)
      BY <1>1, <1>3
    <3>3. \A n \in 1 .. Len(jobs) : jobs'[n].state = "done" => jobs[n].state = "done"
      BY <3>1
    <3> QED BY <1>1, <1>3, <2>1, <2>3, <3>1, <3>2, <3>3, WorkerStep
  <2> QED BY <1>2, <1>8, <2>2, <2>3
<1> QED BY <1>7, <1>8

LEMMA TransportInv ==
  ASSUME Inv, Transport
  PROVE  Inv'
<1>1. /\ active # 0 /\ Again(active) /\ active' = 0
      /\ faults' = [faults EXCEPT !.transport = @ + 1]
      /\ UNCHANGED <<asked, waiting, group, alone, flight, line, answer, rows>>
      /\ log' = log \/ log' = Append(log, jobs[active].writes)
  BY DEF Transport
<1>2. jobs \in Seq(Job) /\ active \in 1 .. Len(jobs) /\ log \in Seq(Seq(Writes))
      /\ faults \in [transport : Nat, wait : Nat, crash : Nat]
  BY <1>1 DEF Inv, Ranges
<1>3. jobs[active] \in Job
  BY <1>2
<1>4. jobs[active].writes \in Seq(Writes)
  BY <1>3 DEF Job
<1>5. \A x : InLog(log, x) => InLog(log', x)
  BY <1>1, <1>2, <1>4, CommittedStays
<1>6. log' \in Seq(Seq(Writes))
  <2>1. Append(log, jobs[active].writes) \in Seq(Seq(Writes))
    BY <1>2, <1>4
  <2> QED BY <1>1, <1>2, <2>1
<1>7. faults' \in [transport : Nat, wait : Nat, crash : Nat]
  BY <1>1, <1>2
<1> QED BY <1>1, <1>5, <1>6, <1>7, AgainStep

LEMMA PutInLine ==
  ASSUME Inv, NEW id \in 1 .. Len(jobs)
  PROVE  /\ Append(line, id) \in Seq(Nat)
         /\ \A i \in DOMAIN Append(line, id) : Append(line, id)[i] \in 1 .. Len(jobs)
<1>1. line \in Seq(Nat) /\ \A i \in 1 .. Len(line) : line[i] \in 1 .. Len(jobs)
  BY DEF Inv, Ranges
<1>2. /\ Append(line, id) \in Seq(Nat) /\ DOMAIN Append(line, id) = 1 .. Len(line) + 1
      /\ Append(line, id)[Len(line) + 1] = id
      /\ \A i \in 1 .. Len(line) : Append(line, id)[i] = line[i]
  BY <1>1
<1>3. \A i \in 1 .. Len(line) + 1 : i \in 1 .. Len(line) \/ i = Len(line) + 1
  BY <1>1
<1> QED BY <1>1, <1>2, <1>3

LEMMA PromoteInv ==
  ASSUME Inv, NEW id \in delayed, Promote(id)
  PROVE  Inv'
<1>1. /\ delayed' = delayed \ {id} /\ line' = Append(line, id)
      /\ UNCHANGED <<asked, waiting, group, alone, flight, jobs, active, log, answer, rows, faults>>
  BY DEF Promote
<1>2. id \in 1 .. Len(jobs) /\ jobs \in Seq(Job) /\ active \in 0 .. Len(jobs)
      /\ log \in Seq(Seq(Writes)) /\ faults \in [transport : Nat, wait : Nat, crash : Nat]
      /\ delayed' \subseteq 1 .. Len(jobs)
  BY <1>1 DEF Inv, Ranges
<1>3. line' \in Seq(Nat) /\ \A i \in DOMAIN line' : line'[i] \in 1 .. Len(jobs)
  BY <1>1, <1>2, PutInLine
<1> QED BY <1>1, <1>2, <1>3, WorkerStep

LEMMA CrashInv ==
  ASSUME Inv, NEW p \in Procs, Crash(p)
  PROVE  Inv'
<1>1. /\ waiting' = [waiting EXCEPT ![p] = <<>>] /\ group' = [group EXCEPT ![p] = <<>>]
      /\ alone' = [alone EXCEPT ![p] = 0] /\ flight' = [flight EXCEPT ![p] = 0]
      /\ faults' = [faults EXCEPT !.crash = @ + 1]
      /\ asked' = asked /\ jobs' = jobs /\ delayed' = delayed /\ log' = log
  BY DEF Crash
<1>2. answer' = [x \in Writes |-> IF answer[x] = "asked" /\ x \in Range(Program[p])
                                  THEN "gone" ELSE answer[x]]
  BY DEF Crash
<1>3. (active' = 0 /\ active # 0 /\ line' = Append(line, active))
      \/ (active' = active /\ line' = line)
  BY DEF Crash
<1>4. group \in [Procs -> Seq(Writes)] /\ waiting \in [Procs -> Seq(Writes)]
      /\ alone \in [Procs -> Nat] /\ flight \in [Procs -> Nat] /\ asked \in [Procs -> Nat]
      /\ answer \in [Writes -> {"new", "asked"} \cup Verdicts]
  BY DEF Inv, Ranges
<1>5. /\ waiting'[p] = <<>> /\ group'[p] = <<>> /\ alone'[p] = 0 /\ flight'[p] = 0
      /\ \A q \in Procs \ {p} : /\ waiting'[q] = waiting[q] /\ group'[q] = group[q]
                                 /\ alone'[q] = alone[q] /\ flight'[q] = flight[q]
  BY <1>1, <1>4
<1>6. /\ answer' \in [Writes -> {"new", "asked"} \cup Verdicts]
      /\ \A x \in Writes : answer'[x] = "new" <=> answer[x] = "new"
  BY <1>2, <1>4 DEF Verdicts
<1>7. Ranges'
  <2>1. waiting' \in [Procs -> Seq(Writes)] /\ group' \in [Procs -> Seq(Writes)]
        /\ alone' \in [Procs -> Nat] /\ flight' \in [Procs -> Nat]
    BY <1>1, <1>4
  <2>2. \A q \in Procs : alone'[q] \in 0 .. Len(group'[q]) /\ flight'[q] \in 0 .. Len(jobs)
    <3>1. 0 \in 0 .. Len(group'[p]) /\ 0 \in 0 .. Len(jobs)
      BY <1>5 DEF Inv, Ranges
    <3> QED BY <1>5, <3>1 DEF Inv, Ranges
  <2>3. active' \in 0 .. Len(jobs)
    BY <1>3 DEF Inv, Ranges
  <2>4. line' \in Seq(Nat) /\ \A i \in DOMAIN line' : line'[i] \in 1 .. Len(jobs)
    <3>1. CASE line' = line
      BY <3>1 DEF Inv, Ranges
    <3>2. CASE active # 0 /\ line' = Append(line, active)
      <4>1. active \in 1 .. Len(jobs)
        BY <3>2 DEF Inv, Ranges
      <4> QED BY <3>2, <4>1, PutInLine
    <3> QED BY <1>3, <3>1, <3>2
  <2>5. faults' \in [transport : Nat, wait : Nat, crash : Nat]
    <3>1. faults \in [transport : Nat, wait : Nat, crash : Nat]
      BY DEF Inv, Ranges
    <3> QED BY <1>1, <3>1
  <2> QED BY <1>1, <1>6, <2>1, <2>2, <2>3, <2>4, <2>5 DEF Inv, Ranges
<1>8. HeldInv'
  <2>1. ASSUME NEW q \in Procs \ {p}
        PROVE  Held(Program[q], asked[q], group[q], waiting[q], alone[q], answer')
    <3>1. ASSUME NEW k \in 1 .. Len(Program[q])
          PROVE  answer'[Program[q][k]] = answer[Program[q][k]]
      <4>1. Program[q][k] \in Writes
        BY ProgramsApart
      <4>2. DOMAIN Program[p] = 1 .. Len(Program[p])
        BY ProgramsApart
      <4>3. Program[q][k] \notin Range(Program[p])
        BY <4>2, ProgramsApart DEF Range
      <4> QED BY <1>2, <4>1, <4>3
    <3>2. Held(Program[q], asked[q], group[q], waiting[q], alone[q], answer)
      BY DEF Inv, HeldInv
    <3>3. Program[q] \in Seq(Writes) /\ asked[q] \in Nat /\ group[q] \in Seq(Writes)
          /\ waiting[q] \in Seq(Writes) /\ alone[q] \in Nat
      BY ProgramsApart DEF Inv, Ranges
    <3> QED BY <3>1, <3>2, <3>3, HeldBeside
  <2>2. Held(Program[p], asked[p], <<>>, <<>>, 0, answer')
    <3>1. Held(Program[p], asked[p], group[p], waiting[p], alone[p], answer)
      BY DEF Inv, HeldInv
    <3>2. Program[p] \in Seq(Writes) /\ asked[p] \in Nat
      BY <1>4, ProgramsApart
    <3>3. \A k \in asked[p] + 1 .. Len(Program[p]) : answer'[Program[p][k]] = "new"
      <4>1. \A k \in asked[p] + 1 .. Len(Program[p]) :
              Program[p][k] \in Writes /\ answer[Program[p][k]] = "new"
        BY <3>1, <3>2 DEF Held
      <4> QED BY <1>6, <4>1
    <3>4. asked[p] <= Len(Program[p])
      BY <3>1 DEF Held
    <3> QED BY <3>3, <3>4 DEF Held
  <2> QED BY <1>1, <1>5, <2>1, <2>2 DEF HeldInv
<1>9. FlightInv'
  <2>1. \A q \in Procs \ {p} : Payload(q)' = Payload(q)
    BY <1>5 DEF Payload
  <2> QED BY <1>1, <1>5, <2>1 DEF Inv, FlightInv
<1>10. JobInv'
  <2>1. ASSUME NEW n \in 1 .. Len(jobs), NEW i \in 1 .. Len(jobs[n].writes)
        PROVE  jobs[n].writes[i] \in Writes
    <3>1. jobs \in Seq(Job)
      BY DEF Inv, Ranges
    <3>2. jobs[n] \in Job
      BY <3>1
    <3>3. jobs[n].writes \in Seq(Writes)
      BY <3>2 DEF Job
    <3> QED BY <3>3
  <2> QED BY <1>1, <1>6, <2>1, JobsAsTheyWere DEF Inv
<1> QED BY <1>7, <1>8, <1>9, <1>10 DEF Inv

LEMMA NextInv ==
  ASSUME Inv, [Next]_vars
  PROVE  Inv'
<1>1. CASE UNCHANGED vars
  <2>1. UNCHANGED <<asked, waiting, group, alone, flight, answer, jobs, line, delayed, active,
                    log, faults>>
    BY <1>1 DEF vars
  <2>2. jobs \in Seq(Job) /\ active \in 0 .. Len(jobs) /\ delayed \subseteq 1 .. Len(jobs)
        /\ log \in Seq(Seq(Writes)) /\ faults \in [transport : Nat, wait : Nat, crash : Nat]
        /\ line \in Seq(Nat) /\ \A i \in DOMAIN line : line[i] \in 1 .. Len(jobs)
    BY DEF Inv, Ranges
  <2> QED BY <2>1, <2>2, WorkerStep
<1>2. CASE Next
  BY <1>2, EnqueueInv, PostInv, SettleInv, ExpireInv, CrashInv, TakeInv, RunJobInv, TransportInv,
     PromoteInv DEF Next
<1> QED BY <1>1, <1>2

-----------------------------------------------------------------------------
(* Every step is a step of the service, or changes nothing it shows.       *)

ToldOf(ans) == [w \in Writes |-> IF ans[w] \in {"statement", "transport", "expired"}
                                 THEN "refused" ELSE ans[w]]

\* Callers that asked hear something, and "stored" only of a committed write.
LEMMA Tells ==
  ASSUME Inv, answer' \in [Writes -> {"new", "asked"} \cup Verdicts], log' = log,
         \A w \in Writes : answer'[w] # answer[w] =>
            /\ answer[w] = "asked" /\ answer'[w] \in Verdicts
            /\ answer'[w] = "stored" => InLog(log, w)
  PROVE  Service!Tell
<1>1. answer \in [Writes -> {"new", "asked"} \cup Verdicts]
  BY DEF Inv, Ranges
<1>2. ToldOf(answer') \in [Writes -> {"new", "asked", "stored", "refused", "gone"}]
  BY DEF ToldOf, Verdicts
<1>3. ASSUME NEW w \in Writes, ToldOf(answer')[w] # ToldOf(answer)[w]
      PROVE  /\ ToldOf(answer)[w] = "asked"
             /\ ToldOf(answer')[w] \in {"stored", "refused", "gone"}
             /\ ToldOf(answer')[w] = "stored" => Service!Committed(w)
  <2>1. answer'[w] # answer[w]
    BY <1>3 DEF ToldOf
  <2>2. answer[w] = "asked" /\ answer'[w] \in Verdicts /\ (answer'[w] = "stored" => InLog(log, w))
    BY <2>1
  <2>3. ToldOf(answer)[w] = "asked" /\ ToldOf(answer')[w] \in {"stored", "refused", "gone"}
    BY <2>2 DEF ToldOf, Verdicts
  <2>4. ToldOf(answer')[w] = "stored" => answer'[w] = "stored"
    BY <2>2 DEF ToldOf
  <2> QED BY <2>2, <2>3, <2>4 DEF InLog, Service!Committed
<1> QED BY <1>2, <1>3 DEF Service!Tell, ToldOf

\* A transaction commits whole writes that were asked for.
LEMMA Commits ==
  ASSUME Inv, answer' = answer, NEW ws \in Seq(Writes), ws # <<>>, log' = Append(log, ws),
         \A i \in 1 .. Len(ws) : ws[i] \notin Bad /\ answer[ws[i]] # "new"
  PROVE  Service!Commit
<1>1. log \in Seq(Seq(Writes))
  BY DEF Inv, Ranges
<1>2. Len(log') = Len(log) + 1 /\ log'[Len(log')] = ws
  BY <1>1
<1>3. DOMAIN ws = 1 .. Len(ws) /\ \A i \in 1 .. Len(ws) : ws[i] \in Writes
  OBVIOUS
<1>4. \A i \in DOMAIN ws : ws[i] \in Writes \ Bad /\ ToldOf(answer)[ws[i]] # "new"
  BY <1>3 DEF ToldOf
<1>5. ToldOf(answer') = ToldOf(answer)
  OBVIOUS
<1> QED BY <1>2, <1>4, <1>5 DEF Service!Commit, ToldOf

LEMMA Quiet ==
  ASSUME answer' = answer, log' = log
  PROVE  UNCHANGED Service!vars
BY DEF Service!vars

LEMMA EnqueueAsks ==
  ASSUME Inv, NEW p \in Procs, Enqueue(p)
  PROVE  Service!Next
<1>1. asked[p] < Len(Program[p]) /\ log' = log
      /\ answer' = [answer EXCEPT ![Program[p][asked[p] + 1]] = "asked"]
  BY DEF Enqueue, broker
<1>2. asked[p] \in Nat /\ answer \in [Writes -> {"new", "asked"} \cup Verdicts]
  BY DEF Inv, Ranges
<1>3. Program[p][asked[p] + 1] \in Writes /\ asked[p] + 1 \in asked[p] + 1 .. Len(Program[p])
  BY <1>1, <1>2, ProgramsApart
<1>4. answer[Program[p][asked[p] + 1]] = "new"
  BY <1>3 DEF Inv, HeldInv, Held
<1>5. PICK w \in Writes : w = Program[p][asked[p] + 1]
  BY <1>3
<1>6. ToldOf(answer)[w] = "new"
  BY <1>4, <1>5 DEF ToldOf
<1>7. ToldOf(answer') = [ToldOf(answer) EXCEPT ![w] = "asked"]
  BY <1>1, <1>2, <1>5 DEF ToldOf
<1>8. Service!Ask(w)
  BY <1>1, <1>6, <1>7 DEF Service!Ask, ToldOf
<1> QED BY <1>8 DEF Service!Next

LEMMA AnsweredTells ==
  ASSUME Inv, NEW p \in Procs, flight[p] # 0, NEW verdict \in Verdicts,
         Answered(Payload(p), verdict), log' = log,
         verdict = "stored" => jobs[flight[p]].state = "done"
  PROVE  Service!Tell
<1>1. group[p] # <<>> /\ jobs[flight[p]].writes = Payload(p) /\ flight[p] \in 1 .. Len(jobs)
  BY DEF Inv, FlightInv, Ranges
<1>2. /\ Payload(p) \in Seq(Writes)
      /\ \A i \in 1 .. Len(Payload(p)) : answer[Payload(p)[i]] = "asked"
  BY <1>1, PayloadIsHeld DEF Inv
<1>3. \A x \in Writes :
        answer'[x] = IF \E i \in 1 .. Len(Payload(p)) : x = Payload(p)[i]
                     THEN verdict ELSE answer[x]
  BY <1>2, AnsweredIs
<1>4. answer' \in [Writes -> {"new", "asked"} \cup Verdicts]
  <2>1. answer' = [x \in Writes |-> IF x \in Range(Payload(p)) THEN verdict ELSE answer[x]]
    BY DEF Answered
  <2> QED BY <2>1 DEF Inv, Ranges
<1>5. verdict = "stored" => \A i \in 1 .. Len(Payload(p)) : InLog(log, Payload(p)[i])
  BY <1>1 DEF Inv, JobInv
<1>6. ASSUME NEW x \in Writes, answer'[x] # answer[x]
      PROVE  /\ answer[x] = "asked" /\ answer'[x] \in Verdicts
             /\ answer'[x] = "stored" => InLog(log, x)
  <2>1. PICK i \in 1 .. Len(Payload(p)) : x = Payload(p)[i]
    BY <1>3, <1>6
  <2> QED BY <1>2, <1>3, <1>5, <2>1
<1> QED BY <1>4, <1>6, Tells

LEMMA CrashTells ==
  ASSUME Inv, NEW p \in Procs, Crash(p)
  PROVE  Service!Tell
<1>1. log' = log
      /\ answer' = [x \in Writes |-> IF answer[x] = "asked" /\ x \in Range(Program[p])
                                     THEN "gone" ELSE answer[x]]
  BY DEF Crash
<1>2. answer \in [Writes -> {"new", "asked"} \cup Verdicts]
  BY DEF Inv, Ranges
<1>3. answer' \in [Writes -> {"new", "asked"} \cup Verdicts]
  BY <1>1, <1>2 DEF Verdicts
<1>4. \A x \in Writes : answer'[x] # answer[x] => answer[x] = "asked" /\ answer'[x] = "gone"
  BY <1>1
<1> QED BY <1>1, <1>3, <1>4, Tells DEF Verdicts

LEMMA WorkerCommits ==
  ASSUME Inv, active # 0, answer' = answer, Rejected(jobs[active].writes) = {},
         log' = Append(log, jobs[active].writes)
  PROVE  Service!Commit
<1>1. jobs \in Seq(Job) /\ active \in 1 .. Len(jobs)
  BY DEF Inv, Ranges
<1>2. jobs[active] \in Job
  BY <1>1
<1>3. jobs[active].writes \in Seq(Writes)
  BY <1>2 DEF Job
<1>4. jobs[active].writes # <<>>
      /\ \A i \in 1 .. Len(jobs[active].writes) : answer[jobs[active].writes[i]] # "new"
  BY <1>1 DEF Inv, JobInv
<1>5. \A i \in 1 .. Len(jobs[active].writes) : jobs[active].writes[i] \notin Bad
  BY <1>3 DEF Rejected
<1> QED BY <1>3, <1>4, <1>5, Commits

LEMMA StepsOfTheService ==
  ASSUME Inv, [Next]_vars
  PROVE  [Service!Next]_(Service!vars)
<1>1. CASE UNCHANGED vars
  BY <1>1, Quiet DEF vars
<1>2. ASSUME NEW p \in Procs, Enqueue(p)
      PROVE  Service!Next
  BY <1>2, EnqueueAsks
<1>3. ASSUME NEW p \in Procs, Post(p)
      PROVE  UNCHANGED Service!vars
  BY <1>3, Quiet DEF Post
<1>4. ASSUME NEW p \in Procs, Settle(p)
      PROVE  [Service!Next]_(Service!vars)
  <2> DEFINE job == jobs[flight[p]]
             verdict == IF job.state = "done" THEN "stored" ELSE job.state
  <2>1. flight[p] # 0 /\ job.state # "open" /\ log' = log
    BY <1>4 DEF Settle, broker
  <2>2. CASE Splits(p, verdict)
    BY <1>4, <2>1, <2>2, Quiet DEF Settle
  <2>3. CASE ~Splits(p, verdict)
    <3>1. Answered(Payload(p), verdict)
      BY <1>4, <2>3 DEF Settle
    <3>2. flight[p] \in 1 .. Len(jobs) /\ jobs \in Seq(Job)
      BY <2>1 DEF Inv, Ranges
    <3>3. job \in Job
      BY <3>2
    <3>4. verdict \in Verdicts /\ (verdict = "stored" => job.state = "done")
      BY <2>1, <3>3 DEF Job, Verdicts
    <3> HIDE DEF verdict
    <3>5. Service!Tell
      BY <2>1, <3>1, <3>4, AnsweredTells
    <3> QED BY <3>5 DEF Service!Next
  <2> QED BY <2>2, <2>3
<1>5. ASSUME NEW p \in Procs, Expire(p)
      PROVE  Service!Next
  <2>1. flight[p] # 0 /\ Answered(Payload(p), "expired") /\ log' = log
    BY <1>5 DEF Expire, broker
  <2>2. Service!Tell
    BY <2>1, AnsweredTells DEF Verdicts
  <2> QED BY <2>2 DEF Service!Next
<1>6. ASSUME NEW p \in Procs, Crash(p)
      PROVE  Service!Next
  BY <1>6, CrashTells DEF Service!Next
<1>7. CASE Take
  BY <1>7, Quiet DEF Take
<1>8. CASE RunJob
  <2>1. active # 0 /\ answer' = answer
        /\ (log' = log \/ (Rejected(jobs[active].writes) = {}
                           /\ log' = Append(log, jobs[active].writes)))
    BY <1>8 DEF RunJob
  <2> QED BY <2>1, Quiet, WorkerCommits DEF Service!Next
<1>9. CASE Transport
  <2>1. active # 0 /\ answer' = answer
        /\ (log' = log \/ (Rejected(jobs[active].writes) = {}
                           /\ log' = Append(log, jobs[active].writes)))
    BY <1>9 DEF Transport
  <2> QED BY <2>1, Quiet, WorkerCommits DEF Service!Next
<1>10. ASSUME NEW id \in delayed, Promote(id)
       PROVE  UNCHANGED Service!vars
  BY <1>10, Quiet DEF Promote
<1> QED BY <1>1, <1>2, <1>3, <1>4, <1>5, <1>6, <1>7, <1>8, <1>9, <1>10 DEF Next

\* client.batch(): however the writes of any number of processes are folded into
\* jobs, retried, split and given up on, each caller is told once, "stored" is said
\* of committed writes alone, and a transaction carries whole writes, none bad.
THEOREM ImplementsService == Spec => ServicePromised
<1>1. Init => Service!Init
  BY DEF Init, Service!Init
<1>2. Inv /\ [Next]_vars => Inv'
  BY NextInv
<1>3. Inv /\ [Next]_vars => [Service!Next]_(Service!vars)
  BY StepsOfTheService
<1> QED BY InitInv, <1>1, <1>2, <1>3, PTL DEF Spec, ServicePromised, Service!Spec

-----------------------------------------------------------------------------
(* Whose fault a refusal is.                                               *)

HasUnread(ws) == \E i \in 1 .. Len(ws) : ws[i] \in Unread

\* A job of js carries x and a call whose rejection is not recognised.
Shared(js, x) ==
    \E n \in 1 .. Len(js) : /\ HasUnread(js[n].writes)
                            /\ \E k \in 1 .. Len(js[n].writes) : js[n].writes[k] = x

\* A call refused by itself is at fault, or was committed already; a job ends for
\* want of a connection only if one was lost or if it carries a call whose rejection
\* looks like one.
RefusalInv ==
    \A n \in 1 .. Len(jobs) : LET ws == jobs[n].writes IN
        /\ jobs[n].state = "statement" /\ Len(ws) = 1 =>
              ws[1] \in Bad \/ (ws[1] \in Once /\ InLog(log, ws[1]))
        /\ jobs[n].state = "transport" => faults.transport > 0 \/ HasUnread(ws)

\* OneBadCaller, place by place.
ToldInv ==
    \A x \in Writes \ Bad :
        /\ answer[x] = "statement" => x \in Once /\ InLog(log, x)
        /\ answer[x] = "transport" => faults.transport > 0 \/ Shared(jobs, x)

Blame == RefusalInv /\ ToldInv

LEMMA SharedIsTogether ==
  ASSUME jobs \in Seq(Job), NEW x, Shared(jobs, x)
  PROVE  \E v \in Unread : Together(v, x)
<1>1. PICK n \in 1 .. Len(jobs) : /\ HasUnread(jobs[n].writes)
                                  /\ \E k \in 1 .. Len(jobs[n].writes) : jobs[n].writes[k] = x
  BY DEF Shared
<1>2. PICK i \in 1 .. Len(jobs[n].writes) : jobs[n].writes[i] \in Unread
  BY <1>1 DEF HasUnread
<1>3. PICK k \in 1 .. Len(jobs[n].writes) : jobs[n].writes[k] = x
  BY <1>1
<1>4. jobs[n].writes \in Seq(Writes) /\ n \in DOMAIN jobs
  <2>1. jobs[n] \in Job
    BY <1>1
  <2> QED BY <1>1, <2>1 DEF Job
<1>5. jobs[n].writes[i] \in Range(jobs[n].writes) /\ x \in Range(jobs[n].writes)
  BY <1>3, <1>4 DEF Range
<1> QED BY <1>2, <1>4, <1>5 DEF Together

\* No job is taken away and none changes what it carries.
LEMMA SharedStays ==
  ASSUME Len(jobs) \in Nat, Len(jobs') \in Nat, Len(jobs) <= Len(jobs'),
         \A n \in 1 .. Len(jobs) : jobs'[n].writes = jobs[n].writes,
         NEW x, Shared(jobs, x)
  PROVE  Shared(jobs', x)
<1>1. PICK n \in 1 .. Len(jobs) : /\ HasUnread(jobs[n].writes)
                                  /\ \E k \in 1 .. Len(jobs[n].writes) : jobs[n].writes[k] = x
  BY DEF Shared
<1>2. n \in 1 .. Len(jobs')
  BY <1>1
<1>3. jobs'[n].writes = jobs[n].writes
  BY <1>1
<1>4. HasUnread(jobs'[n].writes) /\ \E k \in 1 .. Len(jobs'[n].writes) : jobs'[n].writes[k] = x
  BY <1>1, <1>3
<1> QED BY <1>2, <1>4 DEF Shared

LEMMA BlameKept ==
  ASSUME Blame, jobs \in Seq(Job), Len(jobs') = Len(jobs), answer' = answer,
         \A x : InLog(log, x) => InLog(log', x),
         faults.transport > 0 => faults'.transport > 0,
         \A n \in 1 .. Len(jobs) :
            /\ jobs'[n].writes = jobs[n].writes
            /\ \/ jobs'[n].state = jobs[n].state
               \/ jobs'[n].state \in {"open", "done"}
               \/ /\ jobs'[n].state = "statement"
                  /\ \A i \in 1 .. Len(jobs[n].writes) : Len(jobs[n].writes) = 1 =>
                        jobs[n].writes[i] \in Bad
                        \/ (jobs[n].writes[i] \in Once /\ InLog(log', jobs[n].writes[i]))
               \/ /\ jobs'[n].state = "transport"
                  /\ faults'.transport > 0 \/ HasUnread(jobs[n].writes)
  PROVE  Blame'
<1>1. RefusalInv'
  <2>1. ASSUME NEW n \in 1 .. Len(jobs)
        PROVE  /\ jobs'[n].state = "statement" /\ Len(jobs[n].writes) = 1 =>
                     jobs[n].writes[1] \in Bad
                     \/ (jobs[n].writes[1] \in Once /\ InLog(log', jobs[n].writes[1]))
               /\ jobs'[n].state = "transport" =>
                     faults'.transport > 0 \/ HasUnread(jobs[n].writes)
    <3>1. /\ jobs[n].state = "statement" /\ Len(jobs[n].writes) = 1 =>
                jobs[n].writes[1] \in Bad
                \/ (jobs[n].writes[1] \in Once /\ InLog(log, jobs[n].writes[1]))
          /\ jobs[n].state = "transport" =>
                faults.transport > 0 \/ HasUnread(jobs[n].writes)
      BY DEF Blame, RefusalInv
    <3> QED BY <3>1
  <2>2. ASSUME NEW n \in 1 .. Len(jobs')
        PROVE  /\ jobs'[n].state = "statement" /\ Len(jobs'[n].writes) = 1 =>
                     jobs'[n].writes[1] \in Bad
                     \/ (jobs'[n].writes[1] \in Once /\ InLog(log', jobs'[n].writes[1]))
               /\ jobs'[n].state = "transport" =>
                     faults'.transport > 0 \/ HasUnread(jobs'[n].writes)
    <3>1. n \in 1 .. Len(jobs) /\ jobs'[n].writes = jobs[n].writes
      BY <2>2
    <3> QED BY <2>1, <3>1
  <2> QED BY <2>2 DEF RefusalInv
<1>2. ToldInv'
  <2>1. Len(jobs) \in Nat /\ \A n \in 1 .. Len(jobs) : jobs'[n].writes = jobs[n].writes
    OBVIOUS
  <2>2. ASSUME NEW x, Shared(jobs, x) PROVE Shared(jobs', x)
    BY <2>1, <2>2, SharedStays
  <2> QED BY <2>2 DEF Blame, ToldInv
<1> QED BY <1>1, <1>2 DEF Blame

\* Nothing is heard of a refusal but by calls that may be refused.
LEMMA BlameTold ==
  ASSUME Blame, jobs' = jobs, log' = log, faults'.transport = faults.transport,
         \A x \in Writes \ Bad : answer'[x] # answer[x] =>
            /\ answer'[x] = "statement" => x \in Once /\ InLog(log, x)
            /\ answer'[x] = "transport" => faults.transport > 0 \/ Shared(jobs, x)
  PROVE  Blame'
<1>1. RefusalInv'
  BY DEF Blame, RefusalInv
<1>2. ToldInv'
  BY DEF Blame, ToldInv
<1> QED BY <1>1, <1>2 DEF Blame

LEMMA PostBlame ==
  ASSUME Inv, Blame, NEW p \in Procs, Post(p)
  PROVE  Blame'
<1> DEFINE job == [by |-> p, writes |-> Payload(p), tries |-> 0, state |-> "open"]
<1>1. jobs' = Append(jobs, job) /\ answer' = answer /\ log' = log /\ faults' = faults
  BY DEF Post
<1>2. jobs \in Seq(Job)
  BY DEF Inv, Ranges
<1>3. job.state = "open"
  OBVIOUS
<1> HIDE DEF job
<1>4. Len(jobs') = Len(jobs) + 1 /\ jobs'[Len(jobs) + 1] = job
      /\ \A n \in 1 .. Len(jobs) : jobs'[n] = jobs[n]
  BY <1>1, <1>2
<1>5. \A n \in 1 .. Len(jobs') : n \in 1 .. Len(jobs) \/ n = Len(jobs) + 1
  BY <1>2, <1>4
<1>6. RefusalInv'
  <2>1. \A n \in 1 .. Len(jobs') : (n \in 1 .. Len(jobs) /\ jobs'[n] = jobs[n])
                                   \/ jobs'[n].state = "open"
    BY <1>3, <1>4, <1>5
  <2> QED BY <1>1, <2>1 DEF Blame, RefusalInv
<1>7. ToldInv'
  <2>1. Len(jobs) \in Nat /\ Len(jobs') \in Nat /\ Len(jobs) <= Len(jobs')
        /\ \A n \in 1 .. Len(jobs) : jobs'[n].writes = jobs[n].writes
    BY <1>2, <1>4
  <2>2. ASSUME NEW x, Shared(jobs, x) PROVE Shared(jobs', x)
    BY <2>1, <2>2, SharedStays
  <2> QED BY <1>1, <2>2 DEF Blame, ToldInv
<1> QED BY <1>6, <1>7 DEF Blame

LEMMA SettleBlame ==
  ASSUME Inv, Blame, NEW p \in Procs, Settle(p)
  PROVE  Blame'
<1> DEFINE job == jobs[flight[p]]
           verdict == IF job.state = "done" THEN "stored" ELSE job.state
           ws == Payload(p)
<1>1. flight[p] # 0 /\ jobs' = jobs /\ log' = log /\ faults' = faults
  BY DEF Settle, broker
<1>2. group[p] # <<>> /\ job.writes = ws /\ flight[p] \in 1 .. Len(jobs)
  BY <1>1 DEF Inv, FlightInv, Ranges
<1>3. CASE Splits(p, verdict)
  <2>1. answer' = answer
    BY <1>3 DEF Settle
  <2> QED BY <1>1, <2>1, BlameTold
<1>4. CASE ~Splits(p, verdict)
  <2>1. Answered(ws, verdict)
    BY <1>4 DEF Settle
  <2>2. ws \in Seq(Writes)
    BY <1>2, PayloadIsHeld DEF Inv
  <2>3. \A x \in Writes :
          answer'[x] = IF \E i \in 1 .. Len(ws) : x = ws[i] THEN verdict ELSE answer[x]
    BY <2>1, <2>2, AnsweredIs
  <2>4. job.state = "statement" => Len(ws) = 1
    <3>1. group[p] \in Seq(Writes) /\ alone[p] \in 0 .. Len(group[p])
      BY DEF Inv, Ranges
    <3>2. CASE alone[p] # 0
      BY <3>2 DEF Payload
    <3>3. CASE alone[p] = 0 /\ job.state = "statement"
      <4>1. verdict = "statement"
        BY <3>3
      <4>2. ~(Len(group[p]) > 1)
        BY <1>4, <3>3, <4>1 DEF Splits
      <4>3. ws = group[p]
        BY <3>3 DEF Payload
      <4>4. Len(group[p]) = 1
        <5>1. group[p] # <<>> /\ group[p] \in Seq(Writes)
          BY <1>2, <3>1, <4>2
        <5> HIDE DEF ws, job, verdict
        <5>2. Len(group[p]) \in Nat /\ Len(group[p]) # 0
          BY <5>1
        <5>3. \A n \in Nat : n # 0 /\ ~(n > 1) => n = 1
          OBVIOUS
        <5> QED BY <4>2, <5>2, <5>3, Zenon
      <4> QED BY <4>3, <4>4
    <3> QED BY <3>2, <3>3
  <2>5. /\ job.state = "statement" =>
              ws[1] \in Bad \/ (ws[1] \in Once /\ InLog(log, ws[1]))
        /\ job.state = "transport" => faults.transport > 0 \/ HasUnread(ws)
    BY <1>2, <2>4 DEF Blame, RefusalInv
  <2>6. /\ verdict = "statement" => job.state = "statement"
        /\ verdict = "transport" => job.state = "transport"
    OBVIOUS
  <2>8. flight[p] \in 1 .. Len(jobs) /\ jobs[flight[p]].writes = ws
    BY <1>2
  <2> HIDE DEF ws, job, verdict
  <2>7. ASSUME NEW x \in Writes \ Bad, answer'[x] # answer[x]
        PROVE  /\ answer'[x] = "statement" => x \in Once /\ InLog(log, x)
               /\ answer'[x] = "transport" => faults.transport > 0 \/ Shared(jobs, x)
    <3>1. PICK i \in 1 .. Len(ws) : x = ws[i]
      BY <2>3, <2>7
    <3>2. answer'[x] = verdict
      BY <2>3, <3>1
    <3>3. verdict = "statement" => i = 1
      BY <2>4, <2>6, <3>1
    <3>4. HasUnread(ws) => Shared(jobs, x)
      BY <2>8, <3>1 DEF Shared
    <3> QED BY <2>5, <2>6, <3>1, <3>2, <3>3, <3>4
  <2> QED BY <1>1, <2>7, BlameTold
<1> QED BY <1>3, <1>4

LEMMA QuietBlame ==
  ASSUME Inv, Blame,
         \/ UNCHANGED vars \/ Take \/ \E id \in delayed : Promote(id)
         \/ \E p \in Procs : Enqueue(p) \/ Expire(p) \/ Crash(p)
  PROVE  Blame'
<1>1. ASSUME UNCHANGED <<jobs, log, faults, answer>>
      PROVE  Blame'
  BY <1>1, BlameTold
<1>2. ASSUME NEW p \in Procs, Enqueue(p)
      PROVE  Blame'
  <2>1. UNCHANGED <<jobs, log, faults>>
        /\ answer' = [answer EXCEPT ![Program[p][asked[p] + 1]] = "asked"]
    BY <1>2 DEF Enqueue, broker
  <2>2. answer \in [Writes -> {"new", "asked"} \cup Verdicts]
    BY DEF Inv, Ranges
  <2>3. \A x \in Writes : answer'[x] # answer[x] => answer'[x] = "asked"
    BY <2>1, <2>2
  <2> QED BY <2>1, <2>3, BlameTold
<1>3. ASSUME NEW p \in Procs, Expire(p)
      PROVE  Blame'
  <2>1. UNCHANGED <<jobs, log>> /\ flight[p] # 0 /\ Answered(Payload(p), "expired")
        /\ faults' = [faults EXCEPT !.wait = @ + 1]
    BY <1>3 DEF Expire, broker
  <2>2. Payload(p) \in Seq(Writes)
    BY <2>1, PayloadIsHeld DEF Inv, FlightInv
  <2>3. \A x \in Writes : answer'[x] # answer[x] => answer'[x] = "expired"
    BY <2>1, <2>2, AnsweredIs
  <2>4. faults'.transport = faults.transport
    <3>1. faults \in [transport : Nat, wait : Nat, crash : Nat]
      BY DEF Inv, Ranges
    <3> QED BY <2>1, <3>1
  <2> QED BY <2>1, <2>3, <2>4, BlameTold
<1>4. ASSUME NEW p \in Procs, Crash(p)
      PROVE  Blame'
  <2>1. UNCHANGED <<jobs, log>> /\ faults' = [faults EXCEPT !.crash = @ + 1]
        /\ answer' = [x \in Writes |-> IF answer[x] = "asked" /\ x \in Range(Program[p])
                                       THEN "gone" ELSE answer[x]]
    BY <1>4 DEF Crash
  <2>2. \A x \in Writes : answer'[x] # answer[x] => answer'[x] = "gone"
    BY <2>1
  <2>3. faults'.transport = faults.transport
    <3>1. faults \in [transport : Nat, wait : Nat, crash : Nat]
      BY DEF Inv, Ranges
    <3> QED BY <2>1, <3>1
  <2> QED BY <2>1, <2>2, <2>3, BlameTold
<1> QED BY <1>1, <1>2, <1>3, <1>4 DEF vars, Take, Promote

\* The worker settles a job: the blame is right if what becomes of it is.
LEMMA AgainBlame ==
  ASSUME Inv, Blame, active # 0, Again(active), answer' = answer,
         \A x : InLog(log, x) => InLog(log', x),
         faults.transport > 0 => faults'.transport > 0,
         faults'.transport > 0 \/ HasUnread(jobs[active].writes)
  PROVE  Blame'
<1> DEFINE tries == jobs[active].tries + 1
<1>1. jobs \in Seq(Job) /\ active \in 1 .. Len(jobs)
  BY DEF Inv, Ranges
<1>2. jobs[active] \in Job
  BY <1>1
<1>3. tries \in Nat
  BY <1>2 DEF Job
<1>4. IF tries < Attempts
      THEN jobs' = [jobs EXCEPT ![active].tries = tries]
      ELSE jobs' = [jobs EXCEPT ![active].tries = tries, ![active].state = "transport"]
  BY DEF Again
<1> HIDE DEF tries
<1>5. /\ Len(jobs') = Len(jobs)
      /\ \A n \in 1 .. Len(jobs) : /\ jobs'[n].writes = jobs[n].writes
                                   /\ \/ jobs'[n].state = jobs[n].state
                                      \/ n = active /\ jobs'[n].state = "transport"
  <2>1. CASE tries < Attempts
    <3> DEFINE job == [jobs[active] EXCEPT !.tries = tries]
    <3>1. job.writes = jobs[active].writes /\ job.state = jobs[active].state
      BY <1>2 DEF Job
    <3>2. jobs' = [jobs EXCEPT ![active] = job]
      BY <1>4, <2>1
    <3> HIDE DEF job
    <3> QED BY <1>1, <3>1, <3>2
  <2>2. CASE ~(tries < Attempts)
    <3>1. jobs' = [jobs EXCEPT ![active].tries = tries, ![active].state = "transport"]
      BY <1>4, <2>2
    <3> QED BY <1>1, <1>3, <3>1, JobChanged
  <2> QED BY <2>1, <2>2
<1>6. \A n \in 1 .. Len(jobs) :
         /\ jobs'[n].writes = jobs[n].writes
         /\ \/ jobs'[n].state = jobs[n].state
            \/ /\ jobs'[n].state = "transport"
               /\ faults'.transport > 0 \/ HasUnread(jobs[n].writes)
  BY <1>5
<1> QED BY <1>1, <1>5, <1>6, BlameKept

\* Among the rejected calls of a job one comes first.
LEMMA FirstIsRejected ==
  ASSUME NEW ws \in Seq(Writes), Rejected(ws) # {}
  PROVE  FirstRejected(ws) \in Rejected(ws)
<1>1. Rejected(ws) \in SUBSET Nat
  BY DEF Rejected
<1>2. PICK i \in Rejected(ws) : \A k \in Rejected(ws) : ~ (<<k, i>> \in OpToRel(<, Nat))
  BY <1>1, NatLessThanWellFounded, WFMin, Zenon
<1>3. \A k \in Rejected(ws) : ~ (k < i)
  BY <1>1, <1>2, Zenon DEF OpToRel
<1>4. \A k \in Rejected(ws) : i <= k
  BY <1>1, <1>3
<1> QED BY <1>4 DEF FirstRejected

LEMMA RunJobBlame ==
  ASSUME Inv, Blame, RunJob
  PROVE  Blame'
<1> DEFINE ws == jobs[active].writes
<1>1. active # 0 /\ answer' = answer /\ faults' = faults
  BY DEF RunJob
<1>2. IF Rejected(ws) = {}
      THEN log' = Append(log, ws) /\ jobs' = [jobs EXCEPT ![active].state = "done"]
      ELSE /\ log' = log
           /\ \/ jobs' = [jobs EXCEPT ![active].state = "statement"]
              \/ ws[FirstRejected(ws)] \in Unread /\ Again(active)
  BY DEF RunJob
<1>3. jobs \in Seq(Job) /\ active \in 1 .. Len(jobs) /\ log \in Seq(Seq(Writes))
  BY <1>1 DEF Inv, Ranges
<1>4. jobs[active] \in Job
  BY <1>3
<1>5. ws \in Seq(Writes)
  BY <1>4 DEF Job
<1>6. ASSUME NEW state, jobs' = [jobs EXCEPT ![active].state = state]
      PROVE  /\ Len(jobs') = Len(jobs)
             /\ \A n \in 1 .. Len(jobs) :
                   jobs'[n].writes = jobs[n].writes /\ (n # active => jobs'[n] = jobs[n])
             /\ jobs'[active].state = state
  <2> DEFINE job == [jobs[active] EXCEPT !.state = state]
  <2>1. job.writes = jobs[active].writes /\ job.state = state
    BY <1>4 DEF Job
  <2>2. jobs' = [jobs EXCEPT ![active] = job]
    BY <1>6
  <2> HIDE DEF job
  <2> QED BY <1>3, <2>1, <2>2
<1> HIDE DEF ws
<1>7. CASE Rejected(ws) = {}
  <2>1. log' = Append(log, ws) /\ jobs' = [jobs EXCEPT ![active].state = "done"]
    BY <1>2, <1>7
  <2>2. \A x : InLog(log, x) => InLog(log', x)
    BY <1>3, <1>5, <2>1, CommittedStays
  <2> QED BY <1>1, <1>3, <1>6, <2>1, <2>2, BlameKept
<1>8. CASE Rejected(ws) # {} /\ jobs' = [jobs EXCEPT ![active].state = "statement"]
  <2>1. log' = log /\ jobs' = [jobs EXCEPT ![active].state = "statement"]
    BY <1>2, <1>8
  <2>2. ASSUME NEW i \in 1 .. Len(ws), Len(ws) = 1
        PROVE  ws[i] \in Bad \/ (ws[i] \in Once /\ InLog(log, ws[i]))
    <3>1. PICK k \in DOMAIN ws : ws[k] \in Bad \/ (ws[k] \in Once /\ Committed(ws[k]))
      BY <1>8 DEF Rejected
    <3>2. k = i
      BY <1>5, <2>2
    <3> QED BY <3>1, <3>2 DEF Committed, InLog
  <2>3. \A n \in 1 .. Len(jobs) :
          /\ jobs'[n].writes = jobs[n].writes
          /\ \/ jobs'[n].state = jobs[n].state
             \/ /\ jobs'[n].state = "statement"
                /\ \A i \in 1 .. Len(jobs[n].writes) : Len(jobs[n].writes) = 1 =>
                      jobs[n].writes[i] \in Bad
                      \/ (jobs[n].writes[i] \in Once /\ InLog(log', jobs[n].writes[i]))
    BY <1>6, <2>1, <2>2 DEF ws
  <2> QED BY <1>1, <1>3, <1>6, <2>1, <2>3, BlameKept
<1>9. CASE Rejected(ws) # {} /\ ws[FirstRejected(ws)] \in Unread /\ Again(active)
  <2>1. FirstRejected(ws) \in DOMAIN ws
    BY <1>5, <1>9, FirstIsRejected DEF Rejected
  <2>2. HasUnread(ws)
    BY <1>5, <1>9, <2>1 DEF HasUnread
  <2>3. log' = log
    BY <1>2, <1>9
  <2> QED BY <1>1, <1>9, <2>2, <2>3, AgainBlame DEF ws
<1> QED BY <1>2, <1>7, <1>8, <1>9

LEMMA TransportBlame ==
  ASSUME Inv, Blame, Transport
  PROVE  Blame'
<1>1. /\ active # 0 /\ Again(active) /\ answer' = answer
      /\ faults' = [faults EXCEPT !.transport = @ + 1]
      /\ log' = log \/ log' = Append(log, jobs[active].writes)
  BY DEF Transport
<1>2. jobs \in Seq(Job) /\ active \in 1 .. Len(jobs) /\ log \in Seq(Seq(Writes))
      /\ faults \in [transport : Nat, wait : Nat, crash : Nat]
  BY <1>1 DEF Inv, Ranges
<1>3. jobs[active] \in Job
  BY <1>2
<1>4. jobs[active].writes \in Seq(Writes)
  BY <1>3 DEF Job
<1>5. \A x : InLog(log, x) => InLog(log', x)
  BY <1>1, <1>2, <1>4, CommittedStays
<1>6. faults'.transport > 0
  BY <1>1, <1>2
<1> QED BY <1>1, <1>5, <1>6, AgainBlame

\* writeFolder.js: a bad statement whose rejection is recognised fails no caller but
\* its own; one that is not recognised fails only those it shared a transaction with.
\* For any processes, calls, ceiling and attempts.
THEOREM OneBadCallerOnly == Spec => []OneBadCaller
<1>1. Init => Blame
  BY DEF Init, Blame, RefusalInv, ToldInv
<1>2. Inv /\ Blame /\ [Next]_vars => Inv' /\ Blame'
  <2> SUFFICES ASSUME Inv, Blame, [Next]_vars
               PROVE  Blame'
    BY NextInv
  <2> QED BY PostBlame, SettleBlame, QuietBlame, RunJobBlame, TransportBlame DEF Next
<1>3. Inv /\ Blame => OneBadCaller
  <2> SUFFICES ASSUME Inv, Blame
               PROVE  OneBadCaller
    OBVIOUS
  <2>1. jobs \in Seq(Job)
    BY DEF Inv, Ranges
  <2>2. ASSUME NEW x \in Writes \ Bad
        PROVE  /\ answer[x] = "statement" => x \in Once /\ InLog(log, x)
               /\ answer[x] = "transport" => \/ faults.transport > 0
                                             \/ \E v \in Unread : Together(v, x)
    <3>1. Shared(jobs, x) => \E v \in Unread : Together(v, x)
      BY <2>1, SharedIsTogether
    <3> QED BY <2>2, <3>1 DEF Blame, ToldInv
  <2> QED BY <2>2 DEF OneBadCaller, Committed, InLog
<1> QED BY InitInv, <1>1, <1>2, <1>3, PTL DEF Spec

=============================================================================
