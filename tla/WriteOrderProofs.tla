-------------------------- MODULE WriteOrderProofs --------------------------
(***************************************************************************)
(* What a caller is told, for any processes, calls and ceiling: its stored *)
(* writes land in the order it asked for them, and the rows it is given    *)
(* are those of its own statements.  Rests on the ranges and on Inv, the   *)
(* bookkeeping of calls and jobs, of WriteQueueProofs.                     *)
(***************************************************************************)
EXTENDS WriteQueueProofs

-----------------------------------------------------------------------------
(* Stored writes of one process land in the order they were asked for.     *)

\* Job n carries the call x.
Carries(n, x) == \E i \in 1 .. Len(jobs[n].writes) : jobs[n].writes[i] = x

\* The k-th transaction of lg carries the call x.
CarriedBy(lg, k, x) == \E j \in DOMAIN lg[k] : lg[k][j] = x

\* A job in the broker's hands is there once, and is open.
BrokerInv ==
    /\ \A i, j \in 1 .. Len(line) : line[i] = line[j] => i = j
    /\ \A i \in 1 .. Len(line) : /\ line[i] \notin delayed /\ line[i] # active
                                 /\ jobs[line[i]].state = "open"
    /\ \A n \in delayed : n # active /\ jobs[n].state = "open"
    /\ active # 0 => jobs[active].state = "open"

\* What a process holds is the last stretch of what it has asked for, in order.
InOrder(P, n, g, w) ==
    /\ Len(g) + Len(w) <= n
    /\ \A i \in 1 .. Len(g) : g[i] = P[n - Len(w) - Len(g) + i]
    /\ \A i \in 1 .. Len(w) : w[i] = P[n - Len(w) + i]

FoldInv == \A p \in Procs : InOrder(Program[p], asked[p], group[p], waiting[p])

\* A call not yet answered is in no job but the one in flight, or in jobs given up.
Owned(p) ==
    /\ \A i \in 1 .. Len(group[p]) : alone[p] <= i =>
          \A n \in 1 .. Len(jobs) : Carries(n, group[p][i]) =>
              \/ n = flight[p] /\ alone[p] \in {0, i}
              \/ alone[p] # 0 /\ jobs[n].state \in {"statement", "transport"}
    /\ \A i \in 1 .. Len(waiting[p]), n \in 1 .. Len(jobs) : ~Carries(n, waiting[p][i])

OwnerInv == \A p \in Procs : Owned(p)

\* A call that was stored is in a job that is done, and in none still to run.
StoredInv ==
    \A x \in Writes : answer[x] = "stored" =>
        /\ \E n \in 1 .. Len(jobs) : jobs[n].state = "done" /\ Carries(n, x)
        /\ \A n \in 1 .. Len(jobs) : Carries(n, x) => jobs[n].state # "open"

\* Transactions are what jobs carry.
LogInv == \A k \in 1 .. Len(log) : \E n \in 1 .. Len(jobs) : log[k] = jobs[n].writes

\* v is committed no later than w is for the last time.
NotAfter(lg, v, w) ==
    \E m \in DOMAIN lg : CarriedBy(lg, m, w) /\ \A k \in DOMAIN lg : CarriedBy(lg, k, v) => k <= m

\* The job of a later write is not done before every commit of a stored one.
OrderInv ==
    \A p \in Procs : \A i, j \in 1 .. Len(Program[p]) :
        /\ i < j /\ answer[Program[p][i]] = "stored"
        /\ \E n \in 1 .. Len(jobs) : jobs[n].state = "done" /\ Carries(n, Program[p][j])
        => NotAfter(log, Program[p][i], Program[p][j])

Orderly == BrokerInv /\ FoldInv /\ OwnerInv /\ StoredInv /\ LogInv /\ OrderInv

LEMMA JobsAre ==
  ASSUME Ranges, NEW n \in 1 .. Len(jobs)
  PROVE  /\ jobs[n] \in Job /\ jobs[n].writes \in Seq(Writes)
         /\ jobs[n].state \in {"open", "done", "statement", "transport"}
         /\ \A x : Carries(n, x) => x \in Writes
<1>1. jobs[n] \in Job
  BY DEF Ranges
<1>2. jobs[n].writes \in Seq(Writes) /\ jobs[n].state \in {"open", "done", "statement", "transport"}
  BY <1>1 DEF Job
<1>3. \A x : Carries(n, x) => x \in Writes
  BY <1>2 DEF Carries
<1> QED BY <1>1, <1>2, <1>3

\* What a process holds beyond the group: a call made later than one of the group is
\* in the group behind it, waiting, or still to come.
LEMMA LaterIsBehind ==
  ASSUME Inv, FoldInv, NEW p \in Procs, NEW i \in 1 .. Len(group[p]),
         NEW a \in 1 .. Len(Program[p]), NEW b \in 1 .. Len(Program[p]), a < b,
         Program[p][a] = group[p][i]
  PROVE  \/ \E k \in i + 1 .. Len(group[p]) : Program[p][b] = group[p][k]
         \/ \E k \in 1 .. Len(waiting[p]) : Program[p][b] = waiting[p][k]
         \/ answer[Program[p][b]] = "new"
<1> DEFINE P == Program[p]
           n == asked[p]
           G == Len(group[p])
           W == Len(waiting[p])
<1>1. P \in Seq(Writes) /\ OneToOne(P) /\ n \in Nat /\ G \in Nat /\ W \in Nat /\ n <= Len(P)
  BY ProgramsApart DEF Inv, Ranges, HeldInv, Held
<1>2. /\ G + W <= n
      /\ \A k \in 1 .. G : group[p][k] = P[n - W - G + k]
      /\ \A k \in 1 .. W : waiting[p][k] = P[n - W + k]
  BY DEF FoldInv, InOrder
<1>3. \A k \in n + 1 .. Len(P) : answer[P[k]] = "new"
  BY DEF Inv, HeldInv, Held
<1>4. P[a] = group[p][i]
  OBVIOUS
<1>5. i \in 1 .. G /\ a \in 1 .. Len(P) /\ b \in 1 .. Len(P)
  OBVIOUS
<1> HIDE DEF P, n, G, W
<1>6. a = n - W - G + i
  <2>1. n - W - G + i \in 1 .. Len(P)
    BY <1>1, <1>2, <1>5
  <2> QED BY <1>1, <1>2, <1>4, <1>5, <2>1 DEF OneToOne
<1>7. CASE b <= n - W
  <2>1. b - (n - W - G) \in i + 1 .. G /\ n - W - G + (b - (n - W - G)) = b
    BY <1>1, <1>2, <1>5, <1>6, <1>7
  <2>2. group[p][b - (n - W - G)] = P[b]
    <3>1. b - (n - W - G) \in 1 .. G
      BY <1>1, <1>5, <2>1
    <3> QED BY <1>2, <2>1, <3>1
  <2> QED BY <2>1, <2>2 DEF P, G
<1>8. CASE n - W < b /\ b <= n
  <2>1. b - (n - W) \in 1 .. W /\ n - W + (b - (n - W)) = b
    BY <1>1, <1>2, <1>5, <1>8
  <2>2. waiting[p][b - (n - W)] = P[b]
    BY <1>2, <2>1
  <2> QED BY <2>1, <2>2 DEF P, W
<1>9. CASE n < b
  <2>1. b \in n + 1 .. Len(P)
    BY <1>1, <1>5, <1>9
  <2> QED BY <1>3, <2>1 DEF P
<1> QED BY <1>1, <1>5, <1>7, <1>8, <1>9

-----------------------------------------------------------------------------
(* The worker's steps.                                                     *)

\* What an attempt does: the job stays open and is put off, or ends.
LEMMA Attempted ==
  ASSUME Inv, BrokerInv, RunJob \/ Transport
  PROVE  /\ active \in 1 .. Len(jobs) /\ active' = 0 /\ line' = line
         /\ jobs[active].state = "open" /\ Len(jobs') = Len(jobs)
         /\ \A n \in 1 .. Len(jobs) : jobs'[n].writes = jobs[n].writes
         /\ \A n \in 1 .. Len(jobs) : n # active => jobs'[n].state = jobs[n].state
         /\ \/ log' = log /\ jobs'[active].state # "done"
            \/ log' = Append(log, jobs[active].writes)
         /\ \/ delayed' = delayed
            \/ delayed' = delayed \cup {active} /\ jobs'[active].state = "open"
         /\ UNCHANGED <<asked, waiting, group, alone, flight, answer>>
<1>1. /\ active # 0 /\ active' = 0
      /\ UNCHANGED <<asked, waiting, group, alone, flight, line, answer>>
  BY DEF RunJob, Transport
<1>2. jobs \in Seq(Job) /\ active \in 1 .. Len(jobs) /\ jobs[active].state = "open"
  BY <1>1 DEF Inv, Ranges, BrokerInv
<1>3. jobs[active] \in Job
  BY <1>2
<1>4. ASSUME NEW state \in {"done", "statement"}, jobs' = [jobs EXCEPT ![active].state = state]
      PROVE  /\ Len(jobs') = Len(jobs) /\ jobs'[active].state = state
             /\ \A n \in 1 .. Len(jobs) : jobs'[n].writes = jobs[n].writes
             /\ \A n \in 1 .. Len(jobs) : n # active => jobs'[n].state = jobs[n].state
  <2> DEFINE job == [jobs[active] EXCEPT !.state = state]
  <2>1. job \in Job /\ job.writes = jobs[active].writes /\ job.state = state
    BY <1>3, <1>4 DEF Job
  <2>2. jobs' = [jobs EXCEPT ![active] = job]
    BY <1>4
  <2> HIDE DEF job
  <2> QED BY <1>2, <2>1, <2>2
<1>5. ASSUME Again(active)
      PROVE  /\ Len(jobs') = Len(jobs) /\ jobs'[active].state # "done"
             /\ \A n \in 1 .. Len(jobs) : jobs'[n].writes = jobs[n].writes
             /\ \A n \in 1 .. Len(jobs) : n # active => jobs'[n].state = jobs[n].state
             /\ \/ delayed' = delayed
                \/ delayed' = delayed \cup {active} /\ jobs'[active].state = "open"
  <2> DEFINE tries == jobs[active].tries + 1
  <2>1. tries \in Nat
    BY <1>3 DEF Job
  <2>2. IF tries < Attempts
        THEN jobs' = [jobs EXCEPT ![active].tries = tries] /\ delayed' = delayed \cup {active}
        ELSE jobs' = [jobs EXCEPT ![active].tries = tries, ![active].state = "transport"]
             /\ delayed' = delayed
    BY <1>5 DEF Again
  <2> HIDE DEF tries
  <2>3. CASE tries < Attempts
    <3> DEFINE job == [jobs[active] EXCEPT !.tries = tries]
    <3>1. job.writes = jobs[active].writes /\ job.state = jobs[active].state
      BY <1>3, <2>1 DEF Job
    <3>2. jobs' = [jobs EXCEPT ![active] = job] /\ delayed' = delayed \cup {active}
      BY <2>2, <2>3
    <3> HIDE DEF job
    <3> QED BY <1>2, <3>1, <3>2
  <2>4. CASE ~(tries < Attempts)
    <3>1. jobs' = [jobs EXCEPT ![active].tries = tries, ![active].state = "transport"]
          /\ delayed' = delayed
      BY <2>2, <2>4
    <3>2. /\ Len(jobs') = Len(jobs) /\ jobs'[active].state = "transport"
          /\ \A n \in 1 .. Len(jobs) : /\ jobs'[n].writes = jobs[n].writes
                                       /\ n # active => jobs'[n] = jobs[n]
      BY <1>2, <2>1, <3>1, JobChanged
    <3> QED BY <3>1, <3>2
  <2> QED BY <2>3, <2>4
<1>6. CASE RunJob
  <2> DEFINE ws == jobs[active].writes
  <2>1. IF Rejected(ws) = {}
        THEN /\ log' = Append(log, ws) /\ delayed' = delayed
             /\ jobs' = [jobs EXCEPT ![active].state = "done"]
        ELSE /\ log' = log
             /\ \/ jobs' = [jobs EXCEPT ![active].state = "statement"] /\ delayed' = delayed
                \/ Again(active)
    BY <1>6 DEF RunJob
  <2>2. CASE Rejected(ws) = {}
    <3>1. /\ log' = Append(log, ws) /\ delayed' = delayed
          /\ jobs' = [jobs EXCEPT ![active].state = "done"]
      BY <2>1, <2>2
    <3> QED BY <1>1, <1>2, <1>4, <3>1
  <2>3. CASE Rejected(ws) # {}
    <3>1. log' = log
      BY <2>1, <2>3
    <3>2. CASE jobs' = [jobs EXCEPT ![active].state = "statement"] /\ delayed' = delayed
      <4>1. "statement" # "done"
        OBVIOUS
      <4> QED BY <1>1, <1>2, <1>4, <3>1, <3>2, <4>1
    <3>3. CASE Again(active)
      BY <1>1, <1>2, <1>5, <3>1, <3>3
    <3> QED BY <2>1, <2>3, <3>2, <3>3
  <2> QED BY <2>2, <2>3
<1>7. CASE Transport
  <2>1. Again(active) /\ (log' = log \/ log' = Append(log, jobs[active].writes))
    BY <1>7 DEF Transport
  <2> QED BY <1>1, <1>2, <1>5, <2>1
<1> QED BY <1>6, <1>7

\* The worker changes open jobs alone, and commits the one it runs.
LEMMA WorkerOrder ==
  ASSUME Inv, Orderly, Len(jobs') = Len(jobs),
         UNCHANGED <<asked, waiting, group, alone, flight, answer>>,
         \A n \in 1 .. Len(jobs) : jobs'[n].writes = jobs[n].writes,
         \A n \in 1 .. Len(jobs) : jobs[n].state # "open" => jobs'[n].state = jobs[n].state,
         \/ log' = log /\ \A n \in 1 .. Len(jobs) : jobs'[n].state = "done" => jobs[n].state = "done"
         \/ \E id \in 1 .. Len(jobs) :
               /\ jobs[id].state = "open" /\ log' = Append(log, jobs[id].writes)
               /\ \A n \in 1 .. Len(jobs) : n # id => jobs'[n].state = jobs[n].state
  PROVE  FoldInv' /\ OwnerInv' /\ StoredInv' /\ LogInv' /\ OrderInv'
<1> USE DEF Orderly
<1>1. \A n \in 1 .. Len(jobs) : \A x : Carries(n, x)' <=> Carries(n, x)
  BY DEF Carries
<1>2. FoldInv'
  BY DEF FoldInv
<1>3. OwnerInv'
  <2>1. ASSUME NEW p \in Procs
        PROVE  Owned(p)'
    <3>1. Owned(p)
      BY DEF OwnerInv
    <3>2. \A n \in 1 .. Len(jobs) : jobs[n].state \in {"statement", "transport"} =>
             jobs'[n].state \in {"statement", "transport"}
      OBVIOUS
    <3>3. ASSUME NEW i \in 1 .. Len(group[p]), alone[p] <= i, NEW n \in 1 .. Len(jobs),
                 Carries(n, group[p][i])'
          PROVE  \/ n = flight[p] /\ alone[p] \in {0, i}
                 \/ alone[p] # 0 /\ jobs'[n].state \in {"statement", "transport"}
      BY <1>1, <3>1, <3>2, <3>3 DEF Owned
    <3>4. ASSUME NEW i \in 1 .. Len(waiting[p]), NEW n \in 1 .. Len(jobs)
          PROVE  ~Carries(n, waiting[p][i])'
      BY <1>1, <3>1, <3>4 DEF Owned
    <3> QED BY <3>3, <3>4 DEF Owned
  <2> QED BY <2>1 DEF OwnerInv
<1>4. StoredInv'
  <2>1. ASSUME NEW x \in Writes, answer[x] = "stored"
        PROVE  /\ \E n \in 1 .. Len(jobs) : jobs'[n].state = "done" /\ Carries(n, x)'
               /\ \A n \in 1 .. Len(jobs) : Carries(n, x)' => jobs'[n].state # "open"
    <3>1. PICK n \in 1 .. Len(jobs) : jobs[n].state = "done" /\ Carries(n, x)
      BY <2>1 DEF StoredInv
    <3>2. jobs'[n].state = "done" /\ Carries(n, x)'
      BY <1>1, <3>1
    <3>3. \A m \in 1 .. Len(jobs) : Carries(m, x) => jobs[m].state # "open"
      BY <2>1 DEF StoredInv
    <3>4. \A m \in 1 .. Len(jobs) : Carries(m, x)' => jobs'[m].state # "open"
      BY <1>1, <3>3
    <3> QED BY <3>2, <3>4
  <2> QED BY <2>1 DEF StoredInv
<1>5. CASE log' = log /\ \A n \in 1 .. Len(jobs) : jobs'[n].state = "done" => jobs[n].state = "done"
  <2>1. LogInv'
    BY <1>5 DEF LogInv
  <2>2. OrderInv'
    BY <1>1, <1>5 DEF OrderInv
  <2> QED BY <1>2, <1>3, <1>4, <2>1, <2>2
<1>6. ASSUME NEW id \in 1 .. Len(jobs), jobs[id].state = "open",
             log' = Append(log, jobs[id].writes),
             \A n \in 1 .. Len(jobs) : n # id => jobs'[n].state = jobs[n].state
      PROVE  LogInv' /\ OrderInv'
  <2> DEFINE ws == jobs[id].writes
             L == Len(log)
  <2>1. log \in Seq(Seq(Writes)) /\ ws \in Seq(Writes)
    BY JobsAre DEF Inv, Ranges
  <2>2. log' = Append(log, ws)
    BY <1>6
  <2> HIDE DEF ws
  <2>3. /\ L \in Nat /\ DOMAIN log = 1 .. L /\ Len(log') = L + 1 /\ DOMAIN log' = 1 .. L + 1
        /\ log'[L + 1] = ws /\ \A k \in 1 .. L : log'[k] = log[k]
    BY <2>1, <2>2
  <2> HIDE DEF L
  <2>4. \A k \in 1 .. L + 1 : k \in 1 .. L \/ k = L + 1
    BY <2>3
  <2>5. LogInv'
    <3>1. \A k \in 1 .. L : \E n \in 1 .. Len(jobs) : log[k] = jobs[n].writes
      BY DEF LogInv, L
    <3>2. ASSUME NEW k \in 1 .. L + 1
          PROVE  \E n \in 1 .. Len(jobs) : log'[k] = jobs[n].writes
      <4>1. CASE k \in 1 .. L
        BY <2>3, <3>1, <4>1
      <4>2. CASE k = L + 1
        BY <2>3, <4>2 DEF ws
      <4> QED BY <2>4, <4>1, <4>2
    <3>3. \A k \in 1 .. L + 1 : \E n \in 1 .. Len(jobs') : log'[k] = jobs'[n].writes
      BY <3>2
    <3> QED BY <2>3, <3>3 DEF LogInv
  <2>6. \A x : CarriedBy(log', L + 1, x) <=> Carries(id, x)
    <3>1. DOMAIN ws = 1 .. Len(ws)
      BY <2>1
    <3>2. \A x : CarriedBy(log', L + 1, x) <=> \E i \in 1 .. Len(ws) : ws[i] = x
      BY <2>3, <3>1 DEF CarriedBy
    <3> QED BY <3>2 DEF Carries, ws
  <2>7. \A k \in 1 .. L : \A x : CarriedBy(log', k, x) <=> CarriedBy(log, k, x)
    BY <2>3 DEF CarriedBy
  <2>8. ASSUME NEW p \in Procs, NEW i \in 1 .. Len(Program[p]), NEW j \in 1 .. Len(Program[p]),
               i < j, answer[Program[p][i]] = "stored",
               NEW n \in 1 .. Len(jobs), jobs'[n].state = "done", Carries(n, Program[p][j])
        PROVE  NotAfter(log', Program[p][i], Program[p][j])
    <3>1. ~Carries(id, Program[p][i])
      <4>1. Program[p][i] \in Writes
        BY ProgramsApart
      <4> QED BY <1>6, <2>8, <4>1 DEF StoredInv
    <3>2. CASE n = id
      <4>1. L + 1 \in DOMAIN log' /\ CarriedBy(log', L + 1, Program[p][j])
        BY <2>3, <2>6, <2>8, <3>2
      <4>2. \A k \in DOMAIN log' : k <= L + 1
        BY <2>3
      <4> QED BY <4>1, <4>2 DEF NotAfter
    <3>3. CASE n # id
      <4>1. jobs[n].state = "done"
        BY <1>6, <2>8, <3>3
      <4>2. NotAfter(log, Program[p][i], Program[p][j])
        BY <2>8, <4>1 DEF OrderInv
      <4>3. PICK m \in DOMAIN log : /\ CarriedBy(log, m, Program[p][j])
                                    /\ \A k \in DOMAIN log : CarriedBy(log, k, Program[p][i]) => k <= m
        BY <4>2 DEF NotAfter
      <4>4. m \in DOMAIN log' /\ CarriedBy(log', m, Program[p][j])
        BY <2>3, <2>7, <4>3
      <4>5. ASSUME NEW k \in DOMAIN log', CarriedBy(log', k, Program[p][i])
            PROVE  k <= m
        <5>1. k # L + 1
          BY <2>6, <3>1, <4>5
        <5>2. k \in 1 .. L
          BY <2>3, <2>4, <5>1
        <5> QED BY <2>3, <2>7, <4>3, <4>5, <5>2
      <4> QED BY <4>4, <4>5 DEF NotAfter
    <3> QED BY <3>2, <3>3
  <2>9. OrderInv'
    <3>1. ASSUME NEW p \in Procs, NEW i \in 1 .. Len(Program[p]), NEW j \in 1 .. Len(Program[p]),
                 i < j, answer'[Program[p][i]] = "stored",
                 NEW n \in 1 .. Len(jobs'), jobs'[n].state = "done", Carries(n, Program[p][j])'
          PROVE  NotAfter(log', Program[p][i], Program[p][j])
      <4>1. n \in 1 .. Len(jobs) /\ Carries(n, Program[p][j]) /\ answer[Program[p][i]] = "stored"
        BY <1>1, <3>1
      <4> QED BY <2>8, <3>1, <4>1
    <3> QED BY <3>1 DEF OrderInv
  <2> QED BY <2>5, <2>9
<1> QED BY <1>2, <1>3, <1>4, <1>5, <1>6

LEMMA AttemptOrder ==
  ASSUME Inv, Orderly, RunJob \/ Transport
  PROVE  Orderly'
<1> USE DEF Orderly
<1>1. /\ active \in 1 .. Len(jobs) /\ active' = 0 /\ line' = line
      /\ jobs[active].state = "open" /\ Len(jobs') = Len(jobs)
      /\ \A n \in 1 .. Len(jobs) : jobs'[n].writes = jobs[n].writes
      /\ \A n \in 1 .. Len(jobs) : n # active => jobs'[n].state = jobs[n].state
      /\ \/ log' = log /\ jobs'[active].state # "done"
         \/ log' = Append(log, jobs[active].writes)
      /\ \/ delayed' = delayed
         \/ delayed' = delayed \cup {active} /\ jobs'[active].state = "open"
      /\ UNCHANGED <<asked, waiting, group, alone, flight, answer>>
  BY Attempted
<1>2. /\ \A i \in 1 .. Len(line) : line[i] \in 1 .. Len(jobs) /\ line[i] # 0
      /\ \A n \in delayed : n \in 1 .. Len(jobs) /\ n # 0
  BY DEF Inv, Ranges
<1>3. BrokerInv'
  <2>1. \A i \in 1 .. Len(line) : line[i] \notin delayed' /\ line[i] # 0
                                  /\ jobs'[line[i]].state = "open"
    BY <1>1, <1>2 DEF BrokerInv
  <2>2. \A n \in delayed' : n # 0 /\ jobs'[n].state = "open"
    BY <1>1, <1>2 DEF BrokerInv
  <2> QED BY <1>1, <2>1, <2>2 DEF BrokerInv
<1>4. \A n \in 1 .. Len(jobs) : jobs[n].state # "open" => jobs'[n].state = jobs[n].state
  BY <1>1
<1>5. jobs'[active].state # "done" =>
         \A n \in 1 .. Len(jobs) : jobs'[n].state = "done" => jobs[n].state = "done"
  BY <1>1
<1>6. FoldInv' /\ OwnerInv' /\ StoredInv' /\ LogInv' /\ OrderInv'
  <2>1. UNCHANGED <<asked, waiting, group, alone, flight, answer>>
    BY <1>1
  <2> HIDE DEF Orderly
  <2>2. \/ log' = log /\ \A n \in 1 .. Len(jobs) : jobs'[n].state = "done" => jobs[n].state = "done"
        \/ \E id \in 1 .. Len(jobs) :
              /\ jobs[id].state = "open" /\ log' = Append(log, jobs[id].writes)
              /\ \A n \in 1 .. Len(jobs) : n # id => jobs'[n].state = jobs[n].state
    BY <1>1, <1>5
  <2> QED BY <1>1, <1>4, <2>1, <2>2, WorkerOrder
<1> QED BY <1>3, <1>6

\* The broker hands jobs about, and changes none.
LEMMA BrokerOrder ==
  ASSUME Inv, Orderly, UNCHANGED <<asked, waiting, group, alone, flight, answer, jobs, log>>,
         BrokerInv'
  PROVE  Orderly'
<1>1. FoldInv' /\ OwnerInv' /\ StoredInv' /\ LogInv' /\ OrderInv'
  BY WorkerOrder
<1> QED BY <1>1 DEF Orderly

LEMMA TakeOrder ==
  ASSUME Inv, Orderly, Take
  PROVE  Orderly'
<1>1. /\ line # <<>> /\ active = 0 /\ active' = Head(line) /\ line' = Tail(line)
      /\ UNCHANGED <<asked, waiting, group, alone, flight, answer, jobs, log, delayed>>
  BY DEF Take
<1>2. line \in Seq(Nat) /\ Len(line) \in Nat /\ Len(line) # 0 /\ 1 \in 1 .. Len(line)
  BY <1>1 DEF Inv, Ranges
<1>3. /\ Head(line) = line[1] /\ Len(Tail(line)) = Len(line) - 1
      /\ \A i \in 1 .. Len(line) - 1 : i + 1 \in 1 .. Len(line) /\ Tail(line)[i] = line[i + 1]
                                       /\ i + 1 # 1
  BY <1>1, <1>2
<1>4. BrokerInv'
  <2>1. \A i, j \in 1 .. Len(line) : line[i] = line[j] => i = j
    BY DEF Orderly, BrokerInv
  <2>2. \A i, j \in 1 .. Len(line') : line'[i] = line'[j] => i = j
    <3>1. \A i, j \in 1 .. Len(line') : i \in 1 .. Len(line) - 1 /\ j \in 1 .. Len(line) - 1
      BY <1>1, <1>3
    <3>2. \A i, j \in 1 .. Len(line) - 1 : line[i + 1] = line[j + 1] => i + 1 = j + 1
      BY <1>3, <2>1
    <3>3. \A i, j \in 1 .. Len(line) - 1 : i + 1 = j + 1 => i = j
      OBVIOUS
    <3> QED BY <1>1, <1>3, <3>1, <3>2, <3>3
  <2>3. \A i \in 1 .. Len(line') : /\ line'[i] \notin delayed /\ line'[i] # line[1]
                                   /\ jobs[line'[i]].state = "open"
    BY <1>1, <1>2, <1>3, <2>1 DEF Orderly, BrokerInv
  <2>4. (\A n \in delayed : n # line[1] /\ jobs[n].state = "open") /\ jobs[line[1]].state = "open"
    BY <1>2 DEF Orderly, BrokerInv
  <2> QED BY <1>1, <1>3, <2>2, <2>3, <2>4 DEF BrokerInv
<1> QED BY <1>1, <1>4, BrokerOrder

\* An open job that is in nobody's hands joins the line.
LEMMA Lined ==
  ASSUME line \in Seq(Nat), NEW id \in Nat, NEW D, NEW act, NEW Open,
         \A i, j \in 1 .. Len(line) : line[i] = line[j] => i = j,
         \A i \in 1 .. Len(line) :
            line[i] \notin D /\ line[i] # act /\ line[i] # id /\ line[i] \in Open,
         id \notin D, id # act, id \in Open
  PROVE  LET q == Append(line, id) IN
         /\ \A i, j \in 1 .. Len(q) : q[i] = q[j] => i = j
         /\ \A i \in 1 .. Len(q) : q[i] \notin D /\ q[i] # act /\ q[i] \in Open
<1> DEFINE q == Append(line, id)
<1>1. /\ Len(q) = Len(line) + 1 /\ Len(line) \in Nat /\ q[Len(line) + 1] = id
      /\ \A i \in 1 .. Len(line) : q[i] = line[i]
  OBVIOUS
<1> HIDE DEF q
<1>2. \A i \in 1 .. Len(q) : \/ i \in 1 .. Len(line) /\ q[i] = line[i]
                             \/ i = Len(line) + 1 /\ q[i] = id
  BY <1>1
<1>3. \A i, j \in 1 .. Len(q) : q[i] = q[j] => i = j
  BY <1>2
<1>4. \A i \in 1 .. Len(q) : q[i] \notin D /\ q[i] # act /\ q[i] \in Open
  BY <1>2
<1> QED BY <1>3, <1>4 DEF q

LEMMA PromoteOrder ==
  ASSUME Inv, Orderly, NEW id \in delayed, Promote(id)
  PROVE  Orderly'
<1>1. /\ delayed' = delayed \ {id} /\ line' = Append(line, id) /\ active' = active
      /\ UNCHANGED <<asked, waiting, group, alone, flight, answer, jobs, log>>
  BY DEF Promote
<1>2. line \in Seq(Nat) /\ id \in Nat
  BY DEF Inv, Ranges
<1>3. BrokerInv'
  <2> DEFINE Open == {n \in Nat : jobs[n].state = "open"}
             D == delayed \ {id}
  <2>0. \A i \in 1 .. Len(line) : line[i] \in Nat
    BY <1>2
  <2>4. /\ \A i, j \in 1 .. Len(line) : line[i] = line[j] => i = j
        /\ \A i \in 1 .. Len(line) :
              line[i] \notin delayed /\ line[i] # active /\ jobs[line[i]].state = "open"
        /\ id # active /\ jobs[id].state = "open"
    BY DEF Orderly, BrokerInv
  <2>1. /\ \A i, j \in 1 .. Len(line) : line[i] = line[j] => i = j
        /\ \A i \in 1 .. Len(line) : line[i] \notin D /\ line[i] # active /\ line[i] # id
                                     /\ line[i] \in Open
        /\ id \notin D /\ id # active /\ id \in Open
    BY <1>2, <2>0, <2>4
  <2> HIDE DEF Open, D
  <2>2. /\ \A i, j \in 1 .. Len(line') : line'[i] = line'[j] => i = j
        /\ \A i \in 1 .. Len(line') : line'[i] \notin D /\ line'[i] # active /\ line'[i] \in Open
    BY <1>1, <1>2, <2>1, Lined
  <2>3. /\ \A n \in D : n # active /\ jobs[n].state = "open"
        /\ active # 0 => jobs[active].state = "open"
    BY DEF Orderly, BrokerInv, D, Open
  <2> QED BY <1>1, <2>2, <2>3 DEF BrokerInv, D, Open
<1> QED BY <1>1, <1>3, BrokerOrder

-----------------------------------------------------------------------------
(* The callers' steps.                                                     *)

LEMMA PostOrder ==
  ASSUME Inv, Orderly, NEW p \in Procs, Post(p)
  PROVE  Orderly'
<1> DEFINE job == [by |-> p, writes |-> Payload(p), tries |-> 0, state |-> "open"]
<1>0. PICK L \in Nat : L = Len(jobs)
  BY DEF Inv, Ranges
<1>1. /\ group[p] # <<>> /\ flight[p] = 0 /\ jobs' = Append(jobs, job)
      /\ line' = Append(line, L + 1)
      /\ flight' = [flight EXCEPT ![p] = L + 1]
      /\ UNCHANGED <<asked, waiting, group, alone, delayed, active, log, answer>>
  BY <1>0 DEF Post
<1>2. /\ Payload(p) \in Seq(Writes)
      /\ \A i \in 1 .. Len(Payload(p)) : \E j \in 1 .. Len(group[p]) :
            Payload(p)[i] = group[p][j] /\ alone[p] <= j
      /\ \A i \in 1 .. Len(Payload(p)) : answer[Payload(p)[i]] = "asked"
      /\ alone[p] # 0 => \A i \in 1 .. Len(Payload(p)) : Payload(p)[i] = group[p][alone[p]]
      /\ \A i \in 1 .. Len(Payload(p)) : \E k \in 1 .. Len(Program[p]) :
            Payload(p)[i] = Program[p][k]
  BY <1>1, PayloadIsHeld DEF Inv
<1>3. job.writes = Payload(p) /\ job.state = "open"
  OBVIOUS
<1>4. jobs \in Seq(Job) /\ line \in Seq(Nat) /\ delayed \subseteq 1 .. L /\ active \in 0 .. L
      /\ \A i \in 1 .. Len(line) : line[i] \in 1 .. L
  BY <1>0 DEF Inv, Ranges
<1>5. /\ flight \in [Procs -> Nat] /\ flight'[p] = L + 1
      /\ \A q \in Procs \ {p} : flight'[q] = flight[q]
  BY <1>1 DEF Inv, Ranges
<1> HIDE DEF job
<1>6. L \in Nat /\ Len(jobs') = L + 1 /\ jobs'[L + 1] = job /\ \A n \in 1 .. L : jobs'[n] = jobs[n]
  BY <1>0, <1>1, <1>4
<1>7. \A n \in 1 .. Len(jobs') : n \in 1 .. L \/ n = L + 1
  BY <1>6
<1>8. /\ \A n \in 1 .. L : \A x : Carries(n, x)' <=> Carries(n, x)
      /\ \A x : Carries(L + 1, x)' <=> \E i \in 1 .. Len(Payload(p)) : Payload(p)[i] = x
  BY <1>3, <1>6 DEF Carries
<1>9. BrokerInv'
  <2> DEFINE Open == {n \in Nat : jobs'[n].state = "open"}
  <2>1. \A n \in 1 .. L : jobs[n].state = "open" => n \in Open /\ n # L + 1
    BY <1>6
  <2>2. /\ \A i, j \in 1 .. Len(line) : line[i] = line[j] => i = j
        /\ \A i \in 1 .. Len(line) : /\ line[i] \notin delayed /\ line[i] # active
                                     /\ line[i] # L + 1 /\ line[i] \in Open
        /\ L + 1 \notin delayed /\ L + 1 # active /\ L + 1 \in Open
    BY <1>3, <1>4, <1>6, <2>1 DEF Orderly, BrokerInv
  <2>3. (\A n \in delayed : n # active /\ n \in Open) /\ (active # 0 => active \in Open)
    BY <1>4, <1>6, <2>1 DEF Orderly, BrokerInv
  <2> HIDE DEF Open
  <2>4. /\ \A i, j \in 1 .. Len(line') : line'[i] = line'[j] => i = j
        /\ \A i \in 1 .. Len(line') : line'[i] \notin delayed /\ line'[i] # active
                                      /\ line'[i] \in Open
    BY <1>1, <1>4, <1>6, <2>2, Lined
  <2> QED BY <1>1, <2>3, <2>4 DEF BrokerInv, Open
<1>10. FoldInv'
  BY <1>1 DEF Orderly, FoldInv
<1>11. OwnerInv'
  <2>1. ASSUME NEW q \in Procs
        PROVE  Owned(q)'
    <3>1. Owned(q)
      BY DEF Orderly, OwnerInv
    <3>2. /\ \A i \in 1 .. Len(group[q]) : \E k \in 1 .. Len(Program[q]) : group[q][i] = Program[q][k]
          /\ \A i \in 1 .. Len(waiting[q]) : \E k \in 1 .. Len(Program[q]) : waiting[q][i] = Program[q][k]
          /\ \A i, j \in 1 .. Len(group[q]) : group[q][i] = group[q][j] => i = j
          /\ \A i \in 1 .. Len(group[q]), j \in 1 .. Len(waiting[q]) : group[q][i] # waiting[q][j]
      <4>1. asked[q] <= Len(Program[q]) /\ asked[q] \in Nat /\ Len(Program[q]) \in Nat
        BY ProgramsApart DEF Inv, Ranges, HeldInv, Held
      <4>2. /\ \A i \in 1 .. Len(group[q]) : \E k \in 1 .. asked[q] : group[q][i] = Program[q][k]
            /\ \A i \in 1 .. Len(waiting[q]) : \E k \in 1 .. asked[q] : waiting[q][i] = Program[q][k]
        BY DEF Inv, HeldInv, Held
      <4>3. \A k \in 1 .. asked[q] : k \in 1 .. Len(Program[q])
        BY <4>1
      <4>4. /\ \A i, j \in 1 .. Len(group[q]) : group[q][i] = group[q][j] => i = j
            /\ \A i \in 1 .. Len(group[q]), j \in 1 .. Len(waiting[q]) : group[q][i] # waiting[q][j]
        BY DEF Inv, HeldInv, Held
      <4>5. \A i \in 1 .. Len(group[q]) : \E k \in 1 .. Len(Program[q]) : group[q][i] = Program[q][k]
        BY <4>2, <4>3
      <4>6. \A i \in 1 .. Len(waiting[q]) : \E k \in 1 .. Len(Program[q]) : waiting[q][i] = Program[q][k]
        BY <4>2, <4>3
      <4> QED BY <4>4, <4>5, <4>6
    <3>3. ASSUME NEW i \in 1 .. Len(group[q]), alone[q] <= i, NEW n \in 1 .. Len(jobs'),
                 Carries(n, group[q][i])'
          PROVE  \/ n = flight'[q] /\ alone[q] \in {0, i}
                 \/ alone[q] # 0 /\ jobs'[n].state \in {"statement", "transport"}
      <4>1. CASE n \in 1 .. L
        <5>1. Carries(n, group[q][i])
          BY <1>1, <1>8, <3>3, <4>1
        <5>2. \/ n = flight[q] /\ alone[q] \in {0, i}
              \/ alone[q] # 0 /\ jobs[n].state \in {"statement", "transport"}
          BY <1>0, <3>1, <3>3, <4>1, <5>1 DEF Owned
        <5>3. q = p => n # flight[q]
          BY <1>1, <4>1
        <5> QED BY <1>5, <1>6, <4>1, <5>2, <5>3
      <4>2. CASE n = L + 1
        <5>1. PICK k \in 1 .. Len(Payload(p)) : Payload(p)[k] = group[q][i]
          BY <1>1, <1>8, <3>3, <4>2
        <5>2. q = p
          <6>1. PICK a \in 1 .. Len(Program[p]) : Payload(p)[k] = Program[p][a]
            BY <1>2
          <6>2. PICK b \in 1 .. Len(Program[q]) : group[q][i] = Program[q][b]
            BY <3>2
          <6> QED BY <5>1, <6>1, <6>2, ProgramsApart
        <5>3. CASE alone[p] = 0
          BY <1>5, <4>2, <5>2, <5>3
        <5>4. CASE alone[p] # 0
          <6>1. group[p][alone[p]] = group[p][i] /\ alone[p] \in 1 .. Len(group[p])
            BY <1>2, <5>1, <5>2, <5>4 DEF Inv, Ranges
          <6>2. alone[p] = i
            BY <3>2, <5>2, <6>1
          <6> QED BY <1>5, <4>2, <5>2, <6>2
        <5> QED BY <5>3, <5>4
      <4> QED BY <1>7, <4>1, <4>2
    <3>4. ASSUME NEW i \in 1 .. Len(waiting[q]), NEW n \in 1 .. Len(jobs')
          PROVE  ~Carries(n, waiting[q][i])'
      <4>1. CASE n \in 1 .. L
        BY <1>0, <1>1, <1>8, <3>1, <4>1 DEF Owned
      <4>2. CASE n = L + 1
        <5>1. ASSUME NEW k \in 1 .. Len(Payload(p)), Payload(p)[k] = waiting[q][i]
              PROVE  FALSE
          <6>1. q = p
            BY <1>2, <3>2, <5>1, ProgramsApart
          <6> QED BY <1>2, <3>2, <5>1, <6>1
        <5> QED BY <1>1, <1>8, <4>2, <5>1
      <4> QED BY <1>7, <4>1, <4>2
    <3> QED BY <1>1, <3>3, <3>4 DEF Owned
  <2> QED BY <2>1 DEF OwnerInv
<1>12. StoredInv'
  <2>1. ASSUME NEW x \in Writes, answer[x] = "stored"
        PROVE  /\ \E n \in 1 .. Len(jobs') : jobs'[n].state = "done" /\ Carries(n, x)'
               /\ \A n \in 1 .. Len(jobs') : Carries(n, x)' => jobs'[n].state # "open"
    <3>1. PICK n \in 1 .. L : jobs[n].state = "done" /\ Carries(n, x)
      BY <1>0, <2>1 DEF Orderly, StoredInv
    <3>2. n \in 1 .. Len(jobs') /\ jobs'[n].state = "done" /\ Carries(n, x)'
      BY <1>6, <1>8, <3>1
    <3>3. \A m \in 1 .. L : Carries(m, x) => jobs[m].state # "open"
      BY <1>0, <2>1 DEF Orderly, StoredInv
    <3>4. ~Carries(L + 1, x)'
      <4>1. "asked" # "stored"
        OBVIOUS
      <4> QED BY <1>2, <1>8, <2>1, <4>1
    <3> QED BY <1>6, <1>7, <1>8, <3>2, <3>3, <3>4
  <2> QED BY <1>1, <2>1 DEF StoredInv
<1>13. LogInv'
  <2>1. ASSUME NEW k \in 1 .. Len(log)
        PROVE  \E n \in 1 .. Len(jobs') : log[k] = jobs'[n].writes
    <3>1. PICK n \in 1 .. L : log[k] = jobs[n].writes
      BY <1>0 DEF Orderly, LogInv
    <3>2. n \in 1 .. Len(jobs') /\ jobs'[n].writes = log[k]
      BY <1>6, <3>1
    <3> QED BY <3>2
  <2> QED BY <1>1, <2>1 DEF LogInv
<1>14. OrderInv'
  <2>1. ASSUME NEW q \in Procs, NEW i \in 1 .. Len(Program[q]), NEW j \in 1 .. Len(Program[q]),
               i < j, answer[Program[q][i]] = "stored",
               NEW n \in 1 .. Len(jobs'), jobs'[n].state = "done", Carries(n, Program[q][j])'
        PROVE  NotAfter(log, Program[q][i], Program[q][j])
    <3>1. n \in 1 .. L
      <4>1. "open" # "done"
        OBVIOUS
      <4> QED BY <1>3, <1>6, <1>7, <2>1, <4>1
    <3>2. jobs[n].state = "done" /\ Carries(n, Program[q][j])
      BY <1>6, <1>8, <2>1, <3>1
    <3> QED BY <1>0, <2>1, <3>1, <3>2 DEF Orderly, OrderInv
  <2> QED BY <1>1, <2>1 DEF OrderInv
<1> QED BY <1>9, <1>10, <1>11, <1>12, <1>13, <1>14 DEF Orderly

\* A process's own step leaves the jobs and the other processes as they are.
LEMMA CallerOrder ==
  ASSUME Orderly, NEW p \in Procs, UNCHANGED <<jobs, log>>, BrokerInv',
         \A q \in Procs \ {p} : /\ asked'[q] = asked[q] /\ group'[q] = group[q]
                                /\ waiting'[q] = waiting[q] /\ alone'[q] = alone[q]
                                /\ flight'[q] = flight[q],
         InOrder(Program[p], asked'[p], group'[p], waiting'[p]), Owned(p)',
         StoredInv' /\ OrderInv'
  PROVE  Orderly'
<1>1. FoldInv'
  BY DEF Orderly, FoldInv
<1>2. ASSUME NEW q \in Procs \ {p}
      PROVE  Owned(q)'
  <2>1. Owned(q)
    BY DEF Orderly, OwnerInv
  <2>2. \A n, x : Carries(n, x)' <=> Carries(n, x)
    BY DEF Carries
  <2>3. /\ group'[q] = group[q] /\ waiting'[q] = waiting[q] /\ alone'[q] = alone[q]
        /\ flight'[q] = flight[q]
    OBVIOUS
  <2> QED BY <2>1, <2>2, <2>3 DEF Owned
<1>3. OwnerInv'
  BY <1>2 DEF OwnerInv
<1>4. LogInv'
  BY DEF Orderly, LogInv
<1> QED BY <1>1, <1>3, <1>4 DEF Orderly

\* Nobody is told that its write is stored.
LEMMA NothingStored ==
  ASSUME StoredInv, OrderInv, UNCHANGED <<jobs, log>>,
         \A x \in Writes : answer'[x] = "stored" => answer[x] = "stored"
  PROVE  StoredInv' /\ OrderInv'
<1>1. \A n, x : Carries(n, x)' <=> Carries(n, x)
  BY DEF Carries
<1>2. StoredInv'
  BY <1>1 DEF StoredInv
<1>3. \A p \in Procs : \A i \in 1 .. Len(Program[p]) : Program[p][i] \in Writes
  BY ProgramsApart
<1>4. OrderInv'
  BY <1>1, <1>3 DEF OrderInv
<1> QED BY <1>2, <1>4

LEMMA BrokerAsItWas ==
  ASSUME BrokerInv, UNCHANGED <<jobs, line, delayed, active>>
  PROVE  BrokerInv'
BY DEF BrokerInv

LEMMA EnqueueOrder ==
  ASSUME Inv, Orderly, NEW p \in Procs, Enqueue(p)
  PROVE  Orderly'
<1> DEFINE P == Program[p]
           n == asked[p]
           w == Program[p][asked[p] + 1]
<1>1. /\ n < Len(P) /\ asked' = [asked EXCEPT ![p] = @ + 1]
      /\ answer' = [answer EXCEPT ![w] = "asked"] /\ alone' = alone /\ flight' = flight
      /\ UNCHANGED <<jobs, line, delayed, active, log>>
      /\ IF group[p] = <<>> THEN TakeGroup(p, <<w>>)
         ELSE waiting' = [waiting EXCEPT ![p] = Append(@, w)] /\ group' = group
  BY DEF Enqueue, broker
<1>2. /\ P \in Seq(Writes) /\ n \in Nat /\ w \in Writes /\ asked \in [Procs -> Nat]
      /\ group \in [Procs -> Seq(Writes)] /\ waiting \in [Procs -> Seq(Writes)]
      /\ answer \in [Writes -> Answers]
  <2>1. P \in Seq(Writes) /\ n \in Nat
    BY ProgramsApart DEF Inv, Ranges
  <2>2. n + 1 \in 1 .. Len(P)
    BY <1>1, <2>1
  <2>3. w \in Writes
    BY <2>1, <2>2
  <2>4. answer \in [Writes -> Answers] /\ asked \in [Procs -> Nat]
        /\ group \in [Procs -> Seq(Writes)] /\ waiting \in [Procs -> Seq(Writes)]
    BY DEF Inv, Ranges, Answers
  <2> QED BY <2>1, <2>3, <2>4
<1>3. asked'[p] = n + 1 /\ \A q \in Procs \ {p} : asked'[q] = asked[q]
  BY <1>1, <1>2
<1>4. \A m \in 1 .. Len(jobs) : ~Carries(m, w)
  <2>1. n + 1 \in n + 1 .. Len(P)
    BY <1>1, <1>2
  <2>2. answer[w] = "new"
    BY <2>1 DEF Inv, HeldInv, Held
  <2> QED BY <2>2 DEF Carries, Inv, JobInv
<1>5. InOrder(P, n, group[p], waiting[p]) /\ Owned(p)
  BY DEF Orderly, FoldInv, OwnerInv
<1>6. P[n + 1] = w
  OBVIOUS
<1>7. StoredInv' /\ OrderInv'
  <2>1. \A x \in Writes : answer'[x] = "stored" => answer[x] = "stored"
    BY <1>1, <1>2
  <2> QED BY <1>1, <2>1, NothingStored DEF Orderly
<1>8. BrokerInv'
  BY <1>1, BrokerAsItWas DEF Orderly
<1> HIDE DEF P, n, w
<1>9. CASE group[p] # <<>>
  <2> DEFINE ww == Append(waiting[p], w)
  <2>1. ww \in Seq(Writes) /\ Len(ww) = Len(waiting[p]) + 1 /\ ww[Len(waiting[p]) + 1] = w
        /\ Len(waiting[p]) \in Nat /\ Len(group[p]) \in Nat
        /\ \A i \in 1 .. Len(waiting[p]) : ww[i] = waiting[p][i]
    BY <1>2
  <2>2. waiting' = [waiting EXCEPT ![p] = ww] /\ group' = group
    BY <1>1, <1>9
  <2> HIDE DEF ww
  <2>3. waiting'[p] = ww /\ \A q \in Procs \ {p} : waiting'[q] = waiting[q]
    BY <1>2, <2>2
  <2>4. \A i \in 1 .. Len(ww) : i \in 1 .. Len(waiting[p]) \/ i = Len(waiting[p]) + 1
    BY <2>1
  <2>5. InOrder(P, n + 1, group[p], ww)
    <3>1. Len(group[p]) + Len(ww) <= n + 1
      BY <1>2, <1>5, <2>1 DEF InOrder
    <3>2. (n + 1) - Len(ww) = n - Len(waiting[p])
      BY <1>2, <2>1
    <3>3. \A i \in 1 .. Len(group[p]) : group[p][i] = P[(n + 1) - Len(ww) - Len(group[p]) + i]
      BY <1>5, <3>2 DEF InOrder
    <3>4. \A i \in 1 .. Len(ww) : ww[i] = P[(n + 1) - Len(ww) + i]
      <4>1. \A i \in 1 .. Len(waiting[p]) : ww[i] = P[n - Len(waiting[p]) + i]
        BY <1>5, <2>1 DEF InOrder
      <4>2. n - Len(waiting[p]) + (Len(waiting[p]) + 1) = n + 1
        BY <1>2, <2>1
      <4> QED BY <1>6, <2>1, <2>4, <3>2, <4>1, <4>2
    <3> QED BY <3>1, <3>3, <3>4 DEF InOrder
  <2>6. Owned(p)'
    <3>1. \A i \in 1 .. Len(ww), m \in 1 .. Len(jobs) : ~Carries(m, ww[i])
      BY <1>4, <1>5, <2>1, <2>4 DEF Owned
    <3> QED BY <1>1, <1>5, <2>2, <2>3, <3>1 DEF Owned, Carries
  <2> QED BY <1>1, <1>3, <1>7, <1>8, <2>2, <2>3, <2>5, <2>6, CallerOrder DEF P
<1>10. CASE group[p] = <<>>
  <2>1. <<w>> \in Seq(Writes) /\ <<w>> # <<>> /\ Len(<<w>>) = 1 /\ <<w>>[1] = w
    BY <1>2
  <2>2. TakeGroup(p, <<w>>)
    BY <1>1, <1>10
  <2>3. /\ group' \in [Procs -> Seq(Writes)] /\ waiting' \in [Procs -> Seq(Writes)]
        /\ \A q \in Procs \ {p} : group'[q] = group[q] /\ waiting'[q] = waiting[q]
        /\ group'[p] # <<>> /\ Len(group'[p]) \in Nat /\ Len(group'[p]) + Len(waiting'[p]) = 1
        /\ \A i \in 1 .. Len(group'[p]) : group'[p][i] = <<w>>[i]
    BY <1>2, <2>1, <2>2, TakenApart
  <2>4. Len(group'[p]) = 1 /\ Len(waiting'[p]) = 0
    BY <2>3
  <2>5. \A i \in 1 .. Len(group'[p]) : i = 1 /\ group'[p][i] = w
    BY <2>1, <2>3, <2>4
  <2>6. InOrder(P, n + 1, group'[p], waiting'[p])
    <3>1. (n + 1) - 0 - 1 + 1 = n + 1 /\ 1 + 0 <= n + 1
      BY <1>2
    <3> QED BY <1>6, <2>4, <2>5, <3>1 DEF InOrder
  <2>7. Owned(p)'
    <3>1. \A i \in 1 .. Len(group'[p]), m \in 1 .. Len(jobs) : ~Carries(m, group'[p][i])
      BY <1>4, <2>5
    <3>2. \A i \in 1 .. Len(waiting'[p]) : FALSE
      BY <2>4
    <3> QED BY <1>1, <3>1, <3>2 DEF Owned, Carries
  <2> QED BY <1>1, <1>3, <1>7, <1>8, <2>3, <2>6, <2>7, CallerOrder DEF P
<1> QED BY <1>9, <1>10

\* The next run: the next caller alone, or the next group.
LEMMA NextRunOrder ==
  ASSUME Inv, Orderly, NEW p \in Procs, NextRun(p), asked' = asked, UNCHANGED broker,
         StoredInv' /\ OrderInv'
  PROVE  Orderly'
<1>1. /\ UNCHANGED <<jobs, line, delayed, active, log>>
      /\ flight' = [flight EXCEPT ![p] = 0]
      /\ IF alone[p] \in 1 .. Len(group[p]) - 1
         THEN alone' = [alone EXCEPT ![p] = alone[p] + 1] /\ group' = group /\ waiting' = waiting
         ELSE alone' = [alone EXCEPT ![p] = 0] /\ TakeGroup(p, waiting[p])
  BY DEF NextRun, broker
<1>2. /\ group \in [Procs -> Seq(Writes)] /\ waiting \in [Procs -> Seq(Writes)]
      /\ alone \in [Procs -> Nat] /\ flight \in [Procs -> Nat] /\ asked[p] \in Nat
  BY DEF Inv, Ranges
<1>3. InOrder(Program[p], asked[p], group[p], waiting[p]) /\ Owned(p)
  BY DEF Orderly, FoldInv, OwnerInv
<1>4. BrokerInv'
  BY <1>1, BrokerAsItWas DEF Orderly
<1>5. \A q \in Procs \ {p} : flight'[q] = flight[q] /\ alone'[q] = alone[q]
  BY <1>1, <1>2
<1>6. CASE alone[p] \in 1 .. Len(group[p]) - 1
  <2>1. alone' = [alone EXCEPT ![p] = alone[p] + 1] /\ group' = group /\ waiting' = waiting
    BY <1>1, <1>6
  <2>2. alone'[p] = alone[p] + 1 /\ alone[p] \in Nat /\ alone[p] # 0 /\ Len(group[p]) \in Nat
    BY <1>2, <1>6, <2>1
  <2>3. ASSUME NEW i \in 1 .. Len(group[p]), alone[p] + 1 <= i, NEW n \in 1 .. Len(jobs),
               Carries(n, group[p][i])
        PROVE  alone[p] + 1 # 0 /\ jobs[n].state \in {"statement", "transport"}
    <3>1. alone[p] <= i /\ alone[p] \notin {0, i} /\ alone[p] + 1 # 0
      BY <2>2, <2>3
    <3> QED BY <1>3, <2>3, <3>1 DEF Owned
  <2>4. Owned(p)'
    BY <1>1, <1>3, <2>1, <2>2, <2>3 DEF Owned, Carries
  <2> QED BY <1>1, <1>3, <1>4, <1>5, <2>1, <2>4, CallerOrder
<1>7. CASE alone[p] \notin 1 .. Len(group[p]) - 1
  <2>1. alone' = [alone EXCEPT ![p] = 0] /\ TakeGroup(p, waiting[p])
    BY <1>1, <1>7
  <2> DEFINE g == group'[p]
             w == waiting'[p]
             q == waiting[p]
  <2>2. /\ g \in Seq(Writes) /\ w \in Seq(Writes)
        /\ \A r \in Procs \ {p} : group'[r] = group[r] /\ waiting'[r] = waiting[r]
        /\ Len(g) \in Nat /\ Len(g) + Len(w) = Len(q)
        /\ \A i \in 1 .. Len(g) : i \in 1 .. Len(q) /\ g[i] = q[i]
        /\ \A i \in 1 .. Len(w) : Len(g) + i \in 1 .. Len(q) /\ w[i] = q[Len(g) + i]
    <3>1. waiting[p] \in Seq(Writes)
      BY <1>2
    <3>2. /\ group' \in [Procs -> Seq(Writes)] /\ waiting' \in [Procs -> Seq(Writes)]
          /\ \A r \in Procs \ {p} : group'[r] = group[r] /\ waiting'[r] = waiting[r]
          /\ Len(group'[p]) \in Nat /\ Len(group'[p]) + Len(waiting'[p]) = Len(waiting[p])
          /\ \A i \in 1 .. Len(group'[p]) :
                i \in 1 .. Len(waiting[p]) /\ group'[p][i] = waiting[p][i]
          /\ \A i \in 1 .. Len(waiting'[p]) :
                /\ Len(group'[p]) + i \in 1 .. Len(waiting[p])
                /\ waiting'[p][i] = waiting[p][Len(group'[p]) + i]
      BY <1>2, <2>1, <3>1, TakenApart
    <3> QED BY <3>2
  <2>3. alone'[p] = 0
    BY <1>2, <2>1
  <2>4. InOrder(Program[p], asked[p], g, w)
    <3> DEFINE n == asked[p]
    <3>1. n \in Nat /\ Len(w) \in Nat /\ Len(g) \in Nat /\ Len(q) \in Nat /\ Len(group[p]) \in Nat
      BY <1>2, <2>2
    <3>2. /\ Len(group[p]) + Len(q) <= n
          /\ \A i \in 1 .. Len(q) : q[i] = Program[p][n - Len(q) + i]
      BY <1>3 DEF InOrder
    <3>7. Len(g) + Len(w) = Len(q)
      BY <2>2
    <3> HIDE DEF g, w, q, n
    <3>3. Len(g) + Len(w) <= n
      BY <3>1, <3>2, <3>7
    <3>4. n - Len(w) - Len(g) = n - Len(q)
      BY <3>1, <3>7
    <3>5. \A i \in 1 .. Len(g) : g[i] = Program[p][n - Len(w) - Len(g) + i]
      BY <2>2, <3>2, <3>4
    <3>6. \A i \in 1 .. Len(w) : w[i] = Program[p][n - Len(w) + i]
      <4>1. \A i \in 1 .. Len(w) : n - Len(q) + (Len(g) + i) = n - Len(w) + i
        BY <3>1, <3>7
      <4> QED BY <2>2, <3>2, <4>1
    <3> QED BY <3>3, <3>5, <3>6 DEF InOrder, n
  <2>5. Owned(p)'
    <3>1. \A i \in 1 .. Len(q), n \in 1 .. Len(jobs) : ~Carries(n, q[i])
      BY <1>3 DEF Owned
    <3>2. /\ \A i \in 1 .. Len(g), n \in 1 .. Len(jobs) : ~Carries(n, g[i])
          /\ \A i \in 1 .. Len(w), n \in 1 .. Len(jobs) : ~Carries(n, w[i])
      BY <2>2, <3>1
    <3> QED BY <1>1, <3>2 DEF Owned, Carries
  <2> QED BY <1>1, <1>4, <1>5, <2>2, <2>4, <2>5, CallerOrder
<1> QED BY <1>6, <1>7

\* A nonempty set of places has a last one.
LEMMA LastPlace ==
  ASSUME NEW L \in Nat, NEW S \in SUBSET (1 .. L), S # {}
  PROVE  \E m \in S : \A k \in S : k <= m
<1> DEFINE D == {L - k : k \in S}
<1>1. D \in SUBSET Nat /\ D # {}
  <2>1. \A k \in S : k \in 1 .. L /\ L - k \in Nat
    OBVIOUS
  <2>2. PICK k \in S : TRUE
    OBVIOUS
  <2>3. L - k \in D
    BY <2>2
  <2> QED BY <2>1, <2>3
<1>2. PICK d \in D : \A e \in D : ~ (<<e, d>> \in OpToRel(<, Nat))
  BY <1>1, NatLessThanWellFounded, WFMin, Zenon
<1>3. \A e \in D : ~ (e < d)
  BY <1>1, <1>2, Zenon DEF OpToRel
<1>4. PICK m \in S : d = L - m
  BY <1>2
<1>5. \A k \in S : ~ (L - k < L - m)
  BY <1>3, <1>4
<1>6. \A k \in S : k <= m
  BY <1>5
<1> QED BY <1>6

\* Those in flight are told that they are stored.
LEMMA StoredStep ==
  ASSUME Inv, Orderly, NEW p \in Procs, flight[p] # 0, jobs[flight[p]].state = "done",
         Answered(Payload(p), "stored"), UNCHANGED <<jobs, log>>
  PROVE  StoredInv' /\ OrderInv'
<1> DEFINE ws == Payload(p)
           F == flight[p]
<1>1. group[p] # <<>> /\ jobs[F].writes = ws /\ F \in 1 .. Len(jobs) /\ jobs[F].state = "done"
  BY DEF Inv, FlightInv, Ranges
<1>2. /\ ws \in Seq(Writes)
      /\ \A i \in 1 .. Len(ws) : \E j \in 1 .. Len(group[p]) : ws[i] = group[p][j] /\ alone[p] <= j
      /\ alone[p] # 0 => \A i \in 1 .. Len(ws) : ws[i] = group[p][alone[p]]
      /\ \A i \in 1 .. Len(ws) : \E k \in 1 .. Len(Program[p]) : ws[i] = Program[p][k]
  BY <1>1, PayloadIsHeld DEF Inv
<1>3. \A x \in Writes :
        answer'[x] = IF \E i \in 1 .. Len(ws) : x = ws[i] THEN "stored" ELSE answer[x]
  BY <1>2, AnsweredIs
<1>4. \A n, x : Carries(n, x)' <=> Carries(n, x)
  BY DEF Carries
<1>5. alone[p] \in 0 .. Len(group[p]) /\ (alone[p] = 0 => ws = group[p])
  BY DEF Inv, Ranges, Payload
<1>6. \A n \in 1 .. Len(jobs), i \in 1 .. Len(group[p]) :
         alone[p] <= i /\ Carries(n, group[p][i]) =>
         \/ n = F /\ alone[p] \in {0, i}
         \/ alone[p] # 0 /\ jobs[n].state \in {"statement", "transport"}
  BY DEF Orderly, OwnerInv, Owned
<1> HIDE DEF ws, F
<1>7. StoredInv'
  <2>1. ASSUME NEW x \in Writes, answer'[x] = "stored"
        PROVE  /\ \E n \in 1 .. Len(jobs) : jobs[n].state = "done" /\ Carries(n, x)
               /\ \A n \in 1 .. Len(jobs) : Carries(n, x) => jobs[n].state # "open"
    <3>1. CASE \E i \in 1 .. Len(ws) : x = ws[i]
      <4>1. Carries(F, x)
        BY <1>1, <3>1 DEF Carries
      <4>2. PICK j \in 1 .. Len(group[p]) : x = group[p][j] /\ alone[p] <= j
        BY <1>2, <3>1
      <4>3. \A n \in 1 .. Len(jobs) : Carries(n, x) =>
               n = F \/ jobs[n].state \in {"statement", "transport"}
        BY <1>6, <4>2
      <4>4. "done" # "open" /\ "statement" # "open" /\ "transport" # "open"
        OBVIOUS
      <4> QED BY <1>1, <4>1, <4>3, <4>4
    <3>2. CASE ~ \E i \in 1 .. Len(ws) : x = ws[i]
      <4>1. answer[x] = "stored"
        BY <1>3, <2>1, <3>2
      <4> QED BY <4>1 DEF Orderly, StoredInv
    <3> QED BY <3>1, <3>2
  <2> QED BY <1>4, <2>1 DEF StoredInv
<1>8. OrderInv'
  <2>1. ASSUME NEW q \in Procs, NEW i \in 1 .. Len(Program[q]), NEW j \in 1 .. Len(Program[q]),
               i < j, answer'[Program[q][i]] = "stored",
               NEW n \in 1 .. Len(jobs), jobs[n].state = "done", Carries(n, Program[q][j])
        PROVE  NotAfter(log, Program[q][i], Program[q][j])
    <3> DEFINE v == Program[q][i]
               w == Program[q][j]
    <3>1. v \in Writes /\ w \in Writes
      BY ProgramsApart
    <3>2. CASE answer[v] = "stored"
      BY <2>1, <3>2 DEF Orderly, OrderInv
    <3>3. CASE answer[v] # "stored"
      <4>1. PICK a \in 1 .. Len(ws) : v = ws[a]
        BY <1>3, <2>1, <3>1, <3>3
      <4>2. q = p
        BY <1>2, <4>1, ProgramsApart
      <4>3. PICK b \in 1 .. Len(group[p]) : /\ v = group[p][b] /\ alone[p] <= b
                                            /\ alone[p] # 0 => b = alone[p]
        <5>1. CASE alone[p] = 0
          BY <1>2, <4>1, <5>1
        <5>2. CASE alone[p] # 0
          <6>1. alone[p] \in 1 .. Len(group[p]) /\ v = group[p][alone[p]]
            BY <1>2, <1>5, <4>1, <5>2
          <6>2. alone[p] <= alone[p]
            BY <6>1
          <6> QED BY <6>1, <6>2
        <5> QED BY <5>1, <5>2
      <4>4. answer[w] # "new"
        <5>1. \A k \in 1 .. Len(jobs[n].writes) : answer[jobs[n].writes[k]] # "new"
          BY DEF Inv, JobInv
        <5> QED BY <2>1, <5>1 DEF Carries
      <4>5. \A k \in 1 .. Len(waiting[p]) : w # waiting[p][k]
        BY <2>1 DEF Orderly, OwnerInv, Owned
      <4>6. PICK c \in b + 1 .. Len(group[p]) : w = group[p][c]
        <5>1. \/ \E k \in b + 1 .. Len(group[p]) : w = group[p][k]
              \/ \E k \in 1 .. Len(waiting[p]) : w = waiting[p][k]
              \/ answer[w] = "new"
          BY <2>1, <4>2, <4>3, LaterIsBehind DEF Orderly
        <5> QED BY <4>4, <4>5, <5>1
      <4>7. c \in 1 .. Len(group[p]) /\ alone[p] <= c /\ (alone[p] # 0 => alone[p] # c)
        BY <1>5, <4>3
      <4>8. n = F /\ alone[p] = 0
        <5>1. "done" \notin {"statement", "transport"}
          OBVIOUS
        <5> QED BY <1>6, <2>1, <4>6, <4>7, <5>1
      <4>9. ws = group[p]
        BY <1>5, <4>8
      <4>10. log \in Seq(Seq(Writes)) /\ Len(log) \in Nat /\ DOMAIN log = 1 .. Len(log)
             /\ DOMAIN ws = 1 .. Len(ws)
        <5>1. log \in Seq(Seq(Writes))
          BY DEF Inv, Ranges
        <5> QED BY <1>2, <5>1
      <4> DEFINE S == {k \in 1 .. Len(log) : CarriedBy(log, k, v)}
      <4>11. \A k \in S : CarriedBy(log, k, w)
        <5>1. ASSUME NEW k \in S
              PROVE  CarriedBy(log, k, w)
          <6>1. PICK m \in 1 .. Len(jobs) : log[k] = jobs[m].writes
            BY DEF Orderly, LogInv
          <6>2. Carries(m, v)
            <7>1. jobs[m].writes \in Seq(Writes)
              BY JobsAre DEF Inv
            <7>2. DOMAIN log[k] = 1 .. Len(jobs[m].writes)
              BY <6>1, <7>1
            <7>3. \E l \in DOMAIN log[k] : log[k][l] = v
              BY <5>1 DEF CarriedBy
            <7> QED BY <6>1, <7>2, <7>3 DEF Carries
          <6>3. m = F
            BY <1>6, <4>3, <4>8, <6>2
          <6>4. log[k] = group[p] /\ DOMAIN log[k] = 1 .. Len(group[p])
            BY <1>1, <4>9, <4>10, <6>1, <6>3
          <6> QED BY <4>6, <4>7, <6>4 DEF CarriedBy
        <5> QED BY <5>1
      <4>12. S # {}
        <5>1. InLog(log, v)
          BY <1>1, <4>1 DEF Inv, JobInv
        <5> QED BY <4>10, <5>1 DEF InLog, CarriedBy
      <4>13. S \in SUBSET (1 .. Len(log))
        OBVIOUS
      <4> HIDE DEF S
      <4>14. PICK m \in S : \A k \in S : k <= m
        BY <4>10, <4>12, <4>13, LastPlace
      <4>15. m \in DOMAIN log /\ CarriedBy(log, m, w)
        BY <4>10, <4>11, <4>13, <4>14
      <4>16. \A k \in DOMAIN log : CarriedBy(log, k, v) => k <= m
        BY <4>10, <4>14 DEF S
      <4> QED BY <4>15, <4>16 DEF NotAfter
    <3> QED BY <3>2, <3>3
  <2> QED BY <1>4, <2>1 DEF OrderInv
<1> QED BY <1>7, <1>8

LEMMA SettleOrder ==
  ASSUME Inv, Orderly, NEW p \in Procs, Settle(p)
  PROVE  Orderly'
<1> DEFINE job == jobs[flight[p]]
           verdict == IF job.state = "done" THEN "stored" ELSE job.state
<1>1. flight[p] # 0 /\ job.state # "open" /\ asked' = asked /\ UNCHANGED broker
  BY DEF Settle
<1>2. UNCHANGED <<jobs, line, delayed, active, log>>
  BY <1>1 DEF broker
<1>3. flight[p] \in 1 .. Len(jobs) /\ job.state \in {"open", "done", "statement", "transport"}
  <2>1. flight[p] \in 1 .. Len(jobs)
    BY <1>1 DEF Inv, Ranges
  <2> QED BY <2>1, JobsAre DEF Inv
<1>4. CASE Splits(p, verdict)
  <2>1. /\ alone' = [alone EXCEPT ![p] = 1] /\ flight' = [flight EXCEPT ![p] = 0]
        /\ UNCHANGED <<answer, group, waiting>>
    BY <1>4 DEF Settle
  <2>2. job.state = "statement" /\ alone[p] = 0
    <3>1. verdict = "statement" /\ alone[p] = 0
      BY <1>4 DEF Splits
    <3> QED BY <3>1
  <2>3. alone \in [Procs -> Nat] /\ flight \in [Procs -> Nat]
    BY DEF Inv, Ranges
  <2>4. /\ alone'[p] = 1 /\ flight'[p] = 0
        /\ \A q \in Procs \ {p} : alone'[q] = alone[q] /\ flight'[q] = flight[q]
    BY <2>1, <2>3
  <2>5. Owned(p) /\ InOrder(Program[p], asked[p], group[p], waiting[p])
    BY DEF Orderly, OwnerInv, FoldInv
  <2>6. Owned(p)'
    <3>1. \A i \in 1 .. Len(group[p]), n \in 1 .. Len(jobs) : Carries(n, group[p][i]) => n = flight[p]
      <4>1. \A i \in 1 .. Len(group[p]) : 0 <= i
        OBVIOUS
      <4> QED BY <2>2, <2>5, <4>1 DEF Owned
    <3>2. \A i \in 1 .. Len(group[p]), n \in 1 .. Len(jobs) : Carries(n, group[p][i]) =>
             jobs[n].state \in {"statement", "transport"}
      BY <2>2, <3>1
    <3>3. 1 # 0
      OBVIOUS
    <3> QED BY <1>2, <2>1, <2>4, <2>5, <3>2, <3>3 DEF Owned, Carries
  <2>7. StoredInv' /\ OrderInv'
    BY <1>2, <2>1, NothingStored DEF Orderly
  <2>8. BrokerInv'
    BY <1>2, BrokerAsItWas DEF Orderly
  <2> QED BY <1>1, <1>2, <2>1, <2>4, <2>5, <2>6, <2>7, <2>8, CallerOrder
<1>5. CASE ~Splits(p, verdict)
  <2>1. Answered(Payload(p), verdict) /\ NextRun(p)
    BY <1>5 DEF Settle
  <2>2. StoredInv' /\ OrderInv'
    <3>1. CASE job.state = "done"
      <4>1. Answered(Payload(p), "stored")
        BY <2>1, <3>1
      <4> QED BY <1>1, <1>2, <3>1, <4>1, StoredStep
    <3>2. CASE job.state # "done"
      <4>1. verdict # "stored"
        BY <1>3, <3>2
      <4>2. Payload(p) \in Seq(Writes)
        BY <1>1, PayloadIsHeld DEF Inv, FlightInv
      <4> HIDE DEF verdict
      <4>3. \A x \in Writes : answer'[x] = "stored" => answer[x] = "stored"
        BY <2>1, <4>1, <4>2, AnsweredIs
      <4> QED BY <1>2, <4>3, NothingStored DEF Orderly
    <3> QED BY <3>1, <3>2
  <2> QED BY <1>1, <2>1, <2>2, NextRunOrder
<1> QED BY <1>4, <1>5

LEMMA ExpireOrder ==
  ASSUME Inv, Orderly, NEW p \in Procs, Expire(p)
  PROVE  Orderly'
<1>1. /\ flight[p] # 0 /\ Answered(Payload(p), "expired") /\ NextRun(p) /\ asked' = asked
      /\ UNCHANGED broker
  BY DEF Expire
<1>2. Payload(p) \in Seq(Writes)
  BY <1>1, PayloadIsHeld DEF Inv, FlightInv
<1>3. \A x \in Writes : answer'[x] = "stored" => answer[x] = "stored"
  <2>1. "expired" # "stored"
    OBVIOUS
  <2> QED BY <1>1, <1>2, <2>1, AnsweredIs
<1>4. UNCHANGED <<jobs, log>>
  BY <1>1 DEF broker
<1>5. StoredInv' /\ OrderInv'
  BY <1>3, <1>4, NothingStored DEF Orderly
<1> QED BY <1>1, <1>5, NextRunOrder

LEMMA CrashOrder ==
  ASSUME Inv, Orderly, NEW p \in Procs, Crash(p)
  PROVE  Orderly'
<1>1. /\ waiting' = [waiting EXCEPT ![p] = <<>>] /\ group' = [group EXCEPT ![p] = <<>>]
      /\ alone' = [alone EXCEPT ![p] = 0] /\ flight' = [flight EXCEPT ![p] = 0]
      /\ UNCHANGED <<asked, jobs, delayed, log>>
      /\ answer' = [x \in Writes |-> IF answer[x] = "asked" /\ x \in Range(Program[p])
                                     THEN "gone" ELSE answer[x]]
  BY DEF Crash
<1>2. \/ active' = 0 /\ active # 0 /\ line' = Append(line, active)
      \/ active' = active /\ line' = line
  BY DEF Crash
<1>3. /\ waiting \in [Procs -> Seq(Writes)] /\ group \in [Procs -> Seq(Writes)]
      /\ alone \in [Procs -> Nat] /\ flight \in [Procs -> Nat] /\ asked[p] \in Nat
      /\ line \in Seq(Nat) /\ active \in Nat /\ delayed \subseteq 1 .. Len(jobs)
      /\ \A i \in 1 .. Len(line) : line[i] \in 1 .. Len(jobs)
  BY DEF Inv, Ranges
<1>4. /\ waiting'[p] = <<>> /\ group'[p] = <<>>
      /\ \A q \in Procs \ {p} : /\ waiting'[q] = waiting[q] /\ group'[q] = group[q]
                                 /\ alone'[q] = alone[q] /\ flight'[q] = flight[q]
  BY <1>1, <1>3
<1>5. BrokerInv'
  <2>1. CASE active' = active /\ line' = line
    BY <1>1, <2>1, BrokerAsItWas DEF Orderly
  <2>2. CASE active' = 0 /\ active # 0 /\ line' = Append(line, active)
    <3> DEFINE Open == {n \in Nat : jobs[n].state = "open"}
    <3>1. /\ \A i, j \in 1 .. Len(line) : line[i] = line[j] => i = j
          /\ \A i \in 1 .. Len(line) : /\ line[i] \notin delayed /\ line[i] # active'
                                       /\ line[i] # active /\ line[i] \in Open
          /\ active \notin delayed /\ active # active' /\ active \in Open
      BY <1>3, <2>2 DEF Orderly, BrokerInv
    <3> HIDE DEF Open
    <3>2. /\ \A i, j \in 1 .. Len(line') : line'[i] = line'[j] => i = j
          /\ \A i \in 1 .. Len(line') : line'[i] \notin delayed /\ line'[i] # active'
                                        /\ line'[i] \in Open
      <4> DEFINE line2 == Append(line, active)
      <4>1. PICK none : none = active'
        OBVIOUS
      <4>2. \A i \in 1 .. Len(line) : line[i] \notin delayed /\ line[i] # none
                                     /\ line[i] # active /\ line[i] \in Open
        BY <3>1, <4>1
      <4>3. active \in Nat /\ active \notin delayed /\ active # none /\ active \in Open
        BY <1>3, <3>1, <4>1
      <4>4. line \in Seq(Nat) /\ \A i, j \in 1 .. Len(line) : line[i] = line[j] => i = j
        BY <1>3, <3>1
      <4>5. /\ \A i, j \in 1 .. Len(line2) : line2[i] = line2[j] => i = j
            /\ \A i \in 1 .. Len(line2) : line2[i] \notin delayed /\ line2[i] # none
                                           /\ line2[i] \in Open
        BY <4>2, <4>3, <4>4, Lined
      <4> QED BY <2>2, <4>1, <4>5
    <3>3. \A n \in delayed : n # 0 /\ jobs[n].state = "open"
      BY <1>3 DEF Orderly, BrokerInv
    <3> QED BY <1>1, <2>2, <3>2, <3>3 DEF BrokerInv, Open
  <2> QED BY <1>2, <2>1, <2>2
<1>6. InOrder(Program[p], asked[p], group'[p], waiting'[p])
  BY <1>3, <1>4 DEF InOrder
<1>7. Owned(p)'
  BY <1>4 DEF Owned
<1>8. \A x \in Writes : answer'[x] = "stored" => answer[x] = "stored"
  BY <1>1
<1>9. StoredInv' /\ OrderInv'
  BY <1>1, <1>8, NothingStored DEF Orderly
<1> QED BY <1>1, <1>4, <1>5, <1>6, <1>7, <1>9, CallerOrder

LEMMA NextOrder ==
  ASSUME Inv, Orderly, [Next]_vars
  PROVE  Orderly'
<1>1. CASE UNCHANGED vars
  <2>1. UNCHANGED <<asked, waiting, group, alone, flight, answer, jobs, log, line, delayed, active>>
    BY <1>1 DEF vars
  <2>2. BrokerInv'
    BY <2>1, BrokerAsItWas DEF Orderly
  <2> QED BY <2>1, <2>2, BrokerOrder
<1>2. CASE Next
  BY <1>2, EnqueueOrder, PostOrder, SettleOrder, ExpireOrder, CrashOrder, TakeOrder, AttemptOrder,
     PromoteOrder DEF Next
<1> QED BY <1>1, <1>2

LEMMA InitOrder == Init => Orderly
<1> SUFFICES ASSUME Init PROVE Orderly
  OBVIOUS
<1>1. BrokerInv /\ LogInv
  BY DEF Init, BrokerInv, LogInv
<1>2. FoldInv /\ OwnerInv
  BY DEF Init, FoldInv, InOrder, OwnerInv, Owned
<1>3. StoredInv
  BY DEF Init, StoredInv
<1>4. OrderInv
  BY ProgramsApart DEF Init, OrderInv
<1> QED BY <1>1, <1>2, <1>3, <1>4 DEF Orderly

LEMMA LastCommitIs ==
  ASSUME Inv, NEW x \in Writes, InLog(log, x)
  PROVE  /\ LastCommit(x) \in DOMAIN log /\ CarriedBy(log, LastCommit(x), x)
         /\ \A k \in DOMAIN log : CarriedBy(log, k, x) => k <= LastCommit(x)
<1> DEFINE S == {k \in 1 .. Len(log) : CarriedBy(log, k, x)}
<1>1. Len(log) \in Nat /\ DOMAIN log = 1 .. Len(log)
  BY DEF Inv, Ranges
<1>2. S # {} /\ S \in SUBSET (1 .. Len(log))
  BY <1>1 DEF InLog, CarriedBy
<1>3. PICK m \in S : \A k \in S : k <= m
  BY <1>1, <1>2, LastPlace
<1>4. \A k : x \in Range(log[k]) <=> CarriedBy(log, k, x)
  BY DEF Range, CarriedBy
<1>5. /\ m \in DOMAIN log /\ CarriedBy(log, m, x)
      /\ \A k \in DOMAIN log : k > m => x \notin Range(log[k])
  BY <1>1, <1>3, <1>4
<1>6. LastCommit(x) \in DOMAIN log /\ CarriedBy(log, LastCommit(x), x)
      /\ \A k \in DOMAIN log : k > LastCommit(x) => x \notin Range(log[k])
  <2>1. \E i \in DOMAIN log : /\ \E j \in DOMAIN log[i] : log[i][j] = x
                              /\ \A k \in DOMAIN log : k > i => x \notin Range(log[k])
    BY <1>5 DEF CarriedBy
  <2> QED BY <2>1, Zenon DEF LastCommit, CarriedBy
<1>7. \A k \in DOMAIN log : CarriedBy(log, k, x) => k <= LastCommit(x)
  BY <1>1, <1>4, <1>6
<1> QED BY <1>6, <1>7

LEMMA OrderlyIsInOrder == Inv /\ Orderly => StoredInOrder
<1> SUFFICES ASSUME Inv, Orderly, NEW p \in Procs,
                    NEW i \in DOMAIN Program[p], NEW j \in DOMAIN Program[p], i < j,
                    answer[Program[p][i]] = "stored", answer[Program[p][j]] = "stored"
             PROVE  LastCommit(Program[p][i]) <= LastCommit(Program[p][j])
  BY DEF StoredInOrder
<1> DEFINE v == Program[p][i]
           w == Program[p][j]
<1>1. i \in 1 .. Len(Program[p]) /\ j \in 1 .. Len(Program[p]) /\ v \in Writes /\ w \in Writes
  BY ProgramsApart
<1>2. \A x \in Writes : answer[x] = "stored" => InLog(log, x)
  <2>1. ASSUME NEW x \in Writes, answer[x] = "stored"
        PROVE  InLog(log, x)
    <3>1. PICK n \in 1 .. Len(jobs) : jobs[n].state = "done" /\ Carries(n, x)
      BY <2>1 DEF Orderly, StoredInv
    <3> QED BY <3>1 DEF Inv, JobInv, Carries
  <2> QED BY <2>1
<1>3. NotAfter(log, v, w)
  <2>1. \E n \in 1 .. Len(jobs) : jobs[n].state = "done" /\ Carries(n, w)
    BY <1>1 DEF Orderly, StoredInv
  <2> QED BY <1>1, <2>1 DEF Orderly, OrderInv
<1>4. PICK m \in DOMAIN log : /\ CarriedBy(log, m, w)
                              /\ \A k \in DOMAIN log : CarriedBy(log, k, v) => k <= m
  BY <1>3 DEF NotAfter
<1>5. /\ LastCommit(v) \in DOMAIN log /\ CarriedBy(log, LastCommit(v), v)
      /\ LastCommit(w) \in DOMAIN log /\ m <= LastCommit(w)
  BY <1>1, <1>2, <1>4, LastCommitIs
<1>6. DOMAIN log = 1 .. Len(log) /\ Len(log) \in Nat
  BY DEF Inv, Ranges
<1> QED BY <1>4, <1>5, <1>6

\* writeFolder.js and writeQueue.js: two writes of one process that were both stored
\* are last committed in the order they were asked for, whatever is folded, split,
\* retried after a lost acknowledgement, given up on, or cut short by a crash.
THEOREM StoredLandInOrder == Spec => []StoredInOrder
<1>1. Inv /\ Orderly /\ [Next]_vars => Inv' /\ Orderly'
  BY NextInv, NextOrder
<1> QED BY InitInv, InitOrder, <1>1, OrderlyIsInOrder, PTL DEF Spec

-----------------------------------------------------------------------------
(* Every caller is handed the rows of its own statements.                  *)

\* The statements before each place of a transaction, counted from the front.
Sums(T, ws) ==
    /\ T \in [0 .. Len(ws) -> Nat]
    /\ T[0] = 0
    /\ \A n \in 1 .. Len(ws) : T[n] = T[n - 1] + Size[ws[n]]

\* A set of naturals with a member has a least one.
LEMMA LeastOf ==
  ASSUME NEW S \in SUBSET Nat, S # {}
  PROVE  \E m \in S : \A k \in S : m <= k
<1>1. PICK m \in S : \A k \in S : ~ (<<k, m>> \in OpToRel(<, Nat))
  BY NatLessThanWellFounded, WFMin, Zenon
<1>2. \A k \in S : ~ (k < m)
  BY <1>1, Zenon DEF OpToRel
<1> QED BY <1>2

LEMMA SumsExist ==
  ASSUME NEW ws \in Seq(Writes)
  PROVE  \E T : Sums(T, ws)
<1> DEFINE L == Len(ws)
           Upto(T, k) == /\ T \in [0 .. k -> Nat] /\ T[0] = 0
                         /\ \A n \in 1 .. k : T[n] = T[n - 1] + Size[ws[n]]
           Not == {k \in 0 .. L : ~ \E T : Upto(T, k)}
<1>1. L \in Nat /\ \A n \in 1 .. L : Size[ws[n]] \in Nat
  BY CallsAssumption
<1>2. Not = {}
  <2>1. SUFFICES ASSUME Not # {} PROVE FALSE
    OBVIOUS
  <2>2. Not \in SUBSET Nat
    OBVIOUS
  <2>3. PICK k \in Not : \A j \in Not : k <= j
    BY <2>1, <2>2, LeastOf
  <2>4. k \in 0 .. L /\ ~ \E T : Upto(T, k)
    BY <2>3
  <2>5. CASE k = 0
    <3> DEFINE T == [n \in 0 .. 0 |-> 0]
    <3>1. Upto(T, 0)
      OBVIOUS
    <3> QED BY <2>4, <2>5, <3>1
  <2>6. CASE k # 0
    <3>1. k - 1 \in 0 .. L /\ k - 1 \notin Not /\ k \in 1 .. L
      BY <1>1, <2>3, <2>4, <2>6
    <3>2. PICK T : Upto(T, k - 1)
      BY <3>1
    <3> DEFINE U == [n \in 0 .. k |-> IF n = k THEN T[k - 1] + Size[ws[k]] ELSE T[n]]
    <3>3. T[k - 1] \in Nat /\ \A n \in 0 .. k : n # k => n \in 0 .. k - 1 /\ T[n] \in Nat
      BY <3>1, <3>2
    <3>4. U \in [0 .. k -> Nat] /\ U[0] = 0
      BY <1>1, <2>6, <3>1, <3>2, <3>3
    <3>5. \A n \in 1 .. k : U[n] = U[n - 1] + Size[ws[n]]
      BY <1>1, <3>1, <3>2, <3>3
    <3>6. Upto(U, k)
      BY <3>4, <3>5
    <3> QED BY <2>4, <3>6
  <2> QED BY <2>5, <2>6
<1>3. L \in 0 .. L
  BY <1>1
<1>4. \E T : Upto(T, L)
  BY <1>2, <1>3
<1> QED BY <1>4 DEF Sums

LEMMA SumsAreOne ==
  ASSUME NEW ws \in Seq(Writes), NEW T, Sums(T, ws), NEW U, NEW k \in 0 .. Len(ws),
         U[0] = 0, \A n \in 1 .. k : U[n] = U[n - 1] + Size[ws[n]]
  PROVE  \A n \in 0 .. k : U[n] = T[n]
<1> DEFINE Not == {n \in 0 .. k : U[n] # T[n]}
<1>1. SUFFICES ASSUME Not # {} PROVE FALSE
  OBVIOUS
<1>2. Not \in SUBSET Nat
  OBVIOUS
<1>3. PICK n \in Not : \A j \in Not : n <= j
  BY <1>1, <1>2, LeastOf
<1>4. n # 0
  BY <1>3 DEF Sums
<1>5. n - 1 \in 0 .. k /\ n - 1 \notin Not /\ n \in 1 .. k /\ n \in 1 .. Len(ws)
  BY <1>3, <1>4
<1>6. U[n - 1] = T[n - 1]
  BY <1>5
<1> QED BY <1>3, <1>5, <1>6 DEF Sums

\* The statements of the calls before a place.
LEMMA StatementsBefore ==
  ASSUME NEW ws \in Seq(Writes), NEW T, Sums(T, ws), NEW k \in 0 .. Len(ws)
  PROVE  Statements(SubSeq(ws, 1, k)) = T[k]
<1> DEFINE s == SubSeq(ws, 1, k)
           Rec(f) == [n \in 0 .. Len(s) |-> IF n = 0 THEN 0 ELSE f[n - 1] + Size[s[n]]]
           sum == CHOOSE f : f = Rec(f)
<1>1. /\ s \in Seq(Writes) /\ Len(s) = k /\ k \in Nat
      /\ \A n \in 1 .. k : n \in 1 .. Len(ws) /\ s[n] = ws[n]
  OBVIOUS
<1>2. Statements(s) = sum[Len(s)]
  BY DEF Statements
<1>3. sum = Rec(sum)
  <2> DEFINE U == [n \in 0 .. k |-> T[n]]
  <2> HIDE DEF s
  <2>1. \A n \in 0 .. k : U[n] = IF n = 0 THEN 0 ELSE U[n - 1] + Size[s[n]]
    <3>1. U[0] = 0
      BY <1>1 DEF Sums
    <3>2. ASSUME NEW n \in 1 .. k
          PROVE  U[n] = U[n - 1] + Size[s[n]]
      <4>1. n \in 0 .. k /\ n - 1 \in 0 .. k /\ n \in 1 .. Len(ws) /\ s[n] = ws[n]
        BY <1>1
      <4>2. T[n] = T[n - 1] + Size[ws[n]]
        BY <4>1 DEF Sums
      <4>3. U[n] = T[n] /\ U[n - 1] = T[n - 1]
        BY <4>1
      <4> QED BY <4>1, <4>2, <4>3
    <3>3. \A n \in 0 .. k : n = 0 \/ n \in 1 .. k
      BY <1>1
    <3> QED BY <3>1, <3>2, <3>3
  <2>2. U = Rec(U)
    BY <1>1, <2>1
  <2> HIDE DEF U, Rec
  <2> QED BY <2>2
<1> HIDE DEF sum
<1>4. \A n \in 0 .. Len(s) : sum[n] = IF n = 0 THEN 0 ELSE sum[n - 1] + Size[s[n]]
  BY <1>3
<1> HIDE DEF s
<1>5. sum[0] = 0 /\ \A n \in 1 .. k : sum[n] = sum[n - 1] + Size[ws[n]]
  BY <1>1, <1>4
<1>6. sum[k] = T[k]
  <2>1. \A n \in 0 .. k : sum[n] = T[n]
    BY <1>5, SumsAreOne
  <2> QED BY <1>1, <2>1
<1> QED BY <1>1, <1>2, <1>6 DEF s

\* The results of the first k calls of ws: those of each call, behind one another.
ResultsUpto(R, ws, T, k) ==
    /\ R \in Seq(Writes \X Nat)
    /\ Len(R) = T[k]
    /\ \A j \in 1 .. k : \A r \in 1 .. Size[ws[j]] : R[T[j - 1] + r] = <<ws[j], r>>

LEMMA SumsRise ==
  ASSUME NEW ws \in Seq(Writes), NEW T, Sums(T, ws),
         NEW j \in 0 .. Len(ws), NEW k \in 0 .. Len(ws), j <= k
  PROVE  T[j] <= T[k]
<1> SUFFICES ASSUME ~(T[j] <= T[k]) PROVE FALSE
  OBVIOUS
<1> DEFINE Less == {n \in j .. k : ~(T[j] <= T[n])}
<1>1. Less \in SUBSET Nat /\ k \in Less
  OBVIOUS
<1>2. PICK n \in Less : \A m \in Less : n <= m
  BY <1>1, LeastOf
<1>3. T \in [0 .. Len(ws) -> Nat] /\ \A m \in 1 .. Len(ws) : T[m] = T[m - 1] + Size[ws[m]]
  BY DEF Sums
<1>4. T[j] \in Nat /\ Len(ws) \in Nat
  BY <1>3
<1>5. n # j
  BY <1>2, <1>4
<1>6. n - 1 \in j .. k /\ n - 1 \notin Less /\ n \in 1 .. Len(ws) /\ n - 1 \in 0 .. Len(ws)
  BY <1>2, <1>4, <1>5
<1>7. ws[n] \in Writes
  BY <1>6
<1>8. T[n] = T[n - 1] + Size[ws[n]] /\ Size[ws[n]] \in Nat /\ T[n - 1] \in Nat
  BY <1>3, <1>6, <1>7, CallsAssumption
<1>9. T[j] <= T[n - 1]
  BY <1>6
<1> QED BY <1>2, <1>4, <1>8, <1>9

LEMMA RowsAre ==
  ASSUME NEW w \in Writes
  PROVE  /\ RowsOf(w) \in Seq(Writes \X Nat) /\ Len(RowsOf(w)) = Size[w] /\ Size[w] \in Nat
         /\ \A r \in 1 .. Size[w] : RowsOf(w)[r] = <<w, r>>
<1>1. Size[w] \in Nat
  BY CallsAssumption
<1> QED BY <1>1 DEF RowsOf

LEMMA Joined ==
  ASSUME NEW S, NEW R \in Seq(S), NEW Q \in Seq(S)
  PROVE  /\ R \o Q \in Seq(S) /\ Len(R \o Q) = Len(R) + Len(Q)
         /\ \A i \in 1 .. Len(R) + Len(Q) :
               (R \o Q)[i] = IF i <= Len(R) THEN R[i] ELSE Q[i - Len(R)]
OBVIOUS

LEMMA Stretch ==
  ASSUME NEW S, NEW R \in Seq(S), NEW a \in Nat, NEW N \in Nat, a + N <= Len(R)
  PROVE  /\ SubSeq(R, a + 1, a + N) \in Seq(S) /\ Len(SubSeq(R, a + 1, a + N)) = N
         /\ \A r \in 1 .. N : SubSeq(R, a + 1, a + N)[r] = R[a + r]
<1>1. \A r \in 1 .. N : a + r \in 1 .. Len(R) /\ r + (a + 1) - 1 = a + r
  OBVIOUS
<1>2. (a + N) - (a + 1) + 1 = N
  OBVIOUS
<1> QED BY <1>1, <1>2

LEMMA ResultsJoined ==
  ASSUME NEW ws \in Seq(Writes), NEW T, Sums(T, ws), NEW k \in 1 .. Len(ws), NEW R,
         ResultsUpto(R, ws, T, k - 1)
  PROVE  ResultsUpto(R \o RowsOf(ws[k]), ws, T, k)
<1> DEFINE Q == RowsOf(ws[k])
           N == Size[ws[k]]
<1>1. ws[k] \in Writes /\ N \in Nat
  BY CallsAssumption
<1>2. Q \in Seq(Writes \X Nat) /\ Len(Q) = N /\ \A r \in 1 .. N : Q[r] = <<ws[k], r>>
  BY <1>1, RowsAre
<1>3. /\ R \in Seq(Writes \X Nat) /\ Len(R) = T[k - 1]
      /\ \A j \in 1 .. k - 1 : \A r \in 1 .. Size[ws[j]] : R[T[j - 1] + r] = <<ws[j], r>>
  BY DEF ResultsUpto
<1>4. T \in [0 .. Len(ws) -> Nat] /\ \A n \in 1 .. Len(ws) : T[n] = T[n - 1] + Size[ws[n]]
  BY DEF Sums
<1>5. k \in Nat /\ Len(ws) \in Nat /\ k <= Len(ws) /\ k >= 1
  OBVIOUS
<1> HIDE DEF Q
<1>6. /\ R \o Q \in Seq(Writes \X Nat) /\ Len(R \o Q) = Len(R) + Len(Q)
      /\ \A i \in 1 .. Len(R) + Len(Q) :
            (R \o Q)[i] = IF i <= Len(R) THEN R[i] ELSE Q[i - Len(R)]
  BY <1>2, <1>3, Joined
<1>7. T[k] = T[k - 1] + N /\ T[k - 1] \in Nat
  BY <1>4, <1>5
<1>8. Len(R \o Q) = T[k]
  BY <1>2, <1>3, <1>6, <1>7
<1>9. ASSUME NEW j \in 1 .. k, NEW r \in 1 .. Size[ws[j]]
      PROVE  (R \o Q)[T[j - 1] + r] = <<ws[j], r>>
  <2>1. CASE j = k
    <3>1. r \in 1 .. N
      BY <1>9, <2>1
    <3>2. T[k - 1] + r \in 1 .. Len(R) + Len(Q) /\ ~(T[k - 1] + r <= Len(R))
          /\ (T[k - 1] + r) - Len(R) = r
      BY <1>1, <1>2, <1>3, <1>7, <3>1
    <3> QED BY <1>2, <1>6, <2>1, <3>1, <3>2
  <2>2. CASE j # k
    <3>1. j \in 1 .. k - 1 /\ j \in 1 .. Len(ws)
      BY <1>5, <1>9, <2>2
    <3>2. T[j] = T[j - 1] + Size[ws[j]] /\ T[j - 1] \in Nat /\ Size[ws[j]] \in Nat
      <4>1. ws[j] \in Writes /\ j - 1 \in 0 .. Len(ws)
        BY <1>5, <3>1
      <4> QED BY <1>4, <3>1, <4>1, CallsAssumption
    <3>3. T[j] <= T[k - 1]
      BY <1>5, <3>1, SumsRise
    <3>4. T[j - 1] + r \in 1 .. Len(R) /\ T[j - 1] + r <= Len(R)
      <4>1. r \in Nat /\ 1 <= r /\ r <= Size[ws[j]]
        BY <1>9, <3>2
      <4>2. Len(R) = T[k - 1] /\ T[k - 1] \in Nat
        BY <1>3, <1>7
      <4> QED BY <3>2, <3>3, <4>1, <4>2
    <3>5. T[j - 1] + r \in 1 .. Len(R) + Len(Q)
      BY <1>2, <1>1, <1>3, <1>7, <3>4
    <3> QED BY <1>3, <1>6, <1>9, <3>1, <3>4, <3>5
  <2> QED BY <2>1, <2>2
<1> QED BY <1>6, <1>8, <1>9 DEF ResultsUpto, Q

LEMMA ResultsAre ==
  ASSUME NEW ws \in Seq(Writes), ws # <<>>, NEW T, Sums(T, ws)
  PROVE  ResultsUpto(Results(ws), ws, T, Len(ws))
<1> DEFINE L == Len(ws)
           rs == [i \in DOMAIN ws |-> RowsOf(ws[i])]
           Rec(f) == [i \in 1 .. Len(rs) |-> IF i = 1 THEN rs[i] ELSE f[i - 1] \o rs[i]]
           flatten == CHOOSE f : f = Rec(f)
           Flat(f, k) == /\ f = [i \in 1 .. k |-> f[i]]
                         /\ \A i \in 1 .. k : f[i] = IF i = 1 THEN rs[i] ELSE f[i - 1] \o rs[i]
<1>1. L \in Nat /\ L # 0 /\ DOMAIN ws = 1 .. L
  OBVIOUS
<1>2. Len(rs) = L /\ \A i \in 1 .. L : rs[i] = RowsOf(ws[i])
  BY <1>1
<1>3. Results(ws) = flatten[L]
  <2>1. Results(ws) = flatten[Len(rs)]
    BY <1>1, <1>2 DEF Results, FlattenSeq
  <2> QED BY <1>2, <2>1
<1> HIDE DEF rs
<1>4. flatten = Rec(flatten)
  <2> DEFINE Not == {k \in 1 .. L : ~ \E f : Flat(f, k)}
  <2>1. Not = {}
    <3>1. SUFFICES ASSUME Not # {} PROVE FALSE
      OBVIOUS
    <3>2. Not \in SUBSET Nat
      OBVIOUS
    <3>3. PICK k \in Not : \A j \in Not : k <= j
      BY <3>1, <3>2, LeastOf
    <3>4. k \in 1 .. L /\ ~ \E f : Flat(f, k)
      BY <3>3
    <3>5. CASE k = 1
      <4> DEFINE f == [i \in 1 .. 1 |-> rs[1]]
      <4>1. Flat(f, 1)
        OBVIOUS
      <4> QED BY <3>4, <3>5, <4>1
    <3>6. CASE k # 1
      <4>1. k - 1 \in 1 .. L /\ k - 1 \notin Not
        BY <1>1, <3>3, <3>4, <3>6
      <4>2. PICK f : Flat(f, k - 1)
        BY <4>1
      <4> DEFINE g == [i \in 1 .. k |-> IF i = k THEN f[k - 1] \o rs[k] ELSE f[i]]
      <4>3. \A i \in 1 .. k : g[i] = IF i = 1 THEN rs[i] ELSE g[i - 1] \o rs[i]
        <5>1. ASSUME NEW i \in 1 .. k
              PROVE  g[i] = IF i = 1 THEN rs[i] ELSE g[i - 1] \o rs[i]
          <6>1. CASE i = k
            <7>1. g[k] = f[k - 1] \o rs[k] /\ g[k - 1] = f[k - 1]
              <8>1. k \in 1 .. k /\ k - 1 \in 1 .. k /\ k - 1 # k
                BY <3>4, <4>1
              <8> QED BY <8>1
            <7> QED BY <3>6, <6>1, <7>1
          <6>2. CASE i # k
            <7>1. i \in 1 .. k - 1 /\ g[i] = f[i]
              BY <3>4, <5>1, <6>2
            <7>2. i # 1 => i - 1 \in 1 .. k /\ i - 1 # k /\ g[i - 1] = f[i - 1]
              BY <3>4, <5>1, <7>1
            <7> QED BY <4>2, <7>1, <7>2
          <6> QED BY <6>1, <6>2
        <5> QED BY <5>1
      <4>4. g = [i \in 1 .. k |-> g[i]]
        OBVIOUS
      <4> HIDE DEF g
      <4>5. Flat(g, k)
        BY <4>3, <4>4
      <4> QED BY <3>4, <4>5
    <3> QED BY <3>5, <3>6
  <2>2. L \in 1 .. L
    BY <1>1
  <2>3. PICK f : Flat(f, L)
    BY <2>1, <2>2
  <2>4. f = Rec(f)
    <3>1. f = [i \in 1 .. L |-> f[i]]
      BY <2>3
    <3>2. \A i \in 1 .. L : f[i] = IF i = 1 THEN rs[i] ELSE f[i - 1] \o rs[i]
      BY <2>3
    <3>3. [i \in 1 .. L |-> f[i]] = [i \in 1 .. L |-> IF i = 1 THEN rs[i] ELSE f[i - 1] \o rs[i]]
      BY <3>2
    <3> QED BY <1>2, <3>1, <3>3
  <2> HIDE DEF Rec
  <2> QED BY <2>4
<1> HIDE DEF flatten
<1>5. \A i \in 1 .. L : flatten[i] = IF i = 1 THEN RowsOf(ws[i]) ELSE flatten[i - 1] \o RowsOf(ws[i])
  BY <1>2, <1>4
<1>6. \A k \in 1 .. L : ResultsUpto(flatten[k], ws, T, k)
  <2> DEFINE Not == {k \in 1 .. L : ~ResultsUpto(flatten[k], ws, T, k)}
  <2>1. SUFFICES ASSUME Not # {} PROVE FALSE
    OBVIOUS
  <2>2. Not \in SUBSET Nat
    OBVIOUS
  <2>3. PICK k \in Not : \A j \in Not : k <= j
    BY <2>1, <2>2, LeastOf
  <2>4. k \in 1 .. L /\ ~ResultsUpto(flatten[k], ws, T, k)
    BY <2>3
  <2>5. CASE k = 1
    <3>1. ResultsUpto(<<>>, ws, T, 0)
      BY DEF ResultsUpto, Sums
    <3>2. RowsOf(ws[1]) \in Seq(Writes \X Nat)
      <4>1. ws[1] \in Writes
        BY <1>1
      <4> QED BY <4>1, RowsAre
    <3>3. <<>> \o RowsOf(ws[1]) = RowsOf(ws[1])
      BY <3>2
    <3>4. ResultsUpto(<<>> \o RowsOf(ws[1]), ws, T, 1)
      <4>1. 1 \in 1 .. Len(ws) /\ 1 - 1 = 0
        BY <1>1
      <4> QED BY <3>1, <4>1, ResultsJoined
    <3> QED BY <1>5, <2>4, <2>5, <3>3, <3>4
  <2>6. CASE k # 1
    <3>1. k - 1 \in 1 .. L /\ k - 1 \notin Not
      BY <1>1, <2>3, <2>4, <2>6
    <3>2. ResultsUpto(flatten[k - 1], ws, T, k - 1)
      BY <3>1
    <3>3. ResultsUpto(flatten[k - 1] \o RowsOf(ws[k]), ws, T, k)
      BY <2>4, <3>2, ResultsJoined
    <3> QED BY <1>5, <2>4, <2>6, <3>3
  <2> QED BY <2>5, <2>6
<1>7. L \in 1 .. L
  BY <1>1
<1> QED BY <1>3, <1>6, <1>7

\* settleGroup: the slice at a caller's place is the results of its statements.
LEMMA SliceIsOwn ==
  ASSUME NEW ws \in Seq(Writes), NEW i \in 1 .. Len(ws)
  PROVE  Slice(ws, i) = RowsOf(ws[i])
<1>1. PICK T : Sums(T, ws)
  BY SumsExist
<1> DEFINE R == Results(ws)
           N == Size[ws[i]]
<1>2. ResultsUpto(R, ws, T, Len(ws))
  BY <1>1, ResultsAre
<1>3. Statements(SubSeq(ws, 1, i - 1)) = T[i - 1]
  BY <1>1, StatementsBefore
<1>4. T[i - 1] \in Nat /\ N \in Nat /\ T[i - 1] + N = T[i] /\ ws[i] \in Writes
  <2>1. i \in 0 .. Len(ws) /\ i - 1 \in 0 .. Len(ws) /\ ws[i] \in Writes
    OBVIOUS
  <2> QED BY <1>1, <2>1, CallsAssumption DEF Sums
<1> HIDE DEF R, N
<1>5. /\ R \in Seq(Writes \X Nat) /\ \A r \in 1 .. N : R[T[i - 1] + r] = <<ws[i], r>>
      /\ Len(R) = T[Len(ws)]
  BY <1>2 DEF ResultsUpto, N
<1>6. T[i - 1] + N <= Len(R)
  <2>1. i \in 0 .. Len(ws) /\ Len(ws) \in 0 .. Len(ws) /\ i <= Len(ws)
    OBVIOUS
  <2>2. T[i] <= T[Len(ws)]
    BY <1>1, <2>1, SumsRise
  <2> QED BY <1>4, <1>5, <2>2
<1> DEFINE s == SubSeq(R, T[i - 1] + 1, T[i - 1] + N)
<1>7. s \in Seq(Writes \X Nat) /\ Len(s) = N /\ \A r \in 1 .. N : s[r] = R[T[i - 1] + r]
  <2>1. PICK a \in Nat : a = T[i - 1]
    BY <1>4
  <2>2. R \in Seq(Writes \X Nat) /\ N \in Nat /\ a + N <= Len(R)
    BY <1>4, <1>5, <1>6, <2>1
  <2>3. /\ SubSeq(R, a + 1, a + N) \in Seq(Writes \X Nat) /\ Len(SubSeq(R, a + 1, a + N)) = N
        /\ \A r \in 1 .. N : SubSeq(R, a + 1, a + N)[r] = R[a + r]
    BY <2>2, Stretch
  <2> QED BY <2>1, <2>3
<1> HIDE DEF s
<1>8. /\ RowsOf(ws[i]) \in Seq(Writes \X Nat) /\ Len(RowsOf(ws[i])) = N
      /\ \A r \in 1 .. N : RowsOf(ws[i])[r] = <<ws[i], r>>
  BY <1>4, RowsAre DEF N
<1>9. s = RowsOf(ws[i])
  <2>1. \A r \in 1 .. N : s[r] = RowsOf(ws[i])[r]
    BY <1>5, <1>7, <1>8
  <2> QED BY <1>7, <1>8, <2>1
<1> QED BY <1>3, <1>9 DEF Slice, R, N, s

\* The rows handed to a call are its own, and are handed when it is stored.
RowsInv ==
    /\ rows \in [Writes -> Seq(Writes \X Nat)]
    /\ OwnRows

LEMMA RowsKept ==
  ASSUME RowsInv, rows' = rows, \A x \in Writes : answer'[x] = "stored" => answer[x] = "stored"
  PROVE  RowsInv'
BY DEF RowsInv, OwnRows

LEMMA SettleRows ==
  ASSUME Inv, RowsInv, NEW p \in Procs, Settle(p)
  PROVE  RowsInv'
<1> DEFINE job == jobs[flight[p]]
           verdict == IF job.state = "done" THEN "stored" ELSE job.state
           ws == Payload(p)
<1>1. CASE Splits(p, verdict)
  <2>1. answer' = answer /\ rows' = rows
    BY <1>1 DEF Settle
  <2> QED BY <2>1, RowsKept
<1>2. CASE ~Splits(p, verdict)
  <2>1. flight[p] # 0 /\ Answered(ws, verdict)
    BY <1>2 DEF Settle
  <2>2. ws \in Seq(Writes)
    BY <2>1, PayloadIsHeld DEF Inv, FlightInv
  <2> HIDE DEF ws, verdict
  <2>3. \A x \in Range(ws) : Slice(ws, PlaceIn(ws, x)) = RowsOf(x)
    <3>1. ASSUME NEW x \in Range(ws)
          PROVE  Slice(ws, PlaceIn(ws, x)) = RowsOf(x)
      <4>1. DOMAIN ws = 1 .. Len(ws)
        BY <2>2
      <4>2. \E i \in DOMAIN ws : ws[i] = x
        BY DEF Range
      <4>3. PlaceIn(ws, x) \in DOMAIN ws /\ ws[PlaceIn(ws, x)] = x
        BY <4>2, Zenon DEF PlaceIn
      <4> QED BY <2>2, <4>1, <4>3, SliceIsOwn
    <3> QED BY <3>1
  <2>4. /\ answer' = [x \in Writes |-> IF x \in Range(ws) THEN verdict ELSE answer[x]]
        /\ rows' = [x \in Writes |-> IF x \in Range(ws) /\ verdict = "stored"
                                     THEN Slice(ws, PlaceIn(ws, x)) ELSE rows[x]]
    BY <2>1 DEF Answered
  <2>5. \A x \in Writes : RowsOf(x) \in Seq(Writes \X Nat)
    BY RowsAre
  <2>6. rows' \in [Writes -> Seq(Writes \X Nat)]
    BY <2>3, <2>4, <2>5 DEF RowsInv
  <2>7. OwnRows'
    <3>1. ASSUME NEW x \in Writes, answer'[x] = "stored"
          PROVE  rows'[x] = RowsOf(x)
      BY <2>3, <2>4, <3>1 DEF RowsInv, OwnRows
    <3> QED BY <3>1 DEF OwnRows, RowsOf
  <2> QED BY <2>6, <2>7 DEF RowsInv
<1> QED BY <1>1, <1>2

LEMMA NextRows ==
  ASSUME Inv, RowsInv, [Next]_vars
  PROVE  RowsInv'
<1>1. CASE UNCHANGED vars
  BY <1>1, RowsKept DEF vars
<1>2. ASSUME NEW p \in Procs, Enqueue(p)
      PROVE  RowsInv'
  <2>1. rows' = rows /\ answer' = [answer EXCEPT ![Program[p][asked[p] + 1]] = "asked"]
    BY <1>2 DEF Enqueue
  <2>2. answer \in [Writes -> {"new", "asked"} \cup Verdicts]
    BY DEF Inv, Ranges
  <2>3. \A x \in Writes : answer'[x] = "stored" => answer[x] = "stored"
    BY <2>1, <2>2
  <2> QED BY <2>1, <2>3, RowsKept
<1>3. ASSUME NEW p \in Procs, Expire(p)
      PROVE  RowsInv'
  <2>1. Answered(Payload(p), "expired")
    BY <1>3 DEF Expire
  <2>2. /\ answer' = [x \in Writes |-> IF x \in Range(Payload(p)) THEN "expired" ELSE answer[x]]
        /\ rows' = [x \in Writes |-> rows[x]]
    BY <2>1 DEF Answered
  <2>3. rows' = rows
    BY <2>2 DEF RowsInv
  <2>4. \A x \in Writes : answer'[x] = "stored" => answer[x] = "stored"
    BY <2>2
  <2> QED BY <2>3, <2>4, RowsKept
<1>4. ASSUME NEW p \in Procs, Crash(p)
      PROVE  RowsInv'
  <2>1. /\ rows' = rows
        /\ answer' = [x \in Writes |-> IF answer[x] = "asked" /\ x \in Range(Program[p])
                                       THEN "gone" ELSE answer[x]]
    BY <1>4 DEF Crash
  <2>2. \A x \in Writes : answer'[x] = "stored" => answer[x] = "stored"
    BY <2>1
  <2> QED BY <2>1, <2>2, RowsKept
<1>5. ASSUME answer' = answer, rows' = rows
      PROVE  RowsInv'
  BY <1>5, RowsKept
<1>6. ASSUME NEW p \in Procs, Post(p)
      PROVE  RowsInv'
  BY <1>5, <1>6 DEF Post
<1>7. CASE Take \/ RunJob \/ Transport
  BY <1>5, <1>7 DEF Take, RunJob, Transport
<1>8. ASSUME NEW id \in delayed, Promote(id)
      PROVE  RowsInv'
  BY <1>5, <1>8 DEF Promote
<1> QED BY <1>1, <1>2, <1>3, <1>4, <1>6, <1>7, <1>8, SettleRows DEF Next

LEMMA InitRows == Init => RowsInv
BY DEF Init, RowsInv, OwnRows

\* settleGroup: whatever else its transaction carried, a caller whose write was stored
\* is handed the rows of its own statements, for any calls, sizes and ceiling.
THEOREM RowsAreTheCallersOwn == Spec => []OwnRows
<1>1. RowsInv => OwnRows
  BY DEF RowsInv
<1>2. Inv /\ RowsInv /\ [Next]_vars => Inv' /\ RowsInv'
  BY NextInv, NextRows
<1> QED BY InitInv, InitRows, <1>1, <1>2, PTL DEF Spec

LEMMA InvType == Inv /\ RowsInv => TypeOK
<1> SUFFICES ASSUME Inv, RowsInv PROVE TypeOK
  OBVIOUS
<1>1. line \in Seq(1 .. Len(jobs))
  <2>1. line \in Seq(Nat) /\ \A i \in 1 .. Len(line) : line[i] \in 1 .. Len(jobs)
    BY DEF Inv, Ranges
  <2> QED BY <2>1
<1>2. jobs \in Seq([by : Procs, writes : Seq(Writes), tries : Nat,
                    state : {"open", "done", "statement", "transport"}])
  BY DEF Inv, Ranges, Job
<1> QED BY <1>1, <1>2 DEF Inv, Ranges, RowsInv, TypeOK

\* The state keeps its types, whatever the processes, calls and faults.
THEOREM WritesTyped == Spec => []TypeOK
<1>1. Inv /\ RowsInv /\ [Next]_vars => Inv' /\ RowsInv'
  BY NextInv, NextRows
<1> QED BY InitInv, InitRows, InvType, <1>1, PTL DEF Spec
=============================================================================
