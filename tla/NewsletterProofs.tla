--------------------------- MODULE NewsletterProofs ---------------------------
(***************************************************************************)
(* What holds of the weekly digest for any set of senders, readers, weeks  *)
(* and texts, any batch size and any number of crashes.                    *)
(***************************************************************************)
EXTENDS Newsletter, FiniteSetTheorems, TLAPS

\* What OneTextPerWeek rests on: a pass that got past the lookup holds the text
\* stored for its week, and nothing was mailed for a week with no issue.
TextInv ==
    /\ \A w \in Weeks : text[w] = NoText => told[w] = {}
    /\ OneTextPerWeek
    /\ \A s \in Senders :
        /\ pass[s].at \in {"readback", "pending", "claim", "send", "finish"} =>
              text[pass[s].week] # NoText
        /\ pass[s].at \in {"pending", "claim", "send", "finish"} =>
              pass[s].issue = text[pass[s].week]

\* What AtMostOneCopy rests on: a pass about to send holds a claim of its own,
\* for a reader nobody mailed.
ClaimInv ==
    /\ AtMostOneCopy
    /\ \A w \in Weeks, r \in Readers : sends[w][r] = "none" => mailed[w][r] = 0
    /\ \A s \in Senders : pass[s].at \in {"send", "finish"} =>
        /\ pass[s].reader \in Readers
        /\ sends[pass[s].week][pass[s].reader] # "none"
    /\ \A s \in Senders : pass[s].at = "send" => mailed[pass[s].week][pass[s].reader] = 0
    /\ \A s, t \in Senders :
        s # t /\ pass[s].at = "send" /\ pass[t].at = "send" =>
            <<pass[s].week, pass[s].reader>> # <<pass[t].week, pass[t].reader>>

\* What ClosedMeansAddressed rests on: a pass whose page was not full has every
\* reader who never left the list either addressed or still in its hands.
PageInv ==
    /\ ClosedMeansAddressed
    /\ \A s \in Senders :
        pass[s].at \in {"claim", "send", "finish"} /\ ~pass[s].full =>
            \A r \in steady : sends[pass[s].week][r] # "none" \/ r \in pass[s].batch

-----------------------------------------------------------------------------
LEMMA IdleIsPass == Idle \in Pass
  BY ConstantsOK DEF Idle, Pass, Stage, Weeks

\* The ranges of the variables and the text invariant are inductive together.
LEMMA TypeTextInit == Init => TypeOK /\ TextInv
  BY IdleIsPass, ConstantsOK
     DEF Init, TypeOK, TextInv, OneTextPerWeek, Phase, Status, Idle, Weeks

-----------------------------------------------------------------------------
\* What each step does to the locals of the pass that takes it; every other
\* pass is left alone.
Others(s) == \A t \in Senders : t # s => pass'[t] = pass[t]
Keeps(s) == pass'[s].week = pass[s].week /\ pass'[s].issue = pass[s].issue
KeepsPage(s) == Keeps(s) /\ pass'[s].full = pass[s].full

LEMMA Moves ==
  ASSUME TypeOK, NEW s \in Senders, NEW p \in Pass, Become(s, p)
  PROVE  pass' \in [Senders -> Pass] /\ Others(s) /\ pass'[s] = p
  BY DEF TypeOK, Others, Become

LEMMA Ends ==
  ASSUME TypeOK, NEW s \in Senders, Become(s, Idle)
  PROVE  pass' \in [Senders -> Pass] /\ Others(s) /\ pass'[s].at = "idle"
  BY Moves, IdleIsPass DEF Idle

LEMMA BeginMoves ==
  ASSUME TypeOK, NEW s \in Senders, Begin(s)
  PROVE  pass' \in [Senders -> Pass] /\ Others(s) /\ pass'[s].at = "look"
  <1>1. PICK force \in Forces :
          Become(s, [Idle EXCEPT !.at = "look", !.week = clock.week,
                                 !.mayStart = MayStart(force)])
    BY DEF Begin
  <1> DEFINE p == [Idle EXCEPT !.at = "look", !.week = clock.week, !.mayStart = MayStart(force)]
  <1>2. MayStart(force) \in BOOLEAN /\ clock.week \in Weeks
    BY ConstantsOK DEF MayStart, TypeOK
  <1>3. p \in Pass
    BY <1>2, IdleIsPass DEF Pass, Stage
  <1>4. p.at = "look"
    BY IdleIsPass DEF Pass
  <1> QED
    BY <1>1, <1>3, <1>4, Moves

LEMMA LookUpMoves ==
  ASSUME TypeOK, NEW s \in Senders, LookUp(s)
  PROVE  /\ pass' \in [Senders -> Pass] /\ Others(s)
         /\ pass'[s].at \in {"idle", "build", "pending"}
         /\ pass'[s].at = "pending" =>
              /\ pass'[s].week = pass[s].week /\ pass'[s].issue = text[pass[s].week]
              /\ text[pass[s].week] # NoText
  <1>0. pass[s] \in Pass /\ text[pass[s].week] \in Texts \cup {NoText}
    BY DEF TypeOK, Pass
  <1>1. CASE Become(s, Idle)
    BY <1>1, Ends
  <1>2. CASE Become(s, [pass[s] EXCEPT !.at = "build"])
    <2>1. [pass[s] EXCEPT !.at = "build"] \in Pass
      BY <1>0 DEF Pass, Stage
    <2> QED
      BY <1>0, <1>2, <2>1, Moves DEF Pass
  <1>3. CASE /\ text[pass[s].week] # NoText
             /\ Become(s, [pass[s] EXCEPT !.at = "pending", !.issue = text[pass[s].week]])
    <2> DEFINE p == [pass[s] EXCEPT !.at = "pending", !.issue = text[pass[s].week]]
    <2>1. p \in Pass
      BY <1>0 DEF Pass, Stage
    <2>2. p.at = "pending" /\ p.week = pass[s].week /\ p.issue = text[pass[s].week]
      BY <1>0 DEF Pass
    <2> HIDE DEF p
    <2> QED
      BY <1>3, <2>1, <2>2, Moves DEF p
  <1> QED
    BY <1>1, <1>2, <1>3 DEF LookUp

LEMMA BuildMoves ==
  ASSUME TypeOK, NEW s \in Senders, Build(s)
  PROVE  /\ pass' \in [Senders -> Pass] /\ Others(s)
         /\ \/ pass'[s].at = "idle" /\ UNCHANGED text
            \/ /\ pass'[s].at = "readback" /\ pass'[s].week = pass[s].week
               /\ \E t \in Texts : StoreIssue(pass[s].week, t)
  <1>0. pass[s] \in Pass
    BY DEF TypeOK
  <1>1. CASE Become(s, Idle) /\ UNCHANGED text
    BY <1>1, Ends
  <1>2. ASSUME NEW t \in Texts, StoreIssue(pass[s].week, t),
               Become(s, [pass[s] EXCEPT !.at = "readback", !.issue = t])
        PROVE  /\ pass' \in [Senders -> Pass] /\ Others(s)
               /\ pass'[s].at = "readback" /\ pass'[s].week = pass[s].week
    <2>1. [pass[s] EXCEPT !.at = "readback", !.issue = t] \in Pass
      BY <1>0 DEF Pass, Stage
    <2> QED
      BY <1>0, <1>2, <2>1, Moves DEF Pass
  <1> QED
    BY <1>1, <1>2 DEF Build

LEMMA ReadBackMoves ==
  ASSUME TypeOK, NEW s \in Senders, ReadBack(s)
  PROVE  /\ pass' \in [Senders -> Pass] /\ Others(s)
         /\ pass'[s].at = "pending" /\ pass'[s].week = pass[s].week
         /\ pass'[s].issue = text[pass[s].week]
  <1>0. pass[s] \in Pass /\ text[pass[s].week] \in Texts \cup {NoText}
    BY DEF TypeOK, Pass
  <1>1. Become(s, [pass[s] EXCEPT !.at = "pending", !.issue = text[pass[s].week]])
    BY DEF ReadBack, Adopt
  <1>2. [pass[s] EXCEPT !.at = "pending", !.issue = text[pass[s].week]] \in Pass
    BY <1>0 DEF Pass, Stage
  <1> QED
    BY <1>0, <1>1, <1>2, Moves DEF Pass

LEMMA ReadPendingMoves ==
  ASSUME TypeOK, NEW s \in Senders, ReadPending(s)
  PROVE  /\ pass' \in [Senders -> Pass] /\ Others(s) /\ Keeps(s)
         /\ pass'[s].at = "claim"
         /\ IsPage(pass'[s].batch, Waiting(pass[s].week))
         /\ pass'[s].full = IsFull(pass'[s].batch)
  <1>0. pass[s] \in Pass
    BY DEF TypeOK
  <1>1. PICK B \in SUBSET Waiting(pass[s].week) :
          /\ IsPage(B, Waiting(pass[s].week))
          /\ Become(s, [pass[s] EXCEPT !.at = "claim", !.batch = B, !.full = IsFull(B)])
    BY DEF ReadPending
  <1>2. B \subseteq Readers /\ IsFull(B) \in BOOLEAN
    BY DEF TypeOK, Waiting, IsFull
  <1> DEFINE p == [pass[s] EXCEPT !.at = "claim", !.batch = B, !.full = IsFull(B)]
  <1>3. p \in Pass
    BY <1>0, <1>2 DEF Pass, Stage
  <1>4. /\ p.at = "claim" /\ p.week = pass[s].week /\ p.issue = pass[s].issue
        /\ p.batch = B /\ p.full = IsFull(B)
    BY <1>0 DEF Pass
  <1> HIDE DEF p
  <1> QED
    BY <1>1, <1>3, <1>4, Moves DEF Keeps, p

\* The claim that won, or the reader passed over.
Claims(s, r) ==
    /\ sends[pass[s].week][r] = "none"
    /\ sends' = [sends EXCEPT ![pass[s].week][r] = "sending"]
    /\ pass'[s].at = "send" /\ pass'[s].reader = r
PassesOver(s, r) ==
    /\ sends[pass[s].week][r] # "none" /\ UNCHANGED sends
    /\ pass'[s].at = "claim"

LEMMA ClaimNextMoves ==
  ASSUME TypeOK, NEW s \in Senders, ClaimNext(s)
  PROVE  /\ pass' \in [Senders -> Pass] /\ Others(s) /\ KeepsPage(s)
         /\ \E r \in Readers : /\ pass'[s].batch = pass[s].batch \ {r}
                               /\ Claims(s, r) \/ PassesOver(s, r)
  <1>0. pass[s] \in Pass /\ pass[s].at = "claim"
    BY DEF TypeOK, ClaimNext
  <1>1. PICK r \in pass[s].batch :
          \/ /\ Claimable(pass[s].week, r)
             /\ sends' = [sends EXCEPT ![pass[s].week][r] = "sending"]
             /\ Become(s, [pass[s] EXCEPT !.at = "send", !.reader = r,
                                          !.batch = pass[s].batch \ {r}])
          \/ /\ ~Claimable(pass[s].week, r)
             /\ Become(s, [pass[s] EXCEPT !.batch = pass[s].batch \ {r}])
             /\ UNCHANGED sends
    BY DEF ClaimNext
  <1>2. r \in Readers /\ pass[s].batch \ {r} \subseteq Readers
    BY <1>0 DEF Pass
  <1>3. CASE /\ Claimable(pass[s].week, r)
             /\ sends' = [sends EXCEPT ![pass[s].week][r] = "sending"]
             /\ Become(s, [pass[s] EXCEPT !.at = "send", !.reader = r,
                                          !.batch = pass[s].batch \ {r}])
    <2> DEFINE p == [pass[s] EXCEPT !.at = "send", !.reader = r, !.batch = pass[s].batch \ {r}]
    <2>1. p \in Pass
      BY <1>0, <1>2 DEF Pass, Stage
    <2>2. /\ p.at = "send" /\ p.reader = r /\ p.batch = pass[s].batch \ {r}
          /\ p.week = pass[s].week /\ p.issue = pass[s].issue /\ p.full = pass[s].full
      BY <1>0 DEF Pass
    <2> HIDE DEF p
    <2>3. pass' \in [Senders -> Pass] /\ Others(s) /\ pass'[s] = p
      BY <1>3, <2>1, Moves DEF p
    <2> QED
      BY <1>2, <1>3, <2>2, <2>3 DEF Keeps, KeepsPage, Claimable, Claims
  <1>4. CASE /\ ~Claimable(pass[s].week, r)
             /\ Become(s, [pass[s] EXCEPT !.batch = pass[s].batch \ {r}])
             /\ UNCHANGED sends
    <2> DEFINE p == [pass[s] EXCEPT !.batch = pass[s].batch \ {r}]
    <2>1. p \in Pass
      BY <1>0, <1>2 DEF Pass, Stage
    <2>2. /\ p.at = "claim" /\ p.batch = pass[s].batch \ {r}
          /\ p.week = pass[s].week /\ p.issue = pass[s].issue /\ p.full = pass[s].full
      BY <1>0 DEF Pass
    <2> HIDE DEF p
    <2>3. pass' \in [Senders -> Pass] /\ Others(s) /\ pass'[s] = p
      BY <1>4, <2>1, Moves DEF p
    <2> QED
      BY <1>2, <1>4, <2>2, <2>3 DEF Keeps, KeepsPage, Claimable, PassesOver
  <1> QED
    BY <1>1, <1>3, <1>4

LEMMA SendMoves ==
  ASSUME TypeOK, NEW s \in Senders, Send(s)
  PROVE  /\ pass' \in [Senders -> Pass] /\ Others(s) /\ KeepsPage(s)
         /\ pass'[s].batch = pass[s].batch
         /\ pass'[s].reader = pass[s].reader /\ pass'[s].at = "finish"
  <1>0. pass[s] \in Pass
    BY DEF TypeOK
  <1>1. PICK ok \in BOOLEAN : Become(s, [pass[s] EXCEPT !.at = "finish", !.ok = ok])
    BY DEF Send
  <1> DEFINE p == [pass[s] EXCEPT !.at = "finish", !.ok = ok]
  <1>2. p \in Pass
    BY <1>0 DEF Pass, Stage
  <1>3. /\ p.at = "finish" /\ p.week = pass[s].week /\ p.issue = pass[s].issue
        /\ p.full = pass[s].full /\ p.batch = pass[s].batch /\ p.reader = pass[s].reader
    BY <1>0 DEF Pass
  <1> HIDE DEF p
  <1> QED
    BY <1>1, <1>2, <1>3, Moves DEF Keeps, KeepsPage, p

LEMMA FinishSendMoves ==
  ASSUME TypeOK, NEW s \in Senders, FinishSend(s)
  PROVE  /\ pass' \in [Senders -> Pass] /\ Others(s) /\ KeepsPage(s)
         /\ pass'[s].batch = pass[s].batch /\ pass'[s].at = "claim"
  <1>0. pass[s] \in Pass
    BY DEF TypeOK
  <1>1. Become(s, [pass[s] EXCEPT !.at = "claim", !.reader = 0, !.ok = FALSE])
    BY DEF FinishSend
  <1>2. [pass[s] EXCEPT !.at = "claim", !.reader = 0, !.ok = FALSE] \in Pass
    BY <1>0 DEF Pass, Stage
  <1> QED
    BY <1>0, <1>1, <1>2, Moves DEF Pass, Keeps, KeepsPage

-----------------------------------------------------------------------------
\* A step that mails nothing and replaces no stored text keeps TextInv when it
\* leaves its own pass with the stored text in hand.
LEMMA TextKeeps ==
  ASSUME TypeOK, TextInv, NEW s \in Senders, Others(s), UNCHANGED told,
         \A w \in Weeks : text[w] # NoText => text'[w] = text[w],
         pass'[s].at \in {"readback", "pending", "claim", "send", "finish"} =>
            text'[pass'[s].week] # NoText,
         pass'[s].at \in {"pending", "claim", "send", "finish"} =>
            pass'[s].issue = text'[pass'[s].week]
  PROVE  TextInv'
  <1>1. \A t \in Senders : pass[t].week \in Weeks
    BY DEF TypeOK, Pass
  <1>2. \A w \in Weeks : /\ text'[w] = NoText => told'[w] = {}
                         /\ told'[w] \subseteq {text'[w]}
    BY DEF TextInv, OneTextPerWeek
  <1>3. ASSUME NEW t \in Senders
        PROVE  /\ pass'[t].at \in {"readback", "pending", "claim", "send", "finish"} =>
                     text'[pass'[t].week] # NoText
               /\ pass'[t].at \in {"pending", "claim", "send", "finish"} =>
                     pass'[t].issue = text'[pass'[t].week]
    <2>1. CASE t = s
      BY <2>1
    <2>2. CASE t # s
      BY <1>1, <2>2 DEF TextInv, Others
    <2> QED
      BY <2>1, <2>2
  <1> QED
    BY <1>2, <1>3 DEF TextInv, OneTextPerWeek

LEMMA TextStep == TypeOK /\ TextInv /\ [Next]_vars => TextInv'
  <1> SUFFICES ASSUME TypeOK, TextInv, [Next]_vars
               PROVE  TextInv'
    OBVIOUS
  <1>0. \A s \in Senders : pass[s] \in Pass /\ pass[s].week \in Weeks
    BY DEF TypeOK, Pass
  <1> USE DEF rows, world, history
  <1>1. ASSUME NEW s \in Senders, Begin(s) PROVE TextInv'
    BY <1>1, BeginMoves, TextKeeps DEF Begin
  <1>2. ASSUME NEW s \in Senders, LookUp(s) PROVE TextInv'
    BY <1>2, LookUpMoves, TextKeeps DEF LookUp
  <1>3. ASSUME NEW s \in Senders, Build(s) PROVE TextInv'
    <2>1. CASE pass'[s].at = "idle" /\ UNCHANGED text
      BY <1>3, <2>1, BuildMoves, TextKeeps DEF Build
    <2>2. ASSUME pass'[s].at = "readback", pass'[s].week = pass[s].week,
                 NEW t \in Texts, StoreIssue(pass[s].week, t)
          PROVE  TextInv'
      <3>1. /\ \A w \in Weeks : text[w] # NoText => text'[w] = text[w]
            /\ text'[pass'[s].week] # NoText
        BY <1>0, <2>2, ConstantsOK DEF StoreIssue, TypeOK
      <3> QED
        BY <1>3, <2>2, <3>1, BuildMoves, TextKeeps DEF Build
    <2> QED
      BY <1>3, <2>1, <2>2, BuildMoves
  <1>4. ASSUME NEW s \in Senders, ReadBack(s) PROVE TextInv'
    <2>1. text[pass[s].week] # NoText
      BY <1>4 DEF TextInv, ReadBack
    <2> QED
      BY <1>4, <2>1, ReadBackMoves, TextKeeps DEF ReadBack
  <1>5. ASSUME NEW s \in Senders, MailOff(s) PROVE TextInv'
    BY <1>5, Ends, TextKeeps DEF MailOff
  <1>6. ASSUME NEW s \in Senders, ReadPending(s) PROVE TextInv'
    <2>1. text[pass[s].week] # NoText /\ pass[s].issue = text[pass[s].week]
      BY <1>6 DEF TextInv, ReadPending
    <2> QED
      BY <1>6, <2>1, ReadPendingMoves, TextKeeps DEF ReadPending, Keeps
  <1>7. ASSUME NEW s \in Senders, ClaimNext(s) PROVE TextInv'
    <2>1. text[pass[s].week] # NoText /\ pass[s].issue = text[pass[s].week]
      BY <1>7 DEF TextInv, ClaimNext
    <2> QED
      BY <1>7, <2>1, ClaimNextMoves, TextKeeps DEF ClaimNext, Keeps, KeepsPage
  <1>8. ASSUME NEW s \in Senders, Send(s) PROVE TextInv'
    <2>1. text[pass[s].week] # NoText /\ pass[s].issue = text[pass[s].week]
      BY <1>8 DEF TextInv, Send
    <2>2. /\ \A w \in Weeks : w # pass[s].week => told'[w] = told[w]
          /\ told'[pass[s].week] \subseteq told[pass[s].week] \cup {text[pass[s].week]}
      BY <1>0, <1>8, <2>1 DEF Send, TypeOK
    <2>3. UNCHANGED text
      BY <1>8 DEF Send
    <2>4. \A w \in Weeks : /\ text'[w] = NoText => told'[w] = {}
                           /\ told'[w] \subseteq {text'[w]}
      BY <2>1, <2>2, <2>3 DEF TextInv, OneTextPerWeek
    <2>5. \A t \in Senders :
             /\ pass'[t].week = pass[t].week /\ pass'[t].issue = pass[t].issue
             /\ pass'[t].at = pass[t].at \/ (t = s /\ pass[s].at = "send")
      BY <1>8, SendMoves DEF Others, Keeps, KeepsPage, Send
    <2> QED
      BY <2>1, <2>3, <2>4, <2>5 DEF TextInv, OneTextPerWeek
  <1>9. ASSUME NEW s \in Senders, FinishSend(s) PROVE TextInv'
    <2>1. text[pass[s].week] # NoText /\ pass[s].issue = text[pass[s].week]
      BY <1>9 DEF TextInv, FinishSend
    <2> QED
      BY <1>9, <2>1, FinishSendMoves, TextKeeps DEF FinishSend, Keeps, KeepsPage
  <1>10. ASSUME NEW s \in Senders, CloseIssue(s) PROVE TextInv'
    BY <1>10, Ends, TextKeeps DEF CloseIssue
  <1>11. ASSUME NEW s \in Senders, Interrupt(s) PROVE TextInv'
    BY <1>11, Ends, TextKeeps DEF Interrupt
  <1>12. CASE UNCHANGED <<text, told, pass>>
    BY <1>12 DEF TextInv, OneTextPerWeek
  <1> QED
    BY <1>1, <1>2, <1>3, <1>4, <1>5, <1>6, <1>7, <1>8, <1>9, <1>10, <1>11, <1>12
       DEF Next, PassStep, SetSubscribed, TimePasses, vars

LEMMA TypeStep == TypeOK /\ TextInv /\ [Next]_vars => TypeOK'
  <1> SUFFICES ASSUME TypeOK, TextInv, [Next]_vars
               PROVE  TypeOK'
    OBVIOUS
  <1>0. \A s \in Senders : pass[s] \in Pass /\ pass[s].week \in Weeks
    BY DEF TypeOK, Pass
  <1> USE DEF rows, world, history
  <1>1. ASSUME NEW s \in Senders, Begin(s) PROVE TypeOK'
    BY <1>1, BeginMoves DEF Begin, TypeOK
  <1>2. ASSUME NEW s \in Senders, LookUp(s) PROVE TypeOK'
    BY <1>2, LookUpMoves DEF LookUp, TypeOK
  <1>3. ASSUME NEW s \in Senders, Build(s) PROVE TypeOK'
    <2>1. text' \in [Weeks -> Texts \cup {NoText}]
      BY <1>3, BuildMoves DEF TypeOK, StoreIssue
    <2> QED
      BY <1>3, <2>1, BuildMoves DEF Build, TypeOK
  <1>4. ASSUME NEW s \in Senders, ReadBack(s) PROVE TypeOK'
    BY <1>4, ReadBackMoves DEF ReadBack, TypeOK
  <1>5. ASSUME NEW s \in Senders, MailOff(s) PROVE TypeOK'
    <2>1. pass' \in [Senders -> Pass] /\ outages' \in Nat
      BY <1>5, Ends DEF MailOff, TypeOK
    <2> QED
      BY <1>5, <2>1 DEF MailOff, TypeOK
  <1>6. ASSUME NEW s \in Senders, ReadPending(s) PROVE TypeOK'
    BY <1>6, ReadPendingMoves DEF ReadPending, TypeOK
  <1>7. ASSUME NEW s \in Senders, ClaimNext(s) PROVE TypeOK'
    <2>1. PICK r \in Readers : Claims(s, r) \/ PassesOver(s, r)
      BY <1>7, ClaimNextMoves
    <2>2. sends' \in [Weeks -> [Readers -> Status]]
      <3>1. CASE sends' = sends
        BY <3>1 DEF TypeOK
      <3>2. CASE sends' = [sends EXCEPT ![pass[s].week][r] = "sending"]
        BY <3>2 DEF TypeOK, Status
      <3> QED
        BY <2>1, <3>1, <3>2 DEF Claims, PassesOver
    <2> HIDE <2>1
    <2> QED
      BY <1>7, <2>2, ClaimNextMoves DEF ClaimNext, TypeOK
  <1>8. ASSUME NEW s \in Senders, Send(s) PROVE TypeOK'
    <2>1. pass[s].issue = text[pass[s].week] /\ text[pass[s].week] # NoText
      BY <1>8 DEF Send, TextInv
    <2>2. pass[s].issue \in Texts
      BY <1>0, <2>1 DEF TypeOK
    <2> DEFINE w == pass[s].week
               r == pass[s].reader
    <2>3. PICK arrived \in BOOLEAN :
            /\ mailed' = [mailed EXCEPT ![w][r] = @ + (IF arrived THEN 1 ELSE 0)]
            /\ told' = [told EXCEPT ![w] = @ \cup (IF arrived THEN {pass[s].issue} ELSE {})]
      BY <1>8 DEF Send
    <2>4. mailed[w] \in [Readers -> Nat] /\ told[w] \in SUBSET Texts /\ w \in Weeks
      BY <1>0 DEF TypeOK
    <2>5. [mailed[w] EXCEPT ![r] = @ + (IF arrived THEN 1 ELSE 0)] \in [Readers -> Nat]
      <3>1. CASE r \in Readers
        <4>1. mailed[w][r] \in Nat
          BY <2>4, <3>1
        <4>2. mailed[w][r] + (IF arrived THEN 1 ELSE 0) \in Nat
          BY <4>1
        <4> QED
          BY <2>4, <4>2
      <3>2. CASE r \notin Readers
        BY <2>4, <3>2
      <3> QED
        BY <3>1, <3>2
    <2>6. told[w] \cup (IF arrived THEN {pass[s].issue} ELSE {}) \in SUBSET Texts
      BY <2>2, <2>4
    <2> HIDE DEF w, r
    <2>7. mailed' \in [Weeks -> [Readers -> Nat]]
      BY <2>3, <2>5 DEF TypeOK
    <2>8. told' \in [Weeks -> SUBSET Texts]
      BY <2>3, <2>6 DEF TypeOK
    <2> QED
      BY <1>8, <2>7, <2>8, SendMoves DEF Send, TypeOK
  <1>9. ASSUME NEW s \in Senders, FinishSend(s) PROVE TypeOK'
    <2>1. sends' \in [Weeks -> [Readers -> Status]]
      BY <1>9 DEF FinishSend, TypeOK, Outcome, Status
    <2>2. pass' \in [Senders -> Pass]
      BY <1>9, FinishSendMoves
    <2> QED
      BY <1>9, <2>1, <2>2 DEF FinishSend, TypeOK
  <1>10. ASSUME NEW s \in Senders, CloseIssue(s) PROVE TypeOK'
    <2>1. SentRows(pass[s].week) \in Nat
      BY ConstantsOK, FS_Subset, FS_CardinalityType DEF SentRows
    <2>2. sentCount' \in [Weeks -> Nat]
      BY <1>10, <2>1 DEF CloseIssue, TypeOK
    <2>3. (finished[pass[s].week] \/ ~pass[s].full) \in BOOLEAN
      OBVIOUS
    <2>4. finished' = [finished EXCEPT ![pass[s].week] = finished[pass[s].week] \/ ~pass[s].full]
      BY <1>10 DEF CloseIssue
    <2>5. finished' \in [Weeks -> BOOLEAN]
      BY <2>3, <2>4 DEF TypeOK
    <2>6. pass' \in [Senders -> Pass]
      BY <1>10, Ends DEF CloseIssue
    <2> QED
      BY <1>10, <2>2, <2>5, <2>6 DEF CloseIssue, TypeOK
  <1>11. ASSUME NEW s \in Senders, Interrupt(s) PROVE TypeOK'
    <2>1. pass' \in [Senders -> Pass] /\ outages' \in Nat
      BY <1>11, Ends DEF Interrupt, TypeOK
    <2> QED
      BY <1>11, <2>1 DEF Interrupt, TypeOK
  <1>12. ASSUME NEW r \in Readers, SetSubscribed(r) PROVE TypeOK'
    BY <1>12 DEF SetSubscribed, TypeOK
  <1>13. CASE TimePasses
    <2>1. clock' \in [week : Weeks, phase : Phase]
      BY <1>13 DEF TimePasses, TypeOK, Weeks, Phase
    <2> QED
      BY <1>13, <2>1 DEF TimePasses, TypeOK
  <1>14. CASE UNCHANGED vars
    BY <1>14 DEF vars, TypeOK
  <1> QED
    BY <1>1, <1>2, <1>3, <1>4, <1>5, <1>6, <1>7, <1>8, <1>9, <1>10, <1>11,
       <1>12, <1>13, <1>14 DEF Next, PassStep

\* Every variable of the digest stays in its range, whatever the senders,
\* readers, weeks, batch size and number of crashes: newsletter_sends holds only
\* the three statuses its check constraint allows, and what is mailed is a text.
THEOREM TypeCorrect == Spec => []TypeOK
  <1>1. Init => TypeOK /\ TextInv
    BY TypeTextInit
  <1>2. TypeOK /\ TextInv /\ [Next]_vars => (TypeOK /\ TextInv)'
    BY TypeStep, TextStep
  <1> QED
    BY <1>1, <1>2, PTL DEF Spec

\* Rule 1 of newsletter.js for any number of senders: whichever of them built
\* its issue first, every mail of a week carries the one text that was stored.
THEOREM OneText == Spec => []OneTextPerWeek
  <1>1. Init => TypeOK /\ TextInv
    BY TypeTextInit
  <1>2. TypeOK /\ TextInv /\ [Next]_vars => (TypeOK /\ TextInv)'
    BY TypeStep, TextStep
  <1>3. TextInv => OneTextPerWeek
    BY DEF TextInv
  <1> QED
    BY <1>1, <1>2, <1>3, PTL DEF Spec

-----------------------------------------------------------------------------
\* A step that touches neither the rows of newsletter_sends nor a mailbox, and
\* leaves its pass with no claim in hand, keeps the claims of the others.
LEMMA ClaimKeeps ==
  ASSUME ClaimInv, NEW s \in Senders, Others(s), UNCHANGED <<sends, mailed>>,
         pass'[s].at \notin {"send", "finish"}
  PROVE  ClaimInv'
  BY DEF ClaimInv, AtMostOneCopy, Others

LEMMA ClaimNextKeepsClaims ==
  ASSUME TypeOK, ClaimInv, NEW s \in Senders, ClaimNext(s)
  PROVE  ClaimInv'
  <1>0. \A t \in Senders : pass[t].week \in Weeks
    BY DEF TypeOK, Pass
  <1>1. /\ Others(s) /\ pass'[s].week = pass[s].week /\ UNCHANGED mailed
    BY ClaimNextMoves DEF KeepsPage, Keeps, ClaimNext, history
  <1>2. PICK r \in Readers : Claims(s, r) \/ PassesOver(s, r)
    BY ClaimNextMoves
  <1>3. CASE PassesOver(s, r)
    BY <1>1, <1>3, ClaimKeeps DEF PassesOver
  <1>4. CASE Claims(s, r)
    <2> DEFINE w == pass[s].week
    <2>1. /\ w \in Weeks /\ sends[w][r] = "none" /\ mailed[w][r] = 0
          /\ \A v \in Weeks, q \in Readers :
                sends'[v][q] = IF v = w /\ q = r THEN "sending" ELSE sends[v][q]
      BY <1>0, <1>2, <1>4 DEF Claims, ClaimInv, TypeOK
    <2>2. pass'[s].at = "send" /\ pass'[s].reader = r /\ pass'[s].week = w
      BY <1>1, <1>4 DEF Claims
    <2>3. \A t \in Senders : t # s =>
             /\ pass'[t] = pass[t]
             /\ pass[t].at \in {"send", "finish"} =>
                  /\ pass[t].reader \in Readers
                  /\ <<pass[t].week, pass[t].reader>> # <<w, r>>
      BY <1>1, <2>1 DEF Others, ClaimInv
    <2> HIDE DEF w
    <2> QED
      BY <1>0, <1>1, <1>2, <2>1, <2>2, <2>3 DEF ClaimInv, AtMostOneCopy
  <1> QED
    BY <1>2, <1>3, <1>4

LEMMA SendKeepsClaims ==
  ASSUME TypeOK, ClaimInv, NEW s \in Senders, Send(s)
  PROVE  ClaimInv'
  <1> DEFINE w == pass[s].week
             r == pass[s].reader
  <1>1. /\ w \in Weeks /\ r \in Readers /\ sends[w][r] # "none" /\ mailed[w][r] = 0
        /\ pass[s].at = "send"
    BY DEF TypeOK, Pass, Send, ClaimInv
  <1>2. /\ UNCHANGED sends
        /\ \A v \in Weeks, q \in Readers :
              <<v, q>> # <<w, r>> => mailed'[v][q] = mailed[v][q]
        /\ mailed'[w][r] <= 1
    <2>1. PICK arrived \in BOOLEAN :
            mailed' = [mailed EXCEPT ![w][r] = @ + (IF arrived THEN 1 ELSE 0)]
      BY DEF Send
    <2>2. mailed'[w][r] = mailed[w][r] + (IF arrived THEN 1 ELSE 0)
      BY <1>1, <2>1 DEF TypeOK
    <2>3. \A v \in Weeks, q \in Readers :
              <<v, q>> # <<w, r>> => mailed'[v][q] = mailed[v][q]
      BY <1>1, <2>1 DEF TypeOK
    <2> QED
      BY <1>1, <2>2, <2>3 DEF Send, rows
  <1>3. /\ Others(s) /\ pass'[s].at = "finish"
        /\ pass'[s].week = w /\ pass'[s].reader = r
    BY SendMoves DEF KeepsPage, Keeps
  <1>4. \A t \in Senders : t # s /\ pass[t].at = "send" =>
          <<pass[t].week, pass[t].reader>> # <<w, r>> /\ pass[t].reader \in Readers
    BY <1>1 DEF ClaimInv
  <1>5. \A t \in Senders : pass[t].week \in Weeks
    BY DEF TypeOK, Pass
  <1> HIDE DEF w, r
  <1> QED
    BY <1>1, <1>2, <1>3, <1>4, <1>5 DEF ClaimInv, AtMostOneCopy, Others

LEMMA FinishSendKeepsClaims ==
  ASSUME TypeOK, ClaimInv, NEW s \in Senders, FinishSend(s)
  PROVE  ClaimInv'
  <1>1. /\ Others(s) /\ pass'[s].at = "claim" /\ UNCHANGED mailed
    BY FinishSendMoves DEF FinishSend, history
  <1>2. \A v \in Weeks, q \in Readers :
          /\ sends[v][q] # "none" => sends'[v][q] # "none"
          /\ sends'[v][q] = "none" => sends[v][q] = "none"
    <2>1. sends' = [sends EXCEPT ![pass[s].week][pass[s].reader] = Outcome(pass[s].ok)]
      BY DEF FinishSend
    <2>2. Outcome(pass[s].ok) # "none"
      BY DEF Outcome
    <2>3. pass[s].week \in Weeks /\ pass[s].reader \in Readers
          /\ sends[pass[s].week][pass[s].reader] # "none"
      BY DEF TypeOK, Pass, ClaimInv, FinishSend
    <2> QED
      BY <2>1, <2>2, <2>3 DEF TypeOK
  <1>3. \A t \in Senders : pass[t].week \in Weeks
    BY DEF TypeOK, Pass
  <1> QED
    BY <1>1, <1>2, <1>3 DEF ClaimInv, AtMostOneCopy, Others

LEMMA ClaimStep == TypeOK /\ ClaimInv /\ [Next]_vars => ClaimInv'
  <1> SUFFICES ASSUME TypeOK, ClaimInv, [Next]_vars
               PROVE  ClaimInv'
    OBVIOUS
  <1> USE DEF rows, world, history
  <1>1. ASSUME NEW s \in Senders, Begin(s) PROVE ClaimInv'
    BY <1>1, BeginMoves, ClaimKeeps DEF Begin
  <1>2. ASSUME NEW s \in Senders, LookUp(s) PROVE ClaimInv'
    BY <1>2, LookUpMoves, ClaimKeeps DEF LookUp
  <1>3. ASSUME NEW s \in Senders, Build(s) PROVE ClaimInv'
    BY <1>3, BuildMoves, ClaimKeeps DEF Build
  <1>4. ASSUME NEW s \in Senders, ReadBack(s) PROVE ClaimInv'
    BY <1>4, ReadBackMoves, ClaimKeeps DEF ReadBack
  <1>5. ASSUME NEW s \in Senders, MailOff(s) PROVE ClaimInv'
    BY <1>5, Ends, ClaimKeeps DEF MailOff
  <1>6. ASSUME NEW s \in Senders, ReadPending(s) PROVE ClaimInv'
    BY <1>6, ReadPendingMoves, ClaimKeeps DEF ReadPending
  <1>7. ASSUME NEW s \in Senders, CloseIssue(s) PROVE ClaimInv'
    BY <1>7, Ends, ClaimKeeps DEF CloseIssue
  <1>8. ASSUME NEW s \in Senders, Interrupt(s) PROVE ClaimInv'
    BY <1>8, Ends, ClaimKeeps DEF Interrupt
  <1>9. CASE UNCHANGED <<sends, mailed, pass>>
    BY <1>9 DEF ClaimInv, AtMostOneCopy
  <1> QED
    BY <1>1, <1>2, <1>3, <1>4, <1>5, <1>6, <1>7, <1>8, <1>9, ClaimNextKeepsClaims,
       SendKeepsClaims, FinishSendKeepsClaims
       DEF Next, PassStep, SetSubscribed, TimePasses, vars

\* Rule 2 of newsletter.js: claiming before sending means that no reader is
\* mailed a week's digest twice, however many senders overlap and crash.
THEOREM NoSecondCopy == Spec => []AtMostOneCopy
  <1>1. Init => ClaimInv
    BY DEF Init, ClaimInv, AtMostOneCopy, Idle
  <1>2. ClaimInv => AtMostOneCopy
    BY DEF ClaimInv
  <1> QED
    BY <1>1, <1>2, TypeCorrect, ClaimStep, PTL DEF Spec

-----------------------------------------------------------------------------
\* Rows only ever leave "none", and the list of steady readers only shrinks.
AddressedStays ==
    /\ \A w \in Weeks, r \in Readers : sends[w][r] # "none" => sends'[w][r] # "none"
    /\ steady' \subseteq steady

\* A step that closes nothing keeps PageInv when its own pass accounts for
\* every steady reader or is not working through a page.
LEMMA PageKeeps ==
  ASSUME TypeOK, PageInv, NEW s \in Senders, Others(s), AddressedStays, UNCHANGED finished,
         pass'[s].at \in {"claim", "send", "finish"} /\ ~pass'[s].full =>
            \A r \in steady : sends'[pass'[s].week][r] # "none" \/ r \in pass'[s].batch
  PROVE  PageInv'
  <1>1. steady \subseteq Readers /\ \A t \in Senders : pass[t].week \in Weeks
    BY DEF TypeOK, Pass
  <1> QED
    BY <1>1 DEF PageInv, ClosedMeansAddressed, Others, AddressedStays

LEMMA PageStep == TypeOK /\ PageInv /\ [Next]_vars => PageInv'
  <1> SUFFICES ASSUME TypeOK, PageInv, [Next]_vars
               PROVE  PageInv'
    OBVIOUS
  <1>0. steady \subseteq Readers /\ \A s \in Senders : pass[s] \in Pass /\ pass[s].week \in Weeks
    BY DEF TypeOK, Pass
  <1> USE DEF rows, world, history
  <1>1. ASSUME NEW s \in Senders, Begin(s) PROVE PageInv'
    BY <1>1, BeginMoves, PageKeeps DEF Begin, AddressedStays
  <1>2. ASSUME NEW s \in Senders, LookUp(s) PROVE PageInv'
    BY <1>2, LookUpMoves, PageKeeps DEF LookUp, AddressedStays
  <1>3. ASSUME NEW s \in Senders, Build(s) PROVE PageInv'
    BY <1>3, BuildMoves, PageKeeps DEF Build, AddressedStays
  <1>4. ASSUME NEW s \in Senders, ReadBack(s) PROVE PageInv'
    BY <1>4, ReadBackMoves, PageKeeps DEF ReadBack, AddressedStays
  <1>5. ASSUME NEW s \in Senders, MailOff(s) PROVE PageInv'
    BY <1>5, Ends, PageKeeps DEF MailOff, AddressedStays
  <1>6. ASSUME NEW s \in Senders, ReadPending(s) PROVE PageInv'
    <2>1. ~pass'[s].full => pass'[s].batch = Waiting(pass[s].week)
      <3> DEFINE B == pass'[s].batch
                 W == Waiting(pass[s].week)
      <3>1. IsPage(B, W) /\ pass'[s].full = IsFull(B)
        BY <1>6, ReadPendingMoves
      <3> HIDE DEF B, W
      <3>2. ~IsFull(B) => B = W
        BY <3>1, ConstantsOK DEF IsPage, IsFull
      <3> QED
        BY <3>1, <3>2 DEF B, W
    <2>2. \A r \in steady : sends[pass[s].week][r] # "none" \/ r \in Waiting(pass[s].week)
      BY DEF Waiting, TypeOK
    <2> QED
      BY <1>6, <2>1, <2>2, ReadPendingMoves, PageKeeps DEF ReadPending, Keeps, AddressedStays
  <1>7. ASSUME NEW s \in Senders, ClaimNext(s) PROVE PageInv'
    <2>1. Others(s) /\ KeepsPage(s) /\ pass[s].at = "claim" /\ UNCHANGED <<steady, finished>>
      BY <1>7, ClaimNextMoves DEF ClaimNext
    <2>2. PICK r \in Readers : /\ pass'[s].batch = pass[s].batch \ {r}
                               /\ Claims(s, r) \/ PassesOver(s, r)
      BY <1>7, ClaimNextMoves
    <2>3. /\ \A v \in Weeks, q \in Readers : sends[v][q] # "none" => sends'[v][q] # "none"
          /\ sends'[pass[s].week][r] # "none"
      <3>1. CASE Claims(s, r)
        BY <1>0, <3>1 DEF Claims, TypeOK
      <3>2. CASE PassesOver(s, r)
        BY <3>2 DEF PassesOver
      <3> QED
        BY <2>2, <3>1, <3>2
    <2>4. ~pass'[s].full =>
             \A q \in steady : sends'[pass'[s].week][q] # "none" \/ q \in pass'[s].batch
      BY <1>0, <2>1, <2>2, <2>3 DEF PageInv, KeepsPage, Keeps
    <2> QED
      BY <2>1, <2>3, <2>4, PageKeeps DEF AddressedStays
  <1>8. ASSUME NEW s \in Senders, Send(s) PROVE PageInv'
    <2>1. /\ Others(s) /\ KeepsPage(s) /\ pass[s].at = "send"
          /\ UNCHANGED <<sends, steady, finished>> /\ pass'[s].batch = pass[s].batch
      BY <1>8, SendMoves DEF Send
    <2>2. ~pass'[s].full =>
             \A q \in steady : sends'[pass'[s].week][q] # "none" \/ q \in pass'[s].batch
      BY <2>1 DEF PageInv, KeepsPage, Keeps
    <2> QED
      BY <2>1, <2>2, PageKeeps DEF AddressedStays
  <1>9. ASSUME NEW s \in Senders, FinishSend(s) PROVE PageInv'
    <2>1. /\ Others(s) /\ KeepsPage(s) /\ pass[s].at = "finish"
          /\ UNCHANGED <<steady, finished>> /\ pass'[s].batch = pass[s].batch
      BY <1>9, FinishSendMoves DEF FinishSend
    <2>2. sends' = [sends EXCEPT ![pass[s].week][pass[s].reader] = Outcome(pass[s].ok)]
      BY <1>9 DEF FinishSend
    <2>3. Outcome(pass[s].ok) # "none"
      BY DEF Outcome
    <2>4. \A v \in Weeks, q \in Readers : sends[v][q] # "none" => sends'[v][q] # "none"
      BY <1>0, <2>2, <2>3 DEF TypeOK
    <2>5. ~pass'[s].full =>
             \A q \in steady : sends'[pass'[s].week][q] # "none" \/ q \in pass'[s].batch
      BY <1>0, <2>1, <2>4 DEF PageInv, KeepsPage, Keeps
    <2> QED
      BY <2>1, <2>4, <2>5, PageKeeps DEF AddressedStays
  <1>10. ASSUME NEW s \in Senders, CloseIssue(s) PROVE PageInv'
    <2>1. /\ Others(s) /\ pass'[s].at = "idle" /\ UNCHANGED <<sends, steady>>
      BY <1>10, Ends DEF CloseIssue
    <2> DEFINE closing == finished[pass[s].week] \/ ~pass[s].full
    <2>1a. finished' = [finished EXCEPT ![pass[s].week] = closing]
      BY <1>10 DEF CloseIssue
    <2> HIDE DEF closing
    <2>1b. \A w \in Weeks : finished'[w] = IF w = pass[s].week THEN closing ELSE finished[w]
      BY <1>0, <2>1a DEF TypeOK
    <2>2. \A w \in Weeks : finished'[w] =>
             finished[w] \/ (w = pass[s].week /\ ~pass[s].full)
      BY <2>1b DEF closing
    <2>3. ~pass[s].full => \A r \in steady : sends[pass[s].week][r] # "none"
      BY <1>10 DEF CloseIssue, PageInv
    <2> QED
      BY <2>1, <2>2, <2>3 DEF PageInv, ClosedMeansAddressed, Others
  <1>11. ASSUME NEW s \in Senders, Interrupt(s) PROVE PageInv'
    BY <1>11, Ends, PageKeeps DEF Interrupt, AddressedStays
  <1>12. CASE UNCHANGED <<sends, finished, pass>> /\ steady' \subseteq steady
    BY <1>12 DEF PageInv, ClosedMeansAddressed
  <1> QED
    BY <1>1, <1>2, <1>3, <1>4, <1>5, <1>6, <1>7, <1>8, <1>9, <1>10, <1>11, <1>12
       DEF Next, PassStep, SetSubscribed, TimePasses, vars

\* A week is closed only when everybody who never left the list has a row of
\* their own for it, although the page a pass works through may be stale.
THEOREM NobodySkipped == Spec => []ClosedMeansAddressed
  <1>1. Init => PageInv
    BY DEF Init, PageInv, ClosedMeansAddressed, Idle
  <1>2. PageInv => ClosedMeansAddressed
    BY DEF PageInv
  <1> QED
    BY <1>1, <1>2, TypeCorrect, PageStep, PTL DEF Spec

-----------------------------------------------------------------------------
\* What ClosedCountIsExact rests on.  closeIssue is the only step that counts,
\* so a closed week's count is exact while no pass is between its page and its
\* own closeIssue; and a sender that is alone never works on a closed week.
Exact(w) == sentCount[w] = Cardinality({r \in Readers : sends[w][r] = "sent"})
Working(p) == p.at \in {"claim", "send", "finish"}
PastLookUp(p) == p.at \in {"build", "readback", "pending"} \/ Working(p)
AtWork(w) == \E s \in Senders : Working(pass[s]) /\ pass[s].week = w

CountInv ==
    /\ \A w \in Weeks : finished[w] => text[w] # NoText
    /\ Alone \/ outages = 0 => \A w \in Weeks : finished[w] /\ ~AtWork(w) => Exact(w)
    /\ Alone => \A s \in Senders : PastLookUp(pass[s]) => ~finished[pass[s].week]

\* A text that was stored stays.
TextStays == \A w \in Weeks : text[w] # NoText => text'[w] # NoText

\* A step that changes no row keeps CountInv when its pass stays at its work and
\* starts on no closed week.
LEMMA CountKeeps ==
  ASSUME TypeOK, CountInv, NEW s \in Senders, Others(s), TextStays,
         UNCHANGED <<sends, finished, sentCount, outages>>,
         Working(pass[s]) => Working(pass'[s]) /\ pass'[s].week = pass[s].week,
         Alone /\ PastLookUp(pass'[s]) => ~finished[pass'[s].week]
  PROVE  CountInv'
  <1>1. \A w \in Weeks : AtWork(w) => AtWork(w)'
    BY DEF AtWork, Others
  <1>2. \A w \in Weeks : finished'[w] => text'[w] # NoText
    BY DEF CountInv, TextStays
  <1>3. Alone \/ outages = 0 => \A w \in Weeks : finished'[w] /\ ~AtWork(w)' => Exact(w)'
    BY <1>1 DEF CountInv, Exact
  <1>4. Alone => \A t \in Senders : PastLookUp(pass'[t]) => ~finished'[pass'[t].week]
    BY DEF CountInv, Others
  <1> QED
    BY <1>2, <1>3, <1>4 DEF CountInv

\* A pass cut short: only a sender that is alone keeps a right count then.
LEMMA CountSurvives ==
  ASSUME TypeOK, CountInv, NEW s \in Senders, MailOff(s) \/ Interrupt(s)
  PROVE  CountInv'
  <1>1. outages' # 0
    BY DEF TypeOK, MailOff, Interrupt
  <1>2. /\ UNCHANGED <<text, finished, sentCount, sends>>
        /\ Others(s) /\ pass'[s].at = "idle" /\ pass[s].week \in Weeks
    BY Ends DEF MailOff, Interrupt, rows, TypeOK, Pass
  <1>3. Alone => \A w \in Weeks : finished[w] => ~AtWork(w)
    BY DEF CountInv, AtWork, PastLookUp
  <1>4. Alone => \A w \in Weeks : finished'[w] => Exact(w)'
    BY <1>2, <1>3 DEF CountInv, Exact
  <1>5. Alone => \A t \in Senders : PastLookUp(pass'[t]) => ~finished'[pass'[t].week]
    BY <1>2 DEF PastLookUp, Working, Alone
  <1> QED
    BY <1>1, <1>2, <1>4, <1>5 DEF CountInv

LEMMA CountStep == TypeOK /\ TextInv /\ CountInv /\ [Next]_vars => CountInv'
  <1> SUFFICES ASSUME TypeOK, TextInv, CountInv, [Next]_vars
               PROVE  CountInv'
    OBVIOUS
  <1>0. \A s \in Senders : pass[s] \in Pass /\ pass[s].week \in Weeks
    BY DEF TypeOK, Pass
  <1> USE DEF rows, world, history
  <1>1. ASSUME NEW s \in Senders, Begin(s) PROVE CountInv'
    BY <1>1, BeginMoves, CountKeeps DEF Begin, TextStays, Working, PastLookUp
  <1>2. ASSUME NEW s \in Senders, LookUp(s) PROVE CountInv'
    <2>1. /\ Others(s) /\ pass[s].at = "look" /\ UNCHANGED <<text, sends, finished, sentCount, outages>>
      BY <1>2, LookUpMoves DEF LookUp
    <2>2. pass'[s].at \in {"build", "pending"} =>
             pass'[s].week = pass[s].week /\ ~finished[pass[s].week]
      <3>1. CASE text[pass[s].week] = NoText /\ Become(s, [pass[s] EXCEPT !.at = "build"])
        <4>1. [pass[s] EXCEPT !.at = "build"] \in Pass
          BY <1>0 DEF Pass, Stage
        <4>2. pass'[s].week = pass[s].week
          BY <1>0, <3>1, <4>1, Moves DEF Pass
        <4> QED
          BY <1>0, <3>1, <4>2 DEF CountInv
      <3>2. CASE ~finished[pass[s].week]
        <4>1. pass'[s].at = "build" => text[pass[s].week] = NoText /\ Become(s, [pass[s] EXCEPT !.at = "build"])
          <5>1. CASE Become(s, Idle)
            BY <5>1, Ends
          <5>2. CASE Become(s, [pass[s] EXCEPT !.at = "pending", !.issue = text[pass[s].week]])
            BY <5>2, <1>0 DEF TypeOK, Become, Pass
          <5> QED
            BY <1>2, <5>1, <5>2 DEF LookUp
        <4> QED
          BY <3>1, <3>2, <4>1, <1>2, LookUpMoves
      <3>3. CASE Become(s, Idle)
        BY <3>3, Ends
      <3> QED
        BY <1>2, <3>1, <3>2, <3>3 DEF LookUp
    <2>3. pass'[s].at \in {"idle", "build", "pending"}
      BY <1>2, LookUpMoves
    <2> QED
      BY <2>1, <2>2, <2>3, CountKeeps DEF TextStays, Working, PastLookUp
  <1>3. ASSUME NEW s \in Senders, Build(s) PROVE CountInv'
    <2>1. Others(s) /\ pass[s].at = "build" /\ UNCHANGED <<sends, finished, sentCount, outages>>
      BY <1>3, BuildMoves DEF Build
    <2>2. TextStays
      BY <1>0, <1>3, BuildMoves, ConstantsOK DEF TextStays, StoreIssue, TypeOK
    <2>3. Alone /\ PastLookUp(pass'[s]) => ~finished[pass'[s].week]
      BY <1>3, <2>1, BuildMoves DEF CountInv, PastLookUp, Working
    <2> QED
      BY <2>1, <2>2, <2>3, CountKeeps DEF Working
  <1>4. ASSUME NEW s \in Senders, ReadBack(s) PROVE CountInv'
    BY <1>4, ReadBackMoves, CountKeeps DEF ReadBack, TextStays, Working, PastLookUp, CountInv
  <1>5. ASSUME NEW s \in Senders, MailOff(s) \/ Interrupt(s) PROVE CountInv'
    BY <1>5, CountSurvives
  <1>6. ASSUME NEW s \in Senders, ReadPending(s) PROVE CountInv'
    BY <1>6, ReadPendingMoves, CountKeeps
       DEF ReadPending, Keeps, TextStays, Working, PastLookUp, CountInv
  <1>7. ASSUME NEW s \in Senders, Send(s) PROVE CountInv'
    BY <1>7, SendMoves, CountKeeps
       DEF Send, Keeps, KeepsPage, TextStays, Working, PastLookUp, CountInv
  <1>8. ASSUME NEW s \in Senders, ClaimNext(s) \/ FinishSend(s) PROVE CountInv'
    <2>1. /\ Others(s) /\ pass'[s].week = pass[s].week /\ UNCHANGED <<text, finished, sentCount, outages>>
          /\ Working(pass[s]) /\ Working(pass'[s])
      <3>1. CASE ClaimNext(s)
        BY <3>1, ClaimNextMoves
           DEF ClaimNext, Keeps, KeepsPage, Working, Claims, PassesOver
      <3>2. CASE FinishSend(s)
        BY <3>2, FinishSendMoves DEF FinishSend, Keeps, KeepsPage, Working
      <3> QED
        BY <1>8, <3>1, <3>2
    <2>2. \A w \in Weeks : w # pass[s].week => sends'[w] = sends[w]
      <3>1. CASE ClaimNext(s)
        <4>1. PICK r \in Readers : Claims(s, r) \/ PassesOver(s, r)
          BY <3>1, ClaimNextMoves
        <4> QED
          BY <1>0, <4>1 DEF Claims, PassesOver, TypeOK
      <3>2. CASE FinishSend(s)
        BY <1>0, <3>2 DEF FinishSend, TypeOK
      <3> QED
        BY <1>8, <3>1, <3>2
    <2>3. \A w \in Weeks : (AtWork(w) <=> AtWork(w)') /\ AtWork(pass[s].week)
      BY <2>1 DEF AtWork, Others
    <2>4. Alone \/ outages = 0 => \A w \in Weeks : finished'[w] /\ ~AtWork(w)' => Exact(w)'
      BY <2>1, <2>2, <2>3 DEF CountInv, Exact
    <2>5. Alone => \A t \in Senders : PastLookUp(pass'[t]) => ~finished'[pass'[t].week]
      BY <2>1 DEF CountInv, PastLookUp, Others
    <2> QED
      BY <2>1, <2>4, <2>5 DEF CountInv
  <1>9. ASSUME NEW s \in Senders, CloseIssue(s) PROVE CountInv'
    <2> DEFINE v == pass[s].week
    <2>1. /\ Others(s) /\ pass'[s].at = "idle" /\ UNCHANGED <<text, sends, outages>> /\ v \in Weeks
          /\ Working(pass[s])
      BY <1>0, <1>9, Ends DEF CloseIssue, Working
    <2>2. /\ sentCount' = [sentCount EXCEPT ![v] = SentRows(v)]
          /\ \A w \in Weeks : w # v => finished'[w] = finished[w]
      BY <1>9 DEF CloseIssue, TypeOK
    <2>3. text[v] # NoText
      BY <2>1 DEF TextInv, Working
    <2>4. \A w \in Weeks : w = v => Exact(w)'
      BY <2>1, <2>2 DEF Exact, SentRows, TypeOK
    <2>5. \A w \in Weeks : w # v => sentCount'[w] = sentCount[w] /\ (AtWork(w) <=> AtWork(w)')
      BY <2>1, <2>2 DEF TypeOK, AtWork, Others, Working
    <2>6. Alone \/ outages = 0 => \A w \in Weeks : finished'[w] /\ ~AtWork(w)' => Exact(w)'
      BY <2>1, <2>2, <2>4, <2>5 DEF CountInv, Exact
    <2>7. Alone => \A t \in Senders : ~PastLookUp(pass'[t])
      BY <2>1 DEF PastLookUp, Working, Alone
    <2> HIDE DEF v
    <2> QED
      BY <2>1, <2>2, <2>3, <2>6, <2>7 DEF CountInv
  <1>10. CASE UNCHANGED <<rows, pass, outages>>
    BY <1>10 DEF CountInv, Exact, AtWork
  <1> QED
    BY <1>1, <1>2, <1>3, <1>4, <1>5, <1>6, <1>7, <1>8, <1>9, <1>10
       DEF Next, PassStep, SetSubscribed, TimePasses, vars

\* The sent_count the site shows is the number of readers a closed week's digest
\* was sent to, once nobody is at work on it: for one sender however often its
\* passes are cut short, and for any number of senders until one is.  (Two
\* senders and a crash between finishSend and closeIssue leave it one short.)
THEOREM ClosedCount == Spec => []ClosedCountIsExact
  <1>1. Init => TypeOK /\ TextInv /\ CountInv
    BY TypeTextInit DEF Init, CountInv, Idle, PastLookUp, Working
  <1>2. TypeOK /\ TextInv /\ CountInv /\ [Next]_vars => (TypeOK /\ TextInv /\ CountInv)'
    BY TypeStep, TextStep, CountStep
  <1>3. CountInv => ClosedCountIsExact
    BY DEF CountInv, ClosedCountIsExact, Quiet, AtWork, Working, Exact
  <1> QED
    BY <1>1, <1>2, <1>3, PTL DEF Spec
=============================================================================
