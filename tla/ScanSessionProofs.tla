------------------------- MODULE ScanSessionProofs -------------------------
(***************************************************************************)
(* Theorems about ScanSession, for any printings, reads and grades and     *)
(* however many frames, presses and starts there are.                      *)
(***************************************************************************)
EXTENDS ScanSession, FoldFacts, SequenceTheorems, TLAPS

-----------------------------------------------------------------------------
(* The camera.                                                             *)

\* LightOut says nothing of the attempts that have yet to answer.  No two are
\* of one run; the live one is an attempt the page is waiting for, and until it
\* answers nothing is lit.
Attempts ==
    /\ run \in Nat
    /\ \A o \in opens : o \in [run : Nat, at : {"index", "camera", "playing"}] /\ o.run <= run
    /\ \A o, p \in opens : o.run = p.run => o = p
    /\ \A o \in opens : o.run = run => camera = "opening" /\ page = "scan"
    /\ \A o \in opens : o.at = "playing" => o.run = run
    /\ \A o \in opens : o.run = run /\ o.at # "playing" => lit = {}

LEMMA CameraInit == Init => Attempts /\ LightOut
  BY DEF Init, Attempts, LightOut

LEMMA CameraStill ==
    ASSUME Attempts, LightOut, UNCHANGED <<page, cameraVars>>
    PROVE  (Attempts /\ LightOut)'
  BY DEF Attempts, LightOut, cameraVars

LEMMA CameraStops ==
    ASSUME Attempts, LightOut, StopCamera
    PROVE  (Attempts /\ LightOut)'
  BY DEF Attempts, LightOut, StopCamera

LEMMA CameraLoads ==
    ASSUME Attempts, LightOut, Loads
    PROVE  (Attempts /\ LightOut)'
  <1>1. CASE Fetched
    BY <1>1 DEF Attempts, LightOut, Fetched
  <1>2. CASE FetchFails
    <2>1. CASE \E o \in WaitingStarts : o.run = run
      BY <1>2, <2>1 DEF Attempts, LightOut, FetchFails, WaitingStarts
    <2>2. CASE ~ \E o \in WaitingStarts : o.run = run
      BY <1>2, <2>2 DEF Attempts, LightOut, FetchFails, WaitingStarts
    <2> QED BY <2>1, <2>2
  <1> QED BY <1>1, <1>2 DEF Loads

LEMMA CameraMoves ==
    ASSUME Attempts, LightOut, Cameras
    PROVE  (Attempts /\ LightOut)'
  <1>1. CASE Start
    BY <1>1 DEF Attempts, LightOut, Start
  <1>2. CASE Stop
    BY <1>2, CameraStops DEF Stop
  <1>3. ASSUME NEW o \in opens, Opened(o) PROVE (Attempts /\ LightOut)'
    <2>1. CASE Live(o)
      BY <1>3, <2>1 DEF Attempts, LightOut, Opened, Live, takeVars
    <2>2. CASE ~Live(o)
      BY <1>3, <2>2 DEF Attempts, LightOut, Opened, Live
    <2> QED BY <2>1, <2>2
  <1>4. ASSUME NEW o \in opens, Plays(o) PROVE (Attempts /\ LightOut)'
    BY <1>4 DEF Attempts, LightOut, Plays
  <1>5. ASSUME NEW o \in opens, OpenFails(o) PROVE (Attempts /\ LightOut)'
    BY <1>5 DEF Attempts, LightOut, OpenFails
  <1> QED BY <1>1, <1>2, <1>3, <1>4, <1>5 DEF Cameras

LEMMA CameraStep ==
    ASSUME Attempts, LightOut, [Next]_vars
    PROVE  (Attempts /\ LightOut)'
  <1>1. CASE Loads
    BY <1>1, CameraLoads
  <1>2. CASE Database
    BY <1>2, CameraStill DEF Database, Recalled, Unread, Written, Unwritten, Forgotten, NotForgotten,
                             GradeRecalled, GradeUnread, GradeWritten
  <1>3. CASE Cameras
    BY <1>3, CameraMoves
  <1>4. CASE Answers
    BY <1>4, CameraStill DEF Answers, ReadsNothing, ReadsCard
  <1>5. CASE Presses
    <2>1. CASE Regrade \/ Take \/ (\E p \in Printings : Pick(p)) \/ Agree \/ Fewer \/ More
      BY <2>1, CameraStill DEF Regrade, Take, Pick, Agree, Fewer, More
    <2>2. CASE Edit \/ Join \/ Away \/ Keep
      BY <2>2, CameraStill DEF Edit, Join, Away, Keep, Moved
    <2>3. CASE ToReview
      <3>1. StopCamera /\ page' = "review" /\ camera' = "off"
        BY <2>3 DEF ToReview, StopCamera
      <3> QED BY <3>1 DEF Attempts, LightOut, StopCamera
    <2>4. CASE ToScan
      BY <2>4 DEF ToScan, Attempts, LightOut, cameraVars
    <2> QED BY <1>5, <2>1, <2>2, <2>3, <2>4 DEF Presses
  <1>6. CASE Keeps \/ NewCatalog
    BY <1>6, CameraStill DEF Keeps, Lands, Finds, Begins, Refuses, NewCatalog
  <1>7. CASE Dies
    BY <1>7 DEF Dies, Blank, Attempts, LightOut
  <1>8. CASE Reopens
    BY <1>8 DEF Reopens, Attempts, LightOut, cameraVars
  <1>9. CASE UNCHANGED vars
    BY <1>9, CameraStill DEF vars
  <1> QED BY <1>1, <1>2, <1>3, <1>4, <1>5, <1>6, <1>7, <1>8, <1>9 DEF Next

\* Whatever the person cancels, leaves or asks for again, and in whatever order
\* the cameras come, none is left running that nothing holds.
THEOREM AlwaysLightOut == Spec => []LightOut
  BY CameraInit, CameraStep, PTL DEF Spec

-----------------------------------------------------------------------------
(* The queue of the database.                                              *)

IsQueue(q) == \E S : q \in Seq(S)

LEMMA Joining ==
    ASSUME NEW q, IsQueue(q), NEW e
    PROVE  /\ IsQueue(Append(q, e))
           /\ Len(q) \in Nat /\ DOMAIN q = 1 .. Len(q)
           /\ DOMAIN Append(q, e) = 1 .. Len(q) + 1
           /\ \A i \in 1 .. Len(q) : Append(q, e)[i] = q[i]
           /\ Append(q, e)[Len(q) + 1] = e
  <1>1. PICK S : q \in Seq(S)
    BY DEF IsQueue
  <1> DEFINE T == S \cup {e}
  <1>2. q \in Seq(T)
    BY <1>1
  <1>3. Append(q, e) \in Seq(T) /\ Len(Append(q, e)) = Len(q) + 1
    BY <1>2, AppendProperties
  <1> QED BY <1>2, <1>3, AppendProperties DEF IsQueue

LEMMA Leaving ==
    ASSUME NEW q, IsQueue(q), q # <<>>
    PROVE  /\ IsQueue(Tail(q))
           /\ Len(q) \in Nat \ {0} /\ DOMAIN q = 1 .. Len(q)
           /\ DOMAIN Tail(q) = 1 .. Len(q) - 1
           /\ \A i \in 1 .. Len(q) - 1 : Tail(q)[i] = q[i + 1]
           /\ Head(q) = q[1]
  <1>1. PICK S : q \in Seq(S)
    BY DEF IsQueue
  <1>2. Tail(q) \in Seq(S) /\ Len(Tail(q)) = Len(q) - 1
    BY <1>1, HeadTailProperties
  <1> QED BY <1>1, <1>2, HeadTailProperties DEF IsQueue

LEMMA Mounted ==
    /\ IsQueue(Mounting) /\ DOMAIN Mounting = 1 .. 2
    /\ Mounting[1].do = "recall" /\ Mounting[2].do = "recallGrade"
  <1> DEFINE S == {[do |-> "recall"], [do |-> "recallGrade"]}
  <1>1. Mounting \in Seq(S)
    BY DEF Mounting
  <1>2. Len(Mounting) = 2 /\ Mounting[1] = [do |-> "recall"] /\ Mounting[2] = [do |-> "recallGrade"]
    BY DEF Mounting
  <1>3. IsQueue(Mounting) /\ DOMAIN Mounting = 1 .. 2
    BY <1>1, <1>2 DEF IsQueue
  <1> QED BY <1>2, <1>3

-----------------------------------------------------------------------------
(* The grade.                                                              *)

\* PickWins speaks of a queue with nothing of the grade in it.  While it holds
\* such writes the last of them is the grade shown, and a read still to come
\* finds no grade of an older version to write across behind it.
Said(q) ==
    /\ IsQueue(q)
    /\ \A i \in DOMAIN q : q[i].do = "keepGrade" => q[i].grade \in Grades
    /\ graded /\ (\E i \in DOMAIN q : q[i].do = "recallGrade") => settings # Unset \/ legacy = Unset
    /\ graded /\ ~untidy =>
          /\ \A i \in DOMAIN q :
                q[i].do = "keepGrade" /\ (\A j \in DOMAIN q : j > i => q[j].do # "keepGrade")
                => q[i].grade = grade
          /\ (\A i \in DOMAIN q : q[i].do # "keepGrade") => settings = grade

Words ==
    /\ Said(txns)
    /\ grade \in Grades /\ settings \in Grades \cup {Unset} /\ legacy \in Grades \cup {Unset}
    /\ Open \/ ~graded

LEMMA SaidMore ==
    ASSUME NEW q, Said(q), NEW e, e.do \notin {"keepGrade", "recallGrade"}
    PROVE  Said(Append(q, e))
  <1> DEFINE r == Append(q, e)
  <1>1. /\ IsQueue(r) /\ Len(q) \in Nat /\ DOMAIN q = 1 .. Len(q) /\ DOMAIN r = 1 .. Len(q) + 1
        /\ \A i \in 1 .. Len(q) : r[i] = q[i]
        /\ r[Len(q) + 1] = e
    BY Joining DEF Said
  <1> HIDE DEF r
  <1>2. \A i \in DOMAIN r : r[i].do \in {"keepGrade", "recallGrade"} => i \in DOMAIN q /\ r[i] = q[i]
    BY <1>1
  <1>3. \A i \in DOMAIN q : i \in DOMAIN r /\ r[i] = q[i]
    BY <1>1
  <1>4. Said(r)
    BY <1>1, <1>2, <1>3 DEF Said
  <1> QED BY <1>4 DEF r

LEMMA SaidLess ==
    ASSUME NEW q, Said(q), q # <<>>, Head(q).do # "keepGrade"
    PROVE  Said(Tail(q))
  <1> DEFINE r == Tail(q)
  <1>1. /\ IsQueue(r) /\ Len(q) \in Nat \ {0} /\ DOMAIN q = 1 .. Len(q) /\ DOMAIN r = 1 .. Len(q) - 1
        /\ \A i \in 1 .. Len(q) - 1 : r[i] = q[i + 1]
        /\ Head(q) = q[1]
    BY Leaving DEF Said
  <1> HIDE DEF r
  <1>2. \A i \in DOMAIN r : i + 1 \in DOMAIN q /\ r[i] = q[i + 1]
    BY <1>1
  <1>3. \A i \in DOMAIN q : i = 1 \/ (i - 1 \in DOMAIN r /\ r[i - 1] = q[i])
    BY <1>1
  <1>4. \A i \in DOMAIN q : q[i].do = "keepGrade" => i - 1 \in DOMAIN r /\ r[i - 1] = q[i]
    BY <1>1, <1>3
  <1>5. \A i \in DOMAIN r :
           (\A j \in DOMAIN r : j > i => r[j].do # "keepGrade")
           => \A j \in DOMAIN q : j > i + 1 => q[j].do # "keepGrade"
    BY <1>1, <1>4
  <1>6. (\A i \in DOMAIN r : r[i].do # "keepGrade") => \A i \in DOMAIN q : q[i].do # "keepGrade"
    BY <1>4
  <1>7. Said(r)
    BY <1>1, <1>2, <1>5, <1>6 DEF Said
  <1> QED BY <1>7 DEF r

LEMMA WordsKept ==
    ASSUME Words, Said(txns'), UNCHANGED <<gradeVars, settings>>, legacy' \in {legacy, Unset},
           untidy => untidy', Open' \/ ~graded'
    PROVE  Words'
  BY DEF Words, Said, gradeVars

LEMMA WordsChange ==
    ASSUME Words, NEW next, Change(next) \/ Clear \/ UNCHANGED txns,
           UNCHANGED <<gradeVars, settings, legacy, untidy>>, Open' \/ ~graded'
    PROVE  Words'
  <1>1. Said(txns')
    BY SaidMore DEF Words, Change, Clear
  <1> QED BY <1>1, WordsKept

LEMMA WordsPop ==
    ASSUME Words, txns # <<>>, Ask.do # "keepGrade"
    PROVE  Said(Tail(txns))
  BY SaidLess DEF Words, Ask

\* What is left of a queue is typed, whatever went.
LEMMA WordsLess ==
    ASSUME Words, txns # <<>>, Ask.do = "keepGrade", txns' = Tail(txns), untidy',
           UNCHANGED <<gradeVars, settings, legacy, page>>
    PROVE  Words'
  <1>1. /\ IsQueue(txns') /\ DOMAIN txns' = 1 .. Len(txns) - 1 /\ DOMAIN txns = 1 .. Len(txns)
        /\ \A i \in 1 .. Len(txns) - 1 : txns'[i] = txns[i + 1]
        /\ Len(txns) \in Nat \ {0}
    BY Leaving DEF Words, Said
  <1>2. \A i \in DOMAIN txns' : i + 1 \in DOMAIN txns /\ txns'[i] = txns[i + 1]
    BY <1>1
  <1> QED BY <1>1, <1>2 DEF Words, Said, gradeVars, Open

LEMMA WordsInit == Init => Words
  <1> SUFFICES ASSUME Init PROVE Words
    OBVIOUS
  <1>1. txns = Mounting /\ ~graded /\ Open
    BY DEF Init, Open
  <1>2. \A i \in DOMAIN txns : txns[i].do # "keepGrade"
    BY <1>1, Mounted
  <1>3. Said(txns)
    BY <1>1, <1>2, Mounted DEF Said
  <1> QED BY <1>1, <1>3, GradeAssumption DEF Words, Init

LEMMA WordsDatabase ==
    ASSUME Words, Database
    PROVE  Words'
  <1>1. Open /\ txns # <<>>
    BY DEF Database, Recalled, Unread, Written, Unwritten, Forgotten, NotForgotten,
           GradeRecalled, GradeUnread, GradeWritten
  <1>2. CASE Recalled
    <2>1. Said(Tail(txns))
      BY <1>1, <1>2, WordsPop DEF Recalled
    <2>2. Said(txns')
      BY <1>2, <2>1, SaidMore DEF Recalled
    <2> QED BY <1>1, <1>2, <2>2, WordsKept DEF Recalled, ownerVars, Open
  <1>3. CASE Unread \/ Written \/ Unwritten \/ Forgotten \/ NotForgotten
    <2>1. Said(txns')
      BY <1>1, <1>3, WordsPop DEF Unread, Written, Unwritten, Forgotten, NotForgotten
    <2>2. UNCHANGED <<gradeVars, settings>> /\ legacy' \in {legacy, Unset} /\ (untidy => untidy') /\ Open'
      BY <1>1, <1>3 DEF Unread, Written, Unwritten, Forgotten, NotForgotten, ownerVars, Open
    <2> QED BY <2>1, <2>2, WordsKept
  <1>4. CASE GradeRecalled
    <2>1. Said(Tail(txns))
      BY <1>1, <1>4, WordsPop DEF GradeRecalled
    <2>2. \E i \in DOMAIN txns : txns[i].do = "recallGrade"
      BY <1>1, <1>4, Leaving DEF GradeRecalled, Ask, Words, Said
    <2>3. CASE graded
      <3>1. txns' = Tail(txns)
        BY <1>4, <2>2, <2>3 DEF GradeRecalled, Words, Said
      <3>2. UNCHANGED <<gradeVars, settings, legacy, untidy>>
        BY <1>4, <2>3 DEF GradeRecalled, Shown, gradeVars, ownerVars
      <3> QED BY <1>1, <1>4, <2>1, <3>1, <3>2, WordsKept DEF GradeRecalled, Open
    <2>4. CASE ~graded
      <3>1. grade' \in Grades /\ ~graded' /\ UNCHANGED <<settings, legacy>>
        BY <1>4, <2>4, GradeAssumption DEF GradeRecalled, Shown, Words
      <3>2. CASE settings = Unset /\ legacy # Unset
        <4>1. txns' = Append(Tail(txns), [do |-> "keepGrade", grade |-> legacy]) /\ legacy \in Grades
          BY <1>4, <3>2 DEF GradeRecalled, Words
        <4>2. IsQueue(txns') /\ \A i \in DOMAIN txns' : txns'[i].do = "keepGrade" => txns'[i].grade \in Grades
          <5> DEFINE q == Tail(txns)
          <5>1. /\ IsQueue(q) /\ \A i \in DOMAIN q : q[i].do = "keepGrade" => q[i].grade \in Grades
            BY <2>1 DEF Said
          <5> HIDE DEF q
          <5> QED BY <4>1, <5>1, Joining DEF q
        <4> QED BY <3>1, <4>2 DEF Words, Said
      <3>3. CASE ~(settings = Unset /\ legacy # Unset)
        BY <1>4, <2>1, <3>1, <3>3 DEF GradeRecalled, Words, Said
      <3> QED BY <3>2, <3>3
    <2> QED BY <2>3, <2>4
  <1>5. CASE GradeUnread
    <2>1. CASE Ask.do = "recallGrade"
      <3>1. Said(txns')
        BY <1>1, <1>5, <2>1, WordsPop DEF GradeUnread
      <3> QED BY <1>1, <1>5, <2>1, <3>1, WordsKept DEF GradeUnread, Open
    <2>2. CASE Ask.do = "keepGrade"
      BY <1>1, <1>5, <2>2, WordsLess DEF GradeUnread, Open, gradeVars
    <2> QED BY <1>5, <2>1, <2>2 DEF GradeUnread
  <1>6. CASE GradeWritten
    <2> DEFINE q == txns  r == Tail(txns)
    <2>1. /\ IsQueue(r) /\ Len(q) \in Nat \ {0} /\ DOMAIN q = 1 .. Len(q) /\ DOMAIN r = 1 .. Len(q) - 1
          /\ \A i \in 1 .. Len(q) - 1 : r[i] = q[i + 1]
          /\ Head(q) = q[1]
      BY <1>1, Leaving DEF Words, Said
    <2>2. txns' = r /\ settings' = q[1].grade /\ q[1].do = "keepGrade"
      BY <1>6, <2>1 DEF GradeWritten, Ask
    <2>3. UNCHANGED <<gradeVars, legacy, untidy, page>>
      BY <1>6 DEF GradeWritten, ownerVars
    <2> HIDE DEF r
    <2>4. settings' \in Grades
      BY <2>1, <2>2 DEF Words, Said
    <2>5. \A i \in DOMAIN r : i + 1 \in DOMAIN q /\ r[i] = q[i + 1]
      BY <2>1
    <2>6. \A i \in DOMAIN q : i = 1 \/ (i - 1 \in DOMAIN r /\ r[i - 1] = q[i])
      BY <2>1
    <2>7. ASSUME graded, ~untidy PROVE
          /\ \A i \in DOMAIN r :
                r[i].do = "keepGrade" /\ (\A j \in DOMAIN r : j > i => r[j].do # "keepGrade")
                => r[i].grade = grade
          /\ (\A i \in DOMAIN r : r[i].do # "keepGrade") => settings' = grade
      <3>1. \A i \in DOMAIN r :
               (\A j \in DOMAIN r : j > i => r[j].do # "keepGrade")
               => \A j \in DOMAIN q : j > i + 1 => q[j].do # "keepGrade"
        BY <2>1, <2>6
      <3>2. (\A i \in DOMAIN r : r[i].do # "keepGrade") => \A j \in DOMAIN q : j > 1 => q[j].do # "keepGrade"
        BY <2>1, <2>6
      <3> QED BY <2>1, <2>2, <2>5, <2>7, <3>1, <3>2 DEF Words, Said
    <2> QED BY <2>1, <2>2, <2>3, <2>4, <2>5, <2>7, GradeAssumption DEF Words, Said, gradeVars, Open
  <1> QED BY <1>2, <1>3, <1>4, <1>5, <1>6 DEF Database

LEMMA WordsStep ==
    ASSUME "early" \notin Events, Words, [Next]_vars
    PROVE  Words'
  <1>1. CASE Loads \/ Cameras \/ NewCatalog
    <2>1. UNCHANGED <<txns, gradeVars, settings, legacy, untidy>> /\ Open' = Open
      BY <1>1 DEF Loads, Fetched, FetchFails, Cameras, Start, Stop, Opened, Plays, OpenFails, NewCatalog,
                  dbVars, ownerVars, Open
    <2> QED BY <2>1, WordsChange DEF Words, gradeVars
  <1>2. CASE Database
    BY <1>2, WordsDatabase
  <1>3. CASE Answers
    <2>1. UNCHANGED <<gradeVars, settings, legacy, untidy>> /\ Open' = Open
      BY <1>3 DEF Answers, ReadsNothing, ReadsCard, dbVars, ownerVars, Open
    <2>2. PICK t \in takes : ReadsNothing(t) \/ ReadsCard(t)
      BY <1>3 DEF Answers
    <2>3. \E next : Change(next) \/ UNCHANGED txns
      BY <2>2 DEF ReadsNothing, ReadsCard, dbVars
    <2> QED BY <2>1, <2>3, WordsChange DEF Words, gradeVars
  <1>4. CASE Regrade
    <2>1. PICK g \in Grades : grade' = g /\ graded' /\ txns' = Append(txns, [do |-> "keepGrade", grade |-> g])
      BY <1>4 DEF Regrade
    <2>2. UNCHANGED <<settings, legacy, untidy, page>> /\ page = "scan"
      BY <1>4 DEF Regrade
    <2>3. (\E i \in DOMAIN txns : txns[i].do = "recallGrade") => settings # Unset \/ legacy = Unset
      BY <1>4 DEF Regrade, Asked
    <2> DEFINE q == txns  r == Append(txns, [do |-> "keepGrade", grade |-> g])
    <2>4. /\ IsQueue(r) /\ Len(q) \in Nat /\ DOMAIN q = 1 .. Len(q) /\ DOMAIN r = 1 .. Len(q) + 1
          /\ \A i \in 1 .. Len(q) : r[i] = q[i]
          /\ r[Len(q) + 1] = [do |-> "keepGrade", grade |-> g]
      BY Joining DEF Words, Said
    <2>5. txns' = r
      BY <2>1
    <2> HIDE DEF r
    <2>6. \A i \in DOMAIN r : i = Len(q) + 1 \/ (i \in DOMAIN q /\ r[i] = q[i])
      BY <2>4
    <2>7. Len(q) + 1 \in DOMAIN r /\ \A i \in DOMAIN q : Len(q) + 1 > i
      BY <2>4
    <2>8. \A i \in DOMAIN r :
             r[i].do = "keepGrade" /\ (\A j \in DOMAIN r : j > i => r[j].do # "keepGrade") => r[i].grade = g
      BY <2>4, <2>6, <2>7
    <2>9. \A i \in DOMAIN r : r[i].do = "keepGrade" => r[i].grade \in Grades
      BY <2>4, <2>6, <2>1 DEF Words, Said
    <2>10. (\E i \in DOMAIN r : r[i].do = "recallGrade") => settings # Unset \/ legacy = Unset
      BY <2>3, <2>4, <2>6
    <2>11. \E i \in DOMAIN r : r[i].do = "keepGrade"
      BY <2>4, <2>7
    <2>12. Said(txns)'
      BY <2>1, <2>2, <2>4, <2>5, <2>8, <2>9, <2>10, <2>11 DEF Said
    <2> QED BY <2>1, <2>2, <2>12 DEF Words, Open
  <1>5. CASE Presses /\ ~Regrade
    <2>1. UNCHANGED <<gradeVars, settings, legacy, untidy>> /\ Open' /\ Open
      BY <1>5 DEF Presses, Take, Pick, Offering, Agree, Fewer, More, Edit, Join, Reviewing, Away, Keep,
                  ToReview,
                  ToScan, Moved, dbVars, ownerVars, Open
    <2>2. (\E next : Change(next)) \/ Clear \/ UNCHANGED txns
      BY <1>5 DEF Presses, Take, Pick, Agree, Fewer, More, Edit, Join, Away, Keep, ToReview, ToScan, Moved,
                  dbVars
    <2> QED BY <2>1, <2>2, WordsChange
  <1>6. CASE Keeps
    <2>1. UNCHANGED <<gradeVars, settings, legacy, untidy>> /\ Open' = Open /\ ((Open /\ Clear) \/ UNCHANGED txns)
      BY <1>6 DEF Keeps, Lands, Finds, Begins, Refuses, dbVars, ownerVars, Open
    <2>2. CASE UNCHANGED txns
      BY <2>1, <2>2, WordsChange DEF Words, gradeVars
    <2> QED BY <2>1, <2>2, WordsChange
  <1>7. CASE Dies
    <2>1. txns' = <<>> /\ grade' = USUALLY /\ ~graded' /\ UNCHANGED <<settings, legacy>>
      BY <1>7 DEF Dies, Blank
    <2>2. IsQueue(<<>>) /\ DOMAIN <<>> = {}
      BY DEF IsQueue
    <2> QED BY <2>1, <2>2, GradeAssumption DEF Words, Said
  <1>8. CASE Reopens
    <2>1. txns' = Mounting /\ ~graded' /\ UNCHANGED <<grade, settings, legacy>>
      BY <1>8 DEF Reopens, Words, gradeVars, Open
    <2>2. \A i \in DOMAIN txns' : txns'[i].do # "keepGrade"
      BY <2>1, Mounted
    <2> QED BY <2>1, <2>2, Mounted DEF Words, Said
  <1>9. CASE UNCHANGED vars
    <2>1. UNCHANGED <<txns, gradeVars, settings, legacy, untidy, page>>
      BY <1>9 DEF vars, dbVars, ownerVars
    <2> QED BY <2>1, WordsChange DEF Words, Open, gradeVars
  <1> QED BY <1>1, <1>2, <1>3, <1>4, <1>5, <1>6, <1>7, <1>8, <1>9 DEF Next

LEMMA WordsPickWins == Words => PickWins
  BY DEF Words, Said, PickWins, Asked

\* Where nothing is pressed before the database has answered, a grade picked is
\* the one shown and, once it is written, the one kept: a read that answers late
\* never replaces it.
THEOREM AlwaysPickWins ==
    ASSUME "early" \notin Events
    PROVE  Spec => []PickWins
  BY WordsInit, WordsStep, WordsPickWins, PTL DEF Spec

-----------------------------------------------------------------------------
(* The list.                                                               *)

IsWrite(e) == e.do \in {"keep", "forget"}
Leaves(e) == IF e.do = "keep" THEN e.list ELSE Absent

\* No keep is under way, on the page shown or on one that was left.
AtRest == keep.at = "none" /\ left = {}

\* WrittenThrough speaks of an empty queue.  The last write of one that is not
\* leaves the list that is shown; and the read of what was kept comes first in
\* it, with nothing scanned, handed on or asked of the database before it.
Due(q) ==
    /\ IsQueue(q)
    /\ \A i \in DOMAIN q : q[i].do = "recall" =>
          /\ i = 1 /\ \A j \in DOMAIN q : ~IsWrite(q[j])
          /\ list = <<>> /\ ~joined /\ ~sealed /\ AtRest
    /\ joined /\ ~untidy =>
          /\ \A i \in DOMAIN q :
                IsWrite(q[i]) /\ (\A j \in DOMAIN q : j > i => ~IsWrite(q[j])) => Leaves(q[i]) = list
          /\ (\A i \in DOMAIN q : ~IsWrite(q[i])) /\ trouble = "none" => stored = list

Through ==
    /\ Due(txns)
    /\ sealed => ~joined
    /\ ~Open => list = <<>> /\ ~joined /\ ~sealed /\ AtRest
    /\ ~AtRest => \A i \in DOMAIN txns : txns[i].do # "recall"

LEMMA DueMore ==
    ASSUME NEW q, Due(q), NEW e, ~IsWrite(e), e.do # "recall"
    PROVE  Due(Append(q, e))
  <1> DEFINE r == Append(q, e)
  <1>1. /\ IsQueue(r) /\ Len(q) \in Nat /\ DOMAIN q = 1 .. Len(q) /\ DOMAIN r = 1 .. Len(q) + 1
        /\ \A i \in 1 .. Len(q) : r[i] = q[i]
        /\ r[Len(q) + 1] = e
    BY Joining DEF Due
  <1> HIDE DEF r
  <1>2. \A i \in DOMAIN r : IsWrite(r[i]) \/ r[i].do = "recall" => i \in DOMAIN q /\ r[i] = q[i]
    BY <1>1
  <1>3. \A i \in DOMAIN q : i \in DOMAIN r /\ r[i] = q[i]
    BY <1>1
  <1>4. Due(r)
    BY <1>1, <1>2, <1>3 DEF Due
  <1> QED BY <1>4 DEF r

LEMMA DueLess ==
    ASSUME NEW q, Due(q), q # <<>>, ~IsWrite(Head(q))
    PROVE  Due(Tail(q)) /\ \A i \in DOMAIN Tail(q) : Tail(q)[i].do # "recall"
  <1> DEFINE r == Tail(q)
  <1>1. /\ IsQueue(r) /\ Len(q) \in Nat \ {0} /\ DOMAIN q = 1 .. Len(q) /\ DOMAIN r = 1 .. Len(q) - 1
        /\ \A i \in 1 .. Len(q) - 1 : r[i] = q[i + 1]
        /\ Head(q) = q[1]
    BY Leaving DEF Due
  <1> HIDE DEF r
  <1>2. \A i \in DOMAIN r : i + 1 \in DOMAIN q /\ r[i] = q[i + 1] /\ i + 1 # 1
    BY <1>1
  <1>3. \A i \in DOMAIN q : IsWrite(q[i]) => i - 1 \in DOMAIN r /\ r[i - 1] = q[i]
    BY <1>1
  <1>4. \A i \in DOMAIN r :
           (\A j \in DOMAIN r : j > i => ~IsWrite(r[j])) => \A j \in DOMAIN q : j > i + 1 => ~IsWrite(q[j])
    BY <1>1, <1>3
  <1>5. (\A i \in DOMAIN r : ~IsWrite(r[i])) => \A i \in DOMAIN q : ~IsWrite(q[i])
    BY <1>3
  <1>6. \A i \in DOMAIN r : r[i].do # "recall"
    BY <1>2 DEF Due
  <1>7. Due(r)
    BY <1>1, <1>2, <1>4, <1>5, <1>6 DEF Due
  <1> QED BY <1>6, <1>7 DEF r

\* The last write is the list put down after it.
LEMMA DueWrite ==
    ASSUME NEW q, IsQueue(q), \A i \in DOMAIN q : q[i].do # "recall", NEW e, IsWrite(e)
    PROVE  /\ IsQueue(Append(q, e))
           /\ \A i \in DOMAIN Append(q, e) : Append(q, e)[i].do # "recall"
           /\ \A i \in DOMAIN Append(q, e) :
                 (\A j \in DOMAIN Append(q, e) : j > i => ~IsWrite(Append(q, e)[j])) /\ IsWrite(Append(q, e)[i])
                 => Append(q, e)[i] = e
           /\ \E i \in DOMAIN Append(q, e) : IsWrite(Append(q, e)[i])
  <1> DEFINE r == Append(q, e)
  <1>1. /\ IsQueue(r) /\ Len(q) \in Nat /\ DOMAIN q = 1 .. Len(q) /\ DOMAIN r = 1 .. Len(q) + 1
        /\ \A i \in 1 .. Len(q) : r[i] = q[i]
        /\ r[Len(q) + 1] = e
    BY Joining
  <1> HIDE DEF r
  <1>2. \A i \in DOMAIN r : i = Len(q) + 1 \/ (i \in DOMAIN q /\ r[i] = q[i] /\ Len(q) + 1 > i)
    BY <1>1
  <1>3. Len(q) + 1 \in DOMAIN r
    BY <1>1
  <1>4. /\ \A i \in DOMAIN r : r[i].do # "recall"
        /\ \A i \in DOMAIN r : (\A j \in DOMAIN r : j > i => ~IsWrite(r[j])) /\ IsWrite(r[i]) => r[i] = e
        /\ \E i \in DOMAIN r : IsWrite(r[i])
    BY <1>1, <1>2, <1>3 DEF IsWrite
  <1> QED BY <1>1, <1>4 DEF r

NoRecall == \A i \in DOMAIN txns : txns[i].do # "recall"

LEMMA ThroughKept ==
    ASSUME Through, Due(txns'), UNCHANGED <<listVars, stored, keep, left>>, untidy => untidy', Open' = Open,
           NoRecall => NoRecall'
    PROVE  Through'
  BY DEF Through, Due, AtRest, listVars, NoRecall

\* With the list read, what becomes of a keep is no matter.
LEMMA ThroughKeep ==
    ASSUME Through, NoRecall, UNCHANGED <<listVars, stored, txns>>, untidy => untidy', Open, Open'
    PROVE  Through'
  BY DEF Through, Due, AtRest, listVars, NoRecall

LEMMA ThroughChange ==
    ASSUME Through, NoRecall, NEW next, Change(next) \/ Clear, UNCHANGED <<stored, untidy>>, Open, Open'
    PROVE  Through'
  <1> DEFINE e == IF Change(next) THEN [do |-> "keep", list |-> next] ELSE [do |-> "forget"]
  <1>1. list' = Leaves(e) /\ IsWrite(e) /\ UNCHANGED <<joined, sealed>>
    BY DEF Change, Clear, Leaves, IsWrite, Absent
  <1>2. CASE sealed
    <2>1. UNCHANGED txns /\ ~joined'
      BY <1>1, <1>2 DEF Change, Clear, Through
    <2> QED BY <1>1, <1>2, <2>1 DEF Through, Due, NoRecall
  <1>3. CASE ~sealed
    <2>1. txns' = Append(txns, e)
      BY <1>3 DEF Change, Clear
    <2> HIDE DEF e
    <2>2. /\ IsQueue(txns') /\ \A i \in DOMAIN txns' : txns'[i].do # "recall"
          /\ \A i \in DOMAIN txns' :
                (\A j \in DOMAIN txns' : j > i => ~IsWrite(txns'[j])) /\ IsWrite(txns'[i]) => txns'[i] = e
          /\ \E i \in DOMAIN txns' : IsWrite(txns'[i])
      <3>1. IsQueue(txns) /\ IsWrite(e) /\ \A i \in DOMAIN txns : txns[i].do # "recall"
        BY <1>1 DEF Through, Due, NoRecall
      <3> DEFINE r == Append(txns, e)
      <3>2. /\ IsQueue(r) /\ \A i \in DOMAIN r : r[i].do # "recall"
            /\ \A i \in DOMAIN r : (\A j \in DOMAIN r : j > i => ~IsWrite(r[j])) /\ IsWrite(r[i]) => r[i] = e
            /\ \E i \in DOMAIN r : IsWrite(r[i])
        BY <3>1, DueWrite
      <3>3. txns' = r
        BY <2>1
      <3> HIDE DEF r
      <3> QED BY <3>2, <3>3
    <2>3. Due(txns)'
      BY <1>1, <2>2 DEF Due
    <2> QED BY <1>1, <1>3, <2>2, <2>3 DEF Through
  <1> QED BY <1>2, <1>3

LEMMA ThroughInit == Init => Through
  <1> SUFFICES ASSUME Init PROVE Through
    OBVIOUS
  <1>1. /\ txns = Mounting /\ Open /\ list = <<>> /\ ~joined /\ ~sealed /\ AtRest
    BY DEF Init, Open, NoKeep, AtRest
  <1>2. \A i \in DOMAIN txns : ~IsWrite(txns[i]) /\ (txns[i].do = "recall" => i = 1)
    BY <1>1, Mounted DEF IsWrite
  <1> QED BY <1>1, <1>2, Mounted DEF Through, Due

LEMMA ThroughDatabase ==
    ASSUME Through, Database
    PROVE  Through'
  <1> DEFINE q == txns
  <1>1. Open /\ txns # <<>> /\ Open'
    BY DEF Database, Recalled, Unread, Written, Unwritten, Forgotten, NotForgotten,
           GradeRecalled, GradeUnread, GradeWritten, Open
  <1>2. /\ IsQueue(Tail(q)) /\ Len(q) \in Nat \ {0} /\ DOMAIN q = 1 .. Len(q) /\ DOMAIN Tail(q) = 1 .. Len(q) - 1
        /\ \A i \in 1 .. Len(q) - 1 : Tail(q)[i] = q[i + 1]
        /\ Head(q) = q[1]
    BY <1>1, Leaving DEF Through, Due
  <1>3. \A i \in DOMAIN Tail(q) : Tail(q)[i].do # "recall"
    BY <1>2 DEF Through, Due
  <1>4. CASE Recalled
    <2>1. /\ list = <<>> /\ ~joined /\ ~sealed /\ \A j \in DOMAIN q : ~IsWrite(q[j])
      BY <1>2, <1>4 DEF Recalled, Ask, Through, Due
    <2>2. list' = stored /\ stored' = stored /\ txns' = Tail(q) /\ UNCHANGED sealed
      BY <1>4, <2>1 DEF Recalled, JoinedBefore, Absent
    <2>3. \A j \in DOMAIN Tail(q) : ~IsWrite(Tail(q)[j])
      BY <1>2, <2>1
    <2>4. Due(txns)'
      BY <1>2, <1>3, <2>2, <2>3 DEF Due
    <2> QED BY <1>1, <1>3, <2>1, <2>2, <2>4 DEF Through
  <1>5. CASE Unread
    <2>1. /\ list = <<>> /\ ~joined /\ txns' = Tail(q) /\ UNCHANGED joined
      BY <1>2, <1>5 DEF Unread, Ask, Through, Due
    <2>2. Due(txns)'
      BY <1>2, <1>3, <2>1 DEF Due
    <2> QED BY <1>1, <1>3, <2>1, <2>2 DEF Through
  <1>6. CASE Written \/ Unwritten \/ Forgotten \/ NotForgotten
    <2>1. IsWrite(q[1]) /\ txns' = Tail(q) /\ UNCHANGED <<list, joined, sealed>>
      BY <1>2, <1>6 DEF Written, Unwritten, Forgotten, NotForgotten, Ask, IsWrite, listVars
    <2> DEFINE r == Tail(q)
    <2>a. DOMAIN r = 1 .. Len(q) - 1 /\ \A i \in 1 .. Len(q) - 1 : r[i] = q[i + 1]
      BY <1>2
    <2> HIDE DEF r
    <2>2. \A i \in DOMAIN r : i + 1 \in DOMAIN q /\ r[i] = q[i + 1]
      BY <1>2, <2>a
    <2>3. \A i \in DOMAIN q : i = 1 \/ (i - 1 \in DOMAIN r /\ r[i - 1] = q[i])
      BY <1>2, <2>a
    <2>4. \A i \in DOMAIN r :
             (\A j \in DOMAIN r : j > i => ~IsWrite(r[j])) => \A j \in DOMAIN q : j > i + 1 => ~IsWrite(q[j])
      BY <1>2, <2>3, <2>a
    <2>5. joined /\ ~untidy =>
             \A i \in DOMAIN r :
                IsWrite(r[i]) /\ (\A j \in DOMAIN r : j > i => ~IsWrite(r[j])) => Leaves(r[i]) = list
      BY <1>2, <2>2, <2>4 DEF Through, Due
    <2>6. joined /\ ~untidy /\ (\A i \in DOMAIN r : ~IsWrite(r[i])) => Leaves(q[1]) = list
      <3> SUFFICES ASSUME joined, ~untidy, \A i \in DOMAIN r : ~IsWrite(r[i]) PROVE Leaves(q[1]) = list
        OBVIOUS
      <3>1. \A j \in DOMAIN q : j > 1 => ~IsWrite(q[j])
        BY <1>2, <2>3
      <3> QED BY <1>2, <2>1, <3>1 DEF Through, Due
    <2>7. untidy => untidy'
      BY <1>6 DEF Written, Unwritten, Forgotten, NotForgotten, ownerVars
    <2>8. untidy' \/ trouble' # "none" \/ stored' = Leaves(q[1])
      BY <1>2, <1>6 DEF Written, Unwritten, Forgotten, NotForgotten, Ask, Leaves
    <2>9. Due(txns)'
      BY <1>2, <1>3, <2>1, <2>5, <2>6, <2>7, <2>8 DEF Due, r
    <2> QED BY <1>1, <1>3, <2>1, <2>9 DEF Through
  <1>7. CASE GradeRecalled \/ GradeUnread \/ GradeWritten
    <2>1. ~IsWrite(Head(txns))
      BY <1>7 DEF GradeRecalled, GradeUnread, GradeWritten, Ask, IsWrite
    <2>2. Due(Tail(txns))
      BY <1>1, <2>1, DueLess DEF Through
    <2>3. UNCHANGED <<listVars, stored, keep, left>> /\ (untidy => untidy')
      <3>1. CASE GradeRecalled
        BY <3>1 DEF GradeRecalled, keepVars, ownerVars
      <3>2. CASE GradeUnread
        BY <3>2 DEF GradeUnread, keepVars
      <3>3. CASE GradeWritten
        BY <3>3 DEF GradeWritten, keepVars, ownerVars
      <3> QED BY <1>7, <3>1, <3>2, <3>3
    <2>4. CASE txns' = Tail(txns)
      BY <1>1, <1>3, <2>2, <2>3, <2>4, ThroughKept DEF NoRecall
    <2>5. CASE txns' = Append(Tail(txns), [do |-> "keepGrade", grade |-> legacy])
      <3> DEFINE e == [do |-> "keepGrade", grade |-> legacy]
      <3>1. ~IsWrite(e) /\ e.do # "recall"
        BY DEF IsWrite
      <3> HIDE DEF e
      <3>2. Due(Append(Tail(txns), e))
        BY <2>2, <3>1, DueMore
      <3>3. \A i \in DOMAIN Append(Tail(txns), e) : Append(Tail(txns), e)[i].do # "recall"
        BY <1>2, <1>3, <3>1, Joining
      <3> QED BY <1>1, <2>3, <2>5, <3>2, <3>3, ThroughKept DEF NoRecall, e
    <2> QED BY <1>7, <2>4, <2>5 DEF GradeRecalled, GradeUnread, GradeWritten
  <1> QED BY <1>4, <1>5, <1>6, <1>7 DEF Database

LEMMA ThroughStep ==
    ASSUME "early" \notin Events, Through, [Next]_vars
    PROVE  Through'
  <1>0. MayMove => NoRecall
    BY DEF MayMove, Asked, NoRecall
  <1>1. CASE Loads \/ Cameras \/ NewCatalog \/ Regrade \/ (Presses /\ UNCHANGED <<txns, listVars, keepVars>>)
    <2>1. UNCHANGED <<listVars, stored, keep, left, untidy>> /\ Open' = Open
      BY <1>1 DEF Loads, Fetched, FetchFails, Cameras, Start, Stop, Opened, Plays, OpenFails, NewCatalog,
                  Regrade,
                  Presses, Take, Pick, Agree, Fewer, More, Edit, Join, Moved, Away, Keep, ToReview, ToScan,
                  dbVars, keepVars, ownerVars, Open
    <2>2. CASE UNCHANGED txns
      BY <2>1, <2>2, ThroughKept DEF Through, NoRecall
    <2>3. CASE Regrade
      <3>1. PICK g : txns' = Append(txns, [do |-> "keepGrade", grade |-> g])
        BY <2>3 DEF Regrade
      <3> DEFINE e == [do |-> "keepGrade", grade |-> g]
      <3>2. ~IsWrite(e) /\ e.do # "recall"
        BY DEF IsWrite
      <3> HIDE DEF e
      <3>3. Due(Append(txns, e)) /\ (NoRecall => \A i \in DOMAIN Append(txns, e) : Append(txns, e)[i].do # "recall")
        BY <3>2, DueMore, Joining DEF Through, Due, NoRecall
      <3> QED BY <2>1, <3>1, <3>3, ThroughKept DEF NoRecall, e
    <2> QED BY <1>1, <2>2, <2>3 DEF Loads, Fetched, FetchFails, Cameras, Start, Stop, Opened, Plays, OpenFails,
                  NewCatalog, dbVars
  <1>2. CASE Database
    BY <1>2, ThroughDatabase
  <1>3. CASE Answers
    <2>1. PICK t \in takes : ReadsNothing(t) \/ ReadsCard(t)
      BY <1>3 DEF Answers
    <2>2. UNCHANGED <<stored, keep, left, untidy>> /\ Open' /\ Open
      BY <2>1 DEF ReadsNothing, ReadsCard, dbVars, keepVars, ownerVars, Open
    <2>3. CASE UNCHANGED <<txns, listVars>>
      BY <2>2, <2>3, ThroughKept DEF Through, NoRecall
    <2>4. CASE MayMove /\ \E next : Change(next)
      BY <1>0, <2>2, <2>4, ThroughChange
    <2> QED BY <2>1, <2>3, <2>4 DEF ReadsNothing, ReadsCard, dbVars
  <1>4. CASE Agree \/ Fewer \/ More \/ Edit \/ Join \/ Away
    <2>1. UNCHANGED <<stored, untidy>> /\ Open' /\ Open /\ MayMove
      BY <1>4 DEF Agree, Offering, Fewer, More, Edit, Join, Reviewing, Away, Moved, ownerVars, Open
    <2>2. (\E next : Change(next)) \/ Clear
      BY <1>4 DEF Agree, Fewer, More, Edit, Join, Away, Moved
    <2> QED BY <1>0, <2>1, <2>2, ThroughChange
  <1>5. CASE Keep
    BY <1>5, ThroughKeep DEF Keep, dbVars, Open, Asked, NoRecall
  <1>6. CASE Take \/ (\E p \in Printings : Pick(p)) \/ ToReview
    BY <1>1, <1>6 DEF Presses, Take, Pick, ToReview, dbVars
  <1>7. CASE ToScan
    <2>1. UNCHANGED <<listVars, stored, txns, untidy>> /\ Open /\ Open' /\ (AtRest => AtRest')
      BY <1>7 DEF ToScan, dbVars, ownerVars, Open, AtRest, NoKeep, Handing
    <2> QED BY <2>1 DEF Through, Due, listVars
  <1>8. CASE Keeps
    <2>1. CASE Lands
      BY <2>1, ThroughKept DEF Lands, Through, dbVars, ownerVars, Open, NoRecall
    <2>2. ASSUME NEW k \in left \cup {keep}, Finds(k) \/ Begins(k) \/ Refuses(k) PROVE Through'
      <3>1. NoRecall /\ Open' /\ Open
        BY <2>2 DEF Finds, Begins, Refuses, Handing, Through, NoRecall, Open, AtRest
      <3>2. CASE Begins(k)
        BY <3>1, <3>2, ThroughChange DEF Begins
      <3>3. CASE Finds(k) \/ Refuses(k)
        BY <3>1, <3>3, ThroughKeep DEF Finds, Refuses, dbVars, ownerVars
      <3> QED BY <2>2, <3>2, <3>3
    <2> QED BY <1>8, <2>1, <2>2 DEF Keeps
  <1>9. CASE Dies
    <2>1. /\ txns' = <<>> /\ list' = <<>> /\ ~joined' /\ ~sealed' /\ AtRest'
      BY <1>9 DEF Dies, Blank, NoKeep, AtRest
    <2>2. IsQueue(<<>>) /\ DOMAIN <<>> = {}
      BY DEF IsQueue
    <2> QED BY <2>1, <2>2 DEF Through, Due
  <1>10. CASE Reopens
    <2>1. /\ txns' = Mounting /\ Open' /\ list' = <<>> /\ ~joined' /\ ~sealed' /\ AtRest'
      BY <1>10 DEF Reopens, Through, AtRest, listVars, keepVars, Open
    <2>2. \A i \in DOMAIN txns' : ~IsWrite(txns'[i]) /\ (txns'[i].do = "recall" => i = 1)
      BY <2>1, Mounted DEF IsWrite
    <2> QED BY <2>1, <2>2, Mounted DEF Through, Due
  <1>11. CASE UNCHANGED vars
    <2>1. UNCHANGED <<listVars, stored, keep, left, untidy, txns, page>>
      BY <1>11 DEF vars, dbVars, keepVars, ownerVars
    <2> QED BY <2>1, ThroughKept DEF Through, NoRecall, Open
  <1> QED BY <1>1, <1>2, <1>3, <1>4, <1>5, <1>6, <1>7, <1>8, <1>9, <1>10, <1>11 DEF Next, Presses

LEMMA ThroughWritten == Through => WrittenThrough
  BY DEF Through, Due, WrittenThrough

\* Where nothing is scanned before the database has answered, whatever has been
\* asked of it and whatever failed, once it has done it all and nothing on the
\* page says otherwise it holds the list that is shown.
THEOREM AlwaysWrittenThrough ==
    ASSUME "early" \notin Events
    PROVE  Spec => []WrittenThrough
  BY ThroughInit, ThroughStep, ThroughWritten, PTL DEF Spec

-----------------------------------------------------------------------------
(* The stacks of a list.                                                   *)

\* Without and Merged go through a list from its first stack.
LEMMA WithoutSteps ==
    ASSUME NEW E, NEW old \in Seq(E), NEW off
    PROVE  \E g : /\ g[0] = <<>>
                  /\ \A n \in 0 .. Len(old) - 1 :
                        g[n + 1] = IF old[n + 1] \in off THEN g[n] ELSE Append(g[n], old[n + 1])
                  /\ Without(old, off) = g[Len(old)]
  <1> DEFINE m == Len(old)
             S == 1 .. m
             K == Seq(E)
             G == [a \in K |-> [i \in S |-> IF old[i] \in off THEN a ELSE Append(a, old[i])]]
             pick == [s \in SUBSET S |-> Max(s)]
             F == CHOOSE f : f = [s \in SUBSET DOMAIN old |->
                      IF s = {} THEN <<>>
                      ELSE IF old[Max(s)] \in off THEN f[s \ {Max(s)}] ELSE Append(f[s \ {Max(s)}], old[Max(s)])]
  <1>1. m \in Nat /\ DOMAIN old = S /\ \A i \in S : old[i] \in E
    OBVIOUS
  <1>2. G \in [K -> [S -> K]]
    BY <1>1, AppendProperties
  <1>3. IsFiniteSet(S) /\ <<>> \in K
    BY <1>1, FS_Interval
  <1>4. \A s \in SUBSET S : s # {} => pick[s] \in s /\ pick[s] = Max(s)
    BY <1>1, Greatest
  <1>5. PICK h \in [SUBSET S -> K] : IsTable(h, S, <<>>, G, pick)
    <2> HIDE DEF S, K, G, pick
    <2> QED BY <1>2, <1>3, <1>4, FoldTable
  <1>6. h = [s \in SUBSET DOMAIN old |->
                IF s = {} THEN <<>>
                ELSE IF old[Max(s)] \in off THEN h[s \ {Max(s)}] ELSE Append(h[s \ {Max(s)}], old[Max(s)])]
    <2>1. \A s \in SUBSET S : s # {} => h[s] = IF old[Max(s)] \in off THEN h[s \ {Max(s)}]
                                                ELSE Append(h[s \ {Max(s)}], old[Max(s)])
      <3> TAKE s \in SUBSET S
      <3> HAVE s # {}
      <3>1. h[s] = G[h[s \ {Max(s)}]][Max(s)]
        <4> HIDE DEF G, pick
        <4> QED BY <1>4, <1>5 DEF IsTable
      <3>2. Max(s) \in S /\ h[s \ {Max(s)}] \in K
        BY <1>1, <1>4
      <3> HIDE DEF S, K
      <3> QED BY <3>1, <3>2
    <2>2. h[{}] = <<>>
      BY <1>5 DEF IsTable
    <2> HIDE DEF K, G, pick
    <2> QED BY <1>1, <1>5, <2>1, <2>2
  <1>7. F = [s \in SUBSET DOMAIN old |->
                IF s = {} THEN <<>>
                ELSE IF old[Max(s)] \in off THEN F[s \ {Max(s)}] ELSE Append(F[s \ {Max(s)}], old[Max(s)])]
    <2> HIDE DEF S, K, G, pick
    <2> QED BY <1>6
  <1>8. Without(old, off) = F[S]
    BY <1>1 DEF Without, FoldLeft, MapThenFoldSet
  <1> DEFINE g == [n \in 0 .. m |-> F[1 .. n]]
  <1>9. g[0] = <<>>
    <2> HIDE DEF F
    <2> QED BY <1>1, <1>7
  <1>10. \A n \in 0 .. m - 1 : g[n + 1] = IF old[n + 1] \in off THEN g[n] ELSE Append(g[n], old[n + 1])
    <2> TAKE n \in 0 .. m - 1
    <2>1. /\ 1 .. n + 1 \in SUBSET S /\ 1 .. n + 1 # {}
          /\ Max(1 .. n + 1) = n + 1 /\ (1 .. n + 1) \ {n + 1} = 1 .. n
      BY <1>1, Initials
    <2>2. n \in 0 .. m /\ n + 1 \in 0 .. m
      BY <1>1
    <2> HIDE DEF F, S, K, G, pick
    <2>3. F[1 .. n + 1] = IF old[n + 1] \in off THEN F[1 .. n] ELSE Append(F[1 .. n], old[n + 1])
      BY <1>1, <1>7, <2>1
    <2> QED BY <2>2, <2>3
  <1>11. Without(old, off) = g[m]
    <2> HIDE DEF F
    <2> QED BY <1>1, <1>8
  <1> HIDE DEF g
  <1> QED BY <1>9, <1>10, <1>11

LEMMA MergedSteps ==
    ASSUME NEW E, NEW old \in Seq(E),
           \A kept \in Seq(E), i \in DOMAIN old : Joined(kept, old[i], 1 .. COPIES) \in Seq(E)
    PROVE  \E g : /\ g[0] = <<>>
                  /\ \A n \in 0 .. Len(old) - 1 :
                        g[n + 1] = Joined(g[n], old[n + 1], 1 .. COPIES)
                  /\ Merged(old) = g[Len(old)]
  <1> DEFINE m == Len(old)
             S == 1 .. m
             K == Seq(E)
             G == [a \in K |-> [i \in S |-> Joined(a, old[i], 1 .. COPIES)]]
             pick == [s \in SUBSET S |-> Max(s)]
             F == CHOOSE f : f = [s \in SUBSET DOMAIN old |->
                      IF s = {} THEN <<>>
                      ELSE Joined(f[s \ {Max(s)}], old[Max(s)], 1 .. COPIES)]
  <1>1. m \in Nat /\ DOMAIN old = S /\ \A i \in S : old[i] \in E
    OBVIOUS
  <1>2. G \in [K -> [S -> K]]
    BY <1>1
  <1>3. IsFiniteSet(S) /\ <<>> \in K
    BY <1>1, FS_Interval
  <1>4. \A s \in SUBSET S : s # {} => pick[s] \in s /\ pick[s] = Max(s)
    BY <1>1, Greatest
  <1>5. PICK h \in [SUBSET S -> K] : IsTable(h, S, <<>>, G, pick)
    <2> HIDE DEF S, K, G, pick
    <2> QED BY <1>2, <1>3, <1>4, FoldTable
  <1>6. h = [s \in SUBSET DOMAIN old |->
                IF s = {} THEN <<>>
                ELSE Joined(h[s \ {Max(s)}], old[Max(s)], 1 .. COPIES)]
    <2>1. \A s \in SUBSET S : s # {} => h[s] = Joined(h[s \ {Max(s)}], old[Max(s)], 1 .. COPIES)
      <3> TAKE s \in SUBSET S
      <3> HAVE s # {}
      <3>1. h[s] = G[h[s \ {Max(s)}]][Max(s)]
        <4> HIDE DEF G, pick
        <4> QED BY <1>4, <1>5 DEF IsTable
      <3>2. Max(s) \in S /\ h[s \ {Max(s)}] \in K
        BY <1>1, <1>4
      <3> HIDE DEF S, K
      <3> QED BY <3>1, <3>2
    <2>2. h[{}] = <<>>
      BY <1>5 DEF IsTable
    <2> HIDE DEF K, G, pick
    <2> QED BY <1>1, <1>5, <2>1, <2>2
  <1>7. F = [s \in SUBSET DOMAIN old |->
                IF s = {} THEN <<>>
                ELSE Joined(F[s \ {Max(s)}], old[Max(s)], 1 .. COPIES)]
    <2> HIDE DEF S, K, G, pick
    <2> QED BY <1>6
  <1>8. Merged(old) = F[S]
    BY <1>1 DEF Merged, FoldLeft, MapThenFoldSet
  <1> DEFINE g == [n \in 0 .. m |-> F[1 .. n]]
  <1>9. g[0] = <<>>
    <2> HIDE DEF F
    <2> QED BY <1>1, <1>7
  <1>10. \A n \in 0 .. m - 1 : g[n + 1] = Joined(g[n], old[n + 1], 1 .. COPIES)
    <2> TAKE n \in 0 .. m - 1
    <2>1. /\ 1 .. n + 1 \in SUBSET S /\ 1 .. n + 1 # {}
          /\ Max(1 .. n + 1) = n + 1 /\ (1 .. n + 1) \ {n + 1} = 1 .. n
      BY <1>1, Initials
    <2>2. n \in 0 .. m /\ n + 1 \in 0 .. m
      BY <1>1
    <2> HIDE DEF F, S, K, G, pick
    <2>3. F[1 .. n + 1] = Joined(F[1 .. n], old[n + 1], 1 .. COPIES)
      BY <1>1, <1>7, <2>1
    <2> QED BY <2>2, <2>3
  <1>11. Merged(old) = g[m]
    <2> HIDE DEF F
    <2> QED BY <1>1, <1>8
  <1> HIDE DEF g
  <1> QED BY <1>9, <1>10, <1>11

\* A list of stacks, no two of one read.
IsEntry(e) ==
    e = [id |-> e.id, margin |-> e.margin, matched |-> e.matched, print |-> e.print, picked |-> e.picked,
         reported |-> e.reported, finish |-> e.finish, condition |-> e.condition, quantity |-> e.quantity]
Unique(entries) == \A i, j \in DOMAIN entries : entries[i].id = entries[j].id => i = j
Sound(entries) == IsQueue(entries) /\ (\A i \in DOMAIN entries : IsEntry(entries[i])) /\ Unique(entries)

LEMMA SoundNone == Sound(<<>>) /\ IdsOf(<<>>) = {}
  <1>1. IsQueue(<<>>) /\ DOMAIN <<>> = {}
    BY DEF IsQueue
  <1> QED BY <1>1 DEF Sound, Unique, IdsOf, Range

\* Each stack rewritten where it is.
LEMMA SoundSame ==
    ASSUME NEW old, Sound(old), NEW new, new = [i \in DOMAIN old |-> new[i]],
           \A i \in DOMAIN old : IsEntry(new[i]) /\ new[i].id = old[i].id
    PROVE  Sound(new) /\ IdsOf(new) = IdsOf(old)
  <1>1. DOMAIN new = DOMAIN old
    OBVIOUS
  <1>2. PICK S : old \in Seq(S)
    BY DEF Sound, IsQueue
  <1> DEFINE T == {new[i] : i \in DOMAIN old}
  <1>3. DOMAIN old = 1 .. Len(old) /\ Len(old) \in Nat
    BY <1>2
  <1>4. new \in [1 .. Len(old) -> T]
    BY <1>3
  <1>5. new \in Seq(T)
    BY <1>3, <1>4
  <1>6. Unique(new)
    BY <1>1 DEF Sound, Unique
  <1>7. IdsOf(new) = IdsOf(old)
    BY <1>1 DEF IdsOf, Range
  <1> QED BY <1>1, <1>5, <1>6, <1>7 DEF Sound, IsQueue

\* A stack of a read the list has none of.
LEMMA SoundMore ==
    ASSUME NEW old, Sound(old), NEW e, IsEntry(e), e.id \notin IdsOf(old)
    PROVE  Sound(Append(old, e)) /\ IdsOf(Append(old, e)) = IdsOf(old) \cup {e.id}
  <1> DEFINE new == Append(old, e)
  <1>1. /\ IsQueue(new) /\ Len(old) \in Nat /\ DOMAIN old = 1 .. Len(old) /\ DOMAIN new = 1 .. Len(old) + 1
        /\ \A i \in 1 .. Len(old) : new[i] = old[i]
        /\ new[Len(old) + 1] = e
    BY Joining DEF Sound
  <1> HIDE DEF new
  <1>2. \A i \in DOMAIN new : i = Len(old) + 1 \/ (i \in DOMAIN old /\ new[i] = old[i])
    BY <1>1
  <1>3. \A i \in DOMAIN old : i \in DOMAIN new /\ new[i] = old[i] /\ old[i].id # e.id
    BY <1>1 DEF IdsOf, Range
  <1>4. Sound(new)
    BY <1>1, <1>2, <1>3 DEF Sound, Unique
  <1>5. Len(old) + 1 \in DOMAIN new
    BY <1>1
  <1>6. IdsOf(new) = IdsOf(old) \cup {e.id}
    BY <1>1, <1>2, <1>3, <1>5 DEF IdsOf, Range
  <1> QED BY <1>4, <1>6 DEF new

\* What is taken off goes, and nothing else does.
LEMMA WithoutSound ==
    ASSUME NEW old, Sound(old), NEW off
    PROVE  /\ Sound(Without(old, off)) /\ IdsOf(Without(old, off)) \subseteq IdsOf(old)
           /\ \A one \in Range(old) : one \notin off => one.id \in IdsOf(Without(old, off))
  <1>1. PICK S : old \in Seq(S)
    BY DEF Sound, IsQueue
  <1> DEFINE m == Len(old)
  <1>2. m \in Nat /\ DOMAIN old = 1 .. m
    BY <1>1
  <1>3. PICK g : /\ g[0] = <<>>
                 /\ \A n \in 0 .. m - 1 :
                       g[n + 1] = IF old[n + 1] \in off THEN g[n] ELSE Append(g[n], old[n + 1])
                 /\ Without(old, off) = g[m]
    BY <1>1, WithoutSteps
  <1> DEFINE P(n) == /\ Sound(g[n]) /\ IdsOf(g[n]) \subseteq {old[i].id : i \in 1 .. n}
                     /\ \A i \in 1 .. n : old[i] \notin off => old[i].id \in IdsOf(g[n])
             T == {n \in Nat : n <= m => P(n)}
  <1>4. 0 \in T
    BY <1>3, SoundNone
  <1>5. ASSUME NEW n \in Nat, n \in T PROVE n + 1 \in T
    <2> SUFFICES ASSUME n + 1 <= m PROVE P(n + 1)
      OBVIOUS
    <2>1. P(n) /\ n \in 0 .. m - 1 /\ n + 1 \in DOMAIN old
      BY <1>2, <1>5
    <2>2. \A i \in 1 .. n + 1 : i = n + 1 \/ i \in 1 .. n
      OBVIOUS
    <2>3. \A i \in 1 .. n : i \in 1 .. n + 1
      OBVIOUS
    <2>4. n + 1 \in 1 .. n + 1
      OBVIOUS
    <2>5. CASE old[n + 1] \in off
      <3>1. g[n + 1] = g[n]
        BY <1>3, <2>1, <2>5
      <3> HIDE DEF m
      <3> QED BY <2>1, <2>2, <2>3, <2>5, <3>1
    <2>6. CASE old[n + 1] \notin off
      <3>1. g[n + 1] = Append(g[n], old[n + 1])
        BY <1>3, <2>1, <2>6
      <3>2. old[n + 1].id \notin IdsOf(g[n]) /\ IsEntry(old[n + 1])
        <4>1. \A i \in 1 .. n : i \in DOMAIN old /\ i # n + 1
          BY <1>2, <2>1
        <4> HIDE DEF m
        <4> QED BY <2>1, <4>1 DEF Sound, Unique
      <3>3. Sound(g[n + 1]) /\ IdsOf(g[n + 1]) = IdsOf(g[n]) \cup {old[n + 1].id}
        BY <2>1, <3>1, <3>2, SoundMore
      <3> HIDE DEF m
      <3> QED BY <2>1, <2>2, <2>3, <2>4, <3>3
    <2> QED BY <2>5, <2>6
  <1>6. P(m)
    <2>1. \A n \in Nat : n \in T => n + 1 \in T
      BY <1>5
    <2> HIDE DEF T
    <2>2. m \in T
      BY <1>2, <1>4, <2>1, NatSetInduction
    <2> USE DEF T
    <2> HIDE DEF P
    <2> QED BY <1>2, <2>2
  <1> HIDE DEF m
  <1>7. IdsOf(g[m]) \subseteq IdsOf(old)
    BY <1>2, <1>6 DEF IdsOf, Range
  <1>8. \A one \in Range(old) : one \notin off => one.id \in IdsOf(g[m])
    BY <1>2, <1>6 DEF Range
  <1> QED BY <1>3, <1>6, <1>7, <1>8

\* A stack joins one that is like it, or is one of its own.
LEMMA JoinedSound ==
    ASSUME NEW kept, Sound(kept), NEW e, IsEntry(e), NEW room
    PROVE  /\ e.id \notin IdsOf(kept) => Sound(Joined(kept, e, room))
           /\ IdsOf(Joined(kept, e, room)) \subseteq IdsOf(kept) \cup {e.id}
  <1> DEFINE like == {i \in DOMAIN kept : Alike(kept[i], e)}
             first == Min(like)
             new == [kept EXCEPT ![first].quantity = @ + e.quantity]
  <1>1. PICK S : kept \in Seq(S)
    BY DEF Sound, IsQueue
  <1>2. DOMAIN kept = 1 .. Len(kept) /\ kept = [i \in DOMAIN kept |-> kept[i]]
    BY <1>1
  <1>3. CASE like # {} /\ kept[first].quantity + e.quantity \in room
    <2>1. first \in like
      <3>1. like \in SUBSET Nat
        BY <1>2
      <3> HIDE DEF like
      <3> QED BY <1>3, <3>1, Least
    <2>2. first \in DOMAIN kept
      BY <2>1
    <2>3. Joined(kept, e, room) = new
      BY <1>3 DEF Joined
    <2> HIDE DEF first
    <2>4. /\ new = [i \in DOMAIN kept |-> new[i]]
          /\ \A i \in DOMAIN kept : i # first => new[i] = kept[i]
          /\ new[first] = [kept[first] EXCEPT !.quantity = @ + e.quantity]
      BY <1>2, <2>2
    <2>5. IsEntry(new[first]) /\ new[first].id = kept[first].id
      BY <2>2, <2>4 DEF Sound, IsEntry
    <2>6. \A i \in DOMAIN kept : IsEntry(new[i]) /\ new[i].id = kept[i].id
      BY <2>4, <2>5 DEF Sound
    <2>7. Sound(new) /\ IdsOf(new) = IdsOf(kept)
      <3> HIDE DEF new
      <3> QED BY <2>4, <2>6, SoundSame
    <2> QED BY <2>3, <2>7
  <1>4. CASE ~(like # {} /\ kept[first].quantity + e.quantity \in room)
    <2>1. Joined(kept, e, room) = Append(kept, e)
      BY <1>4 DEF Joined
    <2>2. IdsOf(Append(kept, e)) \subseteq IdsOf(kept) \cup {e.id}
      BY Joining DEF IdsOf, Range, Sound
    <2> QED BY <2>1, <2>2, SoundMore
  <1> QED BY <1>3, <1>4

\* The sets a list's fields are in, with every quantity a join may come to.
EntriesOf(S) ==
    [id : {e.id : e \in S}, margin : {e.margin : e \in S}, matched : {e.matched : e \in S},
     print : {e.print : e \in S}, picked : {e.picked : e \in S}, reported : {e.reported : e \in S},
     finish : {e.finish : e \in S}, condition : {e.condition : e \in S},
     quantity : {e.quantity : e \in S} \cup 1 .. COPIES]

LEMMA JoinedTyped ==
    ASSUME NEW S, NEW kept \in Seq(EntriesOf(S)), NEW e \in EntriesOf(S)
    PROVE  Joined(kept, e, 1 .. COPIES) \in Seq(EntriesOf(S))
  <1> DEFINE like == {i \in DOMAIN kept : Alike(kept[i], e)}
             first == Min(like)
             new == [kept EXCEPT ![first].quantity = @ + e.quantity]
             E == EntriesOf(S)
  <1>1. CASE like # {} /\ kept[first].quantity + e.quantity \in 1 .. COPIES
    <2>1. first \in like
      <3>1. like \in SUBSET Nat
        OBVIOUS
      <3> HIDE DEF like
      <3> QED BY <1>1, <3>1, Least
    <2>2. first \in DOMAIN kept
      BY <2>1
    <2>3. Joined(kept, e, 1 .. COPIES) = new
      BY <1>1 DEF Joined
    <2>4. kept[first] \in E
      BY <2>2
    <2>5. [kept[first] EXCEPT !.quantity = @ + e.quantity] \in E
      BY <1>1, <2>4 DEF EntriesOf
    <2> HIDE DEF E, first, like
    <2>6. [kept EXCEPT ![first] = [kept[first] EXCEPT !.quantity = @ + e.quantity]] \in Seq(E)
      BY <2>2, <2>5 DEF E
    <2> QED BY <2>3, <2>6 DEF E
  <1>2. CASE ~(like # {} /\ kept[first].quantity + e.quantity \in 1 .. COPIES)
    BY <1>2 DEF Joined
  <1> QED BY <1>1, <1>2

\* So joining what is alike makes no stack and no second one of a read.
LEMMA MergedSound ==
    ASSUME NEW old, Sound(old)
    PROVE  Sound(Merged(old)) /\ IdsOf(Merged(old)) \subseteq IdsOf(old)
  <1>1. PICK S : old \in Seq(S)
    BY DEF Sound, IsQueue
  <1> DEFINE m == Len(old)
             R == Range(old)
  <1>2. m \in Nat /\ DOMAIN old = 1 .. m
    BY <1>1
  <1>3. old \in Seq(EntriesOf(R))
    <2>1. \A i \in DOMAIN old : old[i] \in R /\ IsEntry(old[i])
      BY DEF Sound, Range
    <2>2. \A i \in DOMAIN old : old[i] \in EntriesOf(R)
      <3> TAKE i \in DOMAIN old
      <3> HIDE DEF R
      <3> QED BY <2>1 DEF EntriesOf, IsEntry
    <2>3. old = [i \in 1 .. m |-> old[i]]
      BY <1>1
    <2> HIDE DEF R
    <2> QED BY <1>2, <2>2, <2>3
  <1>4. \A kept \in Seq(EntriesOf(R)), i \in DOMAIN old :
           Joined(kept, old[i], 1 .. COPIES) \in Seq(EntriesOf(R))
    <2> HIDE DEF R
    <2> QED BY <1>3, JoinedTyped
  <1>5. PICK g : /\ g[0] = <<>>
                 /\ \A n \in 0 .. m - 1 : g[n + 1] = Joined(g[n], old[n + 1], 1 .. COPIES)
                 /\ Merged(old) = g[m]
    <2> HIDE DEF R
    <2> QED BY <1>3, <1>4, MergedSteps
  <1> DEFINE P(n) == Sound(g[n]) /\ IdsOf(g[n]) \subseteq {old[i].id : i \in 1 .. n}
             T == {n \in Nat : n <= m => P(n)}
  <1>6. 0 \in T
    BY <1>5, SoundNone
  <1>7. ASSUME NEW n \in Nat, n \in T PROVE n + 1 \in T
    <2> SUFFICES ASSUME n + 1 <= m PROVE P(n + 1)
      OBVIOUS
    <2>1. P(n) /\ n \in 0 .. m - 1 /\ n + 1 \in DOMAIN old
      BY <1>2, <1>7
    <2>2. /\ \A i \in 1 .. n : i \in 1 .. n + 1 /\ i \in DOMAIN old /\ i # n + 1
          /\ n + 1 \in 1 .. n + 1
      BY <1>2, <2>1
    <2> HIDE DEF m
    <2>3. g[n + 1] = Joined(g[n], old[n + 1], 1 .. COPIES)
      BY <1>5, <2>1
    <2>4. old[n + 1].id \notin IdsOf(g[n]) /\ IsEntry(old[n + 1])
      BY <2>1, <2>2 DEF Sound, Unique
    <2>5. Sound(g[n + 1]) /\ IdsOf(g[n + 1]) \subseteq IdsOf(g[n]) \cup {old[n + 1].id}
      BY <2>1, <2>3, <2>4, JoinedSound
    <2> QED BY <2>1, <2>2, <2>5
  <1>8. P(m)
    <2>1. \A n \in Nat : n \in T => n + 1 \in T
      BY <1>7
    <2> HIDE DEF T
    <2>2. m \in T
      BY <1>2, <1>6, <2>1, NatSetInduction
    <2> USE DEF T
    <2> HIDE DEF P
    <2> QED BY <1>2, <2>2
  <1> HIDE DEF m
  <1>9. IdsOf(g[m]) \subseteq IdsOf(old)
    BY <1>2, <1>8 DEF IdsOf, Range
  <1> QED BY <1>5, <1>8, <1>9

-----------------------------------------------------------------------------
(* What a move makes of a list.                                            *)

\* A field written over leaves the stack itself.
LEMMA EntryChanged ==
    ASSUME NEW e, IsEntry(e), NEW v
    PROVE  /\ IsEntry([e EXCEPT !.quantity = v]) /\ [e EXCEPT !.quantity = v].id = e.id
           /\ IsEntry([e EXCEPT !.reported = v]) /\ [e EXCEPT !.reported = v].id = e.id
           /\ IsEntry([e EXCEPT !.picked = v]) /\ [e EXCEPT !.picked = v].id = e.id
           /\ IsEntry([e EXCEPT !.print = v]) /\ [e EXCEPT !.print = v].id = e.id
           /\ IsEntry([e EXCEPT !.finish = v]) /\ [e EXCEPT !.finish = v].id = e.id
           /\ IsEntry([e EXCEPT !.condition = v]) /\ [e EXCEPT !.condition = v].id = e.id
  BY DEF IsEntry

\* A move of one stack leaves every id where it was.
LEMMA PlusSound ==
    ASSUME NEW old, Sound(old), NEW id
    PROVE  Sound(Plus(old, id)) /\ IdsOf(Plus(old, id)) = IdsOf(old)
  <1> DEFINE new == Plus(old, id)
  <1>1. /\ new = [i \in DOMAIN old |-> new[i]]
        /\ \A i \in DOMAIN old : IsEntry(new[i]) /\ new[i].id = old[i].id
    BY EntryChanged DEF Plus, With, Sound
  <1> HIDE DEF new
  <1> QED BY <1>1, SoundSame DEF new

LEMMA ReportedSound ==
    ASSUME NEW old, Sound(old), NEW id
    PROVE  Sound(Reported(old, id)) /\ IdsOf(Reported(old, id)) = IdsOf(old)
  <1> DEFINE new == Reported(old, id)
  <1>1. /\ new = [i \in DOMAIN old |-> new[i]]
        /\ \A i \in DOMAIN old : IsEntry(new[i]) /\ new[i].id = old[i].id
    BY EntryChanged DEF Reported, With, Sound
  <1> HIDE DEF new
  <1> QED BY <1>1, SoundSame DEF new

LEMMA ChooseSound ==
    ASSUME NEW old, Sound(old), NEW id, NEW print
    PROVE  Sound(Choose(old, id, print)) /\ IdsOf(Choose(old, id, print)) = IdsOf(old)
  <1> DEFINE new == Choose(old, id, print)
             Change1(one) == [one EXCEPT !.picked = TRUE, !.print = print, !.finish = Settled(Finishes(print))]
  <1>1. \A i \in DOMAIN old : LET one == old[i] IN
           /\ IsEntry([one EXCEPT !.picked = TRUE]) /\ [one EXCEPT !.picked = TRUE].id = one.id
           /\ IsEntry(Change1(one)) /\ Change1(one).id = one.id
    <2> TAKE i \in DOMAIN old
    <2> DEFINE a == [old[i] EXCEPT !.picked = TRUE]  b == [a EXCEPT !.print = print]
               c == [b EXCEPT !.finish = Settled(Finishes(print))]
    <2>1. IsEntry(a) /\ a.id = old[i].id
      BY EntryChanged DEF Sound
    <2>2. IsEntry(b) /\ b.id = old[i].id
      <3> HIDE DEF a
      <3> QED BY <2>1, EntryChanged
    <2>3. IsEntry(c) /\ c.id = old[i].id
      <3> HIDE DEF b
      <3> QED BY <2>2, EntryChanged
    <2>4. c = Change1(old[i])
      OBVIOUS
    <2> QED BY <2>1, <2>3, <2>4
  <1>2. /\ new = [i \in DOMAIN old |-> new[i]]
        /\ \A i \in DOMAIN old : IsEntry(new[i]) /\ new[i].id = old[i].id
    BY <1>1 DEF Choose, With, Sound
  <1> HIDE DEF new
  <1> QED BY <1>2, SoundSame DEF new

LEMMA RefinishSound ==
    ASSUME NEW old, Sound(old), NEW id, NEW finish
    PROVE  Sound(Refinish(old, id, finish)) /\ IdsOf(Refinish(old, id, finish)) = IdsOf(old)
  <1> DEFINE new == Refinish(old, id, finish)
  <1>1. /\ new = [i \in DOMAIN old |-> new[i]]
        /\ \A i \in DOMAIN old : IsEntry(new[i]) /\ new[i].id = old[i].id
    BY EntryChanged DEF Refinish, With, Sound
  <1> HIDE DEF new
  <1> QED BY <1>1, SoundSame DEF new

LEMMA CycledSound ==
    ASSUME NEW old, Sound(old), NEW id
    PROVE  Sound(Cycled(old, id)) /\ IdsOf(Cycled(old, id)) = IdsOf(old)
  <1> DEFINE new == Cycled(old, id)
             made(i) == Finishes(old[i].print)
             at(i) == IF old[i].finish \in Range(made(i)) THEN CHOOSE j \in DOMAIN made(i) : made(i)[j] = old[i].finish
                      ELSE 0
             finish(i) == made(i)[(at(i) % Len(made(i))) + 1]
  <1>1. \A i \in DOMAIN old : IsEntry([old[i] EXCEPT !.finish = finish(i)])
                              /\ [old[i] EXCEPT !.finish = finish(i)].id = old[i].id
    <2> HIDE DEF finish
    <2> QED BY EntryChanged DEF Sound
  <1>2. new = [i \in DOMAIN old |->
                  IF old[i].id = id THEN IF Len(made(i)) < 2 THEN old[i] ELSE [old[i] EXCEPT !.finish = finish(i)]
                  ELSE old[i]]
    BY DEF Cycled, With
  <1> HIDE DEF new, made, finish
  <1>3. /\ new = [i \in DOMAIN old |-> new[i]]
        /\ \A i \in DOMAIN old : IsEntry(new[i]) /\ new[i].id = old[i].id
    BY <1>1, <1>2 DEF Sound
  <1> QED BY <1>3, SoundSame DEF new

LEMMA RegradedSound ==
    ASSUME NEW old, Sound(old), NEW id, NEW condition
    PROVE  Sound(Regraded(old, id, condition)) /\ IdsOf(Regraded(old, id, condition)) = IdsOf(old)
  <1> DEFINE new == Regraded(old, id, condition)
  <1>1. /\ new = [i \in DOMAIN old |-> new[i]]
        /\ \A i \in DOMAIN old : IsEntry(new[i]) /\ new[i].id = old[i].id
    BY EntryChanged DEF Regraded, With, Sound
  <1> HIDE DEF new
  <1> QED BY <1>1, SoundSame DEF new

\* The stacks a press takes off are the ones it names.
LEMMA MinusSound ==
    ASSUME NEW old, Sound(old), NEW id
    PROVE  /\ Sound(Minus(old, id)) /\ IdsOf(Minus(old, id)) \subseteq IdsOf(old)
           /\ IdsOf(old) \ {id} \subseteq IdsOf(Minus(old, id))
           /\ (\E one \in Range(old) : one.id = id /\ ~(one.quantity <= 1)) => id \in IdsOf(Minus(old, id))
  <1> DEFINE off == {one \in Range(old) : one.id = id /\ one.quantity <= 1}
             rest == Without(old, off)
             new == Minus(old, id)
  <1>1. /\ Sound(rest) /\ IdsOf(rest) \subseteq IdsOf(old)
        /\ \A one \in Range(old) : one \notin off => one.id \in IdsOf(rest)
    <2> HIDE DEF off
    <2> QED BY WithoutSound
  <1>2. new = With(rest, id, LAMBDA one : [one EXCEPT !.quantity = @ - 1])
    BY DEF Minus
  <1> HIDE DEF rest
  <1>3. /\ new = [i \in DOMAIN rest |-> new[i]]
        /\ \A i \in DOMAIN rest : IsEntry(new[i]) /\ new[i].id = rest[i].id
    <2>1. new = [i \in DOMAIN rest |->
                    IF rest[i].id = id THEN [rest[i] EXCEPT !.quantity = rest[i].quantity - 1] ELSE rest[i]]
      BY <1>2 DEF With
    <2> HIDE DEF new
    <2> QED BY <1>1, <2>1, EntryChanged DEF Sound
  <1> HIDE DEF new
  <1>4. Sound(new) /\ IdsOf(new) = IdsOf(rest)
    BY <1>1, <1>3, SoundSame
  <1>5. IdsOf(old) \ {id} \subseteq IdsOf(rest)
    BY <1>1 DEF IdsOf
  <1> QED BY <1>1, <1>4, <1>5 DEF new

LEMMA DroppedSound ==
    ASSUME NEW old, Sound(old), NEW id
    PROVE  Sound(Dropped(old, id)) /\ IdsOf(Dropped(old, id)) \subseteq IdsOf(old)
  BY WithoutSound DEF Dropped

\* So every press on the review leaves a list of stacks it had.
LEMMA EditsSound ==
    ASSUME NEW old, Sound(old), list = old, NEW id, NEW next \in Edits(id)
    PROVE  Sound(next) /\ IdsOf(next) \subseteq IdsOf(old)
  <1>1. CASE next \in {Plus(list, id), Minus(list, id), Dropped(list, id), Reported(list, id), Cycled(list, id)}
    BY <1>1, PlusSound, MinusSound, DroppedSound, ReportedSound, CycledSound
  <1>2. ASSUME NEW p, next = Choose(list, id, p) PROVE Sound(next) /\ IdsOf(next) \subseteq IdsOf(old)
    BY <1>2, ChooseSound
  <1>3. ASSUME NEW f, next = Refinish(list, id, f) PROVE Sound(next) /\ IdsOf(next) \subseteq IdsOf(old)
    BY <1>3, RefinishSound
  <1>4. ASSUME NEW g, next = Regraded(list, id, g) PROVE Sound(next) /\ IdsOf(next) \subseteq IdsOf(old)
    BY <1>4, RegradedSound
  <1> QED BY <1>1, <1>2, <1>3, <1>4 DEF Edits

LEMMA ScannedEntry ==
    ASSUME NEW found, NEW t, NEW g, Scanned(found, t, g) # NoEntry
    PROVE  IsEntry(Scanned(found, t, g)) /\ Scanned(found, t, g).id = t
  BY DEF Scanned, IsEntry

-----------------------------------------------------------------------------
(* The numbers of the stacks.                                              *)

\* A read is numbered when it is taken.  What it made is in a list only once it
\* is neither out nor offered.
Numbered ==
    /\ taken \in Nat /\ takes \subseteq 1 .. taken
    /\ answer.offer # NoEntry => IsEntry(answer.offer) /\ answer.offer.id \in (1 .. taken) \ takes

Past == (1 .. taken) \ (takes \cup {answer.offer.id})

LEMMA NumberedInit == Init => Numbered
  BY DEF Init, Numbered, NoAnswer

\* Nothing is taken and nothing more is offered.
LEMMA NumberedStill ==
    ASSUME Numbered, taken' = taken, takes' \subseteq takes,
           answer'.offer = answer.offer \/ answer'.offer = NoEntry
    PROVE  Numbered' /\ Past \subseteq Past'
  BY DEF Numbered, Past, NoEntry

LEMMA NumberedStep ==
    ASSUME Numbered, [Next]_vars
    PROVE  Numbered' /\ Past \subseteq Past'
  <1>1. CASE Loads
    BY <1>1, NumberedStill DEF Loads, Fetched, FetchFails, AnswerFailed, NoAnswer, takeVars
  <1>2. CASE Database
    <2>1. UNCHANGED takeVars
      BY <1>2 DEF Database, Recalled, Unread, Written, Unwritten, Forgotten, NotForgotten,
                  GradeRecalled, GradeUnread, GradeWritten
    <2> QED BY <2>1, NumberedStill DEF takeVars
  <1>3. CASE Cameras
    BY <1>3, NumberedStill DEF Cameras, Start, Stop, StopCamera, Opened, Plays, OpenFails, NoAnswer, takeVars
  <1>4. ASSUME NEW t \in takes, ReadsNothing(t) PROVE Numbered' /\ Past \subseteq Past'
    <2>1. taken' = taken /\ takes' \subseteq takes /\ (answer'.offer = answer.offer \/ answer'.offer = NoEntry)
      BY <1>4 DEF ReadsNothing, Panel, NoAnswer
    <2> QED BY <2>1, NumberedStill
  <1>5. ASSUME NEW t \in takes, ReadsCard(t) PROVE Numbered' /\ Past \subseteq Past'
    <2>1. taken' = taken /\ takes' = takes \ {t} /\ t \in 1 .. taken
      BY <1>5 DEF ReadsCard, Numbered
    <2>2. PICK found : answer'.offer = answer.offer \/ answer'.offer = NoEntry
                       \/ answer'.offer = Scanned(found, t, grade)
      BY <1>5 DEF ReadsCard, Panel
    <2>3. CASE answer'.offer = Scanned(found, t, grade) /\ answer'.offer # NoEntry
      <3>1. IsEntry(answer'.offer) /\ answer'.offer.id = t
        BY <2>3, ScannedEntry
      <3> QED BY <2>1, <3>1 DEF Numbered, Past
    <2> QED BY <2>1, <2>2, <2>3, NumberedStill
  <1>6. CASE Regrade \/ Edit \/ Join \/ Away \/ Keep \/ More \/ ToScan
    <2>1. UNCHANGED takeVars
      BY <1>6 DEF Regrade, Edit, Join, Moved, Away, Keep, More, ToScan
    <2> QED BY <2>1, NumberedStill DEF takeVars
  <1>7. CASE Take
    BY <1>7 DEF Take, Numbered, Past, NoAnswer, NoEntry
  <1>8. ASSUME NEW p, Pick(p) PROVE Numbered' /\ Past \subseteq Past'
    <2> DEFINE a == [answer.offer EXCEPT !.print = p]  b == [a EXCEPT !.picked = TRUE]
               c == [b EXCEPT !.finish = Settled(Finishes(p))]
    <2>1. IsEntry(answer.offer) /\ answer.offer.id \in (1 .. taken) \ takes
      BY <1>8 DEF Pick, Offering, Offer, Numbered
    <2>2. IsEntry(a) /\ a.id = answer.offer.id
      BY <2>1, EntryChanged
    <2>3. IsEntry(b) /\ b.id = a.id
      <3> HIDE DEF a
      <3> QED BY <2>2, EntryChanged
    <2>4. IsEntry(c) /\ c.id = b.id
      <3> HIDE DEF b
      <3> QED BY <2>3, EntryChanged
    <2>5. answer'.offer = c /\ UNCHANGED <<taken, takes>>
      BY <1>8 DEF Pick
    <2> HIDE DEF a, b, c
    <2> QED BY <2>1, <2>2, <2>3, <2>4, <2>5 DEF Numbered, Past
  <1>9. CASE Agree
    BY <1>9, NumberedStill DEF Agree, AnswerAgreed
  <1>10. CASE Fewer
    BY <1>10, NumberedStill DEF Fewer, NoAnswer
  <1>11. CASE ToReview
    BY <1>11, NumberedStill DEF ToReview, StopCamera, NoAnswer
  <1>12. CASE Keeps \/ Reopens
    BY <1>12, NumberedStill DEF Keeps, Lands, Finds, Begins, Refuses, Reopens, takeVars
  <1>13. CASE NewCatalog
    BY <1>13, NumberedStill DEF NewCatalog, takeVars
  <1>14. CASE Dies
    BY <1>14, NumberedStill DEF Dies, Blank, NoAnswer
  <1>15. CASE UNCHANGED vars
    BY <1>15, NumberedStill DEF vars, takeVars
  <1> QED BY <1>1, <1>2, <1>3, <1>4, <1>5, <1>6, <1>7, <1>8, <1>9, <1>10, <1>11, <1>12, <1>13, <1>14, <1>15
          DEF Next, Answers, Presses

-----------------------------------------------------------------------------
(* What becomes of the stacks.                                             *)

Carried == UNION {IdsOf(begun[i]) : i \in DOMAIN begun}

\* Nothing went wrong between an import and the list, and no second keep was
\* pressed while one was under way.
Clean == ~untidy /\ ~again

UnderWay == {k \in left \cup {keep} : Handing(k)}

\* What a keep hands on is every stack still shown, and the list itself while
\* it is the only keep.
Handed ==
    /\ \A k \in UnderWay : IdsOf(list) \subseteq IdsOf(k.list) /\ IdsOf(k.list) \subseteq Past
    /\ ~again =>
          /\ \A k \in UnderWay : k.list = list
          /\ \A k, l \in left : k = l
          /\ left = {} \/ ~Handing(keep)

\* SavedStays speaks of what is stored.  While the queue holds writes, each is a
\* list of stacks that loses none of what was saved or of what the writes before
\* it leave, and so is the list shown; and none after the last clear holds a
\* stack that an import carries.
Holding(q) ==
    /\ IsQueue(q)
    /\ \A i \in DOMAIN q : IsWrite(q[i]) =>
          /\ ~sealed
          /\ Sound(Leaves(q[i])) /\ IdsOf(Leaves(q[i])) \subseteq Past
          /\ saved \ gone \subseteq IdsOf(Leaves(q[i]))
          /\ joined => IdsOf(Leaves(q[i])) \ gone \subseteq IdsOf(list)
    /\ \A i, j \in DOMAIN q : i < j /\ IsWrite(q[i]) /\ IsWrite(q[j]) =>
          IdsOf(Leaves(q[i])) \ gone \subseteq IdsOf(Leaves(q[j]))
    /\ Clean =>
          /\ \A i \in DOMAIN q : IsWrite(q[i]) /\ (\A j \in DOMAIN q : j > i => q[j].do # "forget") =>
                IdsOf(Leaves(q[i])) \cap Carried = {}
          /\ (\A i \in DOMAIN q : q[i].do # "forget") => IdsOf(stored) \cap Carried = {}

Carries ==
    /\ Holding(txns)
    /\ Sound(list) /\ IdsOf(list) \subseteq Past
    /\ Sound(stored) /\ IdsOf(stored) \subseteq Past
    /\ IsQueue(begun) /\ Carried \subseteq Past
    /\ saved \ gone \subseteq IdsOf(stored)
    /\ joined => saved \ gone \subseteq IdsOf(list)
    /\ Open /\ NoRecall => joined \/ sealed
    /\ ~Open => txns = <<>>
    /\ Handed
    /\ Clean =>
          /\ \A i, j \in DOMAIN begun : IdsOf(begun[i]) \cap IdsOf(begun[j]) # {} => i = j
          /\ IdsOf(list) \cap Carried = {}
          /\ sealed => IdsOf(list) \cap IdsOf(stored) = {}

\* A transaction that is no write of the list changes nothing of it.
LEMMA HoldingMore ==
    ASSUME NEW q, Holding(q), NEW e, ~IsWrite(e)
    PROVE  Holding(Append(q, e))
  <1> DEFINE r == Append(q, e)
  <1>1. /\ IsQueue(r) /\ Len(q) \in Nat /\ DOMAIN q = 1 .. Len(q) /\ DOMAIN r = 1 .. Len(q) + 1
        /\ \A i \in 1 .. Len(q) : r[i] = q[i]
        /\ r[Len(q) + 1] = e
    BY Joining DEF Holding
  <1> HIDE DEF r
  <1>2. \A i \in DOMAIN r : IsWrite(r[i]) => i \in DOMAIN q /\ r[i] = q[i]
    BY <1>1
  <1>3. \A i \in DOMAIN q : i \in DOMAIN r /\ r[i] = q[i]
    BY <1>1
  <1>4. Holding(r)
    BY <1>1, <1>2, <1>3 DEF Holding
  <1> QED BY <1>4 DEF r

\* A transaction that is done or refused without a word to the list.
LEMMA HoldingLess ==
    ASSUME NEW q, Holding(q), q # <<>>, Head(q).do # "forget"
    PROVE  Holding(Tail(q))
  <1> DEFINE r == Tail(q)
  <1>1. /\ IsQueue(r) /\ Len(q) \in Nat \ {0} /\ DOMAIN q = 1 .. Len(q) /\ DOMAIN r = 1 .. Len(q) - 1
        /\ \A i \in 1 .. Len(q) - 1 : r[i] = q[i + 1]
        /\ Head(q) = q[1]
    BY Leaving DEF Holding
  <1> HIDE DEF r
  <1>2. \A i \in DOMAIN r : i + 1 \in DOMAIN q /\ r[i] = q[i + 1]
    BY <1>1
  <1>3. \A i, j \in DOMAIN r : i < j => i + 1 < j + 1
    BY <1>1
  <1>4. \A i \in DOMAIN q : i = 1 \/ (i - 1 \in DOMAIN r /\ r[i - 1] = q[i])
    BY <1>1
  <1>5. \A i \in DOMAIN r :
           (\A j \in DOMAIN r : j > i => r[j].do # "forget") => \A j \in DOMAIN q : j > i + 1 => q[j].do # "forget"
    BY <1>1, <1>4
  <1>6. (\A i \in DOMAIN r : r[i].do # "forget") => \A i \in DOMAIN q : q[i].do # "forget"
    BY <1>1, <1>4
  <1>7. Holding(r)
    BY <1>1, <1>2, <1>3, <1>5, <1>6 DEF Holding
  <1> QED BY <1>7 DEF r

\* A step that leaves the lists alone.
LEMMA CarriesKept ==
    ASSUME Carries, Past \subseteq Past', Holding(txns'),
           UNCHANGED <<list, joined, sealed, stored, begun, saved, gone>>, Clean' => Clean,
           Open' /\ NoRecall' => Open /\ NoRecall, ~Open' => txns' = <<>>, Handed'
    PROVE  Carries'
  <1>1. Holding(txns)'
    BY DEF Holding, Carried
  <1> QED BY <1>1 DEF Carries, Carried

\* A list put down, by a move, a clear or the start of the import that carries it.
LEMMA CarriesWrite ==
    ASSUME Carries, Through, NoRecall, Open, Open', Past \subseteq Past',
           NEW e, IsWrite(e), e.do # "recall", list' = Leaves(e), UNCHANGED <<joined, sealed, stored, saved, untidy, again>>,
           txns' = IF sealed THEN txns ELSE Append(txns, e),
           gone \subseteq gone', IdsOf(list) \ gone' \subseteq IdsOf(list'),
           Sound(list'), IdsOf(list') \subseteq IdsOf(list) \cup (Past' \ Past),
           Handed',
           \/ begun' = begun
           \/ e.do = "forget" /\ \E L : begun' = Append(begun, L) /\ IdsOf(L) \subseteq Past /\ (Clean => L = list)
    PROVE  Carries'
  <1>0. Clean' <=> Clean
    BY DEF Clean
  <1>1. /\ IsQueue(begun') /\ Carried \subseteq Carried' /\ Carried' \subseteq Past
        /\ Clean => Carried' \subseteq Carried \cup IdsOf(list)
        /\ e.do # "forget" => Carried' = Carried
    <2>1. CASE begun' = begun
      BY <2>1 DEF Carries, Carried
    <2>2. CASE begun' # begun
      <3>0. PICK L : begun' = Append(begun, L) /\ IdsOf(L) \subseteq Past /\ (Clean => L = list)
        BY <2>2
      <3> DEFINE b == Append(begun, L)
      <3>1. /\ IsQueue(b) /\ Len(begun) \in Nat /\ DOMAIN begun = 1 .. Len(begun) /\ DOMAIN b = 1 .. Len(begun) + 1
            /\ \A i \in 1 .. Len(begun) : b[i] = begun[i]
            /\ b[Len(begun) + 1] = L
        BY Joining DEF Carries
      <3>2. begun' = b
        BY <3>0
      <3> HIDE DEF b
      <3>3. \A i \in DOMAIN b : i = Len(begun) + 1 \/ (i \in DOMAIN begun /\ b[i] = begun[i])
        BY <3>1
      <3>4. \A i \in DOMAIN begun : i \in DOMAIN b /\ b[i] = begun[i]
        BY <3>1
      <3>5. Carried \subseteq Carried' /\ Carried' \subseteq Carried \cup IdsOf(L)
        BY <3>1, <3>2, <3>3, <3>4 DEF Carried
      <3> QED BY <2>2, <3>0, <3>1, <3>2, <3>5 DEF Carries
    <2> QED BY <2>1, <2>2
  <1>2. Clean => \A i, j \in DOMAIN begun' : IdsOf(begun'[i]) \cap IdsOf(begun'[j]) # {} => i = j
    <2>1. CASE begun' = begun
      BY <2>1 DEF Carries
    <2>2. CASE Clean /\ begun' = Append(begun, list)
      <3> DEFINE b == Append(begun, list)
      <3>1. /\ Len(begun) \in Nat /\ DOMAIN begun = 1 .. Len(begun) /\ DOMAIN b = 1 .. Len(begun) + 1
            /\ \A i \in 1 .. Len(begun) : b[i] = begun[i]
            /\ b[Len(begun) + 1] = list
        BY Joining DEF Carries
      <3>2. begun' = b
        BY <2>2
      <3> HIDE DEF b
      <3>3. \A i \in DOMAIN b : i = Len(begun) + 1 \/ (i \in DOMAIN begun /\ b[i] = begun[i])
        BY <3>1
      <3>4. \A i \in DOMAIN begun : IdsOf(begun[i]) \cap IdsOf(list) = {}
        BY <2>2 DEF Carries, Carried
      <3> QED BY <2>2, <3>1, <3>2, <3>3, <3>4 DEF Carries
    <2> QED BY <2>1, <2>2
  <1>3. IdsOf(list') \subseteq Past' /\ Carried' \subseteq Past'
    BY <1>1 DEF Carries
  <1>4. e.do = "forget" => IdsOf(list') = {}
    BY SoundNone DEF Leaves, Absent
  <1>5. Clean => IdsOf(list') \cap Carried' = {}
    BY <1>1, <1>4 DEF Carries, IsWrite
  <1>6. Clean /\ sealed => IdsOf(list') \cap IdsOf(stored) = {}
    BY DEF Carries
  <1>7. joined => saved \ gone' \subseteq IdsOf(list')
    BY DEF Carries
  <1>8. CASE sealed
    <2>1. /\ txns' = txns /\ ~joined /\ \A i \in DOMAIN txns : ~IsWrite(txns[i])
      BY <1>8 DEF Carries, Holding, Through
    <2>2. Clean => IdsOf(stored) \cap Carried' = {}
      <3>1. \A i \in DOMAIN txns : txns[i].do # "forget"
        BY <2>1 DEF IsWrite
      <3> QED BY <1>1, <1>8, <3>1 DEF Carries, Holding
    <2>3. Holding(txns)'
      BY <1>0, <2>1, <2>2 DEF Holding, Carries
    <2> QED BY <1>0, <1>1, <1>2, <1>3, <1>5, <1>6, <1>8, <2>1, <2>3 DEF Carries
  <1>9. CASE ~sealed
    <2>1. joined /\ txns' = Append(txns, e)
      BY <1>9 DEF Carries
    <2> DEFINE q == txns  r == Append(txns, e)
    <2>2. /\ IsQueue(r) /\ Len(q) \in Nat /\ DOMAIN q = 1 .. Len(q) /\ DOMAIN r = 1 .. Len(q) + 1
          /\ \A i \in 1 .. Len(q) : r[i] = q[i]
          /\ r[Len(q) + 1] = e
      BY Joining DEF Carries, Holding
    <2> HIDE DEF r
    <2>3. \A i \in DOMAIN r : i = Len(q) + 1 \/ (i \in DOMAIN q /\ r[i] = q[i] /\ Len(q) + 1 > i)
      BY <2>2
    <2>4. Len(q) + 1 \in DOMAIN r /\ \A i \in DOMAIN q : i \in DOMAIN r /\ r[i] = q[i]
      BY <2>2
    <2>5. \A i, j \in DOMAIN r : i < j => i \in DOMAIN q /\ (j \in DOMAIN q \/ j = Len(q) + 1)
      BY <2>2
    <2>6. \A i \in DOMAIN r : IsWrite(r[i]) =>
             /\ ~sealed'
             /\ Sound(Leaves(r[i])) /\ IdsOf(Leaves(r[i])) \subseteq Past'
             /\ saved' \ gone' \subseteq IdsOf(Leaves(r[i]))
             /\ joined' => IdsOf(Leaves(r[i])) \ gone' \subseteq IdsOf(list')
      <3>1. Sound(Leaves(e)) /\ IdsOf(Leaves(e)) \subseteq Past' /\ saved \ gone' \subseteq IdsOf(Leaves(e))
        BY <1>3, <1>7, <2>1
      <3>2. \A i \in DOMAIN q : IsWrite(q[i]) =>
               /\ Sound(Leaves(q[i])) /\ IdsOf(Leaves(q[i])) \subseteq Past'
               /\ saved \ gone' \subseteq IdsOf(Leaves(q[i]))
               /\ IdsOf(Leaves(q[i])) \ gone' \subseteq IdsOf(list')
        BY <2>1 DEF Carries, Holding
      <3> QED BY <1>9, <2>2, <2>3, <3>1, <3>2
    <2>7. \A i, j \in DOMAIN r : i < j /\ IsWrite(r[i]) /\ IsWrite(r[j]) =>
             IdsOf(Leaves(r[i])) \ gone' \subseteq IdsOf(Leaves(r[j]))
      <3> TAKE i, j \in DOMAIN r
      <3> HAVE i < j /\ IsWrite(r[i]) /\ IsWrite(r[j])
      <3>1. i \in DOMAIN q /\ r[i] = q[i]
        BY <2>4, <2>5
      <3>2. CASE j \in DOMAIN q
        BY <2>4, <3>1, <3>2 DEF Carries, Holding
      <3>3. CASE j = Len(q) + 1
        BY <2>2, <2>6, <3>1, <3>3, <2>1
      <3> QED BY <2>5, <3>2, <3>3
    <2>8. Clean =>
             /\ \A i \in DOMAIN r : IsWrite(r[i]) /\ (\A j \in DOMAIN r : j > i => r[j].do # "forget") =>
                   IdsOf(Leaves(r[i])) \cap Carried' = {}
             /\ (\A i \in DOMAIN r : r[i].do # "forget") => IdsOf(stored) \cap Carried' = {}
      <3> SUFFICES ASSUME Clean
                   PROVE  /\ \A i \in DOMAIN r : IsWrite(r[i]) /\ (\A j \in DOMAIN r : j > i => r[j].do # "forget") =>
                                IdsOf(Leaves(r[i])) \cap Carried' = {}
                          /\ (\A i \in DOMAIN r : r[i].do # "forget") => IdsOf(stored) \cap Carried' = {}
        OBVIOUS
      <3>1. IdsOf(Leaves(e)) \cap Carried' = {}
        BY <1>5
      <3>2. CASE e.do = "forget"
        BY <2>2, <2>3, <2>4, <3>1, <3>2
      <3>3. CASE e.do # "forget"
        <4>1. Carried' = Carried
          BY <1>1, <3>3
        <4>2. \A i \in DOMAIN q : (\A j \in DOMAIN r : j > i => r[j].do # "forget")
                                  => \A j \in DOMAIN q : j > i => q[j].do # "forget"
          BY <2>4
        <4>3. (\A i \in DOMAIN r : r[i].do # "forget") => \A i \in DOMAIN q : q[i].do # "forget"
          BY <2>4
        <4> QED BY <2>2, <2>3, <3>1, <4>1, <4>2, <4>3 DEF Carries, Holding
      <3> QED BY <3>2, <3>3
    <2>9. Holding(txns)'
      BY <1>0, <1>9, <2>1, <2>2, <2>6, <2>7, <2>8 DEF Holding, r
    <2> QED BY <1>0, <1>1, <1>2, <1>3, <1>5, <1>6, <1>7, <1>9, <2>1, <2>9 DEF Carries
  <1> QED BY <1>8, <1>9

LEMMA CarriesInit == Init => Carries
  <1> SUFFICES ASSUME Init PROVE Carries
    OBVIOUS
  <1>1. /\ txns = Mounting /\ Open /\ list = <<>> /\ stored = <<>> /\ ~joined /\ ~sealed /\ begun = <<>> /\ saved = {}
        /\ UnderWay = {} /\ left = {}
    BY DEF Init, Open, NoKeep, Absent, UnderWay, Handing
  <1>2. IsQueue(begun) /\ DOMAIN begun = {} /\ Carried = {}
    BY <1>1 DEF IsQueue, Carried
  <1>3. \A i \in DOMAIN txns : ~IsWrite(txns[i])
    BY <1>1, Mounted DEF IsWrite
  <1>4. Holding(txns)
    BY <1>1, <1>2, <1>3, Mounted DEF Holding
  <1>5. ~NoRecall
    BY <1>1, Mounted DEF NoRecall
  <1> QED BY <1>1, <1>2, <1>4, <1>5, SoundNone DEF Carries, Handed

LEMMA HandedStill ==
    ASSUME Handed, UNCHANGED <<list, left, again>>, keep' \in {keep, NoKeep}, Past \subseteq Past'
    PROVE  Handed'
  BY DEF Handed, UnderWay, Handing, NoKeep

LEMMA HandedNone ==
    ASSUME AtRest'
    PROVE  Handed'
  BY DEF Handed, UnderWay, Handing, AtRest

LEMMA CarriesDatabase ==
    ASSUME Carries, Through, Past \subseteq Past', Database
    PROVE  Carries'
  <1> DEFINE q == txns  r == Tail(txns)
  <1>1. Open /\ txns # <<>> /\ Open' /\ UNCHANGED <<begun, gone>>
    BY DEF Database, Recalled, Unread, Written, Unwritten, Forgotten, NotForgotten,
           GradeRecalled, GradeUnread, GradeWritten, Open, keepVars, ownerVars
  <1>2. /\ IsQueue(r) /\ Len(q) \in Nat \ {0} /\ DOMAIN q = 1 .. Len(q) /\ DOMAIN r = 1 .. Len(q) - 1
        /\ \A i \in 1 .. Len(q) - 1 : r[i] = q[i + 1]
        /\ Head(q) = q[1]
    BY <1>1, Leaving DEF Carries, Holding
  <1>3. /\ \A i \in DOMAIN r : i + 1 \in DOMAIN q /\ r[i] = q[i + 1] /\ i + 1 > 1
        /\ 1 \in DOMAIN q
    BY <1>2
  <1>4. \A i \in DOMAIN r : r[i].do # "recall"
    BY <1>2 DEF Through, Due
  <1> HIDE DEF r
  <1>5. CASE Recalled \/ Unread
    <2>1. /\ list = <<>> /\ ~joined /\ ~sealed /\ AtRest /\ \A j \in DOMAIN q : ~IsWrite(q[j])
      BY <1>2, <1>3, <1>5 DEF Recalled, Unread, Ask, Through, Due
    <2>2. txns' = r /\ UNCHANGED <<stored, saved, untidy, again>> /\ Handed'
      <3>1. txns' = r /\ UNCHANGED <<stored, keep, left, saved, untidy, again>>
        BY <1>5, <2>1 DEF Recalled, Unread, keepVars, ownerVars, r
      <3> QED BY <2>1, <3>1, HandedNone DEF AtRest
    <2>3. \A j \in DOMAIN r : ~IsWrite(r[j])
      BY <1>3, <2>1
    <2>4. Clean => IdsOf(stored) \cap Carried = {}
      <3>1. \A i \in DOMAIN q : q[i].do # "forget"
        BY <2>1 DEF IsWrite
      <3> QED BY <3>1 DEF Carries, Holding
    <2>5. Holding(txns)'
      BY <1>1, <1>2, <2>2, <2>3, <2>4 DEF Holding, Carried, Clean
    <2>6. CASE Recalled
      <3>1. list' = stored /\ joined'
        BY <2>1, <2>6 DEF Recalled, JoinedBefore, Absent
      <3>2. sealed' = sealed
        BY <2>6 DEF Recalled
      <3> QED BY <1>1, <2>1, <2>2, <2>4, <2>5, <3>1, <3>2 DEF Carries, Carried, Clean
    <2>7. CASE Unread
      <3>1. sealed' /\ UNCHANGED <<list, joined>>
        BY <2>7 DEF Unread
      <3> QED BY <1>1, <2>1, <2>2, <2>4, <2>5, <3>1, SoundNone DEF Carries, Carried, Clean
    <2> QED BY <1>5, <2>6, <2>7
  <1>6. CASE Written
    <2>1. /\ q[1].do = "keep" /\ stored' = q[1].list /\ saved' = saved \cup IdsOf(q[1].list) /\ txns' = r
          /\ UNCHANGED <<list, joined, sealed, untidy, again>> /\ Handed'
      <3>1. /\ q[1].do = "keep" /\ stored' = q[1].list /\ saved' = saved \cup IdsOf(q[1].list) /\ txns' = r
            /\ UNCHANGED <<list, joined, sealed, keep, left, untidy, again>>
        BY <1>2, <1>6 DEF Written, Ask, Took, listVars, keepVars, r
      <3> QED BY <3>1, HandedStill DEF Carries
    <2>2. /\ IsWrite(q[1]) /\ Leaves(q[1]) = stored' /\ ~sealed
      BY <1>3, <2>1 DEF IsWrite, Leaves, Carries, Holding
    <2>3. Sound(stored') /\ IdsOf(stored') \subseteq Past'
      BY <1>3, <2>2 DEF Carries, Holding
    <2>4. saved' \ gone \subseteq IdsOf(stored')
      BY <1>3, <2>1, <2>2 DEF Carries, Holding
    <2>5. joined => saved' \ gone \subseteq IdsOf(list)
      BY <1>3, <2>1, <2>2 DEF Carries, Holding
    <2>6. \A i \in DOMAIN r : IsWrite(r[i]) => saved' \ gone \subseteq IdsOf(Leaves(r[i]))
      BY <1>3, <2>1, <2>2 DEF Carries, Holding
    <2>7. Clean /\ (\A i \in DOMAIN r : r[i].do # "forget") => IdsOf(stored') \cap Carried = {}
      <3> SUFFICES ASSUME Clean, \A i \in DOMAIN r : r[i].do # "forget" PROVE IdsOf(stored') \cap Carried = {}
        OBVIOUS
      <3>1. \A j \in DOMAIN q : j > 1 => j - 1 \in DOMAIN r /\ r[j - 1] = q[j]
        BY <1>2
      <3>2. \A j \in DOMAIN q : j > 1 => q[j].do # "forget"
        BY <3>1
      <3> QED BY <1>3, <2>2, <3>2 DEF Carries, Holding
    <2>8. Holding(r)
      BY <1>1, <1>2, <2>1, HoldingLess DEF Carries, r
    <2>9. Holding(txns)'
      BY <1>1, <2>1, <2>6, <2>7, <2>8 DEF Holding, Carried, Clean
    <2>10. joined \/ sealed
      <3>1. \A i \in DOMAIN q : q[i].do = "recall" => i = 1
        BY DEF Through, Due
      <3>2. NoRecall
        BY <2>1, <3>1 DEF NoRecall
      <3> QED BY <1>1, <3>2 DEF Carries
    <2> QED BY <1>1, <2>1, <2>2, <2>3, <2>4, <2>5, <2>9, <2>10 DEF Carries, Carried, Clean
  <1>7. CASE Forgotten
    <2>1. /\ q[1].do = "forget" /\ stored' = <<>> /\ txns' = r
          /\ UNCHANGED <<list, joined, sealed, saved, untidy, left, again>> /\ keep' \in {NoKeep, keep}
      BY <1>2, <1>7 DEF Forgotten, Ask, listVars, ownerVars, Absent, r
    <2>2. saved \ gone = {} /\ ~sealed
      BY <1>3, <2>1, SoundNone DEF IsWrite, Leaves, Absent, Carries, Holding
    <2>3. \A i, j \in DOMAIN r : i < j => i + 1 < j + 1
      BY <1>2
    <2>4. \A i \in DOMAIN r :
             (\A j \in DOMAIN r : j > i => r[j].do # "forget") => \A j \in DOMAIN q : j > i + 1 => q[j].do # "forget"
      <3>1. \A j \in DOMAIN q : j > 1 => j - 1 \in DOMAIN r /\ r[j - 1] = q[j]
        BY <1>2
      <3> QED BY <1>2, <3>1
    <2>5. Holding(txns)'
      BY <1>1, <1>2, <1>3, <2>1, <2>3, <2>4, SoundNone DEF Carries, Holding, Carried, Clean
    <2>6. joined \/ sealed
      <3>1. \A i \in DOMAIN q : q[i].do = "recall" => i = 1
        BY DEF Through, Due
      <3>2. NoRecall
        BY <2>1, <3>1 DEF NoRecall
      <3> QED BY <1>1, <3>2 DEF Carries
    <2>7. IdsOf(stored') = {} /\ Sound(stored')
      BY <2>1, SoundNone
    <2>8. Handed'
      BY <2>1, HandedStill DEF Carries
    <2> QED BY <1>1, <2>1, <2>2, <2>5, <2>6, <2>7, <2>8 DEF Carries, Carried, Clean
  <1>8. CASE NotForgotten
    <2>1. /\ q[1].do = "forget" /\ txns' = r /\ untidy'
          /\ UNCHANGED <<list, joined, sealed, stored, saved, left, again>> /\ keep' \in {NoKeep, keep}
      BY <1>2, <1>8 DEF NotForgotten, Ask, listVars, r
    <2>2. ~sealed
      BY <1>3, <2>1 DEF IsWrite, Carries, Holding
    <2>3. \A i, j \in DOMAIN r : i < j => i + 1 < j + 1
      BY <1>2
    <2>4. Holding(txns)'
      BY <1>1, <1>2, <1>3, <2>1, <2>3 DEF Carries, Holding, Clean
    <2>5. joined \/ sealed
      <3>1. \A i \in DOMAIN q : q[i].do = "recall" => i = 1
        BY DEF Through, Due
      <3>2. NoRecall
        BY <2>1, <3>1 DEF NoRecall
      <3> QED BY <1>1, <3>2 DEF Carries
    <2>6. Handed'
      BY <2>1, HandedStill DEF Carries
    <2> QED BY <1>1, <2>1, <2>2, <2>4, <2>5, <2>6 DEF Carries, Carried, Clean
  <1>9. CASE Unwritten \/ GradeRecalled \/ GradeUnread \/ GradeWritten
    <2>1. Ask.do \in {"keep", "recallGrade", "keepGrade"}
      BY <1>9 DEF Unwritten, GradeRecalled, GradeUnread, GradeWritten
    <2>2. Holding(r)
      BY <1>1, <2>1, HoldingLess DEF Carries, Ask, r
    <2>3. UNCHANGED <<list, joined, sealed, stored, saved, keep, left, again>> /\ (untidy => untidy')
      <3>1. CASE Unwritten
        BY <3>1 DEF Unwritten, keepVars, ownerVars
      <3>2. CASE GradeRecalled
        BY <3>2 DEF GradeRecalled, listVars, keepVars, ownerVars
      <3>3. CASE GradeUnread
        BY <3>3 DEF GradeUnread, listVars, keepVars
      <3>4. CASE GradeWritten
        BY <3>4 DEF GradeWritten, listVars, keepVars, ownerVars
      <3> QED BY <1>9, <3>1, <3>2, <3>3, <3>4
    <2>4. NoRecall
      <3>1. \A i \in DOMAIN q : q[i].do = "recall" => i = 1
        BY DEF Through, Due
      <3> QED BY <1>2, <2>1, <3>1 DEF NoRecall, Ask
    <2>a. Handed' /\ (Clean' => Clean)
      BY <2>3, HandedStill DEF Carries, Clean
    <2>5. CASE txns' = r
      BY <1>1, <2>2, <2>3, <2>4, <2>5, <2>a, CarriesKept DEF Carries
    <2>6. CASE txns' = Append(r, [do |-> "keepGrade", grade |-> legacy])
      <3> DEFINE e == [do |-> "keepGrade", grade |-> legacy]
      <3>1. ~IsWrite(e)
        BY DEF IsWrite
      <3> HIDE DEF e
      <3>2. Holding(Append(r, e))
        BY <2>2, <3>1, HoldingMore
      <3> QED BY <1>1, <2>3, <2>4, <2>6, <2>a, <3>2, CarriesKept DEF Carries, e
    <2> QED BY <1>9, <2>5, <2>6 DEF Unwritten, GradeRecalled, GradeUnread, GradeWritten, r
  <1> QED BY <1>5, <1>6, <1>7, <1>8, <1>9 DEF Database

\* A press that writes the list it makes, and one that clears it.
LEMMA CarriesChange ==
    ASSUME Carries, Through, NoRecall, AtRest, Open, Open', Past \subseteq Past', NEW next, Change(next),
           UNCHANGED <<stored, saved, untidy, again, begun, keep, left>>, gone \subseteq gone',
           IdsOf(list) \ gone' \subseteq IdsOf(next), Sound(next),
           IdsOf(next) \subseteq IdsOf(list) \cup (Past' \ Past)
    PROVE  Carries'
  <1> DEFINE e == [do |-> "keep", list |-> next]
  <1>1. IsWrite(e) /\ e.do \notin {"recall", "forget"} /\ Leaves(e) = next
    BY DEF IsWrite, Leaves
  <1>2. list' = next /\ UNCHANGED <<joined, sealed>> /\ txns' = IF sealed THEN txns ELSE Append(txns, e)
    BY DEF Change
  <1> HIDE DEF e
  <1>3. Handed'
    BY HandedNone DEF AtRest
  <1> QED BY <1>1, <1>2, <1>3, CarriesWrite

LEMMA CarriesClear ==
    ASSUME Carries, Through, NoRecall, Open, Open', Past \subseteq Past', Clear,
           UNCHANGED <<stored, saved, untidy, again>>, gone \subseteq gone', IdsOf(list) \subseteq gone', Handed',
           begun' = begun \/ \E L : begun' = Append(begun, L) /\ IdsOf(L) \subseteq Past /\ (Clean => L = list)
    PROVE  Carries'
  <1> DEFINE e == [do |-> "forget"]
  <1>1. IsWrite(e) /\ e.do = "forget" /\ Leaves(e) = <<>>
    BY DEF IsWrite, Leaves, Absent
  <1>2. list' = <<>> /\ UNCHANGED <<joined, sealed>> /\ txns' = IF sealed THEN txns ELSE Append(txns, e)
    BY DEF Clear
  <1> HIDE DEF e
  <1> QED BY <1>1, <1>2, CarriesWrite, SoundNone

\* What is pressed waits for the list to be read and for a keep to be done.
LEMMA CarriesPresses ==
    ASSUME Carries, Through, Numbered, Past \subseteq Past', MayMove => NoRecall /\ AtRest,
           Presses
    PROVE  Carries'
  <1>1. Sound(list) /\ IdsOf(list) \subseteq Past
    BY DEF Carries
  <1>2. Open /\ Open'
    BY DEF Presses, Regrade, Take, Pick, Offering, Agree, Fewer, More, Edit, Join, Reviewing, Moved, Away, Keep,
           ToReview, ToScan, Open
  <1>3. CASE Take \/ (\E p \in Printings : Pick(p)) \/ ToReview \/ ToScan
    <2>1. /\ UNCHANGED <<list, joined, sealed, stored, begun, saved, gone, untidy, again, txns>>
          /\ UNCHANGED <<keep, left>> \/ ToScan
      BY <1>3 DEF Take, Pick, ToReview, ToScan, listVars, dbVars, keepVars, ownerVars
    <2>2. Holding(txns')
      BY <2>1 DEF Carries
    <2>3. Handed'
      <3>1. CASE UNCHANGED <<keep, left>>
        BY <2>1, <3>1, HandedStill DEF Carries
      <3>2. CASE ToScan
        BY <2>1, <3>2 DEF ToScan, Carries, Handed, UnderWay, Handing, NoKeep
      <3> QED BY <2>1, <3>1, <3>2
    <2> QED BY <1>2, <2>1, <2>2, <2>3, CarriesKept DEF Carries, NoRecall, Clean
  <1>4. CASE Regrade
    <2>1. PICK g : txns' = Append(txns, [do |-> "keepGrade", grade |-> g])
      BY <1>4 DEF Regrade
    <2>2. UNCHANGED <<list, joined, sealed, stored, begun, saved, gone, untidy, again, keep, left>>
      BY <1>4 DEF Regrade, listVars, keepVars
    <2>a. Handed'
      BY <2>2, HandedStill DEF Carries
    <2> DEFINE e == [do |-> "keepGrade", grade |-> g]
    <2>3. ~IsWrite(e) /\ e.do # "recall"
      BY DEF IsWrite
    <2> HIDE DEF e
    <2>4. Holding(txns')
      BY <2>1, <2>3, HoldingMore DEF Carries, e
    <2>5. NoRecall' => NoRecall
      <3>1. IsQueue(txns)
        BY DEF Carries, Holding
      <3>2. \A i \in DOMAIN txns : i \in DOMAIN Append(txns, e) /\ Append(txns, e)[i] = txns[i]
        BY <3>1, Joining
      <3> QED BY <2>1, <3>2 DEF NoRecall, e
    <2> QED BY <1>2, <2>2, <2>4, <2>5, <2>a, CarriesKept DEF Carries, Clean
  <1>5. CASE Agree
    <2>1. /\ Change(Append(list, answer.offer)) /\ UNCHANGED <<stored, saved, untidy, again, begun, keep, left, gone>>
          /\ NoRecall /\ AtRest
      BY <1>5 DEF Agree, Offer, keepVars, ownerVars
    <2>2. IsEntry(answer.offer) /\ answer.offer.id \in (1 .. taken) \ takes
      BY <1>5 DEF Agree, Offering, Offer, Numbered
    <2>3. answer'.offer = NoEntry /\ UNCHANGED <<taken, takes>>
      BY <1>5 DEF Agree, AnswerAgreed, takeVars
    <2>4. answer.offer.id \in Past' \ Past
      BY <2>2, <2>3 DEF Past, NoEntry
    <2>5. /\ Sound(Append(list, answer.offer))
          /\ IdsOf(Append(list, answer.offer)) = IdsOf(list) \cup {answer.offer.id}
      BY <1>1, <2>2, <2>4, SoundMore
    <2> DEFINE next == Append(list, answer.offer)
    <2>6. Sound(next) /\ IdsOf(list) \subseteq IdsOf(next) /\ IdsOf(next) \subseteq IdsOf(list) \cup (Past' \ Past)
      BY <2>4, <2>5
    <2>7. Change(next)
      BY <2>1
    <2> HIDE DEF next
    <2> QED BY <1>2, <2>1, <2>6, <2>7, CarriesChange
  <1>6. CASE More
    <2>1. /\ Change(Plus(list, answer.stack)) /\ UNCHANGED <<stored, saved, untidy, again, begun, keep, left, gone>>
          /\ NoRecall /\ AtRest
      BY <1>6 DEF More, keepVars
    <2>2. Sound(Plus(list, answer.stack)) /\ IdsOf(Plus(list, answer.stack)) = IdsOf(list)
      BY <1>1, PlusSound
    <2> QED BY <1>2, <2>1, <2>2, CarriesChange
  <1>7. CASE Fewer
    <2> DEFINE id == answer.stack  next == Minus(list, id)
    <2>1. Change(next) /\ UNCHANGED <<stored, saved, untidy, again, begun, keep, left>> /\ NoRecall /\ AtRest
      BY <1>7 DEF Fewer, keepVars
    <2>2. /\ Sound(next) /\ IdsOf(next) \subseteq IdsOf(list) /\ IdsOf(list) \ {id} \subseteq IdsOf(next)
          /\ (\E one \in Range(list) : one.id = id /\ ~(one.quantity <= 1)) => id \in IdsOf(next)
      BY <1>1, MinusSound
    <2>3. Stack(id) \in Range(list) /\ Stack(id).id = id
      BY <1>7 DEF Fewer, Shows, Stack
    <2>4. gone' = IF Stack(id).quantity <= 1 THEN gone \cup {id} ELSE gone
      BY <1>7 DEF Fewer
    <2> HIDE DEF id, next
    <2>5. gone \subseteq gone' /\ IdsOf(list) \ gone' \subseteq IdsOf(next)
      BY <2>2, <2>3, <2>4
    <2> QED BY <1>2, <2>1, <2>2, <2>5, CarriesChange
  <1>8. CASE Edit \/ Join
    <2>1. PICK next : /\ Moved(next) /\ NoRecall /\ AtRest
                      /\ next = Merged(list) \/ \E id \in IdsOf(list) : next \in Edits(id)
      BY <1>8 DEF Edit, Join, Reviewing, AtRest
    <2>2. /\ Change(next) /\ UNCHANGED <<stored, saved, untidy, again, begun, keep, left>>
          /\ gone' = gone \cup (IdsOf(list) \ IdsOf(next))
      BY <2>1 DEF Moved, keepVars
    <2>3. Sound(next) /\ IdsOf(next) \subseteq IdsOf(list)
      BY <1>1, <2>1, EditsSound, MergedSound
    <2>4. gone \subseteq gone' /\ IdsOf(list) \ gone' \subseteq IdsOf(next)
      BY <2>2
    <2> QED BY <1>2, <2>1, <2>2, <2>3, <2>4, CarriesChange
  <1>9. CASE Away
    <2>1. /\ Clear /\ UNCHANGED <<stored, saved, untidy, again, begun, keep, left>> /\ NoRecall /\ AtRest
          /\ gone' = gone \cup IdsOf(list)
      BY <1>9 DEF Away, keepVars
    <2>2. Handed'
      BY <2>1, HandedNone DEF AtRest
    <2> QED BY <1>2, <2>1, <2>2, CarriesClear
  <1>10. CASE Keep
    <2>1. /\ UNCHANGED <<list, joined, sealed, stored, begun, saved, gone, untidy, txns, left>>
          /\ keep.at = "none" /\ keep'.list = list /\ again' = (again \/ left # {})
      BY <1>10 DEF Keep, listVars, dbVars
    <2>2. Holding(txns')
      BY <2>1 DEF Carries
    <2>3. Handed'
      BY <1>1, <2>1 DEF Carries, Handed, UnderWay
    <2> QED BY <1>2, <2>1, <2>2, <2>3, CarriesKept DEF Carries, NoRecall, Clean
  <1> QED BY <1>3, <1>4, <1>5, <1>6, <1>7, <1>8, <1>9, <1>10 DEF Presses

\* What becomes of a keep.  The only one of a list hands on what is shown, and
\* with it gone none is under way.
LEMMA CarriesKeeps ==
    ASSUME Carries, Through, Past \subseteq Past', Keeps
    PROVE  Carries'
  <1>1. CASE Lands
    <2>1. UNCHANGED <<list, joined, sealed, stored, begun, saved, gone, untidy, again, txns, keep, left>>
          /\ Open' = Open
      BY <1>1 DEF Lands, listVars, dbVars, ownerVars, Open
    <2>2. Holding(txns') /\ Handed'
      BY <2>1, HandedStill DEF Carries
    <2> QED BY <2>1, <2>2, CarriesKept DEF Carries, NoRecall, Clean
  <1>2. ASSUME NEW k \in left \cup {keep}, Finds(k) \/ Begins(k) \/ Refuses(k) PROVE Carries'
    <2>1. NoRecall /\ Open' /\ Open /\ Handing(k) /\ k \in UnderWay
      BY <1>2 DEF Finds, Begins, Refuses, Handing, UnderWay, Through, NoRecall, Open, AtRest
    <2>2. Handed
      BY DEF Carries
    <2>3. CASE Finds(k) \/ Refuses(k)
      <3>1. PICK next : Becomes(k, next) /\ (~Handing(next) \/ next.list = k.list)
        BY <2>3 DEF Finds, Refuses, NoKeep, Handing
      <3>2. UNCHANGED <<list, joined, sealed, stored, begun, saved, gone, untidy, again, txns>>
        BY <2>3 DEF Finds, Refuses, listVars, dbVars, ownerVars
      <3>3. Handed'
        BY <2>1, <2>2, <3>1, <3>2 DEF Handed, Becomes, UnderWay
      <3>4. Holding(txns')
        BY <3>2 DEF Carries
      <3> QED BY <2>1, <3>2, <3>3, <3>4, CarriesKept DEF Carries, NoRecall, Clean
    <2>4. CASE Begins(k)
      <3>1. PICK next : Becomes(k, next) /\ ~Handing(next)
        BY <2>4 DEF Begins, NoKeep, Handing
      <3>2. /\ UNCHANGED <<stored, saved, untidy, again>> /\ Clear /\ list' = <<>>
            /\ begun' = Append(begun, k.list) /\ gone' = gone \cup IdsOf(k.list)
        BY <2>4 DEF Begins, Clear
      <3>3. /\ IdsOf(list) \subseteq IdsOf(k.list) /\ IdsOf(k.list) \subseteq Past
            /\ Clean => k.list = list
        BY <2>1, <2>2 DEF Handed, Clean
      <3>4. IdsOf(list') = {}
        BY <3>2, SoundNone
      <3>5. UnderWay' \subseteq UnderWay /\ left' \subseteq left /\ (Handing(keep') => keep' = keep)
        BY <3>1 DEF Becomes, UnderWay
      <3>6. ~again' => UnderWay' = {}
        BY <2>1, <2>2, <3>1, <3>2 DEF Handed, Becomes, UnderWay
      <3>7. Handed'
        BY <2>2, <3>2, <3>4, <3>5, <3>6 DEF Handed
      <3> QED BY <2>1, <3>2, <3>3, <3>7, CarriesClear
    <2> QED BY <1>2, <2>3, <2>4
  <1> QED BY <1>1, <1>2 DEF Keeps

LEMMA CarriesStep ==
    ASSUME "early" \notin Events, "meanwhile" \notin Events, Carries, Through, Numbered, [Next]_vars
    PROVE  Carries'
  <1>1. MayMove => NoRecall /\ AtRest
    BY DEF MayMove, Asked, NoRecall, AtRest
  <1>2. Numbered' /\ Past \subseteq Past'
    BY NumberedStep
  <1>3. CASE Loads \/ Cameras \/ NewCatalog \/ UNCHANGED vars
    <2>1. UNCHANGED <<list, joined, sealed, stored, begun, saved, gone, untidy, again, txns, keep, left>>
          /\ Open' = Open
      BY <1>3 DEF Loads, Fetched, FetchFails, Cameras, Start, Stop, Opened, Plays, OpenFails, NewCatalog,
                  vars, listVars, dbVars, keepVars, ownerVars, Open
    <2>2. Holding(txns')
      BY <2>1 DEF Carries
    <2>3. Handed'
      BY <1>2, <2>1, HandedStill DEF Carries
    <2> QED BY <1>2, <2>1, <2>2, <2>3, CarriesKept DEF Carries, NoRecall, Clean
  <1>4. CASE Database
    BY <1>2, <1>4, CarriesDatabase
  <1>5. CASE Answers
    <2>1. PICK t \in takes : ReadsNothing(t) \/ ReadsCard(t)
      BY <1>5 DEF Answers
    <2>2. UNCHANGED <<stored, begun, saved, gone, untidy, again, keep, left>> /\ Open /\ Open'
      BY <2>1 DEF ReadsNothing, ReadsCard, dbVars, keepVars, ownerVars, Open
    <2>3. CASE UNCHANGED <<listVars, txns>>
      <3>1. UNCHANGED <<list, joined, sealed, txns>>
        BY <2>3 DEF listVars
      <3>2. Holding(txns')
        BY <3>1 DEF Carries
      <3>3. Handed'
        BY <1>2, <2>2, <3>1, HandedStill DEF Carries
      <3> QED BY <1>2, <2>2, <3>1, <3>2, <3>3, CarriesKept DEF Carries, NoRecall, Clean
    <2>4. CASE ~UNCHANGED <<listVars, txns>>
      <3>1. ReadsCard(t)
        BY <2>1, <2>4 DEF ReadsNothing, dbVars
      <3>2. PICK found : /\ Scanned(found, t, grade) # NoEntry /\ Change(Append(list, Scanned(found, t, grade)))
                         /\ answer'.offer \in {answer.offer, NoEntry}
        BY <2>4, <3>1 DEF ReadsCard, Panel
      <3>3. UNCHANGED taken /\ takes' = takes \ {t} /\ t \in 1 .. taken /\ NoRecall /\ AtRest
        BY <1>1, <3>1 DEF ReadsCard, Numbered
      <3> DEFINE e == Scanned(found, t, grade)  next == Append(list, e)
      <3>4. IsEntry(e) /\ e.id = t
        BY <3>2, ScannedEntry
      <3>5. t \in Past' \ Past
        <4>1. answer.offer # NoEntry => answer.offer.id # t
          BY DEF Numbered
        <4> QED BY <3>2, <3>3, <4>1 DEF Past, NoEntry
      <3> HIDE DEF e
      <3>6. Sound(next) /\ IdsOf(next) = IdsOf(list) \cup {t}
        BY <3>4, <3>5, SoundMore DEF Carries
      <3>7. Change(next)
        BY <3>2 DEF e
      <3> HIDE DEF next
      <3> QED BY <1>2, <2>2, <3>3, <3>5, <3>6, <3>7, CarriesChange
    <2> QED BY <2>3, <2>4
  <1>6. CASE Presses
    BY <1>1, <1>2, <1>6, CarriesPresses
  <1>7. CASE Keeps
    BY <1>2, <1>7, CarriesKeeps
  <1>8. CASE Dies
    <2>1. /\ txns' = <<>> /\ list' = <<>> /\ ~joined' /\ ~sealed' /\ AtRest' /\ ~Open'
          /\ UNCHANGED <<stored, begun, saved, gone, again>> /\ (untidy => untidy') /\ (Asked("forget") => untidy')
      BY <1>8 DEF Dies, Blank, NoKeep, AtRest, Open
    <2>2. IsQueue(<<>>) /\ DOMAIN <<>> = {}
      BY DEF IsQueue
    <2>3. Clean' => IdsOf(stored) \cap Carried = {}
      BY <2>1 DEF Asked, Carries, Holding, Clean
    <2>4. Holding(txns)'
      BY <2>1, <2>2, <2>3 DEF Holding, Carried
    <2> QED BY <1>2, <2>1, <2>4, HandedNone, SoundNone DEF Carries, Carried, Clean
  <1>9. CASE Reopens
    <2>1. /\ txns' = Mounting /\ Open' /\ ~Open
          /\ UNCHANGED <<list, joined, sealed, stored, begun, saved, gone, untidy, again, keep, left>>
      BY <1>9 DEF Reopens, listVars, keepVars, ownerVars, Open
    <2>2. \A i \in DOMAIN txns' : ~IsWrite(txns'[i])
      BY <2>1, Mounted DEF IsWrite
    <2>3. ~NoRecall'
      BY <2>1, Mounted DEF NoRecall
    <2>4. Clean => IdsOf(stored) \cap Carried = {}
      <3>1. txns = <<>> /\ DOMAIN <<>> = {}
        BY <2>1 DEF Carries
      <3> QED BY <3>1 DEF Carries, Holding
    <2>5. Holding(txns)'
      BY <2>1, <2>2, <2>4, Mounted DEF Holding, Carried, Clean
    <2>6. Handed'
      BY <1>2, <2>1, HandedStill DEF Carries
    <2> QED BY <1>2, <2>1, <2>3, <2>5, <2>6 DEF Carries, Carried, Clean
  <1> QED BY <1>3, <1>4, <1>5, <1>6, <1>7, <1>8, <1>9 DEF Next

\* So what was promised holds.
LEMMA CarriesSaved == Carries => SavedStays
  BY DEF Carries, SavedStays

LEMMA CarriesCounted == Carries /\ Numbered => CountedOnce
  <1> SUFFICES ASSUME Carries, Numbered PROVE CountedOnce
    OBVIOUS
  <1>1. Unique(list) /\ Unique(stored)
    BY DEF Carries, Sound
  <1>2. answer.offer # NoEntry => ~Shows(answer.offer.id)
    BY DEF Carries, Past, Shows, IdsOf
  <1> QED BY <1>1, <1>2 DEF CountedOnce, Unique

LEMMA CarriesKeptOnce == Carries => KeptOnce
  <1> SUFFICES ASSUME Carries, Clean PROVE KeptOnce
    BY DEF KeptOnce, Clean
  <1>1. \A i \in DOMAIN begun : IdsOf(begun[i]) \subseteq Carried
    BY DEF Carried
  <1>2. ~Asked("forget") => IdsOf(stored) \cap Carried = {}
    BY DEF Asked, Carries, Holding
  <1> QED BY <1>1, <1>2 DEF Carries, KeptOnce

\* Where nothing is scanned before the database has answered and nothing pressed
\* while a keep is under way, a stack once written down stays written down,
\* through every write, join, clear, failure and death of the tab, until the
\* person takes it off or an import carries it.
THEOREM AlwaysSavedStays ==
    ASSUME "early" \notin Events, "meanwhile" \notin Events
    PROVE  Spec => []SavedStays
  BY ThroughInit, ThroughStep, NumberedInit, NumberedStep, CarriesInit, CarriesStep, CarriesSaved, PTL DEF Spec

\* There too no read is counted twice, in the list shown or in the one stored,
\* and a card still offered is in neither.
THEOREM AlwaysCountedOnce ==
    ASSUME "early" \notin Events, "meanwhile" \notin Events
    PROVE  Spec => []CountedOnce
  BY ThroughInit, ThroughStep, NumberedInit, NumberedStep, CarriesInit, CarriesStep, CarriesCounted, PTL DEF Spec

\* And there a stack is carried by one import and is gone from the list, and
\* from the database once it has been told, unless the tab died or the database
\* refused between the two, or a second keep was pressed on a page come back to
\* while the first was under way.
THEOREM AlwaysKeptOnce ==
    ASSUME "early" \notin Events, "meanwhile" \notin Events
    PROVE  Spec => []KeptOnce
  BY ThroughInit, ThroughStep, NumberedInit, NumberedStep, CarriesInit, CarriesStep, CarriesKeptOnce, PTL DEF Spec
=============================================================================
