---------------------------- MODULE ScanSession ----------------------------
(***************************************************************************)
(* One tab scanning cards, from the camera to the import that carries      *)
(* them: web/src/scan/Scan.tsx (the viewfinder), Review.tsx (the list),    *)
(* store.ts (the list and the grade as the browser keeps them) and load.ts *)
(* (the artwork index).                                                    *)
(*                                                                         *)
(* The list lives in memory and is written through to the browser's        *)
(* database at every move.  The database takes the transactions of a tab   *)
(* in the order they were made, and any of them may fail.  A camera takes  *)
(* as long as it likes to open and a read waits for the index, so either   *)
(* answers after the person has closed, left, or asked again.  The tab may *)
(* die and be opened again; what the database holds survives.              *)
(***************************************************************************)
EXTENDS ScanList

CONSTANTS Reads,       \* what the index may answer for a frame
          Grades, USUALLY,
          Legacy,      \* the grade the list of an older version followed, or Unset
          Unset,
          Takes,       \* bound: frames taken
          Moves,       \* bound: presses on the list
          Starts,      \* bound: presses on the camera, run and starts alike
          Events       \* see EventNames

EventNames ==
    {"early",      \* a move before the database has answered what it holds
     "meanwhile",  \* a move while a keep is under way
     "leaves",     \* the page left while a keep is under way
     "fails",      \* a transaction of the database fails
     "dies"}       \* the tab dies

ASSUME GradeAssumption == USUALLY \in Grades /\ Legacy \in Grades \cup {Unset} /\ Unset \notin Grades
ASSUME BoundsAssumption == {Takes, Moves, Starts} \subseteq Nat
ASSUME EventsAssumption == Events \subseteq EventNames

VARIABLES
    page,                            \* where the person is: scan, review or away
    camera, run, opens, stream, lit, \* the camera: its state, the attempt, those out
    answer, taken, takes,            \* what the panel shows, the reads made and out
    index,                           \* the engine and the artwork index
    list, joined, sealed, trouble,   \* useScratch: held, and what became of the store
    grade, graded,                   \* useGrade: the grade shown, and whether picked
    stored, settings, legacy, txns,  \* the database, and what it was asked
    keep, left,                      \* the keep of the page shown, and those of pages left
    standing, begun,                 \* whether a job stands, and the imports begun
    saved, gone, untidy, again, moved   \* the person's account, see below

cameraVars == <<camera, run, opens, stream, lit>>
takeVars   == <<answer, taken, takes>>
listVars   == <<list, joined, sealed, trouble>>
gradeVars  == <<grade, graded>>
dbVars     == <<stored, settings, legacy, txns>>
keepVars   == <<keep, left, standing, begun>>
ownerVars  == <<saved, gone, untidy, again, moved>>
vars == <<page, cameraVars, takeVars, index, listVars, gradeVars, dbVars, keepVars, ownerVars>>

NoAnswer == [at |-> "none", stack |-> 0, offer |-> NoEntry]
NoKeep == [at |-> "none", list |-> <<>>]
Handing(k) == k.at \in {"beginning", "saving"}      \* the list is still the only copy
Absent == <<>>                     \* a store that holds no list reads as an empty one

IdsOf(entries) == {one.id : one \in Range(entries)}

\* Nothing in memory, as before a tab mounts.
Blank ==
    /\ list' = <<>> /\ joined' = FALSE /\ sealed' = FALSE /\ trouble' = "none"
    /\ grade' = USUALLY /\ graded' = FALSE
    /\ camera' = "off" /\ run' = 0 /\ opens' = {} /\ stream' = 0 /\ lit' = {}
    /\ answer' = NoAnswer /\ takes' = {} /\ index' = "none"
    /\ keep' = NoKeep /\ left' = {}

\* A tab mounting reads the list, then the grade.
Mounting == <<[do |-> "recall"], [do |-> "recallGrade"]>>

Init ==
    /\ page = "scan" /\ list = <<>> /\ joined = FALSE /\ sealed = FALSE /\ trouble = "none"
    /\ grade = USUALLY /\ graded = FALSE /\ txns = Mounting
    /\ camera = "off" /\ run = 0 /\ opens = {} /\ stream = 0 /\ lit = {}
    /\ answer = NoAnswer /\ takes = {} /\ index = "none"
    /\ keep = NoKeep /\ left = {} /\ standing = FALSE /\ begun = <<>>
    /\ taken = 0
    /\ stored = Absent /\ settings = Unset /\ legacy = Legacy
    /\ saved = {} /\ gone = {} /\ untidy = FALSE /\ again = FALSE /\ moved = 0

Open == page # "away"
Asked(do) == \E i \in DOMAIN txns : txns[i].do = do
MayMove == /\ Asked("recall") => "early" \in Events
           /\ keep.at # "none" \/ left # {} => "meanwhile" \in Events

-----------------------------------------------------------------------------
(* useScratch: the list, written through.                                  *)

ChangeStale(next) ==                                \* mutant: what is written is the list before
    /\ list' = next
    /\ IF sealed THEN UNCHANGED <<txns, trouble>>
       ELSE txns' = Append(txns, [do |-> "keep", list |-> list]) /\ trouble' = "none"
    /\ UNCHANGED <<joined, sealed>>
\* A move of the list, and the write that follows every one.
Change(next) ==
    /\ list' = next
    /\ IF sealed THEN UNCHANGED <<txns, trouble>>
       ELSE txns' = Append(txns, [do |-> "keep", list |-> next]) /\ trouble' = "none"
    /\ UNCHANGED <<joined, sealed>>

ClearHeld == list' = <<>> /\ UNCHANGED <<joined, sealed, txns, trouble>>   \* mutant: the copy stays
\* For once the cards are somewhere better: what is held goes at once, the
\* copy in the database after it.
Clear ==
    /\ list' = <<>>
    /\ IF sealed THEN UNCHANGED <<txns, trouble>>
       ELSE txns' = Append(txns, [do |-> "forget"]) /\ trouble' = "none"
    /\ UNCHANGED <<joined, sealed>>

Ask == Head(txns)
Took(entries) == saved' = saved \cup IdsOf(entries)

JoinedOver(found) == list                           \* mutant: what was scanned takes its place
JoinedBefore(found) ==
    CASE found = Absent -> list
      [] found # Absent /\ list = <<>> -> found
      [] OTHER -> found \o list

\* What the database held comes before whatever was scanned meanwhile, and the
\* two go back down together.
Recalled ==
    /\ Open /\ txns # <<>> /\ Ask.do = "recall"
    /\ joined' = TRUE
    /\ list' = IF joined THEN list ELSE JoinedBefore(stored)
    /\ IF ~joined /\ stored # Absent /\ list # <<>>
       THEN txns' = Append(Tail(txns), [do |-> "keep", list |-> list'])
       ELSE txns' = Tail(txns)
    /\ UNCHANGED <<page, cameraVars, takeVars, index, sealed, trouble, gradeVars, stored, settings, legacy,
                   keepVars, ownerVars>>

\* A read that failed is one nothing may be written over.
Unread ==
    /\ "fails" \in Events /\ Open /\ txns # <<>> /\ Ask.do = "recall"
    /\ sealed' = TRUE /\ trouble' = "unread" /\ txns' = Tail(txns)
    /\ UNCHANGED <<page, cameraVars, takeVars, index, list, joined, gradeVars, stored, settings, legacy,
                   keepVars, ownerVars>>

Written ==
    /\ Open /\ txns # <<>> /\ Ask.do = "keep"
    /\ stored' = Ask.list /\ Took(Ask.list) /\ txns' = Tail(txns)
    /\ UNCHANGED <<page, cameraVars, takeVars, index, listVars, gradeVars, settings, legacy, keepVars,
                   gone, untidy, again, moved>>

\* A store that refused a write is something to say, not to undo.
Unwritten ==
    /\ "fails" \in Events /\ Open /\ txns # <<>> /\ Ask.do = "keep"
    /\ trouble' = "refused" /\ txns' = Tail(txns)
    /\ UNCHANGED <<page, cameraVars, takeVars, index, list, joined, sealed, gradeVars, stored, settings, legacy,
                   keepVars, ownerVars>>

\* The list goes and the grade an older version kept beside it.  The keep that
\* waited to hear of it is over.
Forgotten ==
    /\ Open /\ txns # <<>> /\ Ask.do = "forget"
    /\ stored' = Absent /\ legacy' = Unset /\ txns' = Tail(txns)
    /\ keep' = IF keep.at = "clearing" THEN NoKeep ELSE keep
    /\ UNCHANGED <<page, cameraVars, takeVars, index, listVars, gradeVars, settings, left, standing, begun,
                   ownerVars>>

NotForgotten ==
    /\ "fails" \in Events /\ Open /\ txns # <<>> /\ Ask.do = "forget"
    /\ txns' = Tail(txns) /\ untidy' = TRUE
    /\ keep' = IF keep.at = "clearing" THEN NoKeep ELSE keep
    /\ UNCHANGED <<page, cameraVars, takeVars, index, listVars, gradeVars, stored, settings, legacy, left, standing,
                   begun, saved, gone, again, moved>>

-----------------------------------------------------------------------------
(* useGrade: the grade a scan is stamped with.                             *)

ShownWhenever(found) == found                       \* mutant: a late read replaces a press
\* A grade picked before the read answered is the later word.
Shown(found) == IF graded THEN grade ELSE found

\* A grade an older version kept with the list is written across, once.
GradeRecalled ==
    /\ Open /\ txns # <<>> /\ Ask.do = "recallGrade"
    /\ grade' = Shown(IF settings # Unset THEN settings ELSE IF legacy # Unset THEN legacy ELSE USUALLY)
    /\ txns' = IF settings = Unset /\ legacy # Unset
               THEN Append(Tail(txns), [do |-> "keepGrade", grade |-> legacy])
               ELSE Tail(txns)
    /\ UNCHANGED <<page, cameraVars, takeVars, index, listVars, graded, stored, settings, legacy,
                   keepVars, ownerVars>>

\* A preference that cannot be read or written is one to carry on without.
GradeUnread ==
    /\ "fails" \in Events /\ Open /\ txns # <<>> /\ Ask.do \in {"recallGrade", "keepGrade"}
    /\ txns' = Tail(txns) /\ untidy' = (untidy \/ Ask.do = "keepGrade")
    /\ UNCHANGED <<page, cameraVars, takeVars, index, listVars, gradeVars, stored, settings, legacy,
                   keepVars, saved, gone, again, moved>>

GradeWritten ==
    /\ Open /\ txns # <<>> /\ Ask.do = "keepGrade"
    /\ settings' = Ask.grade /\ txns' = Tail(txns)
    /\ UNCHANGED <<page, cameraVars, takeVars, index, listVars, gradeVars, stored, legacy, keepVars, ownerVars>>

Regrade ==
    /\ page = "scan" /\ camera # "on" /\ moved < Moves
    /\ (settings = Unset /\ legacy # Unset /\ Asked("recallGrade")) => "early" \in Events
    /\ \E g \in Grades \ {grade} :
          grade' = g /\ graded' = TRUE /\ txns' = Append(txns, [do |-> "keepGrade", grade |-> g])
    /\ moved' = moved + 1
    /\ UNCHANGED <<page, cameraVars, takeVars, index, listVars, stored, settings, legacy, keepVars,
                   saved, gone, untidy, again>>

-----------------------------------------------------------------------------
(* The engine and the artwork index, fetched once and kept.                *)

\* A call joins the fetch that is out, or starts one.
Wants == index' = IF index = "none" THEN "loading" ELSE index

\* Every start that waited goes on to ask for the camera.
Fetched ==
    /\ Open /\ index = "loading" /\ index' = "held"
    /\ opens' = {[o EXCEPT !.at = IF o.at = "index" THEN "camera" ELSE o.at] : o \in opens}
    /\ UNCHANGED <<page, camera, run, stream, lit, takeVars, listVars, gradeVars, dbVars, keepVars, ownerVars>>

WaitingStarts == {o \in opens : o.at = "index"}

AnswerLeftReading(stops) == answer                  \* mutant: the failure is not caught
AnswerFailed(stops) == IF takes # {} \/ stops THEN NoAnswer ELSE answer

\* A failed load is not kept.  Every call that joined it fails: a read says
\* why, a start that is still wanted stops.
FetchFails ==
    /\ "fails" \in Events /\ Open /\ index = "loading" /\ index' = "none"
    /\ takes' = {} /\ opens' = opens \ WaitingStarts
    /\ LET stops == \E o \in WaitingStarts : o.run = run IN
       /\ answer' = AnswerFailed(stops)
       /\ IF stops THEN camera' = "off" /\ run' = run + 1 /\ stream' = 0 /\ lit' = lit \ {stream}
          ELSE UNCHANGED <<camera, run, stream, lit>>
    /\ UNCHANGED <<page, taken, listVars, gradeVars, dbVars, keepVars, ownerVars>>

\* The page has taken a newer catalog, whose index is another file.
NewCatalog ==
    /\ Open /\ index = "held" /\ takes = {} /\ index' = "none"
    /\ UNCHANGED <<page, cameraVars, takeVars, listVars, gradeVars, dbVars, keepVars, ownerVars>>

-----------------------------------------------------------------------------
(* The camera.                                                             *)

\* The tracks stop and the attempt is over: run moves on, which nothing tells
\* where no attempt is live.  A play under way ends with it and finds its run
\* passed.
StopCamera ==
    /\ run' = IF camera = "off" THEN run ELSE run + 1
    /\ lit' = lit \ {stream} /\ stream' = 0
    /\ camera' = "off" /\ answer' = NoAnswer
    /\ opens' = {o \in opens : o.at # "playing"}

\* Cancel while it opens, Close while it is on.
Stop ==
    /\ page = "scan" /\ camera # "off" /\ StopCamera
    /\ UNCHANGED <<page, taken, takes, index, listVars, gradeVars, dbVars, keepVars, ownerVars>>

Start ==
    /\ page = "scan" /\ camera = "off" /\ run < Starts
    /\ run' = run + 1 /\ camera' = "opening" /\ Wants
    /\ opens' = opens \cup {[run |-> run + 1, at |-> IF index = "held" THEN "camera" ELSE "index"]}
    /\ UNCHANGED <<page, stream, lit, takeVars, listVars, gradeVars, dbVars, keepVars, ownerVars>>

LiveWhileOpening(o) == camera = "opening"           \* mutant: a flag instead of a run
Live(o) == run = o.run

\* A camera that arrives for an attempt that is over is put out again.
Opened(o) ==
    /\ Open /\ o.at = "camera"
    /\ IF Live(o)
       THEN /\ stream' = o.run /\ lit' = lit \cup {o.run}
            /\ opens' = (opens \ {o}) \cup {[o EXCEPT !.at = "playing"]}
       ELSE /\ opens' = opens \ {o} /\ UNCHANGED <<stream, lit>>
    /\ UNCHANGED <<page, camera, run, takeVars, index, listVars, gradeVars, dbVars, keepVars, ownerVars>>

Plays(o) ==
    /\ Open /\ o.at = "playing"
    /\ opens' = opens \ {o} /\ camera' = "on"
    /\ UNCHANGED <<page, run, stream, lit, takeVars, index, listVars, gradeVars, dbVars, keepVars, ownerVars>>

\* The camera is refused, or will not play.  Only the live attempt says so.
OpenFails(o) ==
    /\ "fails" \in Events /\ Open /\ o.at \in {"camera", "playing"}
    /\ IF run = o.run
       THEN /\ run' = run + 1 /\ lit' = lit \ {stream} /\ stream' = 0 /\ camera' = "off" /\ answer' = NoAnswer
       ELSE UNCHANGED <<run, lit, stream, camera, answer>>
    /\ opens' = opens \ {o}
    /\ UNCHANGED <<page, taken, takes, index, listVars, gradeVars, dbVars, keepVars, ownerVars>>

\* From the camera to the list and back.  The camera goes out with the page.
ToReview ==
    /\ page = "scan" /\ StopCamera /\ page' = "review"
    /\ UNCHANGED <<taken, takes, index, listVars, gradeVars, dbVars, keepVars, ownerVars>>

\* A keep under way goes on, and the page that is shown next knows nothing of it.
ToScan ==
    /\ page = "review" /\ page' = "scan"
    /\ Handing(keep) => "leaves" \in Events
    /\ keep' = NoKeep
    /\ left' = IF Handing(keep) THEN left \cup {keep} ELSE left
    /\ UNCHANGED <<cameraVars, takeVars, index, listVars, gradeVars, dbVars, standing, begun, ownerVars>>

-----------------------------------------------------------------------------
(* A read, and the presses on what it answered.                            *)

Take ==
    /\ page = "scan" /\ camera = "on" /\ answer.at # "reading" /\ taken < Takes
    /\ taken' = taken + 1
    /\ takes' = takes \cup {taken + 1}
    /\ answer' = [NoAnswer EXCEPT !.at = "reading"] /\ Wants
    /\ UNCHANGED <<page, cameraVars, listVars, gradeVars, dbVars, keepVars, ownerVars>>

\* The panel of a page that has gone shows nothing.
Panel(next) == IF page = "scan" THEN next ELSE answer

\* Nothing in the frame looked like a card, or it could not be read.
ReadsNothing(t) ==
    /\ Open /\ index = "held"
    /\ takes' = takes \ {t}
    /\ \E at \in {"nothing", "none"} : answer' = Panel([NoAnswer EXCEPT !.at = at])
    /\ UNCHANGED <<page, cameraVars, taken, index, listVars, gradeVars, dbVars, keepVars, ownerVars>>

\* A read the margin carries joins the list; any other waits to be agreed with.
ReadsCard(t) ==
    /\ Open /\ index = "held" /\ MayMove
    /\ takes' = takes \ {t}
    /\ \E found \in Reads :
         LET made == Scanned(found, t, grade) IN
         IF made # NoEntry /\ Sure(made)
         THEN /\ Change(Append(list, made))
              /\ answer' = Panel([at |-> "found", stack |-> t, offer |-> NoEntry])
         ELSE /\ answer' = Panel([at |-> "found", stack |-> 0, offer |-> made])
              /\ UNCHANGED <<listVars, txns>>
    /\ UNCHANGED <<page, cameraVars, taken, index, gradeVars, stored, settings, legacy, keepVars, ownerVars>>

Offer == answer.offer
Offering == page = "scan" /\ camera = "on" /\ answer.at = "found" /\ Offer # NoEntry

Pick(print) ==
    /\ Offering /\ Len(Among(Offer)) > 1 /\ print \in Range(Among(Offer)) /\ moved < Moves
    /\ answer' = [answer EXCEPT !.offer = [@ EXCEPT !.print = print, !.picked = TRUE,
                                                    !.finish = Settled(Finishes(print))]]
    /\ moved' = moved + 1
    /\ UNCHANGED <<page, cameraVars, taken, takes, index, listVars, gradeVars, dbVars, keepVars,
                   saved, gone, untidy, again>>

AnswerStillOffering(id) == [answer EXCEPT !.stack = id]     \* mutant: the offer stays up
AnswerAgreed(id) == [answer EXCEPT !.stack = id, !.offer = NoEntry]

Agree ==
    /\ Offering /\ MayMove
    /\ Change(Append(list, Offer))
    /\ answer' = AnswerAgreed(Offer.id)
    /\ UNCHANGED <<page, cameraVars, taken, takes, index, gradeVars, stored, settings, legacy, keepVars, ownerVars>>

Shows(id) == \E one \in Range(list) : one.id = id
Stack(id) == CHOOSE one \in Range(list) : one.id = id

\* The stack goes with its last copy, and so does the panel describing it.
Fewer ==
    /\ page = "scan" /\ camera = "on" /\ answer.at = "found" /\ Shows(answer.stack)
    /\ moved < Moves /\ MayMove
    /\ Change(Minus(list, answer.stack))
    /\ answer' = IF Stack(answer.stack).quantity <= 1 THEN NoAnswer ELSE answer
    /\ gone' = IF Stack(answer.stack).quantity <= 1 THEN gone \cup {answer.stack} ELSE gone
    /\ moved' = moved + 1
    /\ UNCHANGED <<page, cameraVars, taken, takes, index, gradeVars, stored, settings, legacy, keepVars,
                   saved, untidy, again>>

More ==
    /\ page = "scan" /\ camera = "on" /\ answer.at = "found" /\ Shows(answer.stack)
    /\ moved < Moves /\ MayMove
    /\ Change(Plus(list, answer.stack))
    /\ moved' = moved + 1
    /\ UNCHANGED <<page, cameraVars, takeVars, index, gradeVars, stored, settings, legacy, keepVars,
                   saved, gone, untidy, again>>

-----------------------------------------------------------------------------
(* The review.                                                             *)

\* What a press on one stack, or on all, makes of the list.
Edits(id) ==
    {Plus(list, id), Minus(list, id), Dropped(list, id), Reported(list, id), Cycled(list, id)}
    \cup {Choose(list, id, p) : p \in Printings}
    \cup {Refinish(list, id, f) : f \in Range(Finishes(Stack(id).print))}
    \cup {Regraded(list, id, g) : g \in Grades}

Reviewing == page = "review" /\ list # <<>> /\ moved < Moves /\ MayMove

\* What a press takes off the list is gone, the person having said so.
Moved(next) ==
    /\ Change(next)
    /\ gone' = gone \cup (IdsOf(list) \ IdsOf(next))
    /\ moved' = moved + 1
    /\ UNCHANGED <<page, cameraVars, takeVars, index, gradeVars, stored, settings, legacy, keepVars,
                   saved, untidy, again>>

\* Naming another card is the one press a keep under way leaves open.
Named(id) == {Choose(list, id, p) : p \in Printings}

Edit ==
    /\ Reviewing
    /\ \E id \in IdsOf(list) :
          \E next \in (IF keep.at = "none" THEN Edits(id) ELSE Named(id)) \ {list} : Moved(next)

Join == Reviewing /\ keep.at = "none" /\ Joinable(list) > 0 /\ Moved(Merged(list))

\* The press that throws them away asks first.
Away ==
    /\ page = "review" /\ list # <<>> /\ keep.at = "none" /\ MayMove /\ moved < Moves
    /\ gone' = gone \cup IdsOf(list) /\ moved' = moved + 1
    /\ Clear
    /\ UNCHANGED <<page, cameraVars, takeVars, index, gradeVars, stored, settings, legacy, keepVars,
                   saved, untidy, again>>

\* The list as it stands is handed to an import.  What the page knows of an
\* import that stands trails the job itself, so it is begin() that refuses.
Keep ==
    /\ page = "review" /\ list # <<>> /\ keep.at = "none"
    /\ Asked("recall") => "early" \in Events
    /\ keep' = [at |-> "beginning", list |-> list]
    /\ again' = (again \/ left # {})
    /\ UNCHANGED <<page, cameraVars, takeVars, index, listVars, gradeVars, dbVars, left, standing, begun,
                   saved, gone, untidy, moved>>

\* What a keep becomes, on the page shown or on one that was left.
Becomes(k, next) ==
    \/ k = keep /\ keep' = next /\ UNCHANGED left
    \/ k \in left /\ left' = (left \ {k}) \cup (IF Handing(next) THEN {next} ELSE {}) /\ UNCHANGED keep

\* The cards are stamped, and no job is found standing.
Finds(k) ==
    /\ Open /\ k.at = "beginning" /\ ~standing
    /\ Becomes(k, [at |-> "saving", list |-> k.list])
    /\ UNCHANGED <<page, cameraVars, takeVars, index, listVars, gradeVars, dbVars, standing, begun, ownerVars>>

\* The job that carries them is written down, and only then does the list go.
Begins(k) ==
    /\ Open /\ k.at = "saving"
    /\ begun' = Append(begun, k.list) /\ standing' = TRUE
    /\ gone' = gone \cup IdsOf(k.list)
    /\ Clear
    /\ Becomes(k, IF sealed THEN NoKeep ELSE [NoKeep EXCEPT !.at = "clearing"])
    /\ UNCHANGED <<page, cameraVars, takeVars, index, gradeVars, stored, settings, legacy,
                   saved, untidy, again, moved>>

\* An import stands already, or the job would not save: the list is still here.
Refuses(k) ==
    /\ Open /\ Handing(k)
    /\ Becomes(k, NoKeep)
    /\ UNCHANGED <<page, cameraVars, takeVars, index, listVars, gradeVars, dbVars, standing, begun, ownerVars>>

\* The import that stands is done with, or discarded.
Lands ==
    /\ standing /\ standing' = FALSE
    /\ UNCHANGED <<page, cameraVars, takeVars, index, listVars, gradeVars, dbVars, keep, left, begun, ownerVars>>

-----------------------------------------------------------------------------
\* Everything in memory goes, and what the database was asked and had not done.
Dies ==
    /\ "dies" \in Events /\ Open /\ moved < Moves
    /\ page' = "away" /\ Blank /\ txns' = <<>> /\ moved' = moved + 1
    /\ untidy' = (untidy \/ Asked("forget"))
    /\ UNCHANGED <<taken, stored, settings, legacy, standing, begun, saved, gone, again>>

Reopens ==
    /\ page = "away" /\ page' = "scan" /\ txns' = Mounting
    /\ UNCHANGED <<cameraVars, takeVars, index, listVars, gradeVars, stored, settings, legacy, keepVars,
                   ownerVars>>

Loads == Fetched \/ FetchFails
Database == Recalled \/ Unread \/ Written \/ Unwritten \/ Forgotten \/ NotForgotten
            \/ GradeRecalled \/ GradeUnread \/ GradeWritten
Cameras == Start \/ Stop \/ \E o \in opens : Opened(o) \/ Plays(o) \/ OpenFails(o)
Answers == \E t \in takes : ReadsNothing(t) \/ ReadsCard(t)
Presses == Regrade \/ Take \/ (\E p \in Printings : Pick(p)) \/ Agree \/ Fewer \/ More
           \/ Edit \/ Join \/ Away \/ Keep \/ ToReview \/ ToScan

Keeps == Lands \/ \E k \in left \cup {keep} : Finds(k) \/ Begins(k) \/ Refuses(k)

Next == Loads \/ Database \/ Cameras \/ Answers \/ Presses \/ Keeps \/ NewCatalog \/ Dies \/ Reopens

\* A fetch answers or fails, a read follows it, and the database gets to what it was asked.
Fairness == WF_vars(Loads) /\ WF_vars(Answers) /\ WF_vars(Database)

Spec == Init /\ [][Next]_vars /\ Fairness

-----------------------------------------------------------------------------
(* Properties.                                                             *)

\* A card once written down stays written down until the person takes it off
\* the list, joins it to another stack, or an import carries it (store.ts,
\* Review.tsx keep): no write, join, clear, crash or second mount loses it.
SavedStays == saved \ gone \subseteq IdsOf(stored)

\* With nothing left for the database to do and nothing wrong on the page, what
\* is stored is what is shown: a tab that dies now loses nothing.
WrittenThrough ==
    Open /\ joined /\ ~sealed /\ trouble = "none" /\ ~untidy /\ txns = <<>> => stored = list

\* A camera that is lit is the one held and on the page: none is left running by
\* a cancel, a page left or an attempt that answered late (Scan.tsx start, stop).
LightOut == lit \subseteq {stream} /\ (camera = "off" \/ page # "scan" => lit = {})

\* A read makes one stack at most, however often it was looked at, agreed with,
\* saved and read back; one offered is not in the list yet.
CountedOnce ==
    /\ \A entries \in {list, stored} : \A i, j \in DOMAIN entries : entries[i].id = entries[j].id => i = j
    /\ answer.offer # NoEntry => ~Shows(answer.offer.id)

\* A stack an import carries is carried once and is not left on the list, unless
\* the tab died, or the database refused, between the two, or the person left the
\* page while a keep was under way and pressed Keep again: whether one is under
\* way is the page's own state, and the page come back to does not know of it.
KeptOnce ==
    ~untidy /\ ~again =>
        /\ \A i, j \in DOMAIN begun : IdsOf(begun[i]) \cap IdsOf(begun[j]) # {} => i = j
        /\ \A i \in DOMAIN begun : IdsOf(begun[i]) \cap IdsOf(list) = {}
        /\ ~Asked("forget") => \A i \in DOMAIN begun : IdsOf(begun[i]) \cap IdsOf(stored) = {}

\* "An import in flight owns the same job record, so keeping now would take the
\* place of one already half written" (Review.tsx): no keep begins an import
\* while the one another keep began still stands.  It does not hold with "leaves": two
\* keeps that both looked before either wrote its job both begin (Review.tsx:95).
OnePlace == [][begun' # begun => ~standing]_vars

\* A grade somebody picked is the later word, on the page and in the database,
\* however late the read of the old one answers (store.ts useGrade).
PickWins ==
    Open /\ graded /\ ~untidy /\ ~Asked("recallGrade") /\ ~Asked("keepGrade") => settings = grade

\* A read is answered, while every fetch, read and transaction ends: the button
\* it disables comes back.
Answered == answer.at = "reading" ~> answer.at # "reading"
=============================================================================
