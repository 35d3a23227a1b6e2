---------------------------- MODULE FilesProofs -----------------------------
(***************************************************************************)
(* Theorems about Files: whatever the collections, files and formats of    *)
(* the constants, an import lands what the page said it would, a file read *)
(* from its last row up is the same file, and no file is short of a copy.  *)
(***************************************************************************)
EXTENDS CardFileProofs

-----------------------------------------------------------------------------
(* The invariant.                                                          *)

Jobs == [on : BOOLEAN, after : Int, records : Int, sound : BOOLEAN, wrote : SUBSET Nat]

Typed ==
    /\ repo \in Seq(Records) /\ held \in Seq(Records) /\ parts \in Seq(Owned) /\ minted \in Nat
    /\ job \in Jobs /\ fresh \in BOOLEAN
Filed ==
    /\ \A one \in file : IsFile(one.text) /\ one.format \in DOMAIN FORMATS
    /\ \A one \in readings : IsFile(one.text) /\ one.again \subseteq DOMAIN FORMATS
    /\ \A one \in found : IsFile(one.text) /\ one.format \in DOMAIN FORMATS /\ one.stacks \in Seq(Owned)
Keyed ==
    /\ Injective(repo) /\ KeysApart(repo) /\ Under(repo, minted)
    /\ fresh => Injective(held) /\ Range(held) = Range(repo)
Promising ==
    /\ job.on \/ parts = <<>>
    /\ job.sound => IsPromise(Values(repo), parts, job.after, job.records)

FilesInv == Typed /\ Filed /\ Keyed /\ Promising

\* Among records there is one with the last key.
LEMMA Newest ==
    ASSUME NEW list \in Seq(Records), NEW n \in Nat, Under(list, n), NEW some \in SUBSET DOMAIN list, some # {}
    PROVE  \E i \in some : \A j \in some : list[j].key <= list[i].key
<1> DEFINE short == {n - list[i].key : i \in some}
<1>1. \A i \in some : list[i].key \in Nat /\ list[i].key <= n
  <2> TAKE i \in some
  <2>1. list[i] \in Records /\ list[i] \in Range(list)
    BY SeqParts DEF Range
  <2> QED BY <2>1 DEF Under, Records
<1>2. short \in SUBSET Nat /\ short # {}
  BY <1>1
<1>3. Min(short) \in short /\ \A m \in short : Min(short) <= m
  <2> HIDE DEF short
  <2> QED BY <1>2, Least
<1>4. PICK i \in some : Min(short) = n - list[i].key
  BY <1>3
<1>5. \A j \in some : list[j].key <= list[i].key
  <2> TAKE j \in some
  <2>1. n - list[i].key <= n - list[j].key
    BY <1>3, <1>4
  <2> QED BY <1>1, <2>1
<1> QED BY <1>5

\* The first of some is one of them.
LEMMA Foremost ==
    ASSUME NEW list, NEW E, list \in Seq(E), NEW some \in SUBSET DOMAIN list, some # {}
    PROVE  Min(some) \in some
<1>1. some \in SUBSET Nat
  BY SeqParts
<1> QED BY <1>1, Least

\* A record written by its key, in the repository and in the view of it.
LEMMA RewritesKeeps ==
    ASSUME Typed, Keyed, NEW key, NEW value \in Owned, Rewrites(key, value), minted' = minted, fresh' = fresh
    PROVE  /\ repo' \in Seq(Records) /\ held' \in Seq(Records)
           /\ Keyed'
<1>1. repo' = Put(repo, key, value) /\ held' = Put(held, key, value)
  BY DEF Rewrites, Put
<1>2. IsPutting(repo', repo, key, value) /\ IsPutting(held', held, key, value)
  BY <1>1 DEF IsPutting, Typed
<1>3. repo' \in Seq(Records) /\ held' \in Seq(Records)
  BY <1>2, PuttingType
<1>4. Injective(repo) /\ KeysApart(repo) /\ Under(repo, minted)
  BY DEF Keyed
<1>5. Injective(repo') /\ KeysApart(repo') /\ Under(repo', minted)
  BY <1>2, <1>4, PuttingKeys
<1>6. ASSUME fresh
      PROVE  Injective(held') /\ Range(held') = Range(repo')
  <2>1. Injective(held) /\ Range(held) = Range(repo)
    BY <1>6 DEF Keyed
  <2>2. KeysApart(held)
    BY <1>4, <2>1 DEF KeysApart
  <2>3. Injective(held')
    BY <1>2, <2>1, <2>2, PuttingKeys
  <2>4. Range(held') = {PutOne(x, key, value) : x \in Range(held)} /\ Range(repo') = {PutOne(x, key, value) : x \in Range(repo)}
    BY <1>2, PuttingRange
  <2> QED BY <2>1, <2>3, <2>4
<1>7. Keyed'
  BY <1>5, <1>6 DEF Keyed
<1> QED BY <1>3, <1>7

\* And one more, under a key not minted before.
LEMMA MintsKeeps ==
    ASSUME Typed, Keyed, NEW value \in Owned, minted' = minted + 1, fresh' = fresh,
           repo' = Append(repo, [key |-> minted', value |-> value]), held' = Append(held, [key |-> minted', value |-> value])
    PROVE  /\ repo' \in Seq(Records) /\ held' \in Seq(Records) /\ minted' \in Nat
           /\ Keyed'
           /\ Values(repo') = Append(Values(repo), value)
<1>1. minted \in Nat /\ minted' \in Nat /\ minted < minted'
  BY DEF Typed
<1>2. IsAdding(repo', repo, minted', value) /\ IsAdding(held', held, minted', value)
  BY <1>1 DEF IsAdding, Typed, NewRecord
<1>9. IsAdded(repo', repo, minted', value)
  BY <1>2, Added1
<1>10. IsAdded(held', held, minted', value)
  BY <1>2, Added1
<1>3. /\ repo' \in Seq(Records) /\ Range(repo') = Range(repo) \cup {NewRecord(minted', value)}
      /\ Values(repo') = Append(Values(repo), value)
  BY <1>9 DEF IsAdded
<1>4. held' \in Seq(Records) /\ Range(held') = Range(held) \cup {NewRecord(minted', value)}
  BY <1>10 DEF IsAdded
<1>5. Injective(repo) /\ KeysApart(repo) /\ Under(repo, minted)
  BY DEF Keyed
<1>6. Injective(repo') /\ KeysApart(repo') /\ Under(repo', minted')
  BY <1>1, <1>2, <1>5, AddingFacts
<1>7. ASSUME fresh
      PROVE  Injective(held') /\ Range(held') = Range(repo')
  <2>1. Injective(held) /\ Range(held) = Range(repo)
    BY <1>7 DEF Keyed
  <2>2. KeysApart(held) /\ Under(held, minted)
    BY <1>5, <2>1 DEF KeysApart, Under
  <2>3. Injective(held')
    BY <1>1, <1>2, <2>1, <2>2, AddingFacts
  <2> QED BY <1>3, <1>4, <2>1, <2>3
<1>8. Keyed'
  BY <1>6, <1>7 DEF Keyed
<1> QED BY <1>1, <1>3, <1>4, <1>8

-----------------------------------------------------------------------------
(* Each action keeps it.                                                   *)

\* The repository answers with what it holds.
LEMMA ReversePaired ==
    ASSUME NEW list \in Seq(Records), Injective(list)
    PROVE  Reverse(list) \in Seq(Records) /\ Injective(Reverse(list)) /\ Range(Reverse(list)) = Range(list)
BY ReversedFacts

\* Answers: the view is the repository, newest first.
LEMMA AnswersKeeps ==
    ASSUME FilesInv, Answers
    PROVE  FilesInv'
<1>1. repo \in Seq(Records) /\ Injective(repo)
  BY DEF FilesInv, Typed, Keyed
<1>2. held' = Reverse(repo)
  BY DEF Answers
<1>3. held' \in Seq(Records) /\ Injective(held') /\ Range(held') = Range(repo)
  <2> DEFINE back == Reverse(repo)
  <2>1. back \in Seq(Records) /\ Injective(back) /\ Range(back) = Range(repo)
    BY <1>1, ReversePaired
  <2> HIDE DEF back
  <2>2. held' = back
    BY <1>2 DEF back
  <2> QED BY <2>1, <2>2
<1>4. Typed'
  BY <1>3 DEF FilesInv, Typed, Answers, repoVars
<1>5. Filed'
  BY DEF FilesInv, Filed, Answers, pageVars
<1>6. Keyed'
  BY <1>3 DEF FilesInv, Keyed, Answers, repoVars
<1>7. Promising'
  BY DEF FilesInv, Promising, Answers, repoVars
<1> QED BY <1>4, <1>5, <1>6, <1>7 DEF FilesInv

\* A step that leaves the records, what is waiting and the job as they are.
LEMMA StillKeeps ==
    ASSUME FilesInv, UNCHANGED <<repo, parts, minted, held, job>>, fresh' \in {fresh, FALSE}
    PROVE  Typed' /\ Keyed' /\ Promising'
<1>1. Typed'
  BY DEF FilesInv, Typed
<1>2. Keyed'
  <2>1. fresh \in BOOLEAN /\ Keyed
    BY DEF FilesInv, Typed
  <2>2. fresh' => fresh
    BY <2>1
  <2> QED BY <2>1, <2>2 DEF Keyed
<1>3. Promising'
  BY DEF FilesInv, Promising
<1> QED BY <1>1, <1>2, <1>3

\* Reloads and Lists change no record.
LEMMA ReloadsKeeps ==
    ASSUME FilesInv, Reloads \/ Lists
    PROVE  FilesInv'
<1>1. UNCHANGED <<repo, parts, minted, held, job>> /\ fresh' \in {fresh, FALSE}
  BY DEF Reloads, Lists, repoVars
<1>2. Filed'
  BY DEF FilesInv, Filed, Reloads, Lists, pageVars
<1> QED BY <1>1, <1>2, StillKeeps DEF FilesInv

\* What the owner changes meanwhile, no promise is about.
LEMMA UnsoundKeeps ==
    ASSUME Promising, Typed, Meanwhile, parts' = parts
    PROVE  Promising' /\ job' \in Jobs
<1>1. job \in Jobs /\ job' = [job EXCEPT !.sound = FALSE]
  BY DEF Typed, Meanwhile
<1>2. job' \in Jobs /\ job'.sound = FALSE /\ job'.on = job.on
  BY <1>1 DEF Jobs
<1> QED BY <1>2 DEF Promising

\* Adds rewrites a record or mints one.
LEMMA AddsKeeps ==
    ASSUME FilesInv, NEW value \in Added, Adds(value)
    PROVE  FilesInv'
<1>1. Typed /\ Filed /\ Keyed /\ Promising
  BY DEF FilesInv
<1>2. fresh' = fresh /\ parts' = parts /\ Meanwhile /\ UNCHANGED <<file, readings, found>>
  BY DEF Adds, pageVars
<1>3. Promising' /\ job' \in Jobs
  BY <1>1, <1>2, UnsoundKeeps
<1>4. Filed'
  BY <1>1, <1>2 DEF Filed
<1>5. value \in Owned
  BY AddedAssumption
<1> DEFINE same == {i \in DOMAIN held : Stack(held[i].value) = Stack(value)}
<1>6. repo' \in Seq(Records) /\ held' \in Seq(Records) /\ minted' \in Nat /\ Keyed'
  <2>1. CASE same # {}
    <3> DEFINE one == held[Min(same)]
               more == [one.value EXCEPT !.quantity = @ + 1]
    <3>1. Rewrites(one.key, more) /\ minted' = minted
      BY <2>1 DEF Adds
    <3>2. Min(same) \in same
      <4>1. held \in Seq(Records) /\ same \in SUBSET DOMAIN held
        BY <1>1 DEF Typed
      <4> HIDE DEF same
      <4> QED BY <2>1, <4>1, Foremost
    <3>3. one \in Records
      BY <1>1, <3>2, SeqParts DEF Typed
    <3> DEFINE v == one.value
    <3> HIDE DEF one, same
    <3>6. v \in Owned /\ more = [v EXCEPT !.quantity = @ + 1]
      BY <3>3 DEF Records
    <3> HIDE DEF v, more
    <3>4. more \in Owned
      <4>1. v.quantity \in Nat
        BY <3>6 DEF Owned
      <4> DEFINE q == v.quantity + 1
      <4>2. q \in Nat /\ more = [v EXCEPT !.quantity = q]
        BY <3>6, <4>1
      <4> HIDE DEF q
      <4> QED BY <3>6, <4>2 DEF Owned
    <3>5. repo' \in Seq(Records) /\ held' \in Seq(Records) /\ Keyed'
      BY <1>1, <1>2, <3>1, <3>4, RewritesKeeps
    <3> QED BY <1>1, <3>1, <3>5 DEF Typed
  <2>2. CASE same = {}
    <3>1. /\ minted' = minted + 1
          /\ repo' = Append(repo, [key |-> minted', value |-> value])
          /\ held' = Append(held, [key |-> minted', value |-> value])
      BY <2>2 DEF Adds
    <3> QED BY <1>1, <1>2, <1>5, <3>1, MintsKeeps
  <2> QED BY <2>1, <2>2
<1>7. Typed'
  BY <1>1, <1>2, <1>3, <1>6 DEF Typed
<1> QED BY <1>3, <1>4, <1>6, <1>7 DEF FilesInv

\* What is removed goes from both.
LEMMA RemovedPaired ==
    ASSUME NEW one \in Seq(Records), NEW other \in Seq(Records), Range(one) = Range(other), Injective(one), NEW some
    PROVE  Range(Only(one, some)) = Range(Only(other, some)) /\ Injective(Only(one, some))
<1>1. Range(Only(one, some)) = Range(one) \cap some /\ Injective(Only(one, some))
  BY RemovedFacts
<1>2. Range(Only(other, some)) = Range(other) \cap some
  BY RemovedFacts
<1> QED BY <1>1, <1>2

\* Removes takes a record from the repository and the view.
LEMMA RemovesKeeps ==
    ASSUME FilesInv, NEW key, Removes(key)
    PROVE  FilesInv'
<1>1. Typed /\ Filed /\ Keyed /\ Promising
  BY DEF FilesInv
<1>2. fresh /\ fresh' = fresh /\ minted' = minted /\ parts' = parts /\ Meanwhile /\ UNCHANGED <<file, readings, found>>
  BY DEF Removes, pageVars
<1>3. Promising' /\ job' \in Jobs
  BY <1>1, <1>2, UnsoundKeeps
<1>4. Filed'
  BY <1>1, <1>2 DEF Filed
<1> DEFINE some == {one \in Range(repo) : one.key # key}
           left == Only(repo, some)
           shown == Only(held, some)
<1>5. Injective(held) /\ Range(held) = Range(repo) /\ Injective(repo) /\ KeysApart(repo) /\ Under(repo, minted)
  BY <1>1, <1>2 DEF Keyed
<1>6. repo' = left /\ held' = shown
  BY <1>5 DEF Removes
<1>7. repo \in Seq(Records) /\ held \in Seq(Records)
  BY <1>1 DEF Typed
<1> HIDE DEF some
<1>8. left \in Seq(Records) /\ Injective(left) /\ KeysApart(left) /\ Under(left, minted)
  BY <1>5, <1>7, RemovedFacts
<1>9. shown \in Seq(Records)
  BY <1>7, RemovedFacts
<1>10. Injective(shown) /\ Range(shown) = Range(left)
  BY <1>5, <1>7, RemovedPaired
<1> HIDE DEF left, shown
<1>11. Keyed'
  BY <1>2, <1>6, <1>8, <1>10 DEF Keyed
<1>12. Typed'
  BY <1>1, <1>2, <1>3, <1>6, <1>8, <1>9 DEF Typed
<1> QED BY <1>3, <1>4, <1>11, <1>12 DEF FilesInv

\* Exports writes a file a read may be given.
LEMMA ExportsKeeps ==
    ASSUME FilesInv, NEW at \in DOMAIN FORMATS, NEW scope, Exports(at, scope)
    PROVE  FilesInv'
<1>1. UNCHANGED <<repo, parts, minted, held, job, readings, found>> /\ fresh' \in {fresh, FALSE}
  BY DEF Exports, repoVars, viewVars, pageVars
<1> DEFINE picked == Within(Stacks, scope)
           said == Rows(picked, FORMATS[at], Places, FALSE)
           inEnglish == Rows(picked, FORMATS[at], Places, TRUE)
           truth == Within(Landing(repo, parts), scope)
<1>2. PICK text : text \in {said, inEnglish} /\ file' = {[format |-> at, of |-> picked, truth |-> truth, text |-> text]}
  BY DEF Exports
<1>3. Stacks \in Seq(Kept)
  <2>1. held \in Seq(Records) /\ (IF listed THEN parts ELSE <<>>) \in Seq(Owned)
    BY DEF FilesInv, Typed
  <2> QED BY <2>1, LandingType DEF Stacks
<1>4. picked \in Seq(Kept)
  BY <1>3, WithinType
<1>5. IsWritten(FORMATS[at])
  BY FormatsWritten
<1> HIDE DEF picked
<1>6. IsFile(said) /\ IsFile(inEnglish)
  BY <1>4, <1>5, RowsFile
<1> HIDE DEF said, inEnglish, truth
<1>7. \A one \in file' : IsFile(one.text) /\ one.format \in DOMAIN FORMATS
  BY <1>2, <1>6
<1>8. Filed'
  BY <1>1, <1>7 DEF FilesInv, Filed
<1> QED BY <1>1, <1>8, StillKeeps DEF FilesInv

\* Chooses reads a file that was written or is somebody else's.
LEMMA ChoosesKeeps ==
    ASSUME FilesInv, NEW text \in Texts, Chooses(text)
    PROVE  FilesInv'
<1>1. UNCHANGED <<repo, parts, minted, held, job, file>> /\ fresh' \in {fresh, FALSE} /\ found' = {}
      /\ readings' = readings \cup {[text |-> text, paid |-> FALSE, again |-> {}]}
  BY DEF Chooses, repoVars, viewVars
<1>2. IsFile(text)
  BY StrangersAssumption DEF Texts, FilesInv, Filed
<1>3. Filed'
  <2> DEFINE one == [text |-> text, paid |-> FALSE, again |-> {}]
  <2>1. IsFile(one.text) /\ one.again \subseteq DOMAIN FORMATS
    BY <1>2
  <2> HIDE DEF one
  <2>2. readings' = readings \cup {one}
    BY <1>1 DEF one
  <2> QED BY <1>1, <2>1, <2>2 DEF FilesInv, Filed
<1> QED BY <1>1, <1>3, StillKeeps DEF FilesInv

\* Rereads reads the file shown.
LEMMA RereadsKeeps ==
    ASSUME FilesInv, Rereads
    PROVE  FilesInv'
<1>1. PICK one \in found : readings' = readings \cup {[text |-> one.text, paid |-> ~one.paid, again |-> {one.format}]}
  BY DEF Rereads
<1>2. UNCHANGED <<repo, parts, minted, held, job, file, found>> /\ fresh' \in {fresh, FALSE}
  BY DEF Rereads, repoVars, viewVars
<1>3. IsFile(one.text) /\ one.format \in DOMAIN FORMATS
  BY DEF FilesInv, Filed
<1>4. Filed'
  <2> DEFINE asked == [text |-> one.text, paid |-> ~one.paid, again |-> {one.format}]
  <2>1. IsFile(asked.text) /\ asked.again \subseteq DOMAIN FORMATS
    BY <1>3
  <2> HIDE DEF asked
  <2>2. readings' = readings \cup {asked}
    BY <1>1 DEF asked
  <2> QED BY <1>2, <2>1, <2>2 DEF FilesInv, Filed
<1> QED BY <1>2, <1>4, StillKeeps DEF FilesInv

\* What is detected is a format there is.
LEMMA DetectType ==
    ASSUME NEW head
    PROVE  Detect(head) \subseteq DOMAIN FORMATS
<1> DEFINE fits == {i \in DOMAIN FORMATS : Fits(FORMATS[i], head)}
<1>1. CASE fits = {}
  BY <1>1 DEF Detect
<1>2. CASE fits # {}
  <2>1. fits \in SUBSET Nat
    BY DEF FORMATS
  <2>2. Min(fits) \in fits
    <3> HIDE DEF fits
    <3> QED BY <1>2, <2>1, Least
  <2>3. Detect(head) = {Min(fits)}
    BY <1>2 DEF Detect
  <2> QED BY <2>2, <2>3
<1> QED BY <1>1, <1>2

\* What a reading comes to is stacks.
LEMMA ReadingType ==
    ASSUME NEW text, IsFile(text), NEW paid, NEW at \in DOMAIN FORMATS
    PROVE  /\ Reading(text, paid, at).text = text /\ Reading(text, paid, at).format = at
           /\ Reading(text, paid, at).stacks \in Seq(Owned)
<1> DEFINE format == IF paid THEN AsPaid(FORMATS[at]) ELSE FORMATS[at]
           rows == Read(text, format, TRUE).rows
<1>1. IsFormat(format)
  BY FormatsTyped, PaidTyped
<1> HIDE DEF format
<1>2. rows \in Seq(Owned)
  BY <1>1, ReadFacts
<1>3. Reading(text, paid, at) = [text |-> text, paid |-> paid, format |-> at, stacks |-> Collapse(rows)]
  BY DEF Reading, format
<1> HIDE DEF rows
<1>4. Collapse(rows) \in Seq(Owned)
  BY <1>2, CollapseFacts
<1> QED BY <1>3, <1>4

\* ReadsEnd shows stacks.
LEMMA ReadsEndKeeps ==
    ASSUME FilesInv, NEW one \in readings, ReadsEnd(one)
    PROVE  FilesInv'
<1> DEFINE known == IF one.again # {} THEN one.again ELSE Detect(one.text.head)
<1>1. UNCHANGED <<repo, parts, minted, held, job, file>> /\ fresh' \in {fresh, FALSE}
      /\ readings' = readings \ {one}
      /\ found' \in {found, {Reading(one.text, one.paid, at) : at \in known}}
  BY DEF ReadsEnd, repoVars, viewVars
<1>2. IsFile(one.text) /\ known \subseteq DOMAIN FORMATS
  BY DetectType DEF FilesInv, Filed
<1> HIDE DEF known
<1>3. \A at \in known : LET each == Reading(one.text, one.paid, at) IN
         IsFile(each.text) /\ each.format \in DOMAIN FORMATS /\ each.stacks \in Seq(Owned)
  BY <1>2, ReadingType
<1>4. \A each \in found' : IsFile(each.text) /\ each.format \in DOMAIN FORMATS /\ each.stacks \in Seq(Owned)
  BY <1>1, <1>3 DEF FilesInv, Filed
<1>5. Filed'
  BY <1>1, <1>4 DEF FilesInv, Filed
<1> QED BY <1>1, <1>5, StillKeeps DEF FilesInv

\* Leaves forgets what is shown.
LEMMA LeavesKeeps ==
    ASSUME FilesInv, Leaves
    PROVE  FilesInv'
<1>1. UNCHANGED <<repo, parts, minted, held, job, file>> /\ fresh' \in {fresh, FALSE} /\ readings' = {} /\ found' = {}
  BY DEF Leaves, repoVars, viewVars
<1>2. Filed'
  BY <1>1 DEF FilesInv, Filed
<1> QED BY <1>1, <1>2, StillKeeps DEF FilesInv

\* Forgets leaves no job and nothing waiting.
LEMMA ForgetsKeeps ==
    ASSUME FilesInv, Forgets
    PROVE  FilesInv'
<1>1. UNCHANGED <<repo, minted, held, fresh, file, readings>> /\ job' = NoJob /\ parts' = <<>> /\ found' = {}
  BY DEF Forgets, viewVars
<1>2. Typed'
  BY <1>1 DEF FilesInv, Typed, Jobs, NoJob
<1>3. Filed'
  BY <1>1 DEF FilesInv, Filed
<1>4. Keyed'
  BY <1>1 DEF FilesInv, Keyed
<1>5. Promising'
  BY <1>1 DEF Promising, NoJob
<1> QED BY <1>2, <1>3, <1>4, <1>5 DEF FilesInv

\* Records on the page with nothing waiting.
LEMMA ShelvedHolding ==
    ASSUME NEW list \in Seq(Records)
    PROVE  IsHolding(Shelved(list), Len(list)) /\ Values(Shelved(list)) = Values(list) /\ Values(list) \in Seq(Owned)
<1> DEFINE shelf == Shelved(list)
           n == Len(list)
<1>1. n \in Nat /\ DOMAIN list = 1 .. n /\ (\A i \in DOMAIN list : list[i].value \in Owned) /\ Values(list) \in Seq(Owned)
  BY RecordValues, SeqParts DEF IsHolding
<1>2. shelf = [i \in 1 .. n |-> [value |-> list[i].value, waiting |-> 0]]
  BY <1>1 DEF Shelved
<1> HIDE DEF n, shelf
<1>3. DOMAIN shelf = 1 .. n /\ Len(shelf) = n /\ \A i \in 1 .. n : shelf[i].value = list[i].value
  BY <1>1, <1>2
<1>4. IsHolding(shelf, n)
  BY <1>1, <1>3 DEF IsHolding
<1>5. Values(shelf) = Values(list)
  BY <1>1, <1>3 DEF Values
<1> QED BY <1>1, <1>4, <1>5 DEF n, shelf

\* A job begun promises what its plan was weighed at.
LEMMA StartsJob ==
    ASSUME FilesInv, NEW one \in found, one.stacks # <<>>,
           NEW weight, weight = Weigh(Plan(one.stacks, Stacks, Now), Stacks), ~job.on,
           parts' = one.stacks,
           job' = [on |-> TRUE, after |-> weight.after, records |-> Len(repo) + weight.records - weight.joined,
                   sound |-> fresh, wrote |-> {}],
           UNCHANGED <<repo, held>>
    PROVE  job' \in Jobs /\ parts' \in Seq(Owned) /\ Promising'
<1>1. Typed /\ Filed /\ Keyed /\ Promising
  BY DEF FilesInv
<1>2. one.stacks \in Seq(Owned)
  BY <1>1 DEF Filed
<1>3. held \in Seq(Records) /\ repo \in Seq(Records)
  BY <1>1 DEF Typed
<1>4. Stacks = Shelved(held)
  <2>1. (IF listed THEN parts ELSE <<>>) = <<>>
    BY <1>1 DEF Promising
  <2> QED BY <2>1, LandingNone DEF Stacks
<1>5. Now \in Nat
  BY NowAssumption
<1>6. weight.after \in Nat /\ weight.records \in Nat /\ weight.joined \in Nat
  <2> DEFINE shelf == Shelved(held)
             n == Len(held)
  <2>1. IsHolding(shelf, n) /\ Values(shelf) \in Seq(Owned)
    <3>1. IsHolding(shelf, n) /\ Values(shelf) = Values(held) /\ Values(held) \in Seq(Owned)
      BY <1>3, ShelvedHolding
    <3> QED BY <3>1
  <2> DEFINE plan == Plan(one.stacks, shelf, Now)
             v == Values(shelf)
             w == Weigh(plan, shelf)
  <2> HIDE DEF shelf, n
  <2>2. PlanSays(w, Len(plan), n, v, one.stacks)
    BY <1>2, <1>5, <2>1, PlanSaid
  <2>3. v \in Seq(Owned) /\ w = weight
    BY <1>4, <2>1 DEF shelf
  <2> HIDE DEF plan, v, w
  <2>4. CopiesOf(v) \in Nat /\ CopiesOf(one.stacks) \in Nat
    BY <1>2, <2>3, CopiesWeighed
  <2> QED BY <2>2, <2>3, <2>4 DEF PlanSays
<1>8. job' \in Jobs /\ job'.sound = fresh
  <2>1. Len(repo) \in Nat
    BY <1>3, SeqParts
  <2> DEFINE r == Len(repo) + weight.records - weight.joined
  <2>2. r \in Int
    BY <1>6, <2>1
  <2> HIDE DEF r
  <2>3. fresh \in BOOLEAN
    BY <1>1 DEF Typed
  <2>4. weight.after \in Int
    BY <1>6
  <2>5. job' = [on |-> TRUE, after |-> weight.after, records |-> r, sound |-> fresh, wrote |-> {}]
    BY DEF r
  <2> HIDE DEF r
  <2> QED BY <2>2, <2>3, <2>4, <2>5 DEF Jobs
<1>9. ASSUME fresh
      PROVE  IsPromise(Values(repo), one.stacks, weight.after, Len(repo) + weight.records - weight.joined)
  <2>1. Injective(held) /\ Injective(repo) /\ Range(held) = Range(repo)
    BY <1>1, <1>9 DEF Keyed
  <2>2. IsPaired(held, repo)
    BY <1>3, <2>1 DEF IsPaired
  <2>3. weight = Weigh(Plan(one.stacks, Shelved(held), Now), Shelved(held))
    BY <1>4
  <2> DEFINE stacks == one.stacks
  <2>4. stacks \in Seq(Owned) /\ weight = Weigh(Plan(stacks, Shelved(held), Now), Shelved(held))
    BY <1>2, <2>3
  <2>5. IsPromise(Values(repo), stacks, weight.after, Len(repo) + weight.records - weight.joined)
    <3> HIDE DEF stacks
    <3> QED BY <1>5, <2>2, <2>4, PromiseStarts
  <2> QED BY <2>5
<1>10. Promising'
  <2>1. job'.sound => IsPromise(Values(repo'), parts', job'.after, job'.records)
    BY <1>8, <1>9
  <2> QED BY <2>1 DEF Promising
<1> QED BY <1>2, <1>8, <1>10

\* Starts leaves a file waiting whole, or only says it was empty.
LEMMA StartsKeeps ==
    ASSUME FilesInv, Starts
    PROVE  FilesInv'
<1>1. PICK one \in found :
         LET weight == Weigh(Plan(one.stacks, Stacks, Now), Stacks) IN
         /\ ~job.on
         /\ \/ one.stacks = <<>> /\ UNCHANGED <<parts, job>>
            \/ /\ one.stacks # <<>> /\ parts' = one.stacks
               /\ job' = [on |-> TRUE, after |-> weight.after, records |-> Len(repo) + weight.records - weight.joined,
                          sound |-> fresh, wrote |-> {}]
  BY DEF Starts
<1>2. UNCHANGED <<repo, minted, held, file, readings, found>> /\ fresh' = fresh
  BY DEF Starts, viewVars
<1>3. Filed'
  BY <1>2 DEF FilesInv, Filed
<1>4. CASE UNCHANGED <<parts, job>>
  BY <1>2, <1>3, <1>4, StillKeeps DEF FilesInv
<1>5. CASE ~UNCHANGED <<parts, job>>
  <2> DEFINE weight == Weigh(Plan(one.stacks, Stacks, Now), Stacks)
  <2>1. /\ one.stacks # <<>> /\ ~job.on /\ parts' = one.stacks
        /\ job' = [on |-> TRUE, after |-> weight.after, records |-> Len(repo) + weight.records - weight.joined,
                   sound |-> fresh, wrote |-> {}]
    BY <1>1, <1>5
  <2> HIDE DEF weight
  <2>2. job' \in Jobs /\ parts' \in Seq(Owned) /\ Promising'
    BY <1>2, <2>1, StartsJob DEF weight
  <2>3. Typed' /\ Keyed'
    BY <1>2, <2>2 DEF FilesInv, Typed, Keyed
  <2> QED BY <1>3, <2>2, <2>3 DEF FilesInv
<1> QED BY <1>4, <1>5

\* What a drain does to the records.
DrainsAs(entry) ==
    \/ \E key \in Nat, i \in DOMAIN repo :
          /\ repo[i].key = key /\ Joins(repo[i].value, entry)
          /\ Rewrites(key, Merge(repo[i].value, entry, Now))
          /\ job' = [job EXCEPT !.wrote = @ \cup {key}] /\ minted' = minted
    \/ /\ minted' = minted + 1
       /\ repo' = Append(repo, [key |-> minted', value |-> entry])
       /\ held' = Append(held, [key |-> minted', value |-> entry])
       /\ job' = [job EXCEPT !.wrote = @ \cup {minted'}]

\* Drains lands the first entry waiting on a record the repository holds, or as one.
LEMMA DrainsSo ==
    ASSUME FilesInv, Drains
    PROVE  /\ parts # <<>> /\ parts' = Tail(parts) /\ fresh /\ fresh' = fresh
           /\ UNCHANGED <<file, readings, found>>
           /\ DrainsAs(Head(parts))
<1> DEFINE entry == Head(parts)
           same == {i \in DOMAIN held : Stack(held[i].value) = Stack(entry)}
           recent == {i \in same : held[i].key \in job.wrote}
           at == IF recent # {} THEN CHOOSE i \in recent : \A j \in recent : held[j].key <= held[i].key ELSE Min(same)
           one == held[at]
<1>1. /\ parts # <<>> /\ parts' = Tail(parts) /\ fresh /\ fresh' = fresh /\ UNCHANGED <<file, readings, found>>
  BY DEF Drains, pageVars
<1>2. \/ /\ same # {} /\ Joins(one.value, entry)
         /\ Rewrites(one.key, Merge(one.value, entry, Now))
         /\ job' = [job EXCEPT !.wrote = @ \cup {one.key}] /\ minted' = minted
      \/ /\ minted' = minted + 1
         /\ repo' = Append(repo, [key |-> minted', value |-> entry])
         /\ held' = Append(held, [key |-> minted', value |-> entry])
         /\ job' = [job EXCEPT !.wrote = @ \cup {minted'}]
  BY DEF Drains, DrainedOnto
<1>3. /\ held \in Seq(Records) /\ Range(held) = Range(repo) /\ Under(held, minted) /\ minted \in Nat
  BY <1>1 DEF FilesInv, Typed, Keyed, Under
<1>4. same # {} => at \in DOMAIN held
  <2> SUFFICES ASSUME same # {} PROVE at \in DOMAIN held
    OBVIOUS
  <2>1. same \in SUBSET DOMAIN held /\ recent \in SUBSET same
    OBVIOUS
  <2>2. CASE recent # {}
    <3>1. recent \in SUBSET DOMAIN held
      BY <2>1
    <3>2. at = CHOOSE i \in recent : \A j \in recent : held[j].key <= held[i].key
      BY <2>2
    <3> HIDE DEF recent, same, at
    <3>3. \E i \in recent : \A j \in recent : held[j].key <= held[i].key
      BY <1>3, <2>2, <3>1, Newest
    <3>4. at \in recent
      BY <3>2, <3>3
    <3> QED BY <3>1, <3>4
  <2>3. CASE recent = {}
    <3>1. at = Min(same)
      BY <2>3
    <3> HIDE DEF recent, same, at
    <3>2. Min(same) \in same
      BY <1>3, <2>1, Foremost
    <3> QED BY <2>1, <3>1, <3>2
  <2> QED BY <2>2, <2>3
<1> HIDE DEF entry, same, at
<1>5. CASE same # {} /\ Joins(one.value, entry)
         /\ Rewrites(one.key, Merge(one.value, entry, Now))
         /\ job' = [job EXCEPT !.wrote = @ \cup {one.key}] /\ minted' = minted
  <2>1. at \in DOMAIN held
    BY <1>4, <1>5
  <2>2. one \in Range(repo) /\ one \in Records
    BY <1>3, <2>1, SeqParts DEF Range
  <2>3. PICK i \in DOMAIN repo : repo[i] = one
    BY <2>2 DEF Range
  <2>4. one.key \in Nat
    BY <2>2 DEF Records
  <2>5. \E key \in Nat, j \in DOMAIN repo :
          /\ repo[j].key = key /\ Joins(repo[j].value, entry)
          /\ Rewrites(key, Merge(repo[j].value, entry, Now))
          /\ job' = [job EXCEPT !.wrote = @ \cup {key}] /\ minted' = minted
    BY <1>5, <2>3, <2>4
  <2>6. DrainsAs(entry)
    BY <2>5 DEF DrainsAs
  <2> QED BY <1>1, <2>6 DEF entry
<1>6. CASE /\ minted' = minted + 1
           /\ repo' = Append(repo, [key |-> minted', value |-> entry])
           /\ held' = Append(held, [key |-> minted', value |-> entry])
           /\ job' = [job EXCEPT !.wrote = @ \cup {minted'}]
  <2>1. DrainsAs(entry)
    BY <1>6 DEF DrainsAs
  <2> QED BY <1>1, <2>1 DEF entry
<1> QED BY <1>2, <1>5, <1>6

\* A join is of the record that was there with what was waiting.
LEMMA DrainsOver ==
    ASSUME FilesInv, NEW entry \in Owned, fresh' = fresh, DrainsAs(entry)
    PROVE  /\ repo' \in Seq(Records) /\ held' \in Seq(Records) /\ minted' \in Nat /\ Keyed'
           /\ Grows(Values(repo), Values(repo'), entry)
           /\ job' \in Jobs /\ job'.on = job.on /\ job'.sound = job.sound /\ job'.after = job.after /\ job'.records = job.records
<1>1. Typed /\ Keyed
  BY DEF FilesInv
<1>2. repo \in Seq(Records) /\ job \in Jobs /\ minted \in Nat
  BY <1>1 DEF Typed
<1>3. ASSUME NEW key \in Nat, job' = [job EXCEPT !.wrote = @ \cup {key}]
      PROVE  job' \in Jobs /\ job'.on = job.on /\ job'.sound = job.sound /\ job'.after = job.after /\ job'.records = job.records
  BY <1>2, <1>3 DEF Jobs
<1>4. ASSUME NEW key \in Nat, NEW i \in DOMAIN repo, repo[i].key = key, Joins(repo[i].value, entry),
             Rewrites(key, Merge(repo[i].value, entry, Now)), minted' = minted
      PROVE  /\ repo' \in Seq(Records) /\ held' \in Seq(Records) /\ minted' \in Nat /\ Keyed'
             /\ Grows(Values(repo), Values(repo'), entry)
  <2> DEFINE v == repo[i].value
             more == Merge(v, entry, Now)
  <2>1. repo[i] \in Records
    BY <1>2, SeqParts
  <2>2. v \in Owned /\ Now \in Nat
    BY <2>1, NowAssumption DEF Records
  <2>3. more \in Owned
    <3>1. Stack(v) = Stack(entry)
      BY <1>4 DEF Joins
    <3> HIDE DEF v
    <3> QED BY <2>2, <3>1, MergeFacts
  <2>4. Rewrites(key, more) /\ Joins(v, entry)
    BY <1>4
  <2>5. Values(repo) = [j \in DOMAIN repo |-> repo[j].value]
    BY DEF Values
  <2>6. v = Values(repo)[i] /\ i \in DOMAIN Values(repo)
    BY <2>5
  <2> HIDE DEF v
  <2>7. more = Merge(Values(repo)[i], entry, Now)
    BY <2>6
  <2> HIDE DEF more
  <2>8. repo' \in Seq(Records) /\ held' \in Seq(Records) /\ Keyed'
    BY <1>1, <1>4, <2>3, <2>4, RewritesKeeps
  <2>9. IsPutting(repo', repo, key, more)
    BY <1>2, <2>3, <2>4 DEF IsPutting, Rewrites, Put
  <2>10. Injective(repo) /\ KeysApart(repo)
    BY <1>1 DEF Keyed
  <2>11. repo[i].key = key
    BY <1>4
  <2>12. Values(repo') = [Values(repo) EXCEPT ![i] = more]
    BY <2>9, <2>10, <2>11, PuttingValues
  <2>13. Grows(Values(repo), Values(repo'), entry)
    BY <2>2, <2>4, <2>6, <2>7, <2>12 DEF Grows
  <2> QED BY <1>2, <1>4, <2>8, <2>13
<1>5. ASSUME minted' = minted + 1, repo' = Append(repo, [key |-> minted', value |-> entry]),
             held' = Append(held, [key |-> minted', value |-> entry])
      PROVE  /\ repo' \in Seq(Records) /\ held' \in Seq(Records) /\ minted' \in Nat /\ Keyed'
             /\ Grows(Values(repo), Values(repo'), entry)
  <2>1. /\ repo' \in Seq(Records) /\ held' \in Seq(Records) /\ minted' \in Nat
        /\ Keyed'
        /\ Values(repo') = Append(Values(repo), entry)
    BY <1>1, <1>5, MintsKeeps
  <2> QED BY <2>1 DEF Grows
<1>6. CASE \E key \in Nat, i \in DOMAIN repo :
          /\ repo[i].key = key /\ Joins(repo[i].value, entry)
          /\ Rewrites(key, Merge(repo[i].value, entry, Now))
          /\ job' = [job EXCEPT !.wrote = @ \cup {key}] /\ minted' = minted
  <2>1. PICK key \in Nat, i \in DOMAIN repo :
          /\ repo[i].key = key /\ Joins(repo[i].value, entry)
          /\ Rewrites(key, Merge(repo[i].value, entry, Now))
          /\ job' = [job EXCEPT !.wrote = @ \cup {key}] /\ minted' = minted
    BY <1>6
  <2>2. job' \in Jobs /\ job'.on = job.on /\ job'.sound = job.sound /\ job'.after = job.after /\ job'.records = job.records
    BY <1>3, <2>1
  <2>3. /\ repo' \in Seq(Records) /\ held' \in Seq(Records) /\ minted' \in Nat /\ Keyed'
        /\ Grows(Values(repo), Values(repo'), entry)
    BY <1>4, <2>1
  <2> QED BY <2>2, <2>3
<1>7. CASE /\ minted' = minted + 1
           /\ repo' = Append(repo, [key |-> minted', value |-> entry])
           /\ held' = Append(held, [key |-> minted', value |-> entry])
           /\ job' = [job EXCEPT !.wrote = @ \cup {minted'}]
  <2>1. /\ repo' \in Seq(Records) /\ held' \in Seq(Records) /\ minted' \in Nat /\ Keyed'
        /\ Grows(Values(repo), Values(repo'), entry)
    BY <1>5, <1>7
  <2>2. minted' \in Nat
    BY <2>1
  <2>3. job' \in Jobs /\ job'.on = job.on /\ job'.sound = job.sound /\ job'.after = job.after /\ job'.records = job.records
    BY <1>3, <1>7, <2>2
  <2> QED BY <2>1, <2>3
<1> QED BY <1>6, <1>7 DEF DrainsAs

\* Drains keeps what was promised.
LEMMA DrainsKeeps ==
    ASSUME FilesInv, Drains
    PROVE  FilesInv'
<1> DEFINE entry == Head(parts)
<1>1. /\ parts # <<>> /\ parts' = Tail(parts) /\ fresh /\ fresh' = fresh
      /\ UNCHANGED <<file, readings, found>>
      /\ DrainsAs(entry)
  BY DrainsSo
<1>2. parts \in Seq(Owned) /\ repo \in Seq(Records) /\ (job.on \/ parts = <<>>) /\ fresh \in BOOLEAN
  BY DEF FilesInv, Typed, Promising
<1>3. entry \in Owned /\ Tail(parts) \in Seq(Owned)
  BY <1>1, <1>2
<1> HIDE DEF entry
<1>4. /\ repo' \in Seq(Records) /\ held' \in Seq(Records) /\ minted' \in Nat /\ Keyed'
      /\ Grows(Values(repo), Values(repo'), entry)
      /\ job' \in Jobs /\ job'.on = job.on /\ job'.sound = job.sound /\ job'.after = job.after /\ job'.records = job.records
  BY <1>1, <1>3, DrainsOver
<1>5. Typed'
  BY <1>1, <1>2, <1>3, <1>4 DEF Typed
<1>6. Filed'
  BY <1>1 DEF FilesInv, Filed
<1>7. ASSUME job.sound
      PROVE  IsPromise(Values(repo'), Tail(parts), job.after, job.records)
  <2>1. IsPromise(Values(repo), parts, job.after, job.records)
    BY <1>7 DEF FilesInv, Promising
  <2>2. Values(repo) \in Seq(Owned)
    BY <1>2, RecordValues
  <2>3. Grows(Values(repo), Values(repo'), Head(parts))
    BY <1>4 DEF entry
  <2> QED BY <1>1, <1>2, <2>1, <2>2, <2>3, PromiseGrows
<1>8. Promising'
  <2>1. job'.on
    BY <1>1, <1>2, <1>4
  <2>2. job'.sound => IsPromise(Values(repo'), parts', job'.after, job'.records)
    BY <1>1, <1>4, <1>7
  <2> QED BY <2>1, <2>2 DEF Promising
<1> QED BY <1>4, <1>5, <1>6, <1>8 DEF FilesInv

-----------------------------------------------------------------------------
(* The theorems.                                                           *)

\* The records there are at first, one by one under the first keys.
LEMMA NumberedFacts ==
    ASSUME NEW values \in Seq(Owned)
    PROVE  /\ Numbered(values) \in Seq(Records)
           /\ Injective(Numbered(values)) /\ KeysApart(Numbered(values)) /\ Under(Numbered(values), Len(values))
           /\ Len(values) \in Nat
<1> DEFINE n == Len(values)
           list == Numbered(values)
<1>1. DOMAIN values = 1 .. n /\ n \in Nat /\ \A i \in 1 .. n : values[i] \in Owned
  BY SeqParts
<1>2. list = [i \in 1 .. n |-> [key |-> i, value |-> values[i]]]
  BY <1>1 DEF Numbered
<1> HIDE DEF n, list
<1>3. \A i \in 1 .. n : [key |-> i, value |-> values[i]] \in Records
  BY <1>1 DEF Records
<1>4. list \in Seq(Records) /\ DOMAIN list = 1 .. n
  BY <1>1, <1>2, <1>3
<1>5. \A i \in DOMAIN list : list[i].key = i
  BY <1>2, <1>4
<1>6. Injective(list)
  BY <1>5 DEF Injective
<1>7. KeysApart(list)
  <2> SUFFICES ASSUME NEW i \in DOMAIN list, NEW j \in DOMAIN list, list[i].key = list[j].key
               PROVE  list[i] = list[j]
    BY DEF KeysApart, Range
  <2> QED BY <1>5
<1>8. Under(list, n)
  BY <1>4, <1>5 DEF Under, Range
<1> QED BY <1>1, <1>4, <1>6, <1>7, <1>8 DEF n, list

\* The invariant holds at first.
LEMMA FilesStart == Init => FilesInv
<1> SUFFICES ASSUME Init PROVE FilesInv
  OBVIOUS
<1>1. PICK some \in Goods : repo = Numbered(some.records) /\ minted = Len(some.records) /\ parts = some.parts
  BY DEF Init
<1>2. some.records \in Seq(Owned) /\ parts \in Seq(Owned)
  BY <1>1, GoodsAssumption
<1> DEFINE records == some.records
<1> HIDE DEF records
<1>3. records \in Seq(Owned) /\ repo = Numbered(records) /\ minted = Len(records)
  BY <1>1, <1>2 DEF records
<1>4. repo \in Seq(Records) /\ Injective(repo) /\ KeysApart(repo) /\ Under(repo, minted) /\ minted \in Nat
  BY <1>3, NumberedFacts
<1>5. held \in Seq(Records)
  <2>1. held = repo \/ held = <<>>
    BY DEF Init
  <2>2. <<>> \in Seq(Records)
    OBVIOUS
  <2>3. repo \in Seq(Records)
    BY <1>4
  <2> QED BY <2>1, <2>2, <2>3
<1>6. fresh = FALSE /\ file = {} /\ readings = {} /\ found = {} /\ job = [NoJob EXCEPT !.on = parts # <<>>]
  BY DEF Init
<1>7. job \in Jobs /\ job.sound = FALSE /\ (job.on <=> parts # <<>>)
  <2> DEFINE on == parts # <<>>
  <2>1. on \in BOOLEAN /\ job = [on |-> on, after |-> 0, records |-> 0, sound |-> FALSE, wrote |-> {}]
    BY <1>6 DEF NoJob
  <2> HIDE DEF on
  <2>2. job \in Jobs /\ job.sound = FALSE /\ job.on = on
    BY <2>1 DEF Jobs
  <2> QED BY <2>1, <2>2 DEF on
<1>8. Typed
  BY <1>2, <1>4, <1>5, <1>6, <1>7 DEF Typed
<1>9. Filed
  BY <1>6 DEF Filed
<1>10. Keyed
  BY <1>4, <1>6 DEF Keyed
<1>11. Promising
  BY <1>7 DEF Promising
<1> QED BY <1>8, <1>9, <1>10, <1>11 DEF FilesInv

\* And every step keeps it.
LEMMA FilesStep == FilesInv /\ [Next]_vars => FilesInv'
<1> SUFFICES ASSUME FilesInv, [Next]_vars PROVE FilesInv'
  OBVIOUS
<1>1. CASE Answers
  BY <1>1, AnswersKeeps
<1>2. CASE Reloads \/ Lists
  BY <1>2, ReloadsKeeps
<1>3. ASSUME NEW value \in Added, Adds(value) PROVE FilesInv'
  BY <1>3, AddsKeeps
<1>4. ASSUME NEW one \in Range(held), Removes(one.key) PROVE FilesInv'
  <2> DEFINE key == one.key
  <2>1. Removes(key)
    BY <1>4
  <2> HIDE DEF key
  <2> QED BY <2>1, RemovesKeeps
<1>5. ASSUME NEW at \in DOMAIN FORMATS, NEW scope, Exports(at, scope) PROVE FilesInv'
  BY <1>5, ExportsKeeps
<1>6. ASSUME NEW text \in Texts, Chooses(text) PROVE FilesInv'
  BY <1>6, ChoosesKeeps
<1>7. CASE Rereads
  BY <1>7, RereadsKeeps
<1>8. ASSUME NEW one \in readings, ReadsEnd(one) PROVE FilesInv'
  BY <1>8, ReadsEndKeeps
<1>9. CASE Starts
  BY <1>9, StartsKeeps
<1>10. CASE Drains
  BY <1>10, DrainsKeeps
<1>11. CASE Leaves
  BY <1>11, LeavesKeeps
<1>12. CASE Forgets
  BY <1>12, ForgetsKeeps
<1>13. CASE UNCHANGED vars
  <2>1. UNCHANGED <<repo, parts, minted, held, job, file, readings, found>> /\ fresh' \in {fresh, FALSE}
    BY <1>13 DEF vars, repoVars, viewVars, pageVars
  <2>2. Filed'
    BY <2>1 DEF FilesInv, Filed
  <2> QED BY <2>1, <2>2, StillKeeps DEF FilesInv
<1> QED BY <1>1, <1>2, <1>3, <1>4, <1>5, <1>6, <1>7, <1>8, <1>9, <1>10, <1>11, <1>12, <1>13 DEF Next

\* The inductive invariant. A page never shows records other than the repository
\* holds once it has answered (cards.ts, reload and run), keys are minted once and
\* never again (cards.ts, add; part.ts, drain), and a job that nothing has changed
\* the collection under still comes to what the page weighed.
THEOREM FilesInvariant == Spec => []FilesInv
<1>1. Init => FilesInv
  BY FilesStart
<1>2. FilesInv /\ [Next]_vars => FilesInv'
  BY FilesStep
<1> QED BY <1>1, <1>2, PTL DEF Spec

\* The invariant says the promise was kept.
LEMMA PromiseHeld == FilesInv => Promised
<1> SUFFICES ASSUME FilesInv, job.on, job.sound, parts = <<>>
             PROVE  CopiesOf(Values(repo)) = job.after /\ (Single(repo) => Len(repo) = job.records)
  BY DEF Promised
<1> DEFINE v == Values(repo)
<1>1. v \in Seq(Owned) /\ Len(v) = Len(repo) /\ DOMAIN v = DOMAIN repo /\ \A i \in DOMAIN repo : v[i] = repo[i].value
  BY RecordValues DEF FilesInv, Typed
<1>2. IsPromise(v, <<>>, job.after, job.records)
  BY DEF FilesInv, Promising
<1>3. Single(repo) => Distinct(v)
  BY <1>1 DEF Single, Distinct
<1> HIDE DEF v
<1>4. CopiesOf(v) = job.after /\ (Distinct(v) => Len(v) = job.records)
  BY <1>1, <1>2, PromiseKept
<1> QED BY <1>1, <1>3, <1>4 DEF v

\* What the import page says a file comes to, and how many records there will be,
\* is what the repository holds when the last part of it has landed, while nothing
\* else changed the collection (plan.ts, plan and weigh; part.ts, drain).
THEOREM AlwaysPromised == Spec => []Promised
BY FilesInvariant, PromiseHeld, PTL

\* A file read backwards has the digest it has read forwards, while each identity is one stack.
LEMMA RecognizedOf ==
    ASSUME NEW text, IsFile(text), NEW format, IsFormat(format)
    PROVE  LET rows == Read(text, format, TRUE).rows
               back == Read([text EXCEPT !.rows = Reverse(@)], format, TRUE).rows
           IN  Cardinality({Stack(s) : s \in Range(rows)}) = Len(Collapse(rows)) => Digest(Collapse(back)) = Digest(Collapse(rows))
<1> DEFINE rows == Read(text, format, TRUE).rows
           back == Read([text EXCEPT !.rows = Reverse(@)], format, TRUE).rows
<1>1. back = Read(Backwards(text), format, TRUE).rows
  BY DEF Backwards
<1>2. rows \in Seq(Owned) /\ Ceiled(rows) /\ back \in Seq(Owned) /\ IsAlike(back, rows)
  BY <1>1, ReadFacts
<1> HIDE DEF rows, back
<1>3. {Stack(s) : s \in Range(rows)} = Identities(rows)
  BY DEF Identities, Range
<1>4. Cardinality(Identities(rows)) = Len(Collapse(rows)) => Digest(Collapse(back)) = Digest(Collapse(rows))
  BY <1>2, CollapsedAlike
<1> QED BY <1>3, <1>4 DEF rows, back

\* The invariant says a file written may be recognized.
LEMMA RecognizedHeld == FilesInv => Recognized
<1> SUFFICES ASSUME FilesInv, NEW one \in file
             PROVE  LET Marked(text) == LET rows == Read(text, FORMATS[one.format], TRUE).rows
                               stacks == Collapse(rows)
                           IN  [digest |-> Digest(stacks), single |-> Cardinality({Stack(s) : s \in Range(rows)}) = Len(stacks)]
                        forth == Marked(one.text)
                    IN  forth.single => Marked([one.text EXCEPT !.rows = Reverse(@)]).digest = forth.digest
  BY DEF Recognized
<1> DEFINE text == one.text
           format == FORMATS[one.format]
<1>1. IsFile(text) /\ IsFormat(format)
  BY FormatsTyped DEF FilesInv, Filed
<1>2. LET rows == Read(text, format, TRUE).rows
          back == Read([text EXCEPT !.rows = Reverse(@)], format, TRUE).rows
      IN  Cardinality({Stack(s) : s \in Range(rows)}) = Len(Collapse(rows)) => Digest(Collapse(back)) = Digest(Collapse(rows))
  <2> HIDE DEF text, format
  <2> QED BY <1>1, RecognizedOf
<1> QED BY <1>2

\* The digest of an export read backwards is its own while no identity passes a
\* ceiling: a receipt finds its file whatever order the rows come in (receipt.ts,
\* digest; cards.ts, collapse).
THEOREM AlwaysRecognized == Spec => []Recognized
BY FilesInvariant, RecognizedHeld, PTL

-----------------------------------------------------------------------------
(* No file is short.                                                       *)

\* Every file downloaded is of all there was.
Shipped ==
    \A one \in file :
       /\ one.format \in DOMAIN FORMATS
       /\ AlikeShown(one.of, one.truth)
       /\ \E english \in BOOLEAN : one.text = Rows(one.of, FORMATS[one.format], Places, english)

\* An export waits for all there is, so it is of all there is.
LEMMA ExportsShips ==
    ASSUME FilesInv, NEW at \in DOMAIN FORMATS, NEW scope, Exports(at, scope)
    PROVE  Shipped'
<1> DEFINE picked == Within(Stacks, scope)
           said == Rows(picked, FORMATS[at], Places, FALSE)
           inEnglish == Rows(picked, FORMATS[at], Places, TRUE)
           truth == Within(Landing(repo, parts), scope)
<1>1. PICK text : text \in {said, inEnglish} /\ file' = {[format |-> at, of |-> picked, truth |-> truth, text |-> text]}
  BY DEF Exports
<1>2. Ready
  BY DEF Exports
<1>3. Stacks = Landing(held, parts)
  BY <1>2 DEF Ready, Stacks
<1>4. held \in Seq(Records) /\ repo \in Seq(Records) /\ parts \in Seq(Owned)
  BY DEF FilesInv, Typed
<1>5. Injective(repo) /\ Injective(held) /\ Range(held) = Range(repo)
  BY <1>2 DEF FilesInv, Keyed, Ready
<1>6. IsPaired(held, repo)
  BY <1>4, <1>5 DEF IsPaired
<1>7. AlikeShown(Landing(held, parts), Landing(repo, parts))
  BY <1>4, <1>6, LandingAlike
<1>8. AlikeShown(picked, truth)
  BY <1>3, <1>7, WithinAlike
<1>9. \E english \in BOOLEAN : text = Rows(picked, FORMATS[at], Places, english)
  BY <1>1
<1> HIDE DEF picked, said, inEnglish, truth
<1>10. ASSUME NEW one \in file'
       PROVE  /\ one.format = at /\ one.of = picked /\ one.truth = truth /\ one.text = text
  BY <1>1
<1>11. ASSUME NEW one \in file'
       PROVE  /\ one.format \in DOMAIN FORMATS /\ AlikeShown(one.of, one.truth)
              /\ \E english \in BOOLEAN : one.text = Rows(one.of, FORMATS[one.format], Places, english)
  <2>1. one.format = at /\ one.of = picked /\ one.truth = truth /\ one.text = text
    BY <1>10
  <2> QED BY <1>8, <1>9, <2>1
<1> QED BY <1>11 DEF Shipped

\* A file stays what it was, and only an export writes one.
LEMMA ShippedStep == FilesInv /\ Shipped /\ [Next]_vars => Shipped'
<1> SUFFICES ASSUME FilesInv, Shipped, [Next]_vars PROVE Shipped'
  OBVIOUS
<1>1. CASE \E at \in DOMAIN FORMATS, scope \in {ALL, UNFILED} \cup DOMAIN Places : Exports(at, scope)
  BY <1>1, ExportsShips
<1>2. CASE file' = file
  BY <1>2 DEF Shipped
<1>3. file' = file \/ \E at \in DOMAIN FORMATS, scope \in {ALL, UNFILED} \cup DOMAIN Places : Exports(at, scope)
  BY DEF Next, vars, Answers, Reloads, Lists, Adds, Removes, Chooses, Rereads, ReadsEnd, Starts, Drains, Leaves, Forgets
<1> QED BY <1>1, <1>2, <1>3

\* So no file is short.
LEMMA ShippedCounts == Shipped => NeverShort
<1>0. NeverShort <=> \A one \in file : CountsAll(one.format, one.text, one.truth)
  BY DEF NeverShort, CountsAll
<1> SUFFICES ASSUME Shipped, NEW one \in file PROVE CountsAll(one.format, one.text, one.truth)
  BY <1>0
<1>1. one.format \in DOMAIN FORMATS /\ AlikeShown(one.of, one.truth)
  BY DEF Shipped
<1>2. PICK english \in BOOLEAN : one.text = Rows(one.of, FORMATS[one.format], Places, english)
  BY DEF Shipped
<1>3. one.of \in Seq(Kept)
  BY <1>1 DEF AlikeShown
<1> QED BY <1>1, <1>2, <1>3, FileTally

\* A file has every copy of every printing and finish the repository holds, those
\* an import has still to land among them, whatever collection, place and format
\* it is of (Export.tsx, ready; cards.ts, landing; rows.ts, split and sorted).
THEOREM AlwaysNeverShort == Spec => []NeverShort
<1>1. Init => Shipped
  BY DEF Init, Shipped
<1>2. FilesInv /\ Shipped /\ [Next]_vars => Shipped'
  BY ShippedStep
<1>3. Shipped => NeverShort
  BY ShippedCounts
<1> QED BY <1>1, <1>2, <1>3, FilesInvariant, PTL DEF Spec

=============================================================================
