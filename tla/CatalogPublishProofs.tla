------------------------ MODULE CatalogPublishProofs ------------------------
(***************************************************************************)
(* Publishing implements the shelf, for any number of builds and files and *)
(* any waits: proved from an inductive invariant that follows one publish  *)
(* from the export to the put of the manifest.                             *)
(***************************************************************************)
EXTENDS CatalogPublish, TLAPS

-----------------------------------------------------------------------------
(* The build in hand: what is exported is what is named, to the end of the *)
(* upload.                                                                 *)

Named == {"sweeping", "pruning", "uploading", "closing", "replacing"}
InHand == /\ at \in Named \cup {"naming"} => cache # 0
          /\ at \in Named => named = cache
          /\ manifest = 0 => told = {}

Shaped == TypeOK /\ InHand

LEMMA NamesAreFiles == \A b \in Builds \cup {0} : NamesOf(b) \in SUBSET Files
BY PairAssumption, ArtworkAssumption DEF NamesOf, PairOf, Builds

LEMMA FillsFiles ==
    ASSUME TypeOK, NEW some \in SUBSET Files, NEW how \in {"absent", "torn", "whole"}
    PROVE  Fill(how, some) \in [Files -> {"absent", "torn", "whole"}]
BY DEF Fill, TypeOK

LEMMA Ends ==
    ASSUME TypeOK, EndsBadly \/ EndsOk
    PROVE  at' \in {"asking", "asleep"} /\ wait' \in Nat /\ boot' \in BOOLEAN
<1>1. wait * 2 \in Nat /\ Clamp(wait * 2, RETRY, RETRY_MAX) \in Nat
  BY WaitsAssumption DEF Clamp, TypeOK
<1>2. CASE EndsBadly
  <2>1. at' \in {"asking", "asleep"} /\ wait' \in Nat
    BY <1>1, <1>2 DEF EndsBadly
  <2> QED
    BY <2>1, <1>2 DEF EndsBadly
<1>3. CASE EndsOk
  <2>1. at' \in {"asking", "asleep"} /\ wait' \in Nat
    BY <1>3, WaitsAssumption DEF EndsOk
  <2> QED
    BY <2>1, <1>3 DEF EndsOk
<1> QED
  BY <1>2, <1>3

LEMMA ShapedStep == Shaped /\ [Next]_vars => Shaped'
<1> SUFFICES ASSUME TypeOK, InHand, [Next]_vars PROVE TypeOK' /\ InHand'
  BY DEF Shaped
<1> USE MaxBuildAssumption DEF TypeOK, InHand, Named, Steps, serverVars, dirVars, bucketVars
<1>0. Writes \in SUBSET Files /\ Keeps \in SUBSET Files /\ Needs \in SUBSET Files
  BY NamesAreFiles DEF Writes, Keeps, Needs
<1>1. CASE Starts
  BY <1>1 DEF Starts
<1>2. CASE Wakes
  BY <1>2 DEF Wakes
<1>3. CASE Syncs
  BY <1>3 DEF Syncs, Builds
<1>4. CASE TopsUp
  BY <1>4 DEF TopsUp, Builds
<1>5. CASE Fails
  BY <1>5, Ends DEF Fails
<1>6. CASE Dies
  BY <1>6 DEF Dies
<1>7. CASE NothingSynced
  BY <1>7, Ends DEF NothingSynced
<1>8. CASE Exports
  BY <1>8, FillsFiles, <1>0 DEF Exports
<1>9. CASE ExportBreaks
  <2>1. PICK some \in SUBSET Writes : \E f \in Writes \ some :
           dir' = [Fill("whole", some) EXCEPT ![f] = "torn"]
    BY <1>9 DEF ExportBreaks
  <2>2. Fill("whole", some) \in [Files -> {"absent", "torn", "whole"}]
    BY <1>0, FillsFiles
  <2>3. dir' \in [Files -> {"absent", "torn", "whole"}]
    BY <2>1, <2>2
  <2> QED
    BY <1>9, <2>3, Ends DEF ExportBreaks
<1>10. CASE Names
  BY <1>10 DEF Names
<1>11. CASE NamingBreaks
  BY <1>11, Ends DEF NamingBreaks
<1>12. CASE Sweeps
  BY <1>12, FillsFiles DEF Sweeps
<1>13. CASE Prunes
  BY <1>13 DEF Prunes
<1>14. CASE PruneBreaks
  BY <1>14, Ends DEF PruneBreaks
<1>15. CASE Uploads
  BY <1>15, <1>0 DEF Uploads
<1>16. CASE UploadBreaks
  BY <1>16, Ends, <1>0 DEF UploadBreaks
<1>17. CASE Closes
  BY <1>17, Ends DEF Closes
<1>18. CASE Rewrites
  BY <1>18 DEF Rewrites
<1>19. CASE Replaces
  BY <1>19, Ends DEF Replaces, Replaced, Builds
<1>20. CASE ReplaceBreaks
  BY <1>20, Ends DEF ReplaceBreaks, Replaced, Builds
<1>21. CASE DayPasses
  BY <1>21 DEF DayPasses, Builds
<1>22. CASE UNCHANGED vars
  BY <1>22 DEF vars
<1> QED
  BY <1>1, <1>2, <1>3, <1>4, <1>5, <1>6, <1>7, <1>8, <1>9, <1>10, <1>11, <1>12, <1>13, <1>14, <1>15, <1>16, <1>17, <1>18, <1>19, <1>20, <1>21, <1>22 DEF Next

LEMMA InitShaped == Init => Shaped
<1> SUFFICES ASSUME Init PROVE TypeOK /\ InHand
  BY DEF Shaped
<1>1. TypeOK
  BY DEF Init, TypeOK, Steps
<1>2. InHand
  BY DEF Init, InHand, Named
<1> QED
  BY <1>1, <1>2

\* Every variable of the publishing process, its directory and its bucket keeps
\* its type, whatever fails and whenever it dies.
THEOREM TypeCorrect == Spec => []TypeOK
<1>1. Shaped => TypeOK
  BY DEF Shaped
<1> QED
  BY <1>1, InitShaped, ShapedStep, PTL DEF Spec

-----------------------------------------------------------------------------
(* The promise, step by step: nothing promised is missing, a settled       *)
(* manifest is the only one still read, and what is about to be named is   *)
(* there.                                                                  *)

Promising ==
    /\ \A b \in told : NamesOf(b) \subseteq objects
    /\ manifest # 0 => manifest \in told
    /\ settled => told \subseteq {manifest}
    /\ at \in {"closing", "replacing"} => NamesOf(named) \subseteq objects

\* The shelf names the files of a build as the process does.
LEMMA SameNames == Shelf!Builds = Builds /\ \A b : Shelf!NamesOf(b) = NamesOf(b)
BY DEF Shelf!Builds, Builds, Shelf!NamesOf, NamesOf, Shelf!PairOf, PairOf

LEMMA PromisedNames ==
    \A f : f \in Shelf!Promised <=> \E b \in told : f \in NamesOf(b)
BY SameNames DEF Shelf!Promised

\* What prune takes is promised to nobody.
LEMMA GoingIsFree == Promising => Going \cap Shelf!Promised = {}
<1> SUFFICES ASSUME Promising, NEW f \in Going, f \in Shelf!Promised PROVE FALSE
  OBVIOUS
<1>1. PICK b \in told : f \in NamesOf(b)
  BY PromisedNames
<1>2. settled /\ f \notin NamesOf(manifest)
  BY DEF Going
<1>3. told \subseteq {manifest}
  BY <1>2 DEF Promising
<1> QED
  BY <1>1, <1>2, <1>3

\* An action of the process that leaves the bucket's files and manifest alone.
LEMMA Aside ==
    ASSUME Promising, UNCHANGED bucketVars, at' \notin {"closing", "replacing"}
    PROVE  Promising'
BY DEF Promising, bucketVars

\* The cache only moves on, and what is published is never ahead of it.
Onward == manifest <= cache

LEMMA OnwardStep ==
    ASSUME Shaped, Onward, [Next]_vars PROVE Onward'
<1> USE DEF Onward, serverVars, dirVars, bucketVars
<1>0. TypeOK /\ InHand /\ cache \in Nat /\ manifest \in Nat
  BY MaxBuildAssumption DEF Shaped, TypeOK, Builds
<1>1. CASE Starts
  BY <1>1 DEF Starts
<1>2. CASE Wakes
  BY <1>2 DEF Wakes
<1>3. CASE Syncs
  BY <1>3, <1>0, MaxBuildAssumption DEF Syncs, Builds
<1>4. CASE TopsUp
  BY <1>4, <1>0, MaxBuildAssumption DEF TopsUp, Builds
<1>5. CASE Fails
  BY <1>5 DEF Fails
<1>6. CASE Dies
  BY <1>6 DEF Dies
<1>7. CASE NothingSynced
  BY <1>7 DEF NothingSynced
<1>8. CASE Exports
  BY <1>8 DEF Exports
<1>9. CASE ExportBreaks
  BY <1>9 DEF ExportBreaks
<1>10. CASE Names
  BY <1>10 DEF Names
<1>11. CASE NamingBreaks
  BY <1>11 DEF NamingBreaks
<1>12. CASE Sweeps
  BY <1>12 DEF Sweeps
<1>13. CASE Prunes
  BY <1>13 DEF Prunes
<1>14. CASE PruneBreaks
  BY <1>14 DEF PruneBreaks
<1>15. CASE Uploads
  BY <1>15 DEF Uploads
<1>16. CASE UploadBreaks
  BY <1>16 DEF UploadBreaks
<1>17. CASE Closes
  BY <1>17 DEF Closes
<1>18. CASE Rewrites
  BY <1>18 DEF Rewrites
<1>19. CASE Replaces
  BY <1>19, <1>0 DEF Replaces, Replaced, InHand, Named
<1>20. CASE ReplaceBreaks
  BY <1>20, <1>0 DEF ReplaceBreaks, Replaced, InHand, Named
<1>21. CASE DayPasses
  BY <1>21 DEF DayPasses
<1>22. CASE UNCHANGED vars
  BY <1>22 DEF vars
<1> QED
  BY <1>1, <1>2, <1>3, <1>4, <1>5, <1>6, <1>7, <1>8, <1>9, <1>10, <1>11, <1>12, <1>13, <1>14, <1>15, <1>16, <1>17, <1>18, <1>19, <1>20, <1>21, <1>22 DEF Next

LEMMA PromisingStep ==
    ASSUME Shaped, Onward, Promising, [Next]_vars
    PROVE  Promising' /\ [Shelf!Next]_(Shelf!shelfVars)
<1> USE DEF Shelf!shelfVars
<1>0. TypeOK /\ InHand
  BY DEF Shaped
<1>1. CASE Starts
  <2>1. UNCHANGED bucketVars /\ at' \notin {"closing", "replacing"}
    BY <1>1 DEF Starts
  <2> QED
    BY <2>1, Aside DEF bucketVars
<1>2. CASE Wakes
  <2>1. UNCHANGED bucketVars /\ at' \notin {"closing", "replacing"}
    BY <1>2 DEF Wakes
  <2> QED
    BY <2>1, Aside DEF bucketVars
<1>3. CASE Syncs
  <2>1. UNCHANGED bucketVars /\ at' \notin {"closing", "replacing"}
    BY <1>3 DEF Syncs
  <2> QED
    BY <2>1, Aside DEF bucketVars
<1>4. CASE TopsUp
  <2>1. UNCHANGED bucketVars /\ at' \notin {"closing", "replacing"}
    BY <1>4 DEF TopsUp
  <2> QED
    BY <2>1, Aside DEF bucketVars
<1>5. CASE Fails
  <2>1. UNCHANGED bucketVars /\ (EndsBadly \/ at' = "down")
    BY <1>5 DEF Fails
  <2>2. at' \notin {"closing", "replacing"}
    BY <2>1, <1>0, Ends
  <2> QED
    BY <2>1, <2>2, Aside DEF bucketVars
<1>6. CASE Dies
  <2>1. UNCHANGED bucketVars /\ at' \notin {"closing", "replacing"}
    BY <1>6 DEF Dies
  <2> QED
    BY <2>1, Aside DEF bucketVars
<1>7. CASE NothingSynced
  <2>1. UNCHANGED bucketVars /\ (EndsBadly \/ at' = "down")
    BY <1>7 DEF NothingSynced
  <2>2. at' \notin {"closing", "replacing"}
    BY <2>1, <1>0, Ends
  <2> QED
    BY <2>1, <2>2, Aside DEF bucketVars
<1>8. CASE Exports
  <2>1. UNCHANGED bucketVars /\ at' \notin {"closing", "replacing"}
    BY <1>8 DEF Exports
  <2> QED
    BY <2>1, Aside DEF bucketVars
<1>9. CASE ExportBreaks
  <2>1. UNCHANGED bucketVars /\ (EndsBadly \/ at' = "down")
    BY <1>9 DEF ExportBreaks
  <2>2. at' \notin {"closing", "replacing"}
    BY <2>1, <1>0, Ends
  <2> QED
    BY <2>1, <2>2, Aside DEF bucketVars
<1>10. CASE Names
  <2>1. UNCHANGED bucketVars /\ at' \notin {"closing", "replacing"}
    BY <1>10 DEF Names
  <2> QED
    BY <2>1, Aside DEF bucketVars
<1>11. CASE NamingBreaks
  <2>1. UNCHANGED bucketVars /\ (EndsBadly \/ at' = "down")
    BY <1>11 DEF NamingBreaks
  <2>2. at' \notin {"closing", "replacing"}
    BY <2>1, <1>0, Ends
  <2> QED
    BY <2>1, <2>2, Aside DEF bucketVars
<1>12. CASE Sweeps
  <2>1. UNCHANGED bucketVars /\ at' \notin {"closing", "replacing"}
    BY <1>12 DEF Sweeps
  <2> QED
    BY <2>1, Aside DEF bucketVars
<1>13. CASE Prunes
  <2>1. PICK some \in SUBSET Going : objects' = objects \ some
    BY <1>13 DEF Prunes
  <2>2. UNCHANGED <<manifest, settled, told>>
    BY <1>13 DEF Prunes
  <2>3. at' \notin {"closing", "replacing"}
    BY <1>13, <1>0, Ends DEF Prunes
  <2>4. some \cap Shelf!Promised = {} /\ some \in SUBSET Files
    BY <2>1, <1>0, GoingIsFree DEF Going, TypeOK
  <2>5. Shelf!Take(some)
    BY <2>1, <2>2, <2>4 DEF Shelf!Take
  <2>6. \A b \in told : NamesOf(b) \subseteq objects'
    BY <2>1, <2>4, PromisedNames DEF Promising
  <2> QED
    BY <2>2, <2>3, <2>4, <2>5, <2>6 DEF Promising, Shelf!Next
<1>14. CASE PruneBreaks
  <2>1. PICK some \in SUBSET Going : objects' = objects \ some
    BY <1>14 DEF PruneBreaks
  <2>2. UNCHANGED <<manifest, settled, told>>
    BY <1>14 DEF PruneBreaks
  <2>3. at' \notin {"closing", "replacing"}
    BY <1>14, <1>0, Ends DEF PruneBreaks
  <2>4. some \cap Shelf!Promised = {} /\ some \in SUBSET Files
    BY <2>1, <1>0, GoingIsFree DEF Going, TypeOK
  <2>5. Shelf!Take(some)
    BY <2>1, <2>2, <2>4 DEF Shelf!Take
  <2>6. \A b \in told : NamesOf(b) \subseteq objects'
    BY <2>1, <2>4, PromisedNames DEF Promising
  <2> QED
    BY <2>2, <2>3, <2>4, <2>5, <2>6 DEF Promising, Shelf!Next
<1>15. CASE Uploads
  <2>1. PICK some \in SUBSET Needs : objects' = objects \cup some
    BY <1>15 DEF Uploads
  <2>2. UNCHANGED <<manifest, settled, told, named>>
    BY <1>15 DEF Uploads, dirVars
  <2>3. some \in SUBSET Files
    BY <2>1, <1>0, NamesAreFiles DEF Needs, TypeOK
  <2>4. Shelf!Add(some)
    BY <2>1, <2>2 DEF Shelf!Add
  <2>5. NamesOf(named) \subseteq objects'
    BY <1>15 DEF Uploads, Needs
  <2> QED
    BY <2>1, <2>2, <2>3, <2>4, <2>5 DEF Promising, Shelf!Next
<1>16. CASE UploadBreaks
  <2>1. PICK some \in SUBSET Needs : objects' = objects \cup some
    BY <1>16 DEF UploadBreaks
  <2>2. UNCHANGED <<manifest, settled, told, named>>
    BY <1>16 DEF UploadBreaks, dirVars
  <2>3. some \in SUBSET Files
    BY <2>1, <1>0, NamesAreFiles DEF Needs, TypeOK
  <2>4. Shelf!Add(some)
    BY <2>1, <2>2 DEF Shelf!Add
  <2>5. at' \notin {"closing", "replacing"}
    BY <1>16, <1>0, Ends DEF UploadBreaks
  <2> QED
    BY <2>1, <2>2, <2>3, <2>4, <2>5 DEF Promising, Shelf!Next
<1>17. CASE Closes
  <2>1. UNCHANGED <<manifest, objects, settled, told, named>> /\ at = "closing"
    BY <1>17 DEF Closes, bucketVars, dirVars
  <2> QED
    BY <2>1 DEF Promising
<1>18. CASE Rewrites
  <2>1. UNCHANGED <<manifest, objects, settled, told, named>> /\ at = "closing"
    BY <1>18 DEF Rewrites, bucketVars, dirVars
  <2> QED
    BY <2>1 DEF Promising
<1>19. CASE Replaces
  <2>1. at = "replacing" /\ Replaced
    BY <1>19 DEF Replaces
  <2>2. at' \notin {"closing", "replacing"}
    BY <1>19, <1>0, Ends DEF Replaces
  <2>3. named \in Builds
    BY <2>1, <1>0 DEF TypeOK, InHand, Named
  <2>4. manifest <= named
    BY <2>1, <1>0 DEF InHand, Named, Onward
  <2>5. Shelf!Name(named)
    BY <2>1, <2>4, SameNames DEF Replaced, Promising, Shelf!Name
  <2> QED
    BY <2>1, <2>2, <2>3, <2>5, SameNames DEF Replaced, Promising, Shelf!Next
<1>20. CASE ReplaceBreaks
  <2>1. at = "replacing" /\ Replaced
    BY <1>20 DEF ReplaceBreaks
  <2>2. at' \notin {"closing", "replacing"}
    BY <1>20, <1>0, Ends DEF ReplaceBreaks
  <2>3. named \in Builds
    BY <2>1, <1>0 DEF TypeOK, InHand, Named
  <2>4. manifest <= named
    BY <2>1, <1>0 DEF InHand, Named, Onward
  <2>5. Shelf!Name(named)
    BY <2>1, <2>4, SameNames DEF Replaced, Promising, Shelf!Name
  <2> QED
    BY <2>1, <2>2, <2>3, <2>5, SameNames DEF Replaced, Promising, Shelf!Next
<1>21. CASE DayPasses
  <2>1. Shelf!Settle
    BY <1>21 DEF DayPasses, Shelf!Settle
  <2>2. UNCHANGED <<manifest, objects, at, named>> /\ manifest \in told /\ told' = {manifest}
    BY <1>21 DEF DayPasses, Promising, serverVars, dirVars
  <2> QED
    BY <2>1, <2>2 DEF Promising, Shelf!Next
<1>22. CASE UNCHANGED vars
  BY <1>22 DEF vars, Promising, serverVars, dirVars, bucketVars
<1> QED
  BY <1>1, <1>2, <1>3, <1>4, <1>5, <1>6, <1>7, <1>8, <1>9, <1>10, <1>11, <1>12, <1>13, <1>14, <1>15, <1>16, <1>17, <1>18, <1>19, <1>20, <1>21, <1>22 DEF Next

\* Publishing keeps the shelf's promise for every number of builds and files:
\* whatever step fails or is cut short by a death, no file goes while a client may
\* still be fetching it, and no manifest names a file that is not there.
THEOREM ImplementsShelf == Spec => KeepsShelf
<1>1. Init => Onward /\ Promising
  BY DEF Init, Onward, Promising
<1>2. Init => Shelf!Init
  BY DEF Init, Shelf!Init
<1>3. Shaped /\ Onward /\ Promising /\ [Next]_vars
         => Promising' /\ [Shelf!Next]_(Shelf!shelfVars)
  BY PromisingStep
<1>4. Shaped /\ Onward /\ [Next]_vars => Onward'
  BY OnwardStep
<1> QED
  BY <1>1, <1>2, <1>3, <1>4, InitShaped, ShapedStep, PTL DEF Spec, KeepsShelf, Shelf!Spec

-----------------------------------------------------------------------------
(* The two invariants of the loop.                                         *)

Exported == at \in {"naming", "sweeping"} => NamesOf(cache) \subseteq keep
Whole == at \in {"naming", "sweeping", "pruning", "uploading"} =>
             \A f \in NamesOf(cache) : dir[f] = "whole"

LEMMA WholeStep ==
    ASSUME Shaped, Exported, Whole, [Next]_vars PROVE Exported' /\ Whole'
<1> USE DEF Exported, Whole, serverVars, dirVars, bucketVars
<1>0. TypeOK /\ InHand /\ NamesOf(cache) \in SUBSET Files
  BY NamesAreFiles DEF Shaped, TypeOK
<1>1. CASE Starts
  BY <1>1 DEF Starts
<1>2. CASE Wakes
  BY <1>2 DEF Wakes
<1>3. CASE Syncs
  BY <1>3 DEF Syncs
<1>4. CASE TopsUp
  BY <1>4 DEF TopsUp
<1>5. CASE Fails
  BY <1>5, <1>0, Ends DEF Fails
<1>6. CASE Dies
  BY <1>6 DEF Dies
<1>7. CASE NothingSynced
  BY <1>7, <1>0, Ends DEF NothingSynced
<1>8. CASE Exports
  <2>1. keep' = Keeps /\ dir' = Fill("whole", NamesOf(cache)) /\ cache' = cache
    BY <1>8 DEF Exports, Writes
  <2> QED
    BY <2>1, <1>0 DEF Keeps, Fill
<1>9. CASE ExportBreaks
  BY <1>9, <1>0, Ends DEF ExportBreaks
<1>10. CASE Names
  BY <1>10 DEF Names
<1>11. CASE NamingBreaks
  BY <1>11, <1>0, Ends DEF NamingBreaks
<1>12. CASE Sweeps
  <2>1. PICK some \in SUBSET (Files \ keep) : dir' = Fill("absent", some)
    BY <1>12 DEF Sweeps
  <2>2. at = "sweeping" /\ UNCHANGED <<cache, keep>>
    BY <1>12 DEF Sweeps
  <2> QED
    BY <2>1, <2>2, <1>0 DEF Fill
<1>13. CASE Prunes
  BY <1>13 DEF Prunes
<1>14. CASE PruneBreaks
  BY <1>14, <1>0, Ends DEF PruneBreaks
<1>15. CASE Uploads
  BY <1>15 DEF Uploads
<1>16. CASE UploadBreaks
  BY <1>16, <1>0, Ends DEF UploadBreaks
<1>17. CASE Closes
  BY <1>17, <1>0, Ends DEF Closes
<1>18. CASE Rewrites
  BY <1>18 DEF Rewrites
<1>19. CASE Replaces
  BY <1>19, <1>0, Ends DEF Replaces
<1>20. CASE ReplaceBreaks
  BY <1>20, <1>0, Ends DEF ReplaceBreaks
<1>21. CASE DayPasses
  BY <1>21 DEF DayPasses
<1>22. CASE UNCHANGED vars
  BY <1>22 DEF vars
<1> QED
  BY <1>1, <1>2, <1>3, <1>4, <1>5, <1>6, <1>7, <1>8, <1>9, <1>10, <1>11, <1>12, <1>13, <1>14, <1>15, <1>16, <1>17, <1>18, <1>19, <1>20, <1>21, <1>22 DEF Next

LEMMA SleepsStep ==
    ASSUME Shaped, SleepsPublished, [Next]_vars PROVE SleepsPublished'
<1> USE DEF SleepsPublished, serverVars, dirVars, bucketVars
<1>0. TypeOK /\ InHand
  BY DEF Shaped
<1>a. ASSUME EndsBadly PROVE ~(at' = "asleep" /\ wait' > RETRY_MAX)
  <2>1. wait * 2 \in Nat /\ Clamp(wait * 2, RETRY, RETRY_MAX) <= RETRY_MAX
    BY <1>0, WaitsAssumption DEF Clamp, TypeOK
  <2>2. Clamp(wait * 2, RETRY, RETRY_MAX) \in Nat
    BY <2>1, WaitsAssumption DEF Clamp
  <2> QED
    BY <1>a, <2>1, <2>2, WaitsAssumption DEF EndsBadly
<1>1. CASE Starts
  BY <1>1 DEF Starts
<1>2. CASE Wakes
  BY <1>2 DEF Wakes
<1>3. CASE Syncs
  BY <1>3 DEF Syncs
<1>4. CASE TopsUp
  BY <1>4 DEF TopsUp
<1>5. CASE Fails
  BY <1>5, <1>a DEF Fails
<1>6. CASE Dies
  BY <1>6 DEF Dies
<1>7. CASE NothingSynced
  BY <1>7, <1>a DEF NothingSynced
<1>8. CASE Exports
  BY <1>8 DEF Exports
<1>9. CASE ExportBreaks
  BY <1>9, <1>a DEF ExportBreaks
<1>10. CASE Names
  BY <1>10 DEF Names
<1>11. CASE NamingBreaks
  BY <1>11, <1>a DEF NamingBreaks
<1>12. CASE Sweeps
  BY <1>12 DEF Sweeps
<1>13. CASE Prunes
  BY <1>13 DEF Prunes
<1>14. CASE PruneBreaks
  BY <1>14, <1>a DEF PruneBreaks
<1>15. CASE Uploads
  BY <1>15 DEF Uploads
<1>16. CASE UploadBreaks
  BY <1>16, <1>a DEF UploadBreaks
<1>17. CASE Closes
  BY <1>17, <1>0 DEF Closes, InHand, Named
<1>18. CASE Rewrites
  BY <1>18 DEF Rewrites
<1>19. CASE Replaces
  BY <1>19, <1>0 DEF Replaces, Replaced, InHand, Named
<1>20. CASE ReplaceBreaks
  BY <1>20, <1>a DEF ReplaceBreaks
<1>21. CASE DayPasses
  BY <1>21 DEF DayPasses
<1>22. CASE UNCHANGED vars
  BY <1>22 DEF vars
<1> QED
  BY <1>1, <1>2, <1>3, <1>4, <1>5, <1>6, <1>7, <1>8, <1>9, <1>10, <1>11, <1>12, <1>13, <1>14, <1>15, <1>16, <1>17, <1>18, <1>19, <1>20, <1>21, <1>22 DEF Next

\* What is sent to the bucket, under a name that lasts for ever, is never a file
\* that an export left cut short.
THEOREM AlwaysSendsWhole == Spec => []SendsWhole
<1>1. Init => Shaped /\ Exported /\ Whole
  <2> SUFFICES ASSUME Init PROVE Exported /\ Whole
    BY InitShaped
  <2> QED
    BY DEF Init, Exported, Whole
<1>2. Shaped /\ Exported /\ Whole /\ [Next]_vars => Exported' /\ Whole'
  BY WholeStep
<1>3. Shaped /\ Whole => SendsWhole
  BY DEF Shaped, InHand, Named, Whole, SendsWhole
<1> QED
  BY <1>1, <1>2, <1>3, ShapedStep, PTL DEF Spec

\* Whatever failed on the way, the process sleeps for longer than RETRY_MAX only
\* when what its cache holds is what the bucket names.
THEOREM AlwaysSleepsPublished == Spec => []SleepsPublished
<1>1. Init => SleepsPublished
  BY DEF Init, SleepsPublished
<1>2. Shaped /\ SleepsPublished /\ [Next]_vars => SleepsPublished'
  BY SleepsStep
<1> QED
  BY <1>1, <1>2, InitShaped, ShapedStep, PTL DEF Spec
=============================================================================
