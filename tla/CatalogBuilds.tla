---------------------------- MODULE CatalogBuilds ----------------------------
(***************************************************************************)
(* What the server exports.  A build of the catalog is a pair of files,    *)
(* cards and printings, and an artwork index where there is one; a file is *)
(* named after its content, so two builds that agree on a file share it    *)
(* (crates/core/src/catalog.rs, Artifact).  Builds are numbered in the     *)
(* order the cache can produce them, and 0 is no build at all.             *)
(***************************************************************************)
EXTENDS Naturals

CONSTANTS MaxBuild,   \* bound: how often a sync or a top up changes the export
          Files, None,
          Cards, Prints, Artwork    \* the file of a build, None for no artwork

Builds == 1 .. MaxBuild

ASSUME MaxBuildAssumption == MaxBuild \in Nat
ASSUME NoneIsNoFile == None \notin Files
ASSUME PairAssumption == Cards \in [Builds -> Files] /\ Prints \in [Builds -> Files]
ASSUME ArtworkAssumption == Artwork \in [Builds -> Files \cup {None}]

\* The files a manifest names, or none where there is no manifest.
PairOf(b) == IF b = 0 THEN {} ELSE {Cards[b], Prints[b]}
NamesOf(b) == IF b = 0 THEN {} ELSE PairOf(b) \cup ({Artwork[b]} \ {None})
=============================================================================
