---------------------------- MODULE CatalogShelf ----------------------------
(***************************************************************************)
(* What publishing promises a client: whatever build the manifest named    *)
(* when the client read it, the files of that build are there for as long  *)
(* as the client may still be fetching them.  "R2 is object storage: a new *)
(* pair uploads without removing the old, which is what lets a client      *)
(* mid-load finish against the pair its manifest named"                    *)
(* (docs/architecture.md).                                                 *)
(***************************************************************************)
EXTENDS CatalogBuilds

VARIABLES manifest,   \* the build the published manifest names, 0 before the first
          objects,    \* the files published
          told        \* the builds a client may still be fetching

shelfVars == <<manifest, objects, told>>

Promised == UNION {NamesOf(b) : b \in told}

Init == manifest = 0 /\ objects = {} /\ told = {}

Add(some) ==
    /\ objects' = objects \cup some
    /\ UNCHANGED <<manifest, told>>

\* The manifest never goes back to an older build.
Name(b) ==
    /\ manifest <= b
    /\ NamesOf(b) \subseteq objects
    /\ manifest' = b
    /\ told' = told \cup {b}
    /\ UNCHANGED objects

\* A client takes less than a day: only the build named now is still fetched.
Settle ==
    /\ manifest # 0
    /\ told' = {manifest}
    /\ UNCHANGED <<manifest, objects>>

Take(some) ==
    /\ some \cap Promised = {}
    /\ objects' = objects \ some
    /\ UNCHANGED <<manifest, told>>

Next == \/ \E some \in SUBSET Files : Add(some) \/ Take(some)
        \/ \E b \in Builds : Name(b)
        \/ Settle

Spec == Init /\ [][Next]_shelfVars
=============================================================================
