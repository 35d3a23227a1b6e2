--------------------------- MODULE MCImportRunner ---------------------------
(* Instances of ImportRunner for TLC: how tabs share browsers, and which     *)
(* reading each part comes from.                                             *)
EXTENDS ImportRunner

OwnBrowser == CHOOSE home \in [Tabs -> Browsers] :
                  \A s, t \in Tabs : s # t => home[s] # home[t]

\* Every browser has a tab, and any tab left over shares one of them.
Shared == CHOOSE home \in [Tabs -> Browsers] : \A b \in Browsers : \E t \in Tabs : home[t] = b

\* Every reading has a part, and any part left over belongs to one of them.
Packed == CHOOSE of \in [Parts -> Imports] : \A i \in Imports : \E p \in Parts : of[p] = i

OwnFile == CHOOSE digest \in [Imports -> Digests] :
                \A i, j \in Imports : i # j => digest[i] # digest[j]
=============================================================================
