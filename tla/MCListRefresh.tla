--------------------------- MODULE MCListRefresh ---------------------------
(* Instances of ListRefresh for TLC. *)
EXTENDS ListRefresh, TLC

CONSTANTS u, a, b

\* Two configurations with the same list, differing in manual rules.
SameLists == [c \in Config |-> {u}]

\* The second configuration adds the list.
AddsList == (a :> {}) @@ (b :> {u})

\* Contents are interchangeable, and so are configurations with the same
\* lists; used only where no liveness property is checked.
ContentSymmetry == Permutations(Content)
ConfigSymmetry == Permutations(Config)
=============================================================================
