------------------------- MODULE MCResultsWorkspace -------------------------
(* Instances of ResultsWorkspace for TLC.                                  *)
EXTENDS ResultsWorkspace

\* Three candidates, of which a filter admits two, and a sort that is not the
\* order of their ids.
ThreeCandidates == {1, 2, 3}
TwoFilters == [all |-> {1, 2, 3}, some |-> {1, 3}]
OneSort    == [byName |-> <<3, 1, 2>>]

\* All three together have more bytes than fit.
Sizes == [c \in {1, 2, 3} |-> 1]

EveryKind == {[kind |-> "set", ids |-> {1}], [kind |-> "clear", ids |-> {1}],
              [kind |-> "selectAllMatching"], [kind |-> "clearMatching"],
              [kind |-> "clearAll"]}
=============================================================================
