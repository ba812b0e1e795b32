----------------------------- MODULE MCExtraction -----------------------------
(* Small batches for TLC. *)
EXTENDS Extraction, TLC

Sure(labels) == [labels |-> labels, sure |-> TRUE, hard |-> FALSE, bare |-> FALSE]

\* A sample sure of two stores; one of codes only; one that is not sure
MCReadings == {Sure({"codebase", "company"}), [Sure({"codebase"}) EXCEPT !.bare = TRUE],
               [Sure({"company"}) EXCEPT !.sure = FALSE]}
MCRules == [o \in Messages |-> IF o = 1 THEN Sure({"codebase", "company"}) ELSE <<>>]
MCOrder == <<{"codebase"}, {"codebase", "company"}, {"company"}>>
Symmetry == Permutations(Threads)
=============================================================================
