------------------------------ MODULE MCProjection ------------------------------
(* The desk of LocalQuestions: an owner under two keys and an architect of
   another scope; two answers of the owner and one of a stranger.  And the
   scenes of a projection: a few facts out of nine, what is recorded of their
   Unknowns, a working set and a query. *)
EXTENDS Projection
CONSTANTS leaf, other, o1, o2, k1, k2, k3, none

E(id, key, scope, http) ==
    [id |-> id, key |-> key, scope |-> scope, kin |-> TRUE, answers |-> TRUE, http |-> http]
MCEntries == {E(o1, k1, leaf, FALSE), E(o1, k2, leaf, TRUE), E(o2, k1, other, FALSE)}
MCRegistries == {{}, {E(o1, k1, leaf, FALSE)}, {E(o2, k1, other, FALSE)},
                 {E(o1, k1, leaf, FALSE), E(o1, k2, leaf, TRUE)}}

D(n, key, names, parents) == [n |-> n, key |-> key, names |-> names, parents |-> parents]
MCDocuments == {D(1, k1, none, FALSE), D(2, k1, o1, TRUE), D(3, k3, none, FALSE)}

F(id, kind, words, loss) ==
    [id |-> id, key |-> id, subject |-> id, kind |-> kind, state |-> "current", words |-> words,
     trigger |-> {}, loss |-> loss, names |-> FALSE, company |-> FALSE, answers |-> FALSE,
     sources |-> {id}, support |-> 250, complements |-> {}, repeats |-> {}, paths |-> {}, bytes |-> 2]

Pay     == [F(1, "constraint", {"pay", "once"}, 9000) EXCEPT !.trigger = {"pay"}, !.paths = {"src"}]
Again   == [F(2, "convention", {"pay", "once"}, 9000) EXCEPT !.complements = {6}]
Source  == [F(3, "convention", {"pay", "once"}, 8000) EXCEPT !.sources = {1, 3}, !.support = 1250]
Ruling  == [F(4, "decision", {"pay", "late"}, 7000) EXCEPT !.company = TRUE, !.answers = TRUE]
Course  == [F(5, "convention", {"late"}, 3000) EXCEPT !.company = TRUE, !.repeats = {4}]
Proof   == [F(6, "test", {"pay", "once", "seen"}, 2000) EXCEPT !.subject = 1, !.sources = {6, 3},
               !.paths = {"src"}, !.complements = {3}]
Large   == [F(7, "decision", {"log"}, 7500) EXCEPT !.bytes = 6, !.paths = {"seven"}]
Stale   == [F(8, "constraint", {"late", "fee"}, 8000) EXCEPT !.state = "stale", !.names = TRUE]
Query   == [F(9, "question", {"fee"}, 7000) EXCEPT !.names = TRUE, !.key = 8]

Recorded(status) == [id |-> <<"on", 8>>, key |-> 8, loss |-> 5000, names |-> FALSE, status |-> status]

MCScenes ==
    [facts : {S \in SUBSET {Pay, Again, Source, Ruling, Course, Proof, Large, Stale, Query} :
                Cardinality(S) \in 2..4},
     unknowns : {{}, {Recorded("open")}, {Recorded("UNKNOWN_OWNER_UNRESOLVED")}},
     closed : {{}, {<<"of", 8>>, <<"on", 8>>}}, working : {{}, {"src"}, {"seven"}}, query : {{"pay"}, {"late", "fee"}}]
=============================================================================
