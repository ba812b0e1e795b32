-------------------------- MODULE MCSnapshotService --------------------------
(* Two requests, one key, one repository; the facts begin and end while *)
(* requests are under way.                                              *)
EXTENDS SnapshotService, TLC
CONSTANTS r1, r2, here, k1, all

MCFacts == {[key |-> k1, governs |-> here, from |-> 1, until |-> 2]}
MCSymmetry == Permutations(Readers)
=============================================================================
