---------------------------- MODULE MCPersonalLedger ----------------------------
(* Instances of PersonalLedger for TLC. *)
EXTENDS PersonalLedger, TLC

CONSTANTS r1, r2, r3, a, b, c, g1, g2

\* r1 is of one session, r2 and (in one configuration) r3 of another.
MCIdentity == [r \in Records |-> CASE r = r1 -> a [] r = r2 -> b [] OTHER -> c]
MCTag == [r \in Records |-> IF r = r1 THEN g1 ELSE g2]

\* r1 and r2 may be exchanged, with their identities and tags, when r3 is not there.
Kept == [v \in {r1, r2, a, b, g1, g2} |-> v]
Exchanged == (r1 :> r2) @@ (r2 :> r1) @@ (a :> b) @@ (b :> a) @@ (g1 :> g2) @@ (g2 :> g1)

Symmetry == {p @@ q : p \in Permutations(Writers), q \in {Kept, Exchanged}}
=============================================================================
