------------------------ MODULE MCCompanyAdmission ------------------------
(* Small instances of CompanyAdmission for TLC. *)
EXTENDS CompanyAdmission, TLC

CONSTANTS c1, c2, alice, bob, e1, e2, x1, x2, f1, kRoot, k1, k2, s1, s2, n1, ia, ib

MCScopeOf == (ia :> s1) @@ (ib :> s2)

Fact(id, signer, scope) ==
  [id |-> id, fact |-> f1, signer |-> signer, scope |-> scope, kind |-> "fact",
   target |-> None, signed |-> TRUE]

\* One id, two byte strings: the owner's own event and another signer's copy
MCSharedId == (e1 :> Fact(x1, k1, s1)) @@ (e2 :> Fact(x1, k2, s1))

Bare(client, e) == [doc |-> e, client |-> client, nonce |-> e, approved |-> FALSE]
Under(client, e, n) == [doc |-> e, client |-> client, nonce |-> n, approved |-> TRUE]

Registry(n, entries) == [kind |-> "registry", signer |-> kRoot, cursor |-> n, entries |-> entries]
RevokeKey(signer, k) == [kind |-> "revocation", signer |-> signer, key |-> k]
RotateTo(signer, k) == [kind |-> "rotation", signer |-> signer, key |-> k]

\* k2 takes the scope of k1 and gives up its own; the root hands the steward role to
\* k2 and revokes k1 outright
MCHandOver == {Registry(1, (ia :> k1) @@ (ib :> k2)), Registry(2, ia :> k2),
               RotateTo(kRoot, k2), RevokeKey(kRoot, k1)}

\* The owner's client, another's copy under a nonce, and the other bytes
MCContested == {Bare(alice, e1), Under(bob, e1, n1), Under(bob, e2, n1)}

\* Whichever three of the rows those documents make
ThreeRows == cursor <= 3

\* Connections differ in nothing
Symmetry == Permutations(Connections)
=============================================================================
