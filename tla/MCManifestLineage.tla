------------------------- MODULE MCManifestLineage -------------------------
(* Two events, one of them a signed rollback exception; two worktrees.        *)
EXTENDS ManifestLineage, TLC

MCWorks   == (("x" :> "main") @@ ("y" :> "side"))
MCMixes   == {{"admit", "git"}, {"admit", "check"}, {"publish"}}
MCChecks  == {{"admit", "check"}}

=============================================================================
