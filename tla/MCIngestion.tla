---------------------------- MODULE MCIngestion ----------------------------
(* Instances of Ingestion: what a native item of every kind may look like. *)
EXTENDS Ingestion

F(state, place, marks) ==
  [subject |-> 0, state |-> state, place |-> place, copy |-> 0, stamp |-> 0, until |-> 0,
   signer |-> None, owner |-> None, parents |-> {}, marks |-> marks]
About(form, subject) == [form EXCEPT !.subject = subject]

Repositories ==
  [k \in {"repo_code"} |->
     {F("file", "default", {}), F("file", "branch", {}),
      [F("file", "default", {}) EXCEPT !.copy = 2]}]
  @@ [k \in {"docs_adr"} |->
     {F("accepted", "default", {}), F("proposed", "default", {}), F("superseded", "dirty", {}),
      F("accepted", "branch", {})}]
  @@ [k \in {"git_history"} |->
     {F("merge", "default", {}), F("merge", "branch", {}), F("merge", "default", {"reverted_by"}),
      F("merge", "default", {"outside window"}),
      F("merge", "default", {"reverted_by", "outside window"}),
      F("commit", "default", {"reverts"}),
      F("ref", "default", {})}]
  @@ [k \in {"repo_symbols"} |-> {About(F("const", "default", {}), 7)}]

Records ==
  [k \in {"github_export"} |->
     {F("merged", "default", {"newest snapshot"}), F("merged", "default", {}),
      F("approved and refused", "default", {"newest snapshot"}),
      F("closed", "default", {"newest snapshot"}), F("reopened issue", "default", {"newest snapshot"})}]
  @@ [k \in {"issue_tracker"} |->
     {F("completed", "default", {}), F("started", "default", {}), F("not JSON", "default", {})}]
  @@ [k \in {"document"} |->
     {F("accepted", "default", {}), F("unstated", "default", {})}]
  @@ [k \in {"kindex"} |->
     {F("accepted", "default", {}), F("retracted", "default", {}),
      F("accepted", "default", {"contradicts"}), F("accepted", "default", {"not active"}),
      [F("accepted", "default", {}) EXCEPT !.until = 2]}]
  @@ [k \in {"authority_answer"} |->
     {About([F("answer", "default", {"signature_valid"}) EXCEPT !.signer = OwnKey, !.stamp = 1,
                                                               !.parents = ps], 7)
        : ps \in {{}, {1}}}
     \cup {About([F("answer", "default", {}) EXCEPT !.signer = OwnKey, !.stamp = 2], 7),
           About([F("answer", "default", {"signature_valid"}) EXCEPT !.signer = OtherKey,
                                                               !.stamp = 1], 7)}]
  @@ [k \in {"codex_jsonl"} |->
     {F("line", "default", {}), F("line", "default", {"raw_withheld"}), F("terminal", "default", {})}]

Results ==
  [k \in {"repo_tests"} |->
     {About([F("run", "default", m) EXCEPT !.stamp = s], 7) : s \in 1..2, m \in {{}, {"exit_failed"}}}]
  @@ [k \in {"runtime_evidence"} |->
     {About([F("run", "default", {}) EXCEPT !.stamp = s, !.owner = w, !.until = 3], 7)
        : s \in 1..2, w \in {"first", "second"}}]

AllForms == Repositories @@ Records @@ Results
AllKinds == DOMAIN AllForms

(* Every kind is edited twice; the clock and kills or revocations are      *)
(* added where they matter: of a record that a key warrants two, so that   *)
(* the key is registered again and revoked once more.                      *)
AllBounds ==
  [k \in AllKinds |->
     [digests |-> 2,
      time |-> IF k \in {"repo_tests", "runtime_evidence", "kindex"} THEN 2 ELSE 1,
      faults |-> IF k = "issue_tracker" THEN 2
                 ELSE IF k \in {"docs_adr", "repo_symbols", "authority_answer"} THEN 1 ELSE 0]]

(* What lies below the default lineage, a node that is only proposed, and  *)
(* a merge that takes a merge back.                                        *)
UnreviewedForms ==
  [k \in {"git_history"} |-> {F("merge", "default", {"reverts"})}]
  @@ [k \in {"repo_symbols"} |-> {About(F("const", p, {}), 7) : p \in {"default", "branch"}}]
  @@ [k \in {"kindex"} |-> {F("accepted", "branch", {}), F("proposed", "default", {})}]
UnreviewedKinds == DOMAIN UnreviewedForms
OneEdit == [k \in UnreviewedKinds |-> [digests |-> 1, time |-> 1, faults |-> 0]]
=============================================================================
