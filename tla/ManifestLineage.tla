--------------------------- MODULE ManifestLineage ---------------------------
(* The manifests of a Codebase (crates/kinbase/src/repository.rs,             *)
(* publish_manifest_value and fsck; crates/kinbase/src/codebase.rs,           *)
(* publish_manifest_with_events): a maintainer signs the set of events that   *)
(* is committed at a revision, names the heads of the lineage as parents,      *)
(* keeps the manifest in the worktree and in the register that all worktrees  *)
(* share, sends it to Company as a dated observation and records it locally.   *)
(* Publication takes the lock of the journal; fsck, which also repairs the    *)
(* index, takes none; Git moves under all of them.                            *)
EXTENDS EventJournal

CONSTANTS
    Trees,        \* linked worktrees, each on a branch of its own
    Home,         \* the worktree of the journal, on the default branch
    Publishers,   \* processes that publish a manifest or run fsck
    Works,        \* the worktree each of them works in
    Rewrites,     \* the events that are signed rollback exceptions
    MaxCommits,   \* how often the branches may move
    MaxManifests, \* how many manifests may be signed
    MaxChecks,    \* how often fsck may run
    Mixes         \* which of the Activities a behaviour is about

\* Admission, Git under the journal's feet, fsck, and publication.
Activities == {"admit", "git", "check", "publish"}

ASSUME LineageAssumption ==
    /\ Home \in Trees /\ Rewrites \subseteq Events
    /\ Works \in [Publishers -> Trees]
    /\ Nobody \notin Publishers /\ Publishers \cap Procs = {}
    /\ MaxCommits \in Nat /\ MaxManifests \in Nat /\ MaxChecks \in Nat
    /\ Mixes \subseteq SUBSET Activities

VARIABLES
    commit,     \* the events committed at each worktree's checked-out revision
    past,       \* every set of events a branch has had committed
    commits,    \* how often a branch has moved
    manifests,  \* every manifest ever signed, in the order they were written
    kept,       \* .kin/manifests of each worktree
    register,   \* kinbase/manifests in Git's common directory
    records,    \* .kin/local/published of each worktree
    pub,        \* the publishers
    checks,
    mix

git == <<commit, past, commits>>
lineage == <<manifests, kept, register, records>>
vars == <<journalVars, git, lineage, pub, checks, mix>>

Ids == DOMAIN manifests

-----------------------------------------------------------------------------
(* The lineage as a worktree sees it *)

\* Bug: a worktree looks only at the manifests it keeps itself.
OwnManifests(t) == kept[t]

\* The worktree's own manifests and the register's copies.
Lineage(t) == kept[t] \cup register

HeadsOf(S) == {i \in S : \A j \in S : i \notin manifests[j].parents}

\* Manifests of the lineage that no other one names as a parent.
Heads(t) == HeadsOf(Lineage(t))

Closed(S) == \A j \in S : manifests[j].parents \subseteq S

\* i is among the ancestors of j: it is in whatever holds the parents of j and
\* with every manifest its parents.
Descends(j, i) ==
    \A S \in SUBSET Ids : manifests[j].parents \subseteq S /\ Closed(S) => i \in S

-----------------------------------------------------------------------------
(* publish_manifest_value *)

Waiting == [pc |-> "idle", events |-> {}, rewrite |-> FALSE, parents |-> {}, id |-> 0]

At(q, pc) == pub[q].pc = pc

\* Bug: the files of the worktree are published, committed or not.
WorktreeEvents(t) == IF t = Home THEN events ELSE commit[t]

\* Only what is committed at the checked-out revision is published.
CommittedEvents(t) == commit[t]

\* The largest count among the observations recorded in this worktree.
PriorCount(t) == Max({0} \cup {Cardinality(manifests[i].events) : i \in records[t]})

\* The committed events are read, and held against the worktree's own records;
\* fewer events than were published need a signed rollback exception.
ReadCommitted(q) ==
    /\ At(q, "idle") /\ "publish" \in mix /\ Len(manifests) < MaxManifests
    /\ LET S == CommittedEvents(Works[q]) IN
        /\ Cardinality(S) >= PriorCount(Works[q]) \/ S \cap Rewrites # {}
        /\ pub' = [pub EXCEPT ![q] = [Waiting EXCEPT !.pc = "lock", !.events = S,
                                         !.rewrite = S \cap Rewrites # {}]]
    /\ UNCHANGED <<journalVars, git, lineage, checks, mix>>

\* The heads are read under the lock, the events were not.
LockLineage(q) ==
    /\ At(q, "lock") /\ lock = Nobody /\ Len(manifests) < MaxManifests
    /\ lock' = q
    /\ pub' = [pub EXCEPT ![q].pc = "sign", ![q].parents = Heads(Works[q])]
    /\ UNCHANGED <<files, moved, torn, proc, crashes, git, lineage, checks, mix>>

\* The revision and the clock of a manifest are left out.
Document(q) == [parents |-> pub[q].parents, events |-> pub[q].events, branch |-> Works[q]]

Signed(q) ==
    LET same == {i \in Ids : manifests[i] = Document(q)}
        id   == IF same = {} THEN Len(manifests) + 1 ELSE Min(same)
    IN /\ manifests' = IF same = {} THEN Append(manifests, Document(q)) ELSE manifests
       /\ kept' = [kept EXCEPT ![Works[q]] = @ \cup {id}]
       /\ pub' = [pub EXCEPT ![q] = [Waiting EXCEPT !.pc = "register", !.id = id,
                                                     !.rewrite = pub[q].rewrite]]

\* Bug: the lock is given up once the manifest is in the worktree.
SignAndRelease(q) ==
    /\ At(q, "sign") /\ Signed(q)
    /\ lock' = Nobody
    /\ UNCHANGED <<files, moved, torn, proc, crashes, git, register, records, checks, mix>>

\* A manifest is stored under its digest: the same document is the same file.
SignManifest(q) ==
    /\ At(q, "sign") /\ Signed(q)
    /\ UNCHANGED <<journalVars, git, register, records, checks, mix>>

\* The copy in the register is written before the lock is given up.
RegisterManifest(q) ==
    /\ At(q, "register")
    /\ register' = register \cup {pub[q].id}
    /\ lock' = Nobody
    /\ pub' = [pub EXCEPT ![q].pc = "post"]
    /\ UNCHANGED <<files, moved, torn, proc, crashes, git, manifests, kept, records,
                   checks, mix>>

-----------------------------------------------------------------------------
(* The dated observation is sent to Company, which takes it, refuses that the  *)
(* count falls, or answers otherwise or not at all.                           *)

\* Company verifies the signature over the document it was sent, and a document
\* with a rollback_event was changed after it was signed.
Answers(q) ==
    IF pub[q].rewrite THEN {"refused"} ELSE {"taken", "regression", "refused"}

\* A regression ends the command; any other refusal is only reported.
Heeded(answer) == answer # "regression"

PostManifest(q) ==
    /\ At(q, "post")
    /\ \E answer \in Answers(q) :
        pub' = [pub EXCEPT ![q] =
                  IF Heeded(answer) THEN [@ EXCEPT !.pc = "record"] ELSE Waiting]
    /\ UNCHANGED <<journalVars, git, lineage, checks, mix>>

\* The worktree's own record of what it published.
RecordManifest(q) ==
    /\ At(q, "record")
    /\ records' = [records EXCEPT ![Works[q]] = @ \cup {pub[q].id}]
    /\ pub' = [pub EXCEPT ![q] = Waiting]
    /\ UNCHANGED <<journalVars, git, manifests, kept, register, checks, mix>>

Publish(q) ==
    \/ ReadCommitted(q) \/ LockLineage(q) \/ SignManifest(q) \/ RegisterManifest(q)
    \/ PostManifest(q) \/ RecordManifest(q)

-----------------------------------------------------------------------------
(* fsck rewrites an index cache that does not match, without the lock *)

StartCheck(q) ==
    /\ At(q, "idle") /\ "check" \in mix /\ checks < MaxChecks
    /\ index # {} /\ index # events
    /\ checks' = checks + 1
    /\ pub' = [pub EXCEPT ![q].pc = "repair", ![q].events = events]
    /\ UNCHANGED <<journalVars, git, lineage, mix>>

RepairIndex(q) ==
    /\ At(q, "repair")
    /\ index' = pub[q].events
    /\ pub' = [pub EXCEPT ![q] = Waiting]
    /\ UNCHANGED <<events, staged, journal, receipts, moved, torn, lock, proc, crashes,
                   git, lineage, checks, mix>>

-----------------------------------------------------------------------------
(* Git, and processes that die *)

Moves == commits < MaxCommits /\ "publish" \in mix /\ commits' = commits + 1

Branch(t, S) ==
    /\ commit' = [commit EXCEPT ![t] = S]
    /\ past' = [past EXCEPT ![t] = @ \cup {S}]

\* A pull, a reset or a commit: the worktree of the default branch comes to hold
\* the events S, of which C are committed.
Pull(S, C) ==
    /\ Moves /\ commit[Home] # C /\ Branch(Home, C)
    /\ events' = S
    /\ moved' = moved \cup (events \ S) \cup (S \ events)
    /\ UNCHANGED <<staged, journal, receipts, index, torn, lock, proc, crashes,
                   lineage, pub, checks, mix>>

\* A branch takes up what another one has, manifests included.
Merge(t, u) ==
    /\ Moves /\ Branch(t, commit[t] \cup commit[u])
    /\ kept' = [kept EXCEPT ![t] = @ \cup kept[u]]
    /\ events' = IF t = Home THEN events \cup commit[u] ELSE events
    /\ moved'  = IF t = Home THEN moved \cup (commit[u] \ events) ELSE moved
    /\ UNCHANGED <<staged, journal, receipts, index, torn, lock, proc, crashes,
                   manifests, register, records, pub, checks, mix>>

\* A linked worktree goes back to an earlier revision, without its manifests.
Rewind(t, S) ==
    /\ Moves /\ t # Home /\ (S # commit[t] \/ kept[t] # {}) /\ Branch(t, S)
    /\ kept' = [kept EXCEPT ![t] = {}]
    /\ UNCHANGED <<journalVars, manifests, register, records, pub, checks, mix>>

Die(q) ==
    /\ ~At(q, "idle") /\ crashes < MaxCrashes
    /\ crashes' = crashes + 1
    /\ lock' = IF lock = q THEN Nobody ELSE lock
    /\ pub' = [pub EXCEPT ![q] = Waiting]
    /\ UNCHANGED <<files, moved, torn, proc, git, lineage, checks, mix>>

-----------------------------------------------------------------------------
Init ==
    /\ JournalInit
    /\ commit = [t \in Trees |-> {}] /\ past = [t \in Trees |-> {{}}]
    /\ commits = 0
    /\ manifests = <<>> /\ register = {}
    /\ kept = [t \in Trees |-> {}] /\ records = [t \in Trees |-> {}]
    /\ pub = [q \in Publishers |-> Waiting] /\ checks = 0
    /\ mix \in Mixes

Journaled ==
    /\ UNCHANGED <<git, lineage, pub, checks, mix>>
    /\ \/ \E p \in Procs, e \in Events : "admit" \in mix /\ Start(p, e)
       \/ \E p \in Procs : JournalStep(p) \/ Crash(p)
       \/ "git" \in mix /\ \E e \in Events : GitMoves(e)

Published ==
    \/ \E q \in Publishers : Publish(q) \/ StartCheck(q) \/ RepairIndex(q) \/ Die(q)

Next ==
    \/ Journaled \/ Published
    \/ \E S \in SUBSET Events : \E C \in SUBSET S : Pull(S, C)
    \/ \E t, u \in Trees : t # u /\ Merge(t, u)
    \/ \E t \in Trees : \E S \in past[t] : Rewind(t, S)

Spec == Init /\ [][Next]_vars

\* Somebody always comes back to admit, and a process that runs goes on.
Fairness ==
    /\ \A p \in Procs : WF_vars(JournalStep(p) /\ UNCHANGED <<git, lineage, pub, checks, mix>>)
    /\ WF_vars(\E p \in Procs, e \in Events :
          "admit" \in mix /\ Start(p, e) /\ UNCHANGED <<git, lineage, pub, checks, mix>>)

FairSpec == Spec /\ Fairness

-----------------------------------------------------------------------------
(* Properties *)

\* One lineage, whoever died where and whatever Git dropped: of two manifests in
\* the register one descends from the other (the lock is held from reading the
\* heads to writing the register).
RegisterIsOneLineage ==
    \A i, j \in register :
        \/ i = j
        \/ Descends(j, i)
        \/ Descends(i, j)

\* As long as nobody died, all worktrees see the same single head.
HeadsAgree ==
    crashes = 0 /\ lock = Nobody =>
        \A t, u \in Trees : Heads(t) = Heads(u) /\ Cardinality(Heads(t)) <= 1

\* The same with processes that die: what lineage_register_dir promises.
HeadsAlwaysAgree ==
    lock = Nobody => \A t, u \in Trees : Heads(t) = Heads(u)

\* A manifest never lists an event that was not committed with all the others
\* it lists on the branch it names (worktree-only events stay invisible).
PublishedWasCommitted ==
    \A i \in Ids : manifests[i].events \in past[manifests[i].branch]

\* An event with a receipt is listed by the index, or Git has moved it.
CommittedIsIndexed ==
    \A e \in Events : receipts[e] # 0 => e \in index \cup moved

\* As long as no fsck repaired the index beside the lock, it lists what has a
\* receipt.
IndexUnlessChecked == checks = 0 => CommittedIsIndexed

\* The journal, the files, the receipts and the index agree, whatever died.
JournalHolds == OneOpenMarker /\ ReceiptIsBacked /\ EventIsAccounted /\ IndexUnlessChecked

\* The manifests are one lineage of what branches committed.
LineageAgrees == RegisterIsOneLineage /\ HeadsAgree /\ PublishedWasCommitted

\* A rollback that a signed exception explains is one Company takes.
ExplainedRollbackIsTaken ==
    \A q \in Publishers :
        At(q, "post") /\ pub[q].rewrite => "taken" \in Answers(q)

\* Whatever died, an open marker is closed by later admissions, unless a torn
\* marker or Git stands in the way.
MarkersClose ==
    []<>(Open = {} \/ "journal" \in torn \/ moved # {})

=============================================================================
