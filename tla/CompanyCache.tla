----------------------------- MODULE CompanyCache -----------------------------
(***************************************************************************)
(* The Company cache of one machine: a single row that holds the snapshot  *)
(* of whichever repository refreshed last, with the cursor and the two     *)
(* clocks that govern it. Processes of several repositories ask kinbased,  *)
(* store what it answers in one write transaction each, and project what   *)
(* the row holds, reading content and clocks in separate statements.       *)
(*                                                                         *)
(* What kinbased answers is what SnapshotService shows of it: the content  *)
(* covers every change committed before the instant the answer is issued   *)
(* at, and the cursor lies between that and the answer. Signatures, nonces *)
(* and the Company id are taken as verified.                               *)
(***************************************************************************)
EXTENDS Naturals, FiniteSets, Sequences, TLC

CONSTANTS
    Procs,       \* processes of the kinbase program
    Repos,       \* repositories
    RepoOf,      \* the repository each process works in
    Everywhere,  \* what a company-wide change governs
    RevocationFreshness, FactFreshness,   \* the service's two windows
    MaxChanges   \* bound: changes Company commits and instants, together

ASSUME CacheAssumption ==
    /\ RepoOf \in [Procs -> Repos] /\ Everywhere \notin Repos
    /\ {RevocationFreshness, FactFreshness} \subseteq Nat \ {0}
    /\ MaxChanges \in Nat

VARIABLES
    wall,     \* the instant it is
    commits,  \* what Company committed: [governs, at]
    row,      \* the cache row with its meta values, or None
    proc      \* each process

vars == <<wall, commits, row, proc>>

None == [digest |-> {}]
Cold == row = None

\* What a snapshot filtered to the scope holds after n commits; its digest.
Content(scope, n) == {i \in 1..n : commits[i].governs \in {scope, Everywhere}}

CommittedBy(t) == Cardinality({i \in 1..Len(commits) : commits[i].at < t})

----------------------------------------------------------------------------
(* The row *)

Rows == [digest : SUBSET (1..MaxChanges), scope : Repos, cursor : 0..MaxChanges,
         issued : 0..MaxChanges]

RevocationFresh(r, at) == at < r.issued + RevocationFreshness
FactFresh(r, at) == at < r.issued + FactFreshness
NeedsRefresh(r, at) == ~(RevocationFresh(r, at) /\ FactFresh(r, at))

\* Bug: the digest is offered whatever scope the row was filtered to.
KnownOfAnyScope(warm, scope) == IF warm THEN <<row.digest>> ELSE <<>>

\* The digest a refresh may offer: of a cache that was warm when it was opened
\* and is filtered to that scope.
Known(warm, scope) == IF warm /\ row.scope = scope THEN <<row.digest>> ELSE <<>>

\* Bug: an answer older than the sealed cursor is taken as well.
AdmitsAny(a) == TRUE

\* An answer older than the sealed high-water mark is refused.
Admits(a) == ~Cold => a.cursor >= row.cursor

\* Bug: the receipt is taken on what was offered when the refresh was asked.
HoldsWhatWasOffered(q, a) == q.known = <<a.digest>>

\* The receipt vouches for the content and the scope the row holds now.
HoldsVouched(q, a) == Known(q.warm, a.scope) = <<a.digest>>

----------------------------------------------------------------------------
(* A process *)

Init ==
    /\ wall = 0 /\ commits = <<>> /\ row = None
    /\ proc = [p \in Procs |-> [pc |-> "idle"]]

\* Bug: the recorded clock is advanced to the end of the window.
AdvancedToTheEnd(at, explicit) ==
    IF explicit \/ Cold THEN at ELSE row.issued + RevocationFreshness

\* The instant a process judges by: the one given with --as-of, or the clock
\* recorded when the repository was initialised, advanced to the instant the
\* cached snapshot was issued at.
Advanced(at, explicit) == IF explicit \/ Cold \/ row.issued <= at THEN at ELSE row.issued

IsFresh(at) == ~Cold /\ ~NeedsRefresh(row, at)

\* ensure_authority_snapshot_for: scope is part of freshness.
Suffices(p, at) == IsFresh(at) /\ row.scope = RepoOf[p]

Become(p, q) == proc' = [proc EXCEPT ![p] = q]

\* A process opens the cache and takes its instant.
Opened(status, explicit) ==
    [status |-> status, explicit |-> explicit, warm |-> ~Cold,
     at |-> Advanced(IF explicit THEN wall ELSE 0, explicit)]

Asking(q, known) ==
    [pc |-> "asked", status |-> q.status, explicit |-> q.explicit, warm |-> q.warm, at |-> q.at,
     known |-> known, asked |-> wall, base |-> Len(commits)]

Reading(status, at) == [pc |-> "reading", status |-> status, at |-> at]

\* A brief uses a cache that suffices and refreshes another.
StartBrief(p) ==
    /\ proc[p].pc = "idle"
    /\ \E explicit \in BOOLEAN :
         LET q == Opened(FALSE, explicit)
         IN Become(p, IF Suffices(p, q.at) THEN Reading(FALSE, Advanced(q.at, explicit))
                      ELSE Asking(q, Known(q.warm, RepoOf[p])))
    /\ UNCHANGED <<wall, commits, row>>

\* An online status read always refreshes.
StartStatus(p) ==
    /\ proc[p].pc = "idle"
    /\ \E explicit \in BOOLEAN :
         LET q == Opened(TRUE, explicit)
         IN Become(p, Asking(q, Known(q.warm, RepoOf[p])))
    /\ UNCHANGED <<wall, commits, row>>

\* A host start projects Company facts from a warm, fresh cache, and asks
\* nobody.
StartHost(p) ==
    /\ proc[p].pc = "idle"
    /\ LET q == Opened(FALSE, FALSE)
       IN IsFresh(q.at) /\ Become(p, Reading(FALSE, q.at))
    /\ UNCHANGED <<wall, commits, row>>

\* What kinbased answers once n changes are committed, with the cursor c: a
\* receipt when the content is the one offered.
Answer(q, scope, c, n) ==
    [receipt |-> q.known = <<Content(scope, n)>>, digest |-> Content(scope, n), scope |-> scope,
     cursor |-> c, issued |-> q.asked]

\* What it may have answered by now
Answers(p) ==
    UNION {{Answer(proc[p], RepoOf[p], c, n) : c \in proc[p].base..n} :
              n \in proc[p].base..Len(commits)}

\* What comes after the refresh: a brief takes its instant again.
GoesOn(q, held) ==
    LET later == ~q.status /\ ~q.explicit /\ held # None /\ held.issued > q.at
    IN Reading(q.status, IF later THEN held.issued ELSE q.at)

\* Company is unreachable, refuses, or the client gives up waiting.
RefreshFails(p) ==
    /\ proc[p].pc = "asked"
    /\ Become(p, GoesOn(proc[p], row))
    /\ UNCHANGED <<wall, commits, row>>

\* store_snapshot, in one write transaction.
StoreSnapshot(p) ==
    /\ proc[p].pc = "asked"
    /\ \E a \in Answers(p) :
         /\ ~a.receipt /\ Admits(a)
         /\ row' = [digest |-> a.digest, scope |-> a.scope, cursor |-> a.cursor,
                    issued |-> a.issued]
         /\ Become(p, GoesOn(proc[p], row'))
    /\ UNCHANGED <<wall, commits>>

\* store_unchanged, in one write transaction: the content stays.
StoreUnchanged(p) ==
    /\ proc[p].pc = "asked"
    /\ \E a \in Answers(p) :
         /\ a.receipt /\ Admits(a) /\ HoldsVouched(proc[p], a)
         /\ row' = [row EXCEPT !.cursor = a.cursor, !.issued = a.issued]
         /\ Become(p, GoesOn(proc[p], row'))
    /\ UNCHANGED <<wall, commits>>

\* The row no longer holds what the receipt vouches for: one full refresh,
\* without a digest, follows.
AskInFull(p) ==
    /\ proc[p].pc = "asked"
    /\ \E a \in Answers(p) : a.receipt /\ Admits(a) /\ ~HoldsVouched(proc[p], a)
    /\ Become(p, Asking(proc[p], <<>>))
    /\ UNCHANGED <<wall, commits, row>>

\* An older answer is not stored; the row stays in force.
Refuse(p) ==
    /\ proc[p].pc = "asked"
    /\ \E a \in Answers(p) : ~Admits(a)
    /\ Become(p, GoesOn(proc[p], row))
    /\ UNCHANGED <<wall, commits, row>>

\* Bug: only the facts' own clock is looked at.
TrustedByFactClock(r, at) == FactFresh(r, at)

\* The truth table: trusted while both clocks run.
Trusted(r, at) == RevocationFresh(r, at) /\ FactFresh(r, at)

\* load_store reads the snapshot and freshness both clocks, for the process's
\* instant: two statements, the content first, but in a status read.
ReadFirst(p) ==
    /\ proc[p].pc = "reading"
    /\ Become(p, [pc |-> "read", status |-> proc[p].status, at |-> proc[p].at, first |-> row])
    /\ UNCHANGED <<wall, commits, row>>

ReadSecond(p) ==
    /\ proc[p].pc = "read"
    /\ LET q == proc[p]
           content == IF q.status THEN row ELSE q.first
           clocks == IF q.status THEN q.first ELSE row
       IN Become(p, [pc |-> "shown", at |-> q.at, seen |-> content,
                     trusted |-> clocks # None /\ Trusted(clocks, q.at),
                     torn |-> content # clocks])
    /\ UNCHANGED <<wall, commits, row>>

Finish(p) ==
    /\ proc[p].pc = "shown"
    /\ Become(p, [pc |-> "idle"])
    /\ UNCHANGED <<wall, commits, row>>

Commit(scope) ==
    /\ wall + Len(commits) < MaxChanges
    /\ commits' = Append(commits, [governs |-> scope, at |-> wall])
    /\ UNCHANGED <<wall, row, proc>>

Tick ==
    /\ wall + Len(commits) < MaxChanges
    /\ wall' = wall + 1
    /\ UNCHANGED <<commits, row, proc>>

Next ==
    \/ \E p \in Procs :
        \/ StartBrief(p) \/ StartStatus(p) \/ StartHost(p) \/ RefreshFails(p)
        \/ StoreSnapshot(p) \/ StoreUnchanged(p) \/ AskInFull(p) \/ Refuse(p)
        \/ ReadFirst(p) \/ ReadSecond(p) \/ Finish(p)
    \/ \E scope \in Repos \cup {Everywhere} : Commit(scope)
    \/ Tick

Spec == Init /\ [][Next]_vars

----------------------------------------------------------------------------
(* Properties *)

Steps == {"idle", "asked", "reading", "read", "shown"}

TypeOK ==
    /\ wall \in 0..MaxChanges
    /\ commits \in Seq([governs : Repos \cup {Everywhere}, at : 0..MaxChanges])
    /\ row \in Rows \cup {None}
    /\ \A p \in Procs : proc[p].pc \in Steps /\ (proc[p].pc # "idle" => proc[p].at \in 0..wall)

\* The content holds everything committed before t that governs the scope, and
\* nothing that governs elsewhere.
Covers(r, t) == \E n \in CommittedBy(t)..Len(commits) : r.digest = Content(r.scope, n)

\* The clocks of the row are about the content in it: whatever order answers,
\* receipts and refreshes for other repositories are stored in, the content
\* covers the instant the row was last issued at.
RowIsVouched == ~Cold => Covers(row, row.issued)

\* The sealed high-water mark never moves back, though answers overtake each
\* other.
HighWaterRises == [][~Cold => row'.cursor >= row.cursor]_vars

\* Company facts shown as trusted cover every change older than the revocation
\* window, by the instant the process judges by. A brief or a host start reads
\* the content first: this holds when the row was not replaced before it read
\* the clocks.
ShownIsCovered ==
    \A p \in Procs :
      LET q == proc[p]
      IN q.pc = "shown" /\ q.trusted /\ ~q.torn =>
           \A t \in 0..MaxChanges : t + RevocationFreshness <= q.at + 1 => Covers(q.seen, t)

----------------------------------------------------------------------------
(* What the documentation says and the code does not do *)

\* "A fresh snapshot fetched for another repository is not this repository's
\* direction" (repository.rs): what is shown was selected for the repository.
ShownIsOwnDirection ==
    \A p \in Procs :
      proc[p].pc = "shown" /\ proc[p].trusted => proc[p].seen.scope = RepoOf[p]
=============================================================================
