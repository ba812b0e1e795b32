---------------------------- MODULE EventJournal ----------------------------
(* The journaled admission of the Codebase store                             *)
(* (crates/kinbase/src/codebase.rs, Repository::admit_event and              *)
(* recover_journal): a verified event is staged, renamed to its content path, *)
(* listed in the index and receipted, each step behind a marker of the        *)
(* journal, under the admission lock that all worktrees of a repository       *)
(* share.  Whoever admits first replays the marker a dead process left open.  *)
(*                                                                           *)
(* Every file is written to a temporary and renamed, so a crash loses a whole *)
(* write or nothing; but it may leave the temporary, half written, in the    *)
(* directory it was meant for.  Git is a neighbour: a checkout or a clean     *)
(* takes event files out of the worktree and may bring them back, while       *)
(* `.kin/local`, which Git ignores, stays.                                    *)
EXTENDS Naturals, Sequences, FiniteSets, FiniteSetsExt

CONSTANTS
    Events,       \* events, named by the digest of their bytes
    Procs,        \* processes that admit
    Nobody,       \* holds no lock
    Ceiling,      \* EVENT_CEILING, how many files the store takes in
    MaxCrashes    \* how many processes may die

ASSUME JournalAssumption ==
    /\ IsFiniteSet(Events)
    /\ Nobody \notin Procs
    /\ Ceiling \in Nat /\ MaxCrashes \in Nat

VARIABLES
    events,    \* .kin/events: the event files of the worktree
    moved,     \* the events Git has taken out of the worktree or brought into it
    staged,    \* .kin/local/staging
    journal,   \* .kin/local/journal: the marker of each generation
    receipts,  \* .kin/local/receipts: the generation that admitted each event
    index,     \* .kin/local/kinbase-index.json: the events it lists
    torn,      \* the directories that hold a half-written temporary
    lock,      \* holder of the admission lock, or Nobody
    proc,      \* the admitting processes
    crashes

files == <<events, staged, journal, receipts, index>>
journalVars == <<files, moved, torn, lock, proc, crashes>>

Directories == {"events", "journal"}
States      == {"staged", "renamed", "indexed", "receipted", "done"}
Generations == DOMAIN journal

\* Markers a later admission still has to replay.
Open == {g \in Generations : journal[g].state # "done"}

Idle == [pc |-> "idle", event |-> Nobody, gen |-> 0]

AtPc(p, pc) == proc[p].pc = pc
Goto(p, pc) == proc' = [proc EXCEPT ![p].pc = pc]
Marked(g, state) == journal' = [journal EXCEPT ![g].state = state]

\* An early return releases the lock with the file descriptor.
Return(p) == proc' = [proc EXCEPT ![p] = Idle] /\ lock' = Nobody

-----------------------------------------------------------------------------
(* Taking the lock; a process that times out has changed nothing *)

Start(p, e) ==
    /\ AtPc(p, "idle")
    /\ lock = Nobody /\ lock' = p
    /\ proc' = [proc EXCEPT ![p] = [pc |-> "recover", event |-> e, gen |-> 0]]
    /\ UNCHANGED <<files, moved, torn, crashes>>

-----------------------------------------------------------------------------
(* recover_journal: every open marker is completed forward, or rolled back   *)
(* when its bytes are nowhere                                                *)

\* Bug: a staged marker whose staging file is gone is rolled back unseen.
RollsBackMissing(g) ==
    journal[g].state = "staged" /\ journal[g].event \notin staged

\* Neither the staging file nor the event is there.
RolledBack(g) ==
    /\ journal[g].state = "staged"
    /\ journal[g].event \notin staged /\ journal[g].event \notin events

\* A marker past the rename whose event is not in the tree is never completed.
Contradicted(g) == journal[g].state # "staged" /\ journal[g].event \notin events

\* A marker that does not parse stops the pass, and so does a contradicted one.
RecoveryRefused(p) ==
    /\ AtPc(p, "recover")
    /\ \/ "journal" \in torn
       \/ Open # {} /\ Contradicted(Min(Open))
    /\ Return(p)
    /\ UNCHANGED <<files, moved, torn, crashes>>

\* The next open marker is read.
RecoverNext(p) ==
    /\ AtPc(p, "recover") /\ "journal" \notin torn /\ Open # {}
    /\ LET g == Min(Open) IN
        /\ ~Contradicted(g)
        /\ proc' = [proc EXCEPT ![p].gen = g,
              ![p].pc = IF RolledBack(g) THEN "r-close"
                        ELSE IF journal[g].state = "staged" /\ journal[g].event \in staged
                             THEN "r-rename" ELSE "r-index"]
    /\ UNCHANGED <<files, moved, torn, lock, crashes>>

RecoverRename(p) ==
    /\ AtPc(p, "r-rename")
    /\ events' = events \cup {journal[proc[p].gen].event}
    /\ Goto(p, "r-unstage")
    /\ UNCHANGED <<staged, journal, receipts, index, moved, torn, lock, crashes>>

RecoverUnstage(p) ==
    /\ AtPc(p, "r-unstage")
    /\ staged' = staged \ {journal[proc[p].gen].event}
    /\ Goto(p, "r-index")
    /\ UNCHANGED <<events, journal, receipts, index, moved, torn, lock, crashes>>

\* Bug: recovery leaves the index as the dead process left it.
RecoverUnlisted(p) ==
    /\ AtPc(p, "r-index")
    /\ Goto(p, "r-receipt")
    /\ UNCHANGED <<files, moved, torn, lock, crashes>>

RecoverIndex(p) ==
    /\ AtPc(p, "r-index")
    /\ index' = events
    /\ Goto(p, "r-receipt")
    /\ UNCHANGED <<events, staged, journal, receipts, moved, torn, lock, crashes>>

\* A receipt that is already there is left as it is.
ReceiptWritten(g) ==
    [receipts EXCEPT ![journal[g].event] = IF @ = 0 THEN g ELSE @]

RecoverReceipt(p) ==
    /\ AtPc(p, "r-receipt")
    /\ receipts' = ReceiptWritten(proc[p].gen)
    /\ Goto(p, "r-close")
    /\ UNCHANGED <<events, staged, journal, index, moved, torn, lock, crashes>>

\* Bug: the marker is left as it is once its receipt is there.
RecoverUnclosed(p) ==
    /\ AtPc(p, "r-close")
    /\ Return(p)
    /\ UNCHANGED <<files, moved, torn, crashes>>

RecoverClose(p) ==
    /\ AtPc(p, "r-close")
    /\ Marked(proc[p].gen, "done")
    /\ Goto(p, "recover")
    /\ UNCHANGED <<events, staged, receipts, index, moved, torn, lock, crashes>>

Recovery(p) ==
    \/ RecoveryRefused(p) \/ RecoverNext(p) \/ RecoverRename(p) \/ RecoverUnstage(p)
    \/ RecoverIndex(p) \/ RecoverReceipt(p) \/ RecoverClose(p)

-----------------------------------------------------------------------------
(* admit_event *)

\* Bug: one marker is recovered, then the admission goes on.
RecoveredEnough(p) ==
    /\ AtPc(p, "recover") /\ "journal" \notin torn
    /\ Open = {} \/ proc[p].gen = 0

Recovered(p) == AtPc(p, "recover") /\ "journal" \notin torn /\ Open = {}

Files == Cardinality(events) + (IF "events" \in torn THEN 1 ELSE 0)

\* Bug: the file is what says that an event was admitted.
StoredIsAdmitted(e) == e \in events

\* The receipt says that an event was admitted, whatever the tree holds.
Admitted(e) == receipts[e] # 0

\* An admitted event is answered with its receipt; a full store refuses.
Answer(p) ==
    /\ Recovered(p)
    /\ Admitted(proc[p].event) \/ Files + 1 > Ceiling
    /\ Return(p)
    /\ UNCHANGED <<files, moved, torn, crashes>>

\* Bug: the newest generation is taken again.
LastGeneration == Max({1, Len(journal)})

\* next_generation: one past the newest marker.
NextGeneration == Len(journal) + 1

Stage(p) ==
    /\ Recovered(p)
    /\ ~Admitted(proc[p].event) /\ Files + 1 <= Ceiling
    /\ staged' = staged \cup {proc[p].event}
    /\ proc' = [proc EXCEPT ![p].pc = "mark", ![p].gen = NextGeneration]
    /\ UNCHANGED <<events, journal, receipts, index, moved, torn, lock, crashes>>

Mark(p) ==
    /\ AtPc(p, "mark")
    /\ journal' = Append(journal, [event |-> proc[p].event, state |-> "staged"])
    /\ Goto(p, "rename")
    /\ UNCHANGED <<events, staged, receipts, index, moved, torn, lock, crashes>>

Rename(p) ==
    /\ AtPc(p, "rename")
    /\ events' = events \cup {proc[p].event}
    /\ Goto(p, "unstage")
    /\ UNCHANGED <<staged, journal, receipts, index, moved, torn, lock, crashes>>

Unstage(p) ==
    /\ AtPc(p, "unstage")
    /\ staged' = staged \ {proc[p].event}
    /\ Goto(p, "renamed")
    /\ UNCHANGED <<events, journal, receipts, index, moved, torn, lock, crashes>>

\* The marker moves on after each side effect.
Transition(p, pc, state, next) ==
    /\ AtPc(p, pc)
    /\ Marked(proc[p].gen, state)
    /\ Goto(p, next)
    /\ UNCHANGED <<events, staged, receipts, index, moved, torn, lock, crashes>>

Index(p) ==
    /\ AtPc(p, "index")
    /\ index' = events
    /\ Goto(p, "indexed")
    /\ UNCHANGED <<events, staged, journal, receipts, moved, torn, lock, crashes>>

Receipt(p) ==
    /\ AtPc(p, "receipt")
    /\ receipts' = [receipts EXCEPT ![proc[p].event] = proc[p].gen]
    /\ Goto(p, "receipted")
    /\ UNCHANGED <<events, staged, journal, index, moved, torn, lock, crashes>>

Finish(p) ==
    /\ AtPc(p, "done")
    /\ Marked(proc[p].gen, "done")
    /\ Return(p)
    /\ UNCHANGED <<events, staged, receipts, index, moved, torn, crashes>>

Admission(p) ==
    \/ Answer(p) \/ Stage(p) \/ Mark(p) \/ Rename(p) \/ Unstage(p)
    \/ Transition(p, "renamed", "renamed", "index") \/ Index(p)
    \/ Transition(p, "indexed", "indexed", "receipt") \/ Receipt(p)
    \/ Transition(p, "receipted", "receipted", "done") \/ Finish(p)

-----------------------------------------------------------------------------
(* Faults and neighbours *)

\* The directory the process was writing a file into, if it was.
Writing(p) ==
    IF proc[p].pc \in {"mark", "renamed", "indexed", "receipted", "done", "r-close"}
    THEN {"journal"}
    ELSE IF proc[p].pc \in {"rename", "r-rename"} THEN {"events"} ELSE {}

\* The process dies, or a write fails and it gives up: the lock goes with it.
Crash(p) ==
    /\ ~AtPc(p, "idle") /\ crashes < MaxCrashes
    /\ crashes' = crashes + 1
    /\ torn' \in {torn, torn \cup Writing(p)}
    /\ Return(p)
    /\ UNCHANGED <<files, moved>>

\* Git takes no lock of the program's: a checkout, a clean or a merge.
GitMoves(e) ==
    /\ events' = IF e \in events THEN events \ {e} ELSE events \cup {e}
    /\ moved' = moved \cup {e}
    /\ UNCHANGED <<staged, journal, receipts, index, torn, lock, proc, crashes>>

-----------------------------------------------------------------------------
JournalInit ==
    /\ events = {} /\ moved = {} /\ staged = {} /\ journal = <<>> /\ index = {}
    /\ receipts = [e \in Events |-> 0] /\ torn = {} /\ lock = Nobody
    /\ proc = [p \in Procs |-> Idle] /\ crashes = 0

JournalStep(p) == Recovery(p) \/ Admission(p)

JournalNext ==
    \/ \E p \in Procs : \/ \E e \in Events : Start(p, e)
                        \/ JournalStep(p) \/ Crash(p)
    \/ \E e \in Events : GitMoves(e)

JournalSpec == JournalInit /\ [][JournalNext]_journalVars

-----------------------------------------------------------------------------
(* Properties *)

Pcs == {"idle", "recover", "r-rename", "r-unstage", "r-index", "r-receipt", "r-close",
        "mark", "rename", "unstage", "renamed", "index", "indexed", "receipt",
        "receipted", "done"}

\* The type invariant of the journal and of the processes that write it.
JournalTypeOK ==
    /\ events \subseteq Events /\ moved \subseteq Events
    /\ staged \subseteq Events /\ index \subseteq Events
    /\ journal \in Seq([event : Events, state : States])
    /\ receipts \in [Events -> Nat]
    /\ torn \subseteq Directories
    /\ proc \in [Procs -> [pc : Pcs, event : Events \cup {Nobody}, gen : Nat]]
    /\ crashes \in 0..MaxCrashes

\* At no time are two admissions under way: whatever died where, a new marker is
\* written only once every older one is closed (admit_event recovers first).
OneOpenMarker == \A g, h \in Open : g = h

\* No crash point hides an admitted event or makes one up: a receipt names the
\* generation that admitted this very event, whose file only Git takes away; and
\* a file of the journal's has its receipt or a marker that will still give it
\* one.
ReceiptIsBacked ==
    \A e \in Events : receipts[e] # 0 =>
        /\ receipts[e] \in Generations /\ journal[receipts[e]].event = e
        /\ e \in events \cup moved

EventIsAccounted ==
    \A e \in events \ moved :
        \/ receipts[e] # 0
        \/ \E g \in Open : journal[g].event = e

\* A receipt that was given is the receipt every retry gets.
ReceiptIsKept ==
    [][\A e \in Events : receipts[e] # 0 => receipts'[e] = receipts[e]]_journalVars

=============================================================================
