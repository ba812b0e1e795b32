------------------------------ MODULE FanoutSaga ------------------------------
(* The local half of admission (crates/kinbase/src/session.rs): every        *)
(* candidate of a session is carried to its destination by a journaled saga. *)
(* The journal of a candidate is a directory of marker files, one for each   *)
(* transition, each begun before its side effect and completed after it;     *)
(* one admission lock of the repository serialises single transitions, never *)
(* a whole saga, and a checkpoint first replays the sagas that earlier       *)
(* checkpoints left unfinished.                                              *)
(*                                                                           *)
(* Processes are invocations of the command line tool: a host's hooks start  *)
(* them independently, in as many sessions and worktrees as there are, and   *)
(* may kill them at any point.  A candidate of the Codebase is written to    *)
(* `.kin/events`; a candidate of Company is posted to the Company service.   *)
EXTENDS Naturals, Sequences, SequencesExt, FiniteSets, FiniteSetsExt

CONSTANTS
    CodebaseCandidates,   \* candidates bound for the repository's own store
    CompanyCandidates,    \* candidates of the same message bound for Company
    Procs,                \* local processes
    MaxBytes,             \* how many event byte strings one candidate may get
    MaxCrashes            \* how often a process may die or find the lock held

Candidates == CodebaseCandidates \cup CompanyCandidates
Bytes      == 1..MaxBytes      \* an event's exact bytes, named by their digest
None       == 0                \* no bytes, no candidate, nobody
Elsewhere  == 1                \* a command that takes the lock for other work
Apologies  == {a \in CompanyCandidates \X Candidates : a[1] # a[2]}

ASSUME CandidatesAssumption ==
    /\ CodebaseCandidates \subseteq Nat \ {0} /\ CompanyCandidates \subseteq Nat \ {0}
    /\ CodebaseCandidates \cap CompanyCandidates = {}
    /\ IsFiniteSet(Candidates)
    /\ None \notin Procs /\ Elsewhere \notin Procs
    /\ MaxBytes \in Nat /\ MaxCrashes \in Nat

VARIABLES
    journal,      \* .kin/local/journal/fanout/<candidate>: the marker files
    reserved,     \* nonce-reservations.jsonl: the bytes reserved per candidate
    events,       \* .kin/events: the durable events of each Codebase candidate
    index,        \* .kin/local/kinbase-index.json: the events it lists
    receipts,     \* .kin/local/receipts: the receipt files, by event bytes
    decided,      \* proposal-decisions.jsonl: the receipts of each candidate
    apologies,    \* apologies.jsonl: the last state of each apology
    due,          \* the apologies whose response window is over
    abandoned,    \* orphan-abandonments.jsonl: the apologies it names
    orphanEvents, \* how many orphan_abandoned events each apology got
    company,      \* the Company log and its steward queue, by candidate
    lock,         \* holder of the admission lock, or None
    proc,         \* the processes
    crashes

store == <<journal, reserved, events, index, receipts, decided, apologies, due,
           abandoned, orphanEvents, company>>
vars  == <<store, lock, proc, crashes>>

MarkerState == {"none", "begun", "complete"}
Transitions == {"reservation", "append", "manifest", "receipt", "apology"}
Outcomes    == {"pending", "committed", "refused"}

NoJournal == [bytes |-> None, mark |-> [t \in Transitions |-> "none"],
              outcome |-> "none", answered |-> None, owed |-> {}, done |-> FALSE]

Idle == [step |-> "idle", phase |-> "check", target |-> None, current |-> None,
         todo |-> {}, rec |-> {}, answering |-> TRUE, bytes |-> None,
         outcome |-> "none", siblings |-> {}, owed |-> {},
         sweep |-> {}]

-----------------------------------------------------------------------------
(* Reads of the ledgers *)

\* The state of a candidate's last receipt.
LatestState(c) == IF decided[c] = <<>> THEN "none" ELSE Last(decided[c]).state

\* A receipt that ends its candidate's admission.
Settled(c) == LatestState(c) \in {"committed", "refused"}

\* Destinations of the same message that hold a durable commit.
CommittedSiblings(c) == {s \in Candidates \ {c} : LatestState(s) = "committed"}

\* Bug: only the awaiting apologies the journal marker has completed.
CompletedOpenApologies(c) ==
    {a \in Apologies : /\ a[1] = c /\ apologies[a] = "awaiting"
                       /\ journal[c].mark["apology"] = "complete"}

\* The apologies a late commit of c settles.
OpenApologies(c) == {a \in Apologies : a[1] = c /\ apologies[a] = "awaiting"}

\* Bug: one apology marker is taken for all the siblings of the candidate.
MarkedOwed(c, s) == journal[c].mark["apology"] # "complete"

\* The sibling still lacks its apology.
ApologyOwed(c, s) ==
    \/ journal[c].mark["apology"] # "complete"
    \/ apologies[<<c, s>>] = "none"

\* The bytes some part of the system still knows of.
KnownBytes(c) ==
    {journal[c].bytes} \cup reserved[c] \cup events[c] \cup receipts[c]
        \cup company.log[c] \cup company.queue[c]
        \cup {proc[p].bytes : p \in {q \in Procs : proc[q].current = c}}

-----------------------------------------------------------------------------
(* Journal writes: each is one fsynced marker file *)

\* Bug: the marker is begun afresh and the bytes bound before are lost.
BeginAfresh(j, t, b) ==
    [j EXCEPT !.mark[t] = IF @ = "complete" THEN @ ELSE "begun",
              !.bytes = IF t = "reservation" THEN b ELSE @]

\* Bug: the intent is taken for the transition.
BegunIsComplete(j, t, b) ==
    [j EXCEPT !.mark[t] = "complete",
              !.bytes = IF t = "reservation" /\ @ = None THEN b ELSE @]

\* `begin` keeps a completed marker as it is, and bytes bound by an earlier
\* attempt whatever the caller brings.
Begun(j, t, b) ==
    [j EXCEPT !.mark = [j.mark EXCEPT ![t] = IF j.mark[t] = "complete" THEN "complete" ELSE "begun"],
              !.bytes = IF t = "reservation" /\ @ = None THEN b ELSE @]

Completed(j, t) == [j EXCEPT !.mark[t] = "complete"]

\* finalize_principal_receipt: a receipt whose state the ledger already holds
\* is not appended again.
Finalize(c, state, b) ==
    decided' = IF \E i \in DOMAIN decided[c] : decided[c][i].state = state
               THEN decided
               ELSE [decided EXCEPT ![c] = Append(@, [state |-> state, bytes |-> b])]

-----------------------------------------------------------------------------
(* Control of a process *)

AtStep(p, step, phase) == proc[p].step = step /\ proc[p].phase = phase

Goto(p, step, phase) ==
    proc' = [proc EXCEPT ![p] = [@ EXCEPT !.step = step, !.phase = phase]]

\* What a process carries from one candidate to the next.
Between(r, step) ==
    [Idle EXCEPT !.step = step, !.todo = r.todo, !.rec = r.rec,
                 !.target = r.target, !.answering = r.answering]

\* The admission of the target is over, with a receipt or with an error: an
\* error ends one candidate, never the checkpoint.
LeaveTarget(r) ==
    Between([r EXCEPT !.todo = @ \ {r.target}, !.rec = {}, !.target = None,
                      !.answering = TRUE], "target")

\* commit_codebase or commit_company returned: go on with the recovery pass,
\* which posts nothing more once Company did not answer, or with the next
\* candidate of the checkpoint.
Returned(r, outcome) ==
    IF r.current # r.target
    THEN Between([r EXCEPT !.rec = @ \ {r.current},
                           !.answering = @ /\ outcome # "pending"], "recover")
    ELSE LeaveTarget(r)

\* checkpoint_internal: the last receipts are read once; what is settled by
\* then is not admitted again.
Checkpoint(p) ==
    LET todo == {c \in Candidates : ~Settled(c)} IN
    /\ AtStep(p, "idle", "check") /\ todo # {}
    /\ proc' = [proc EXCEPT ![p] = [@ EXCEPT !.step = "target", !.todo = todo]]
    /\ UNCHANGED <<store, lock, crashes>>

\* A candidate of another session or message is admitted: all these journals
\* are the others it first replays.
OtherAdmission(p) ==
    /\ AtStep(p, "idle", "check") /\ \E c \in Candidates : ~journal[c].done
    /\ proc' = [proc EXCEPT ![p] = [@ EXCEPT !.step = "recover", !.rec = Candidates]]
    /\ UNCHANGED <<store, lock, crashes>>

\* The next candidate of the checkpoint: its admission first replays the
\* journals of all the others.
NextTarget(p) ==
    /\ AtStep(p, "target", "check")
    /\ proc' = [proc EXCEPT ![p] =
          IF proc[p].todo = {} THEN Idle
          ELSE LET c == Min(proc[p].todo) IN
               [proc[p] EXCEPT !.step = "recover", !.target = c,
                               !.rec = Candidates \ {c}]]
    /\ UNCHANGED <<store, lock, crashes>>

\* A saga of another candidate that recovery carries forward: unfinished, with
\* its event bytes bound, and, for Company, only while Company answers.
Recoverable(r, c) ==
    /\ ~journal[c].done
    /\ journal[c].bytes # None
    /\ c \in CompanyCandidates => r.answering

\* recover_fanout_journal, one directory after the other; then the target.
Recover(p) ==
    LET r == proc[p] IN
    /\ AtStep(p, "recover", "check")
    /\ proc' = [proc EXCEPT ![p] =
          IF r.rec = {}
          THEN IF r.target = None THEN Idle
               ELSE [r EXCEPT !.step = "bind", !.current = r.target]
          ELSE LET c == Min(r.rec) IN
               IF Recoverable(r, c) THEN [r EXCEPT !.step = "bind", !.current = c]
               ELSE [r EXCEPT !.rec = @ \ {c}]]
    /\ UNCHANGED <<store, lock, crashes>>

-----------------------------------------------------------------------------
(* One journaled transition: reservation, append, manifest, receipt, apology *)

\* The step that follows a transition.
After(r) ==
    IF r.step = "reservation"
    THEN IF r.current \in CodebaseCandidates THEN "append" ELSE "replay"
    ELSE CASE r.step = "append"   -> "manifest"
           [] r.step = "manifest" -> "receipt"
           [] r.step = "apology"  -> "siblings"
           [] OTHER               -> "summary"

\* Bug: every attempt builds its event anew.
BindAfresh(p) ==
    LET fresh == Bytes \ KnownBytes(proc[p].current) IN
    /\ AtStep(p, "bind", "check") /\ fresh # {}
    /\ proc' = [proc EXCEPT ![p].bytes = Min(fresh), ![p].step  = "reservation"]
    /\ UNCHANGED <<store, lock, crashes>>

\* reserve_nonce reads the bound bytes, and builds an event from the clock
\* when there are none, before it takes the lock.
Bind(p) ==
    LET c     == proc[p].current
        fresh == Bytes \ KnownBytes(c)
    IN
    /\ AtStep(p, "bind", "check")
    /\ journal[c].bytes = None => fresh # {}
    /\ proc' = [proc EXCEPT ![p] =
          [@ EXCEPT !.bytes = IF journal[c].bytes # None THEN journal[c].bytes ELSE Min(fresh),
                    !.step  = "reservation"]]
    /\ UNCHANGED <<store, lock, crashes>>

\* A transition whose marker is complete is skipped; the test is made before
\* the lock is taken and not repeated under it.
CheckMarker(p) ==
    LET r == proc[p] IN
    /\ r.step \in {"reservation", "append", "manifest", "receipt"}
    /\ r.phase = "check"
    /\ IF journal[r.current].mark[r.step] = "complete"
       THEN Goto(p, After(r), "check")
       ELSE Goto(p, r.step, "lock")
    /\ UNCHANGED <<store, lock, crashes>>

\* The admission lock is free: take it and write the intent.
BeginTransition(p) ==
    LET r == proc[p] IN
    /\ r.step \in Transitions /\ r.phase = "lock"
    /\ lock = None
    /\ lock' = p
    /\ journal' = [journal EXCEPT ![r.current] = Begun(@, r.step, r.bytes)]
    /\ Goto(p, r.step, "effect")
    /\ UNCHANGED <<reserved, events, index, receipts, decided, apologies, due,
                   abandoned, orphanEvents, company, crashes>>

\* The bounded wait for the lock ran out while another process held it.
LockTimeout(p) ==
    /\ proc[p].phase = "lock" /\ lock \notin {None, p}
    /\ proc' = [proc EXCEPT ![p] = IF @.step = "sweep" THEN Idle ELSE LeaveTarget(@)]
    /\ UNCHANGED <<store, lock, crashes>>

\* The marker is completed and the lock released.
CompleteTransition(p) ==
    LET r == proc[p] IN
    /\ r.step \in {"reservation", "append", "manifest", "apology"}
    /\ r.phase = "complete"
    /\ journal' = [journal EXCEPT ![r.current] = Completed(@, r.step)]
    /\ lock' = None
    /\ Goto(p, After(r), "check")
    /\ UNCHANGED <<reserved, events, index, receipts, decided, apologies, due,
                   abandoned, orphanEvents, company, crashes>>

\* nonce-reservations.jsonl gets the digest of the caller's own bytes.
ReserveEffect(p) ==
    LET r == proc[p] IN
    /\ AtStep(p, "reservation", "effect")
    /\ reserved' = [reserved EXCEPT ![r.current] = @ \cup {r.bytes}]
    /\ Goto(p, "reservation", "complete")
    /\ UNCHANGED <<journal, events, index, receipts, decided, apologies, due,
                   abandoned, orphanEvents, company, lock, crashes>>

\* The event is staged and renamed to the path its digest names.
AppendEffect(p) ==
    LET r == proc[p] IN
    /\ AtStep(p, "append", "effect")
    /\ events' = [events EXCEPT ![r.current] = @ \cup {r.bytes}]
    /\ Goto(p, "append", "complete")
    /\ UNCHANGED <<journal, reserved, index, receipts, decided, apologies, due,
                   abandoned, orphanEvents, company, lock, crashes>>

\* update_index_cache lists every event of the destination.
ManifestEffect(p) ==
    /\ AtStep(p, "manifest", "effect")
    /\ index' = events
    /\ Goto(p, "manifest", "complete")
    /\ UNCHANGED <<journal, reserved, events, receipts, decided, apologies, due,
                   abandoned, orphanEvents, company, lock, crashes>>

-----------------------------------------------------------------------------
(* The receipt of a Codebase candidate *)

\* The receipt file names the caller's bytes, and is never written twice.
WriteReceipt(p) ==
    LET r == proc[p] IN
    /\ AtStep(p, "receipt", "effect") /\ r.current \in CodebaseCandidates
    /\ receipts' = [receipts EXCEPT ![r.current] = @ \cup {r.bytes}]
    /\ Goto(p, "receipt", "verify")
    /\ UNCHANGED <<journal, reserved, events, index, decided, apologies, due,
                   abandoned, orphanEvents, company, lock, crashes>>

\* Bug: the committed event is not read back.
NotReadBack(c, b) == TRUE

\* The event is read back at the path of the caller's digest.
ReadBack(c, b) == b \in events[c]

\* The principal's copy of the receipt, once the event is read back; without
\* it the admission fails and the lock is dropped with the error.
VerifyReceipt(p) ==
    LET r == proc[p] IN
    /\ AtStep(p, "receipt", "verify") /\ r.current \in CodebaseCandidates
    /\ IF ReadBack(r.current, r.bytes)
       THEN /\ Finalize(r.current, "committed", r.bytes)
            /\ Goto(p, "receipt", "complete")
            /\ UNCHANGED lock
       ELSE /\ lock' = None
            /\ proc' = [proc EXCEPT ![p] = LeaveTarget(@)]
            /\ UNCHANGED decided
    /\ UNCHANGED <<journal, reserved, events, index, receipts, apologies, due,
                   abandoned, orphanEvents, company, crashes>>

CompleteReceipt(p) ==
    LET r == proc[p] IN
    /\ AtStep(p, "receipt", "complete") /\ r.current \in CodebaseCandidates
    /\ journal' = [journal EXCEPT ![r.current] = Completed(@, "receipt")]
    /\ Goto(p, "receipt", "finish")
    /\ UNCHANGED <<reserved, events, index, receipts, decided, apologies, due,
                   abandoned, orphanEvents, company, lock, crashes>>

\* The saga's last marker, still under the lock of the receipt.
FinishReceipt(p) ==
    LET r == proc[p] IN
    /\ AtStep(p, "receipt", "finish") /\ r.current \in CodebaseCandidates
    /\ journal' = [journal EXCEPT ![r.current].done = TRUE]
    /\ lock' = None
    /\ Goto(p, "summary", "check")
    /\ UNCHANGED <<reserved, events, index, receipts, decided, apologies, due,
                   abandoned, orphanEvents, company, crashes>>

\* The answer is read from the receipt file of the caller's bytes.
Summary(p) ==
    LET r == proc[p] IN
    /\ AtStep(p, "summary", "check")
    /\ proc' = [proc EXCEPT ![p] =
          IF r.bytes \in receipts[r.current] THEN Returned(r, "committed")
          ELSE LeaveTarget(r)]
    /\ UNCHANGED <<store, lock, crashes>>

-----------------------------------------------------------------------------
(* Company: the post, its answer, the apologies a failure owes, the receipt *)

\* A terminal receipt is replayed as it is.
TerminalReceipt(j) ==
    j.mark["receipt"] = "complete" /\ j.outcome \in {"committed", "refused"}

\* Bug: the receipt marker is not asked, the event is posted again.
PostAgain(p) ==
    /\ AtStep(p, "replay", "check")
    /\ Goto(p, "post", "check")
    /\ UNCHANGED <<store, lock, crashes>>

ReplayReceipt(p) ==
    LET r == proc[p]
        j == journal[r.current]
    IN
    /\ AtStep(p, "replay", "check")
    /\ IF TerminalReceipt(j)
       THEN /\ Finalize(r.current, j.outcome, j.answered)
            /\ Goto(p, "replay", "finish")
       ELSE Goto(p, "post", "check") /\ UNCHANGED decided
    /\ UNCHANGED <<journal, reserved, events, index, receipts, apologies, due,
                   abandoned, orphanEvents, company, lock, crashes>>

FinishReplay(p) ==
    LET r == proc[p] IN
    /\ AtStep(p, "replay", "finish")
    /\ journal' = [journal EXCEPT ![r.current].done = TRUE]
    /\ proc' = [proc EXCEPT ![p] = Returned(r, journal[r.current].outcome)]
    /\ UNCHANGED <<reserved, events, index, receipts, decided, apologies, due,
                   abandoned, orphanEvents, company, lock, crashes>>

\* The process has its answer: a commit goes on to the apologies it settles,
\* anything else to those it owes.
Answered(p, outcome) ==
    proc' = [proc EXCEPT ![p] =
                [@ EXCEPT !.outcome = outcome,
                          !.step = IF outcome = "committed" THEN "reconcile" ELSE "diverge"]]

\* One post of the event.  Company commits it, keeps it for its steward, or
\* refuses it; an event it already has is answered as before; the answer, or
\* the request, may be lost.
Post(p) ==
    LET r == proc[p]
        c == r.current
        stored == [company EXCEPT !.log[c] = @ \cup {r.bytes}]
        kept   == [company EXCEPT !.queue[c] = @ \cup {r.bytes}]
    IN
    /\ AtStep(p, "post", "check")
    /\ \/ company' = stored  /\ Answered(p, "committed")
       \/ /\ r.bytes \notin company.log[c]
          /\ \/ company' = kept    /\ Answered(p, "pending")
             \/ company' = company /\ Answered(p, "refused")
       \/ company' \in {company, stored} /\ Answered(p, "pending")
    /\ UNCHANGED <<journal, reserved, events, index, receipts, decided, apologies,
                   due, abandoned, orphanEvents, lock, crashes>>

\* A steward admits an event of the queue.
StewardAdmits(c) ==
    \E b \in company.queue[c] \ company.log[c] :
        /\ company' = [company EXCEPT !.log[c] = @ \cup {b}]
        /\ UNCHANGED <<journal, reserved, events, index, receipts, decided, apologies,
                       due, abandoned, orphanEvents, lock, proc, crashes>>

\* The commit settles the open apologies of this receipt, without the lock.
Reconcile(p) ==
    LET c == proc[p].current IN
    /\ AtStep(p, "reconcile", "check")
    /\ apologies' = [a \in Apologies |-> IF a \in OpenApologies(c) THEN "reconciled"
                                         ELSE apologies[a]]
    /\ Goto(p, "outcome", "lock")
    /\ UNCHANGED <<journal, reserved, events, index, receipts, decided, due,
                   abandoned, orphanEvents, company, lock, crashes>>

\* The siblings that hold a durable commit are read after the answer.
Diverge(p) ==
    LET siblings == CommittedSiblings(proc[p].current) IN
    /\ AtStep(p, "diverge", "check")
    /\ proc' = [proc EXCEPT ![p] = [@ EXCEPT !.siblings = siblings, !.owed = siblings,
                                            !.step = "siblings"]]
    /\ UNCHANGED <<store, lock, crashes>>

\* The next sibling that still lacks its apology.
NextSibling(p) ==
    LET r == proc[p] IN
    /\ AtStep(p, "siblings", "check")
    /\ proc' = [proc EXCEPT ![p] =
          IF r.siblings = {} THEN [r EXCEPT !.step = "outcome", !.phase = "lock"]
          ELSE IF ApologyOwed(r.current, Min(r.siblings))
               THEN [r EXCEPT !.step = "apology", !.phase = "lock"]
               ELSE [r EXCEPT !.siblings = @ \ {Min(@)}]]
    /\ UNCHANGED <<store, lock, crashes>>

\* write_apology: an apology already written is left as it is.
ApologyEffect(p) ==
    LET r == proc[p]
        a == <<r.current, Min(r.siblings)>>
    IN
    /\ AtStep(p, "apology", "effect")
    /\ apologies' = [apologies EXCEPT ![a] = IF @ = "none" THEN "awaiting" ELSE @]
    /\ proc' = [proc EXCEPT ![p] = [@ EXCEPT !.siblings = r.siblings \ {a[2]}, !.phase = "complete"]]
    /\ UNCHANGED <<journal, reserved, events, index, receipts, decided, due,
                   abandoned, orphanEvents, company, lock, crashes>>

\* The receipt marker takes the outcome of this attempt, whatever it held.
RecordOutcome(p) ==
    LET r == proc[p] IN
    /\ AtStep(p, "outcome", "lock")
    /\ lock = None
    /\ lock' = p
    /\ journal' = [journal EXCEPT ![r.current] =
          [Completed(@, "receipt") EXCEPT !.outcome = r.outcome, !.answered = r.bytes,
                                          !.owed = r.owed]]
    /\ Goto(p, "outcome", "verify")
    /\ UNCHANGED <<reserved, events, index, receipts, decided, apologies, due,
                   abandoned, orphanEvents, company, crashes>>

FinalizeOutcome(p) ==
    LET r == proc[p] IN
    /\ AtStep(p, "outcome", "verify")
    /\ Finalize(r.current, r.outcome, r.bytes)
    /\ Goto(p, "outcome", "finish")
    /\ UNCHANGED <<journal, reserved, events, index, receipts, apologies, due,
                   abandoned, orphanEvents, company, lock, crashes>>

\* A pending saga stays open for later passes.
FinishOutcome(p) ==
    LET r == proc[p] IN
    /\ AtStep(p, "outcome", "finish")
    /\ journal' = [journal EXCEPT ![r.current].done = @ \/ r.outcome # "pending"]
    /\ lock' = None
    /\ proc' = [proc EXCEPT ![p] = Returned(r, r.outcome)]
    /\ UNCHANGED <<reserved, events, index, receipts, decided, apologies, due,
                   abandoned, orphanEvents, company, crashes>>

-----------------------------------------------------------------------------
(* The sweep of overdue apologies, run by `status` and `doctor` *)

\* The response window of an apology ends.
DeadlinePasses(a) ==
    /\ apologies[a] # "none" /\ a \notin due
    /\ due' = due \cup {a}
    /\ UNCHANGED <<journal, reserved, events, index, receipts, decided, apologies,
                   abandoned, orphanEvents, company, lock, proc, crashes>>

\* Apologies this repository has to close: awaiting, overdue, committed here,
\* and not yet in the abandonment ledger.
Overdue == {a \in due : /\ apologies[a] = "awaiting" /\ a \notin abandoned
                        /\ a[2] \in CodebaseCandidates}

\* emit_due_orphan_abandonments reads the ledgers before it takes the lock.
StartSweep(p) ==
    /\ AtStep(p, "idle", "check") /\ Overdue # {}
    /\ proc' = [proc EXCEPT ![p] = [@ EXCEPT !.step = "sweep", !.phase = "lock",
                                            !.sweep = Overdue]]
    /\ UNCHANGED <<store, lock, crashes>>

LockSweep(p) ==
    /\ AtStep(p, "sweep", "lock") /\ lock = None
    /\ lock' = p
    /\ Goto(p, "sweep", "effect")
    /\ UNCHANGED <<store, crashes>>

Swept(p) == CHOOSE a \in proc[p].sweep : TRUE

\* Bug: the event is written and the ledger entry is not.
EmitUnlogged(p) ==
    /\ AtStep(p, "sweep", "effect")
    /\ orphanEvents' = [orphanEvents EXCEPT ![Swept(p)] = @ + 1]
    /\ index' = events
    /\ Goto(p, "sweep", "complete")
    /\ UNCHANGED <<journal, reserved, events, receipts, decided, apologies, due,
                   abandoned, company, lock, crashes>>

\* One signed orphan_abandoned event, whose bytes carry the caller's clock.
EmitOrphan(p) ==
    /\ AtStep(p, "sweep", "effect")
    /\ orphanEvents' = [orphanEvents EXCEPT ![Swept(p)] = @ + 1]
    /\ index' = events
    /\ Goto(p, "sweep", "verify")
    /\ UNCHANGED <<journal, reserved, events, receipts, decided, apologies, due,
                   abandoned, company, lock, crashes>>

LogOrphan(p) ==
    /\ AtStep(p, "sweep", "verify")
    /\ abandoned' = abandoned \cup {Swept(p)}
    /\ Goto(p, "sweep", "complete")
    /\ UNCHANGED <<journal, reserved, events, index, receipts, decided, apologies,
                   due, orphanEvents, company, lock, crashes>>

CloseApology(p) ==
    LET rest == proc[p].sweep \ {Swept(p)} IN
    /\ AtStep(p, "sweep", "complete")
    /\ apologies' = [apologies EXCEPT ![Swept(p)] = "abandoned"]
    /\ IF rest = {}
       THEN lock' = None /\ proc' = [proc EXCEPT ![p] = Idle]
       ELSE /\ proc' = [proc EXCEPT ![p] = [@ EXCEPT !.sweep = rest, !.phase = "effect"]]
            /\ UNCHANGED lock
    /\ UNCHANGED <<journal, reserved, events, index, receipts, decided, due,
                   abandoned, orphanEvents, company, crashes>>

-----------------------------------------------------------------------------

\* Bug: the lock is a file that outlives its process.
CrashKeepsLock(p) ==
    /\ proc[p] # Idle /\ crashes < MaxCrashes
    /\ proc' = [proc EXCEPT ![p] = Idle]
    /\ crashes' = crashes + 1
    /\ UNCHANGED <<store, lock>>

\* The operating system frees the lock of a dead process.
Crash(p) ==
    /\ proc[p] # Idle /\ crashes < MaxCrashes
    /\ proc' = [proc EXCEPT ![p] = Idle]
    /\ lock' = IF lock = p THEN None ELSE lock
    /\ crashes' = crashes + 1
    /\ UNCHANGED store

\* Another command of the repository, the publication of a manifest say, takes
\* the lock, and gives it back.
NeighbourLocks ==
    /\ lock = None /\ crashes < MaxCrashes
    /\ lock' = Elsewhere /\ crashes' = crashes + 1
    /\ UNCHANGED <<store, proc>>

NeighbourReleases ==
    /\ lock = Elsewhere /\ lock' = None
    /\ UNCHANGED <<store, proc, crashes>>

Init ==
    /\ journal = [c \in Candidates |-> NoJournal]
    /\ reserved = [c \in Candidates |-> {}]
    /\ events = [c \in Candidates |-> {}]
    /\ index = events
    /\ receipts = [c \in Candidates |-> {}]
    /\ decided = [c \in Candidates |-> <<>>]
    /\ apologies = [a \in Apologies |-> "none"]
    /\ due = {} /\ abandoned = {}
    /\ orphanEvents = [a \in Apologies |-> 0]
    /\ company = [log   |-> [c \in Candidates |-> {}],
                  queue |-> [c \in Candidates |-> {}]]
    /\ lock = None
    /\ proc = [p \in Procs |-> Idle]
    /\ crashes = 0

\* What a running process does next.
Step(p) ==
    \/ NextTarget(p) \/ Recover(p)
    \/ Bind(p) \/ CheckMarker(p) \/ BeginTransition(p) \/ CompleteTransition(p)
    \/ ReserveEffect(p) \/ AppendEffect(p) \/ ManifestEffect(p)
    \/ WriteReceipt(p) \/ VerifyReceipt(p) \/ CompleteReceipt(p) \/ FinishReceipt(p)
    \/ Summary(p)
    \/ ReplayReceipt(p) \/ FinishReplay(p)
    \/ Post(p) \/ Reconcile(p) \/ Diverge(p) \/ NextSibling(p) \/ ApologyEffect(p)
    \/ RecordOutcome(p) \/ FinalizeOutcome(p) \/ FinishOutcome(p)
    \/ LockSweep(p) \/ EmitOrphan(p) \/ LogOrphan(p) \/ CloseApology(p)
    \/ LockTimeout(p)

Next ==
    \/ \E p \in Procs :
          Step(p) \/ Checkpoint(p) \/ OtherAdmission(p) \/ StartSweep(p) \/ Crash(p)
    \/ \E c \in CompanyCandidates : StewardAdmits(c)
    \/ \E a \in Apologies : DeadlinePasses(a)
    \/ NeighbourLocks \/ NeighbourReleases

Spec == Init /\ [][Next]_vars

\* A process that runs goes on running until it ends or dies, and sessions keep
\* ending turns: whatever is unsettled or unfinished meets further admissions,
\* of its own session or of others.  Nobody keeps the lock for ever.
FairSpec ==
    /\ Spec /\ WF_vars(NeighbourReleases)
    /\ \A p \in Procs : /\ WF_vars(Step(p))
                        /\ WF_vars(Checkpoint(p) \/ OtherAdmission(p))

-----------------------------------------------------------------------------
(* Properties *)

BytesOfCandidates == [Candidates -> SUBSET Bytes]

Marker ==
    [bytes : Bytes \cup {None}, mark : [Transitions -> MarkerState],
     outcome : Outcomes \cup {"none"}, answered : Bytes \cup {None},
     owed : SUBSET Candidates, done : BOOLEAN]

Process ==
    [step : Transitions \cup {"idle", "target", "recover", "bind", "summary", "replay",
                              "post", "reconcile", "diverge", "siblings", "outcome",
                              "sweep"},
     phase : {"check", "lock", "effect", "verify", "complete", "finish"},
     target : Candidates \cup {None}, current : Candidates \cup {None},
     todo : SUBSET Candidates, rec : SUBSET Candidates, answering : BOOLEAN,
     bytes : Bytes \cup {None}, outcome : Outcomes \cup {"none"},
     siblings : SUBSET Candidates, owed : SUBSET Candidates, sweep : SUBSET Apologies]

\* Every variable holds values of its type, and only a process inside a
\* transition, an outcome or a sweep holds the admission lock (codebase.rs,
\* admission_lock).
TypeOK ==
    /\ journal \in [Candidates -> Marker]
    /\ reserved \in BytesOfCandidates /\ events \in BytesOfCandidates
    /\ index \in BytesOfCandidates /\ receipts \in BytesOfCandidates
    /\ decided \in [Candidates -> Seq([state : Outcomes, bytes : Bytes])]
    /\ apologies \in [Apologies -> {"none", "awaiting", "reconciled", "abandoned"}]
    /\ due \subseteq Apologies /\ abandoned \subseteq Apologies
    /\ orphanEvents \in [Apologies -> Nat]
    /\ company \in [log : BytesOfCandidates, queue : BytesOfCandidates]
    /\ proc \in [Procs -> Process]
    /\ crashes \in 0..MaxCrashes
    /\ lock \in {None, Elsewhere} \cup
         {p \in Procs : proc[p].phase \in {"effect", "verify", "complete", "finish"}}

\* The bytes bound to a candidate at its first reservation are the bytes of
\* every later attempt: no process, retry or replay rebinds them (begin).
BoundBytesNeverChange ==
    [][\A c \in Candidates :
        journal[c].bytes # None => journal'[c].bytes = journal[c].bytes]_vars

\* A committed receipt names an event its destination holds: a durable file of
\* the Codebase, a row of the Company log, whatever the other processes wrote
\* in between (commit_codebase's re-read, commit_company).
CommittedIsDurable ==
    \A c \in Candidates : \A i \in DOMAIN decided[c] :
        decided[c][i].state = "committed" =>
            decided[c][i].bytes \in
                IF c \in CodebaseCandidates THEN events[c] ELSE company.log[c]

\* A candidate gets one event, whenever its process dies (architecture.md:110,
\* "no check-then-act lookup may create a second event").
OneEventPerCandidate ==
    \A c \in Candidates : Cardinality(events[c] \cup company.log[c]) <= 1

\* No event is durable, here or at Company, before its nonce is in the
\* reservation ledger (reserve_nonce).
ReservedBeforeEvent ==
    \A c \in Candidates : events[c] \cup company.log[c] \subseteq reserved[c]

\* What a committed receipt names is listed in the index (the manifest
\* transition runs before the receipt's).
CommittedIsIndexed ==
    \A c \in CodebaseCandidates : LatestState(c) = "committed" =>
        Last(decided[c]).bytes \in index[c]

\* Every sibling that held a durable commit when Company's outcome was
\* recorded has its apology: none is taken for another's (commit_company).
OwedIsWritten ==
    \A c \in CompanyCandidates : \A s \in journal[c].owed : apologies[<<c, s>>] # "none"

\* A Company commit on record leaves no apology waiting for its deadline
\* (reconcile_apologies runs before the receipt is written).
CommitSettlesApologies ==
    \A a \in Apologies :
        LatestState(a[1]) = "committed" => apologies[a] # "awaiting"

\* An apology is closed as abandoned only when the orphan_abandoned event that
\* says so exists and is in the ledger (emit_due_orphan_abandonments).
AbandonedIsWarranted ==
    \A a \in Apologies : apologies[a] = "abandoned" =>
        orphanEvents[a] > 0 /\ a \in abandoned

\* A terminal receipt in the journal is replayed as it is, never replaced
\* (session.rs:3199, "A terminal receipt is replayed as-is").
TerminalReceiptStays ==
    [][\A c \in CompanyCandidates :
        TerminalReceipt(journal[c]) => journal'[c].outcome = journal[c].outcome]_vars

\* A Codebase candidate that bound its bytes gets its committed receipt:
\* whatever crashed, a later checkpoint completes the saga
\* (recover_fanout_journal).
ReservedIsSettled ==
    \A c \in CodebaseCandidates :
        (journal[c].bytes # None) ~> (LatestState(c) = "committed")

\* Of the events of a candidate: one, reserved before and listed after.
EventsAreJournaled == OneEventPerCandidate /\ ReservedBeforeEvent /\ CommittedIsIndexed

\* Of the apologies: each is raised, reconciled and abandoned when it is due,
\* and only then.
ApologiesAreKept == OwedIsWritten /\ CommitSettlesApologies /\ AbandonedIsWarranted

\* The journal of such a candidate is closed in the end (architecture.md:109,
\* "restart completes or rolls back manifest/receipt state from the journal").
SagaIsFinished ==
    \A c \in CodebaseCandidates : (journal[c].bytes # None) ~> journal[c].done

\* An overdue apology is closed by one orphan_abandoned event (session.rs:4291,
\* "exactly one signed `orphan_abandoned` terminal event each").
AbandonedOnce == \A a \in Apologies : orphanEvents[a] <= 1

\* A reconciled apology is not abandoned afterwards (session.rs:3262, "its
\* deadline must not abandon it").
ReconciledStays ==
    [][\A a \in Apologies :
        apologies[a] = "reconciled" => apologies'[a] = "reconciled"]_vars

\* A fan-out that ends divergent has its apology (architecture.md:127, "A
\* terminally divergent fan-out emits a new apology Unknown in every committed
\* destination").
DivergenceIsApologised ==
    \A a \in Apologies :
        (LatestState(a[1]) = "refused" /\ LatestState(a[2]) = "committed"
            /\ \A p \in Procs : proc[p] = Idle) => apologies[a] # "none"
=============================================================================
