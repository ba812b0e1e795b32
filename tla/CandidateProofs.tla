---------------------------- MODULE CandidateProofs ----------------------------
(* A candidate: how it comes of a batch of messages, and how its saga takes   *)
(* it to the local store and to the company.                                  *)
(*                                                                            *)
(* What becomes of the messages is decided for any batch, any readings,       *)
(* threads and budget, and wherever a run or a checkpoint dies.  The vote     *)
(* takes a reading that was drawn and that no other outvotes: the readings    *)
(* are finitely many and Beats is a strict order of them.  So whatever is     *)
(* taken was proposed by a reading sure of itself, and this is all that the   *)
(* ledgers, which are written in one order, have to rely on.                  *)
(*                                                                            *)
(* What one process carries through its sagas holds wherever it dies, for any *)
(* number of candidates, byte strings and deaths: one event to a candidate,   *)
(* reserved before and listed after; apologies written, reconciled and        *)
(* abandoned with their warrant; a terminal receipt that is replayed and not  *)
(* replaced.  Two processes on one candidate break each of the three (the     *)
(* marker is tested before the lock is taken, and not again under it), so     *)
(* OneProcess is a hypothesis; the neighbours of the lock, the steward and    *)
(* the deadlines are not restricted.                                          *)
EXTENDS FanoutSaga, Extraction, FiniteSetTheorems, SequenceTheorems, WellFoundedInduction, TLAPS

\* One invocation of the tool at a time works on these candidates.
OneProcess == \E p : Procs = {p}

\* The entries of a candidate's decision ledger.
Decision == [state : Outcomes, bytes : Bytes \cup {None}]

StoreTyped ==
    /\ journal \in [Candidates -> Marker]
    /\ \A c \in Candidates : journal[c].owed \subseteq Candidates \ {c}
    /\ reserved \in BytesOfCandidates /\ events \in BytesOfCandidates
    /\ index \in BytesOfCandidates
    /\ decided \in [Candidates -> Seq(Decision)]
    /\ apologies \in [Apologies -> {"none", "awaiting", "reconciled", "abandoned"}]
    /\ abandoned \subseteq Apologies /\ due \subseteq Apologies
    /\ orphanEvents \in [Apologies -> Nat]
    /\ company \in [log : BytesOfCandidates, queue : BytesOfCandidates]

\* A completed marker vouches for its effect.
MarksVouch ==
    \A c \in Candidates :
        /\ journal[c].mark["reservation"] = "complete" =>
             journal[c].bytes # None /\ journal[c].bytes \in reserved[c]
        /\ journal[c].mark["append"] = "complete" => journal[c].bytes \in events[c]
        /\ journal[c].mark["manifest"] = "complete" => journal[c].bytes \in index[c]

\* What exists of a candidate, here or at Company, are the bytes bound to it.
BytesAreBound ==
    \A c \in Candidates :
        /\ events[c] \cup company.log[c] \cup company.queue[c]
             \subseteq reserved[c] \cap {journal[c].bytes}
        /\ index[c] \subseteq events[c]

\* The receipts of a Codebase candidate name bytes the index lists.
DecidedIsListed ==
    \A c \in CodebaseCandidates : \A i \in DOMAIN decided[c] : decided[c][i].bytes \in index[c]

\* A commit Company gave is in the journal before it is on record, and by then
\* no apology of its candidate waits.
CommitIsJournaled ==
    \A c \in CompanyCandidates :
        /\ LatestState(c) = "committed" =>
             TerminalReceipt(journal[c]) /\ journal[c].outcome = "committed"
        /\ TerminalReceipt(journal[c]) /\ journal[c].outcome = "committed" =>
             \A a \in Apologies : a[1] = c => apologies[a] # "awaiting"

StoreSound ==
    /\ StoreTyped /\ MarksVouch /\ BytesAreBound /\ DecidedIsListed
    /\ CommitIsJournaled /\ OwedIsWritten /\ AbandonedIsWarranted

CodebaseSteps == {"append", "manifest", "receipt", "summary"}
PostingSteps == {"post", "reconcile", "diverge", "siblings", "apology"}
CompanySteps == PostingSteps \cup {"replay", "outcome"}
DivergingSteps == {"siblings", "apology", "outcome"}

\* The process works for a candidate of the destination its step belongs to.
OnItsCandidate(r) ==
    /\ r.step \in {"bind", "reservation"} => r.current \in Candidates
    /\ r.step \in CodebaseSteps => r.current \in CodebaseCandidates
    /\ r.step \in CompanySteps => r.current \in CompanyCandidates

\* The bytes it works with are those bound, reserved, durable and listed, as
\* far as it has come.
BytesInHand(r) ==
    /\ r.step = "reservation" => r.bytes # None /\ journal[r.current].bytes \in {None, r.bytes}
    /\ r.step = "reservation" /\ r.phase \in {"effect", "complete"} =>
         journal[r.current].bytes = r.bytes
    /\ r.step = "reservation" /\ r.phase = "complete" => r.bytes \in reserved[r.current]
    /\ r.step \in CodebaseSteps \cup CompanySteps =>
         /\ r.bytes # None /\ journal[r.current].bytes = r.bytes
         /\ r.bytes \in reserved[r.current]
    /\ r.step \in {"manifest", "receipt"} \/ (r.step = "append" /\ r.phase = "complete") =>
         r.bytes \in events[r.current]
    /\ r.step = "receipt" \/ (r.step = "manifest" /\ r.phase = "complete") =>
         r.bytes \in index[r.current]

\* It posts only what has no terminal receipt; the outcome it records is the
\* one it finalizes, and a commit has settled its apologies.
OutcomeInHand(r) ==
    /\ r.step \in PostingSteps \/ (r.step = "outcome" /\ r.phase = "lock") =>
         ~TerminalReceipt(journal[r.current])
    /\ r.step = "outcome" /\ r.phase # "lock" =>
         /\ journal[r.current].outcome = r.outcome
         /\ journal[r.current].mark["receipt"] = "complete"
    /\ r.step = "reconcile" => r.outcome = "committed"
    /\ r.step \in {"diverge", "siblings", "apology"} => r.outcome \in {"pending", "refused"}
    /\ r.step = "outcome" => r.outcome \in Outcomes
    /\ r.step = "outcome" /\ r.outcome = "committed" =>
         \A a \in Apologies : a[1] = r.current => apologies[a] # "awaiting"

\* Of the apologies it owes, those it has passed are written.
OwedInHand(r) ==
    /\ r.step \notin DivergingSteps => r.owed = {} /\ r.siblings = {}
    /\ r.step \in DivergingSteps =>
         /\ r.owed \subseteq Candidates \ {r.current} /\ r.siblings \subseteq r.owed
         /\ \A s \in r.owed \ r.siblings : apologies[<<r.current, s>>] # "none"
    /\ r.step = "outcome" => r.siblings = {}
    /\ r.step = "apology" /\ r.phase \in {"lock", "effect"} => r.siblings # {}

SweptOf(r) == CHOOSE a \in r.sweep : TRUE

\* It closes an apology after the event and the ledger entry that say so.
SweepInHand(r) ==
    /\ r.sweep \subseteq Apologies
    /\ r.step = "sweep" => r.sweep # {}
    /\ r.step = "sweep" /\ r.phase \in {"verify", "complete"} => orphanEvents[SweptOf(r)] > 0
    /\ r.step = "sweep" /\ r.phase = "complete" => SweptOf(r) \in abandoned

\* A process that does nothing is in its initial state.
IdleIsIdle(r) == r.step = "idle" => r = Idle

Sound(r) ==
    /\ r \in Process /\ OnItsCandidate(r) /\ BytesInHand(r) /\ OutcomeInHand(r)
    /\ OwedInHand(r) /\ SweepInHand(r) /\ IdleIsIdle(r)

SagaInv ==
    /\ StoreSound
    /\ DOMAIN proc = Procs /\ \A p \in Procs : Sound(proc[p])

StepNames == Transitions \cup {"idle", "target", "recover", "bind", "summary", "replay",
                               "post", "reconcile", "diverge", "siblings", "outcome", "sweep"}

Phases == {"check", "lock", "effect", "verify", "complete", "finish"}

\* All but step and phase are carried over.
Carries(x, r) ==
    /\ x.target = r.target /\ x.current = r.current /\ x.todo = r.todo /\ x.rec = r.rec
    /\ x.answering = r.answering /\ x.bytes = r.bytes /\ x.outcome = r.outcome
    /\ x.siblings = r.siblings /\ x.owed = r.owed /\ x.sweep = r.sweep

\* The fields of a process.
LEMMA ProcessFields ==
    ASSUME NEW r \in Process
    PROVE  /\ r.step \in StepNames /\ r.phase \in Phases
           /\ r.target \in Candidates \cup {None} /\ r.current \in Candidates \cup {None}
           /\ r.todo \subseteq Candidates /\ r.rec \subseteq Candidates
           /\ r.bytes \in Bytes \cup {None} /\ r.outcome \in Outcomes \cup {"none"}
           /\ r.siblings \subseteq Candidates /\ r.owed \subseteq Candidates
           /\ r.sweep \subseteq Apologies /\ r.answering \in BOOLEAN
BY DEF Process, StepNames, Phases

-----------------------------------------------------------------------------
(* Least members *)

\* Some sets of subsets of a finite set have a smallest member.
LEMMA SmallestSubset ==
    ASSUME NEW S, IsFiniteSet(S), NEW T \in SUBSET SUBSET S, T # {}
    PROVE  \E X \in T : \A Y \in T : Y \subseteq X => Y = X
<1>1. IsWellFoundedOn(StrictSubsetOrdering(S), SUBSET S)
  BY FS_StrictSubsetOrderingWellFounded, FS_FiniteSubsetsOfFinite
<1>2. PICK X \in T : \A Y \in T : ~(<<Y, X>> \in StrictSubsetOrdering(S))
  BY <1>1, WFMin
<1> QED
  BY <1>2 DEF StrictSubsetOrdering

\* The smallest of some numbers is one of them.
LEMMA MinIsMember ==
    ASSUME NEW S \in SUBSET Nat, S # {}
    PROVE  Min(S) \in S
<1>1. PICK k \in S : TRUE
  OBVIOUS
<1> DEFINE D == {x \in S : x <= k}
<1> DEFINE T == {0..y : y \in D}
<1>2. IsFiniteSet(0..k)
  BY FS_Interval
<1>3. T \in SUBSET SUBSET (0..k) /\ T # {}
  <2>1. \A y \in D : 0..y \in SUBSET (0..k)
    OBVIOUS
  <2>2. k \in D
    OBVIOUS
  <2> QED
    BY <2>1, <2>2, Zenon
<1>4. PICK X \in T : \A Y \in T : Y \subseteq X => Y = X
  <2> DEFINE I == 0..k
  <2>1. IsFiniteSet(I) /\ T \in SUBSET SUBSET I /\ T # {}
    BY <1>2, <1>3
  <2> HIDE DEF T, I
  <2> QED
    BY <2>1, SmallestSubset
<1>5. PICK m \in D : X = 0..m
  OBVIOUS
<1>6. ASSUME NEW y \in S, ~(m <= y) PROVE FALSE
  <2>1. y \in D
    BY <1>5, <1>6
  <2>2. 0..y \in T /\ 0..y \subseteq X /\ m \in X /\ m \notin 0..y
    BY <1>5, <1>6, <2>1
  <2> QED
    BY <1>4, <2>2
<1>7. \E x \in S : \A y \in S : x <= y
  BY <1>6
<1> QED
  BY <1>7 DEF Min

-----------------------------------------------------------------------------
(* What a process is when it starts on a candidate, or has left one *)

Resting(x) ==
    /\ x.step \in {"target", "recover", "bind"} /\ x.owed = {} /\ x.siblings = {}
    /\ x.step = "bind" => x.current \in Candidates

\* A process that starts on a candidate or has left one relies on nothing.
LEMMA RestingIsSound ==
    ASSUME NEW x \in Process, Resting(x)
    PROVE  Sound(x)
<1>1. x.sweep \subseteq Apologies
  BY ProcessFields
<1> QED
  BY <1>1 DEF Resting, Sound, OnItsCandidate, BytesInHand, OutcomeInHand, OwedInHand, SweepInHand,
       IdleIsIdle, CodebaseSteps, CompanySteps, PostingSteps, DivergingSteps

\* Nor does a process that has ended.
LEMMA IdleIsSound == Sound(Idle)
<1>1. Idle \in Process
  BY DEF Idle, Process, Transitions, Outcomes
<1>2. Idle.step = "idle" /\ Idle.owed = {} /\ Idle.siblings = {} /\ Idle.sweep = {}
  BY DEF Idle
<1> QED
  BY <1>1, <1>2 DEF Sound, OnItsCandidate, BytesInHand, OutcomeInHand, OwedInHand, SweepInHand,
       IdleIsIdle, CodebaseSteps, CompanySteps, PostingSteps, DivergingSteps

\* Between two candidates only the work list is carried on.
LEMMA BetweenRests ==
    ASSUME NEW r \in Process, NEW s, s = "target" \/ s = "recover"
    PROVE  Between(r, s) \in Process /\ Resting(Between(r, s))
<1>1. PICK x : x = Between(r, s)
  OBVIOUS
<1>2. x \in Process
  <2>1. /\ r.todo \in SUBSET Candidates /\ r.rec \in SUBSET Candidates
        /\ r.target \in Candidates \cup {None} /\ r.answering \in BOOLEAN
    BY ProcessFields
  <2>2. x = [Idle EXCEPT !.step = s, !.todo = r.todo, !.rec = r.rec,
                         !.target = r.target, !.answering = r.answering]
    BY <1>1 DEF Between
  <2> QED
    BY <2>1, <2>2, ZenonT(60) DEF Idle, Process, Transitions, Outcomes
<1>3. x.step = s /\ x.owed = {} /\ x.siblings = {}
  BY <1>1 DEF Between, Idle
<1> QED
  BY <1>1, <1>2, <1>3 DEF Resting

\* An error ends one candidate, not the checkpoint (LeaveTarget).
LEMMA LeavingRests ==
    ASSUME NEW r \in Process
    PROVE  LeaveTarget(r) \in Process /\ Resting(LeaveTarget(r))
<1>1. PICK x : x = [r EXCEPT !.todo = @ \ {r.target}, !.rec = {}, !.target = None,
                             !.answering = TRUE]
  OBVIOUS
<1>2. x \in Process
  BY <1>1 DEF Process
<1> QED
  BY <1>1, <1>2, BetweenRests DEF LeaveTarget

\* An admission that returned leaves the process between two candidates.
LEMMA ReturningRests ==
    ASSUME NEW r \in Process, NEW o
    PROVE  Returned(r, o) \in Process /\ Resting(Returned(r, o))
<1>1. PICK x : x = [r EXCEPT !.rec = @ \ {r.current},
                             !.answering = @ /\ o # "pending"]
  OBVIOUS
<1>2. x \in Process
  <2>1. PICK b \in BOOLEAN : b = (r.answering /\ o # "pending")
    OBVIOUS
  <2>2. x = [r EXCEPT !.rec = @ \ {r.current}, !.answering = b]
    BY <1>1, <2>1
  <2> QED
    BY <2>2 DEF Process
<1> QED
  BY <1>1, <1>2, BetweenRests, LeavingRests DEF Returned

-----------------------------------------------------------------------------
(* A step of the one process *)

Ledgers == <<journal, reserved, events, index, decided, apologies, abandoned, orphanEvents, company>>

\* What a process in hand relies on is not the decision ledger.
LEMMA SoundDecides ==
    ASSUME NEW x, Sound(x),
           UNCHANGED <<journal, reserved, events, index, apologies, abandoned, orphanEvents>>
    PROVE  Sound(x)'
<1>2. BytesInHand(x)'
  BY DEF Sound, BytesInHand
<1>3. OutcomeInHand(x)'
  BY DEF Sound, OutcomeInHand
<1>4. OwedInHand(x)'
  BY DEF Sound, OwedInHand
<1>5. SweepInHand(x)'
  BY DEF Sound, SweepInHand
<1> QED
  BY <1>2, <1>3, <1>4, <1>5 DEF Sound, OnItsCandidate, IdleIsIdle

\* What a process in hand relies on does not change while these do not.
LEMMA SoundStays ==
    ASSUME NEW x, Sound(x), UNCHANGED Ledgers
    PROVE  Sound(x)'
<1>1. UNCHANGED <<journal, reserved, events, index, apologies, abandoned, orphanEvents>>
  BY DEF Ledgers
<1>2. BytesInHand(x)'
  BY <1>1 DEF Sound, BytesInHand
<1>3. OutcomeInHand(x)'
  BY <1>1 DEF Sound, OutcomeInHand
<1>4. OwedInHand(x)'
  BY <1>1 DEF Sound, OwedInHand
<1>5. SweepInHand(x)'
  BY <1>1 DEF Sound, SweepInHand
<1> QED
  BY <1>2, <1>3, <1>4, <1>5 DEF Sound, OnItsCandidate, IdleIsIdle

\* The store is sound while its ledgers do not change, whatever falls due.
LEMMA StoreStays ==
    ASSUME StoreSound, UNCHANGED Ledgers, due' \subseteq Apologies
    PROVE  StoreSound'
<1>1. UNCHANGED <<journal, reserved, events, index, decided, apologies, abandoned, orphanEvents, company>>
  BY DEF Ledgers
<1>2. StoreTyped'
  BY <1>1 DEF StoreSound, StoreTyped
<1>3. MarksVouch' /\ BytesAreBound' /\ DecidedIsListed'
  BY <1>1 DEF StoreSound, MarksVouch, BytesAreBound, DecidedIsListed
<1>4. CommitIsJournaled'
  BY <1>1 DEF StoreSound, CommitIsJournaled, LatestState
<1>5. OwedIsWritten' /\ AbandonedIsWarranted'
  BY <1>1 DEF StoreSound, OwedIsWritten, AbandonedIsWarranted
<1> QED
  BY <1>2, <1>3, <1>4, <1>5 DEF StoreSound

\* The one process moves to x, whatever it writes.
LEMMA StoreMoves ==
    ASSUME NEW p, Procs = {p}, DOMAIN proc = Procs, NEW x, proc' = [proc EXCEPT ![p] = x],
           StoreSound', Sound(x)'
    PROVE  SagaInv'
<1>1. DOMAIN proc' = Procs /\ proc'[p] = x
  OBVIOUS
<1>2. Sound(proc[p])'
  BY <1>1 DEF Sound, OnItsCandidate, BytesInHand, OutcomeInHand, OwedInHand, SweepInHand, IdleIsIdle
<1>3. (\A q \in Procs : Sound(proc[q]))'
  BY <1>2
<1> QED
  BY <1>1, <1>3 DEF SagaInv

\* It moves to x and writes nothing.
LEMMA ProcMoves ==
    ASSUME NEW p, Procs = {p}, SagaInv, UNCHANGED store, NEW x, Sound(x),
           proc' = [proc EXCEPT ![p] = x]
    PROVE  SagaInv'
<1>1. UNCHANGED Ledgers /\ due' = due
  BY DEF store, Ledgers
<1>2. Sound(x)'
  BY <1>1, SoundStays
<1>3. StoreSound'
  BY <1>1, StoreStays DEF SagaInv, StoreSound, StoreTyped
<1> QED
  BY <1>2, <1>3, StoreMoves DEF SagaInv

\* What is known of the one process.
LEMMA TheProcess ==
    ASSUME NEW p, Procs = {p}, SagaInv
    PROVE  proc[p] \in Process /\ Sound(proc[p]) /\ StoreSound /\ DOMAIN proc = Procs
BY DEF SagaInv, Sound

\* The store changes, what the process relies on does not, nor does it move.
LEMMA ProcStays ==
    ASSUME NEW p, Procs = {p}, SagaInv, StoreSound', UNCHANGED proc,
           UNCHANGED <<journal, reserved, events, index, apologies, abandoned, orphanEvents>>
    PROVE  SagaInv'
<1>1. PICK x : x = proc[p]
  OBVIOUS
<1>2. Sound(x)
  BY <1>1, TheProcess
<1>3. Sound(x)'
  BY <1>2, SoundDecides
<1>4. Sound(proc[p])'
  BY <1>1, <1>3 DEF Sound, OnItsCandidate, BytesInHand, OutcomeInHand, OwedInHand, SweepInHand, IdleIsIdle
<1>5. DOMAIN proc' = Procs /\ (\A q \in Procs : Sound(proc[q]))'
  BY <1>4, TheProcess
<1> QED
  BY <1>5 DEF SagaInv

\* It goes to a step and a phase, with all else it carries.
LEMMA GoneOn ==
    ASSUME NEW p, Procs = {p}, SagaInv, NEW s \in StepNames, NEW ph \in Phases, Goto(p, s, ph)
    PROVE  \E x \in Process : /\ proc' = [proc EXCEPT ![p] = x]
                              /\ x.step = s /\ x.phase = ph /\ Carries(x, proc[p])
<1>1. PICK r \in Process : r = proc[p]
  BY TheProcess
<1>2. PICK x : x = [r EXCEPT !.step = s, !.phase = ph]
  OBVIOUS
<1>4. x \in Process
  BY <1>2 DEF Process, StepNames, Phases
<1>5. x.step = s /\ x.phase = ph /\ Carries(x, r)
  BY <1>2 DEF Process, Carries
<1>3. proc' = [proc EXCEPT ![p] = x]
  BY <1>1, <1>2, TheProcess DEF Goto
<1> QED
  BY <1>1, <1>3, <1>4, <1>5

-----------------------------------------------------------------------------
(* Steps that write nothing *)

\* It moves to the start or the end of a candidate.
LEMMA RestMoves ==
    ASSUME NEW p, Procs = {p}, SagaInv, UNCHANGED store, NEW x \in Process, Resting(x),
           proc' = [proc EXCEPT ![p] = x]
    PROVE  SagaInv'
BY RestingIsSound, ProcMoves

\* It ends.
LEMMA IdleMoves ==
    ASSUME NEW p, Procs = {p}, SagaInv, UNCHANGED store, proc' = [proc EXCEPT ![p] = Idle]
    PROVE  SagaInv'
<1>1. PICK x : x = Idle
  OBVIOUS
<1>2. Sound(x) /\ proc' = [proc EXCEPT ![p] = x]
  BY <1>1, IdleIsSound
<1> QED
  BY <1>2, ProcMoves

\* A checkpoint starts (checkpoint_internal).
LEMMA CheckpointKeeps ==
    ASSUME NEW p, Procs = {p}, SagaInv, Checkpoint(p)
    PROVE  SagaInv'
<1>1. PICK T : T = {c \in Candidates : ~Settled(c)}
  OBVIOUS
<1>2. proc[p] = Idle
  BY TheProcess DEF Checkpoint, AtStep, Sound, IdleIsIdle
<1>3. PICK x : x = [Idle EXCEPT !.step = "target", !.todo = T]
  OBVIOUS
<1>4. proc' = [proc EXCEPT ![p] = x]
  BY <1>1, <1>2, <1>3, TheProcess DEF Checkpoint
<1>5. x \in Process
  BY <1>1, <1>3 DEF Idle, Process, Transitions, Outcomes
<1>6. Resting(x)
  BY <1>3 DEF Resting, Idle
<1> QED
  BY <1>4, <1>5, <1>6, RestMoves DEF Checkpoint

\* The admission of another session's candidate starts.
LEMMA OtherAdmissionKeeps ==
    ASSUME NEW p, Procs = {p}, SagaInv, OtherAdmission(p)
    PROVE  SagaInv'
<1>2. proc[p] = Idle
  BY TheProcess DEF OtherAdmission, AtStep, Sound, IdleIsIdle
<1>3. PICK x : x = [Idle EXCEPT !.step = "recover", !.rec = Candidates]
  OBVIOUS
<1>4. proc' = [proc EXCEPT ![p] = x]
  BY <1>2, <1>3, TheProcess DEF OtherAdmission
<1>5. x \in Process
  BY <1>3 DEF Idle, Process, Transitions, Outcomes
<1>6. Resting(x)
  BY <1>3 DEF Resting, Idle
<1> QED
  BY <1>4, <1>5, <1>6, RestMoves DEF OtherAdmission

\* Candidates and byte strings are numbers, so that they have least members.
LEMMA CandidatesAreNumbers == Candidates \in SUBSET Nat /\ Bytes \in SUBSET Nat /\ None \notin Bytes
BY CandidatesAssumption DEF Candidates, Bytes, None

\* The next candidate of the checkpoint is taken up.
LEMMA NextTargetKeeps ==
    ASSUME NEW p, Procs = {p}, SagaInv, NextTarget(p)
    PROVE  SagaInv'
<1>1. PICK r \in Process : r = proc[p] /\ Sound(r)
  BY TheProcess
<1>2. r.step = "target" /\ UNCHANGED store
  BY <1>1 DEF NextTarget, AtStep
<1>3. CASE r.todo = {}
  <2>1. proc' = [proc EXCEPT ![p] = Idle]
    BY <1>1, <1>3 DEF NextTarget
  <2> QED
    BY <1>2, <2>1, IdleMoves
<1>4. CASE r.todo # {}
  <2>1. PICK c : c = Min(r.todo)
    OBVIOUS
  <2>2. c \in Candidates
    <3>1. r.todo \in SUBSET Nat /\ r.todo \subseteq Candidates
      BY ProcessFields, CandidatesAreNumbers
    <3> QED
      BY <1>4, <2>1, <3>1, MinIsMember
  <2>3. PICK x : x = [r EXCEPT !.step = "recover", !.target = c, !.rec = Candidates \ {c}]
    OBVIOUS
  <2>4. proc' = [proc EXCEPT ![p] = x]
    BY <1>1, <1>4, <2>1, <2>3 DEF NextTarget
  <2>5. x \in Process
    BY <2>2, <2>3 DEF Process
  <2>6. r.owed = {} /\ r.siblings = {}
    BY <1>1, <1>2 DEF Sound, OwedInHand, DivergingSteps
  <2>7. Resting(x)
    BY <2>3, <2>6 DEF Resting, Process
  <2> QED
    BY <1>2, <2>4, <2>5, <2>7, RestMoves
<1> QED
  BY <1>3, <1>4

\* An unfinished journal is carried forward or passed by (recover_fanout_journal).
LEMMA RecoverKeeps ==
    ASSUME NEW p, Procs = {p}, SagaInv, Recover(p)
    PROVE  SagaInv'
<1>1. PICK r \in Process : r = proc[p] /\ Sound(r)
  BY TheProcess
<1>2. r.step = "recover" /\ UNCHANGED store
  BY <1>1 DEF Recover, AtStep
<1>3. r.owed = {} /\ r.siblings = {}
  BY <1>1, <1>2 DEF Sound, OwedInHand, DivergingSteps
<1>a. ASSUME NEW c \in Candidates, proc' = [proc EXCEPT ![p] = [r EXCEPT !.step = "bind", !.current = c]]
      PROVE  SagaInv'
  <2>1. PICK x : x = [r EXCEPT !.step = "bind", !.current = c]
    OBVIOUS
  <2>2. x \in Process
    BY <2>1 DEF Process
  <2>3. Resting(x)
    BY <1>3, <2>1 DEF Resting, Process
  <2> QED
    BY <1>a, <1>2, <2>1, <2>2, <2>3, RestMoves
<1>4. CASE r.rec = {} /\ r.target = None
  <2>1. proc' = [proc EXCEPT ![p] = Idle]
    BY <1>1, <1>4 DEF Recover
  <2> QED
    BY <1>2, <2>1, IdleMoves
<1>5. CASE r.rec = {} /\ r.target # None
  <2>1. r.target \in Candidates
    BY <1>5, ProcessFields
  <2>2. proc' = [proc EXCEPT ![p] = [r EXCEPT !.step = "bind", !.current = r.target]]
    BY <1>1, <1>5 DEF Recover
  <2> QED
    BY <1>a, <2>1, <2>2
<1>6. CASE r.rec # {}
  <2>1. PICK c : c = Min(r.rec)
    OBVIOUS
  <2>2. c \in Candidates
    <3>1. r.rec \in SUBSET Nat /\ r.rec \subseteq Candidates
      BY ProcessFields, CandidatesAreNumbers
    <3> QED
      BY <1>6, <2>1, <3>1, MinIsMember
  <2>3. CASE Recoverable(r, c)
    <3>1. proc' = [proc EXCEPT ![p] = [r EXCEPT !.step = "bind", !.current = c]]
      BY <1>1, <1>6, <2>1, <2>3 DEF Recover
    <3> QED
      BY <1>a, <2>2, <3>1
  <2>4. CASE ~Recoverable(r, c)
    <3>1. PICK x : x = [r EXCEPT !.rec = @ \ {c}]
      OBVIOUS
    <3>2. proc' = [proc EXCEPT ![p] = x]
      BY <1>1, <1>6, <2>1, <2>4, <3>1 DEF Recover
    <3>3. x \in Process
      BY <3>1 DEF Process
    <3>4. Resting(x)
      BY <1>2, <1>3, <3>1 DEF Resting, Process
    <3> QED
      BY <1>2, <3>2, <3>3, <3>4, RestMoves
  <2> QED
    BY <2>3, <2>4
<1> QED
  BY <1>4, <1>5, <1>6

\* The bounded wait for the admission lock ends.
LEMMA LockTimeoutKeeps ==
    ASSUME NEW p, Procs = {p}, SagaInv, LockTimeout(p)
    PROVE  SagaInv'
<1>1. PICK r \in Process : r = proc[p]
  BY TheProcess
<1>2. PICK x : x = LeaveTarget(r)
  OBVIOUS
<1>3. x \in Process /\ Resting(x)
  BY <1>2, LeavingRests
<1>4. proc' = [proc EXCEPT ![p] = Idle] \/ proc' = [proc EXCEPT ![p] = x]
  BY <1>1, <1>2, TheProcess DEF LockTimeout
<1> QED
  BY <1>3, <1>4, RestMoves, IdleMoves DEF LockTimeout

\* The answer of a Codebase admission is read and returned.
LEMMA SummaryKeeps ==
    ASSUME NEW p, Procs = {p}, SagaInv, Summary(p)
    PROVE  SagaInv'
<1>1. PICK r \in Process : r = proc[p]
  BY TheProcess
<1>2. PICK x : x = IF r.bytes \in receipts[r.current] THEN Returned(r, "committed") ELSE LeaveTarget(r)
  OBVIOUS
<1>3. x \in Process /\ Resting(x)
  BY <1>2, LeavingRests, ReturningRests
<1>4. proc' = [proc EXCEPT ![p] = x]
  BY <1>1, <1>2 DEF Summary
<1> QED
  BY <1>3, <1>4, RestMoves DEF Summary

\* The process dies, wherever it is.
LEMMA CrashKeeps ==
    ASSUME NEW p, Procs = {p}, SagaInv, Crash(p)
    PROVE  SagaInv'
BY IdleMoves DEF Crash

\* The bytes of the attempt: the bound ones, or fresh ones (reserve_nonce).
LEMMA BindKeeps ==
    ASSUME NEW p, Procs = {p}, SagaInv, Bind(p)
    PROVE  SagaInv'
<1>1. PICK r \in Process : r = proc[p] /\ Sound(r)
  BY TheProcess
<1>2. r.step = "bind" /\ r.phase = "check" /\ UNCHANGED store
  BY <1>1 DEF Bind, AtStep
<1>3. PICK c : c = r.current
  OBVIOUS
<1>4. PICK b : b = IF journal[c].bytes # None THEN journal[c].bytes
                   ELSE Min(Bytes \ KnownBytes(c))
  OBVIOUS
<1>5. c \in Candidates /\ journal[c].bytes \in Bytes \cup {None}
  BY <1>1, <1>2, <1>3, TheProcess DEF Sound, OnItsCandidate, StoreSound, StoreTyped, Marker
<1>6. b \in Bytes /\ journal[c].bytes \in {None, b}
  <2>1. CASE journal[c].bytes # None
    BY <1>4, <1>5, <2>1
  <2>2. CASE journal[c].bytes = None
    <3>1. Bytes \ KnownBytes(c) # {}
      BY <1>1, <1>3, <2>2 DEF Bind
    <3>2. PICK S : S = Bytes \ KnownBytes(c)
      OBVIOUS
    <3>3. S \in SUBSET Nat /\ S # {}
      BY <3>1, <3>2, CandidatesAreNumbers
    <3>4. Min(S) \in S
      BY <3>3, MinIsMember
    <3> QED
      BY <1>4, <2>2, <3>2, <3>4
  <2> QED
    BY <2>1, <2>2
<1>7. PICK x : x = [r EXCEPT !.bytes = b, !.step = "reservation"]
  OBVIOUS
<1>8. proc' = [proc EXCEPT ![p] = x]
  BY <1>1, <1>3, <1>4, <1>7 DEF Bind
<1>9. x \in Process
  BY <1>6, <1>7 DEF Process, Transitions
<1>10. /\ x.step = "reservation" /\ x.phase = "check" /\ x.bytes = b /\ x.current = c
       /\ x.owed = {} /\ x.siblings = {} /\ x.sweep \subseteq Apologies
  BY <1>1, <1>2, <1>3, <1>7 DEF Process, Sound, OwedInHand, SweepInHand, DivergingSteps
<1>11. Sound(x)
  BY <1>5, <1>6, <1>9, <1>10, CandidatesAreNumbers
  DEF Sound, OnItsCandidate, BytesInHand, OutcomeInHand, OwedInHand, SweepInHand, IdleIsIdle,
      CodebaseSteps, CompanySteps, PostingSteps, DivergingSteps
<1> QED
  BY <1>2, <1>8, <1>11, ProcMoves

\* A transition with a complete marker is skipped, since the marker vouches for it.
LEMMA CheckMarkerKeeps ==
    ASSUME NEW p, Procs = {p}, SagaInv, CheckMarker(p)
    PROVE  SagaInv'
<1>1. PICK r \in Process : r = proc[p] /\ Sound(r)
  BY TheProcess
<1>2. /\ r.step \in {"reservation", "append", "manifest", "receipt"} /\ r.phase = "check"
      /\ UNCHANGED store
  BY <1>1 DEF CheckMarker
<1>3. PICK c : c = r.current
  OBVIOUS
<1>4. c \in Candidates /\ (r.step # "reservation" => c \in CodebaseCandidates)
  BY <1>1, <1>2, <1>3 DEF Sound, OnItsCandidate, CodebaseSteps, Candidates
<1>5. r.owed = {} /\ r.siblings = {} /\ r.sweep \subseteq Apologies
  BY <1>1, <1>2 DEF Sound, OwedInHand, SweepInHand, DivergingSteps
<1>6. CASE journal[c].mark[r.step] = "complete"
  <2>1. PICK s : s = After(r)
    OBVIOUS
  <2>2. Goto(p, s, "check")
    BY <1>1, <1>3, <1>6, <2>1 DEF CheckMarker
  <2>3. \/ r.step = "reservation" /\ s = "append" /\ c \in CodebaseCandidates
        \/ r.step = "reservation" /\ s = "replay" /\ c \in CompanyCandidates
        \/ r.step = "append" /\ s = "manifest"
        \/ r.step = "manifest" /\ s = "receipt"
        \/ r.step = "receipt" /\ s = "summary"
    BY <1>2, <1>3, <1>4, <2>1 DEF After, Candidates
  <2>4. s \in StepNames /\ "check" \in Phases
    BY <2>3 DEF StepNames, Transitions, Phases
  <2>5. PICK x \in Process : /\ proc' = [proc EXCEPT ![p] = x]
                             /\ x.step = s /\ x.phase = "check" /\ Carries(x, proc[p])
    BY <2>2, <2>4, GoneOn
  <2>6. x.current = c /\ x.bytes = r.bytes /\ x.owed = {} /\ x.siblings = {} /\ x.sweep \subseteq Apologies
    BY <1>1, <1>3, <1>5, <2>5 DEF Carries
  <2>7. /\ r.bytes # None /\ journal[c].bytes = r.bytes /\ r.bytes \in reserved[c]
        /\ s \in {"manifest", "receipt"} => r.bytes \in events[c]
        /\ s = "receipt" => r.bytes \in index[c]
    BY <1>1, <1>2, <1>3, <1>4, <1>6, <2>3, TheProcess
    DEF Sound, BytesInHand, CodebaseSteps, StoreSound, MarksVouch
  <2>8. Sound(x)
    BY <1>4, <2>3, <2>5, <2>6, <2>7
    DEF Sound, OnItsCandidate, BytesInHand, OutcomeInHand, OwedInHand, SweepInHand, IdleIsIdle,
        CodebaseSteps, CompanySteps, PostingSteps, DivergingSteps
  <2> QED
    BY <1>2, <2>5, <2>8, ProcMoves
<1>7. CASE journal[c].mark[r.step] # "complete"
  <2>1. PICK s : s = r.step
    OBVIOUS
  <2>2. Goto(p, s, "lock")
    BY <1>1, <1>3, <1>7, <2>1 DEF CheckMarker
  <2>4. s \in StepNames /\ "lock" \in Phases
    BY <1>2, <2>1 DEF StepNames, Transitions, Phases
  <2>5. PICK x \in Process : /\ proc' = [proc EXCEPT ![p] = x]
                             /\ x.step = s /\ x.phase = "lock" /\ Carries(x, proc[p])
    BY <2>2, <2>4, GoneOn
  <2>6. x.current = c /\ x.bytes = r.bytes /\ x.owed = {} /\ x.siblings = {} /\ x.sweep \subseteq Apologies
    BY <1>1, <1>3, <1>5, <2>5 DEF Carries
  <2>8. Sound(x)
    BY <1>1, <1>2, <1>3, <1>4, <2>1, <2>5, <2>6
    DEF Sound, OnItsCandidate, BytesInHand, OutcomeInHand, OwedInHand, SweepInHand, IdleIsIdle,
        CodebaseSteps, CompanySteps, PostingSteps, DivergingSteps
  <2> QED
    BY <1>2, <2>5, <2>8, ProcMoves
<1> QED
  BY <1>6, <1>7

\* The siblings that hold a commit are owed an apology, and all are still ahead.
LEMMA DivergeKeeps ==
    ASSUME NEW p, Procs = {p}, SagaInv, Diverge(p)
    PROVE  SagaInv'
<1>1. PICK r \in Process : r = proc[p] /\ Sound(r)
  BY TheProcess
<1>2. r.step = "diverge" /\ UNCHANGED store
  BY <1>1 DEF Diverge, AtStep
<1>3. PICK T : T = CommittedSiblings(r.current)
  OBVIOUS
<1>4. T \subseteq Candidates \ {r.current}
  BY <1>3 DEF CommittedSiblings
<1>5. PICK x : x = [r EXCEPT !.siblings = T, !.owed = T, !.step = "siblings"]
  OBVIOUS
<1>6. proc' = [proc EXCEPT ![p] = x]
  BY <1>1, <1>3, <1>5 DEF Diverge
<1>7. x \in Process
  BY <1>4, <1>5 DEF Process
<1>8. /\ x.step = "siblings" /\ x.current = r.current /\ x.bytes = r.bytes /\ x.outcome = r.outcome
      /\ x.owed = T /\ x.siblings = T /\ x.sweep = r.sweep
  BY <1>5 DEF Process
<1>9. Sound(x)
  BY <1>1, <1>2, <1>4, <1>7, <1>8
  DEF Sound, OnItsCandidate, BytesInHand, OutcomeInHand, OwedInHand, SweepInHand, IdleIsIdle,
      CodebaseSteps, CompanySteps, PostingSteps, DivergingSteps
<1> QED
  BY <1>2, <1>6, <1>9, ProcMoves

\* A sibling is passed only with its apology written.
LEMMA NextSiblingKeeps ==
    ASSUME NEW p, Procs = {p}, SagaInv, NextSibling(p)
    PROVE  SagaInv'
<1>1. PICK r \in Process : r = proc[p] /\ Sound(r)
  BY TheProcess
<1>2. r.step = "siblings" /\ UNCHANGED store
  BY <1>1 DEF NextSibling, AtStep
<1>3. CASE r.siblings = {}
  <2>1. PICK x : x = [r EXCEPT !.step = "outcome", !.phase = "lock"]
    OBVIOUS
  <2>2. proc' = [proc EXCEPT ![p] = x]
    BY <1>1, <1>3, <2>1 DEF NextSibling
  <2>3. x \in Process
    BY <2>1 DEF Process
  <2>4. /\ x.step = "outcome" /\ x.phase = "lock" /\ x.current = r.current /\ x.bytes = r.bytes
        /\ x.outcome = r.outcome /\ x.owed = r.owed /\ x.siblings = r.siblings /\ x.sweep = r.sweep
    BY <2>1 DEF Process
  <2>5. Sound(x)
    BY <1>1, <1>2, <1>3, <2>3, <2>4
    DEF Sound, OnItsCandidate, BytesInHand, OutcomeInHand, OwedInHand, SweepInHand, IdleIsIdle,
        CodebaseSteps, CompanySteps, PostingSteps, DivergingSteps, Outcomes
  <2> QED
    BY <1>2, <2>2, <2>5, ProcMoves
<1>4. CASE r.siblings # {}
  <2>1. PICK m : m = Min(r.siblings)
    OBVIOUS
  <2>2. CASE ApologyOwed(r.current, m)
    <3>1. PICK x : x = [r EXCEPT !.step = "apology", !.phase = "lock"]
      OBVIOUS
    <3>2. proc' = [proc EXCEPT ![p] = x]
      BY <1>1, <1>4, <2>1, <2>2, <3>1 DEF NextSibling
    <3>3. x \in Process
      BY <3>1 DEF Process, Transitions
    <3>4. /\ x.step = "apology" /\ x.phase = "lock" /\ x.current = r.current /\ x.bytes = r.bytes
          /\ x.outcome = r.outcome /\ x.owed = r.owed /\ x.siblings = r.siblings /\ x.sweep = r.sweep
      BY <3>1 DEF Process
    <3>5. Sound(x)
      BY <1>1, <1>2, <1>4, <3>3, <3>4
      DEF Sound, OnItsCandidate, BytesInHand, OutcomeInHand, OwedInHand, SweepInHand, IdleIsIdle,
          CodebaseSteps, CompanySteps, PostingSteps, DivergingSteps, Outcomes
    <3> QED
      BY <1>2, <3>2, <3>5, ProcMoves
  <2>3. CASE ~ApologyOwed(r.current, m)
    <3>1. PICK x : x = [r EXCEPT !.siblings = @ \ {m}]
      OBVIOUS
    <3>2. proc' = [proc EXCEPT ![p] = x]
      BY <1>1, <1>4, <2>1, <2>3, <3>1 DEF NextSibling
    <3>3. x \in Process
      BY <3>1 DEF Process
    <3>4. /\ x.step = r.step /\ x.phase = r.phase /\ x.current = r.current /\ x.bytes = r.bytes
          /\ x.outcome = r.outcome /\ x.owed = r.owed /\ x.siblings = r.siblings \ {m}
          /\ x.sweep = r.sweep
      BY <3>1 DEF Process
    <3>5. apologies[<<r.current, m>>] # "none"
      BY <2>3 DEF ApologyOwed
    <3>6. OwedInHand(x)
      BY <1>1, <1>2, <3>4, <3>5 DEF Sound, OwedInHand, DivergingSteps
    <3>7. Sound(x)
      BY <1>1, <1>2, <3>3, <3>4, <3>6
      DEF Sound, OnItsCandidate, BytesInHand, OutcomeInHand, SweepInHand, IdleIsIdle,
          CodebaseSteps, CompanySteps, PostingSteps, DivergingSteps
    <3> QED
      BY <1>2, <3>2, <3>7, ProcMoves
  <2> QED
    BY <2>2, <2>3
<1> QED
  BY <1>3, <1>4

\* A sweep takes the overdue apologies it read (emit_due_orphan_abandonments).
LEMMA StartSweepKeeps ==
    ASSUME NEW p, Procs = {p}, SagaInv, StartSweep(p)
    PROVE  SagaInv'
<1>1. PICK r \in Process : r = proc[p] /\ Sound(r)
  BY TheProcess
<1>2. r.step = "idle" /\ UNCHANGED store
  BY <1>1 DEF StartSweep, AtStep
<1>3. PICK T : T = Overdue
  OBVIOUS
<1>4. T \subseteq Apologies /\ T # {}
  BY <1>3, TheProcess DEF StartSweep, Overdue, StoreSound, StoreTyped
<1>5. PICK x : x = [r EXCEPT !.step = "sweep", !.phase = "lock", !.sweep = T]
  OBVIOUS
<1>6. proc' = [proc EXCEPT ![p] = x]
  BY <1>1, <1>3, <1>5 DEF StartSweep
<1>7. x \in Process
  BY <1>4, <1>5 DEF Process
<1>8. x.step = "sweep" /\ x.phase = "lock" /\ x.owed = {} /\ x.siblings = {} /\ x.sweep = T
  BY <1>1, <1>2, <1>5 DEF Process, Sound, OwedInHand, DivergingSteps
<1>9. Sound(x)
  BY <1>4, <1>7, <1>8
  DEF Sound, OnItsCandidate, BytesInHand, OutcomeInHand, OwedInHand, SweepInHand, IdleIsIdle,
      CodebaseSteps, CompanySteps, PostingSteps, DivergingSteps
<1> QED
  BY <1>2, <1>6, <1>9, ProcMoves

\* The sweep has the lock.
LEMMA LockSweepKeeps ==
    ASSUME NEW p, Procs = {p}, SagaInv, LockSweep(p)
    PROVE  SagaInv'
<1>1. PICK r \in Process : r = proc[p] /\ Sound(r)
  BY TheProcess
<1>2. r.step = "sweep" /\ UNCHANGED store /\ Goto(p, "sweep", "effect")
  BY <1>1 DEF LockSweep, AtStep
<1>3. "sweep" \in StepNames /\ "effect" \in Phases
  BY DEF StepNames, Phases
<1>4. PICK x \in Process : /\ proc' = [proc EXCEPT ![p] = x]
                           /\ x.step = "sweep" /\ x.phase = "effect" /\ Carries(x, proc[p])
  BY <1>2, <1>3, GoneOn
<1>5. Sound(x)
  BY <1>1, <1>2, <1>4
  DEF Sound, Carries, OnItsCandidate, BytesInHand, OutcomeInHand, OwedInHand, SweepInHand, IdleIsIdle,
      CodebaseSteps, CompanySteps, PostingSteps, DivergingSteps
<1> QED
  BY <1>2, <1>4, <1>5, ProcMoves

-----------------------------------------------------------------------------
(* Steps that write the journal *)

\* What the journal of a candidate may say beside the rest of the store.
JournalFits(c, j) ==
    /\ j \in Marker /\ j.owed \subseteq Candidates \ {c}
    /\ j.mark["reservation"] = "complete" => j.bytes # None /\ j.bytes \in reserved[c]
    /\ j.mark["append"] = "complete" => j.bytes \in events[c]
    /\ j.mark["manifest"] = "complete" => j.bytes \in index[c]
    /\ events[c] \cup company.log[c] \cup company.queue[c] \subseteq {j.bytes}
    /\ c \in CompanyCandidates =>
         /\ LatestState(c) = "committed" => TerminalReceipt(j) /\ j.outcome = "committed"
         /\ TerminalReceipt(j) /\ j.outcome = "committed" =>
              \A a \in Apologies : a[1] = c => apologies[a] # "awaiting"
         /\ \A s \in j.owed : apologies[<<c, s>>] # "none"

\* The journal of every candidate fits what else exists of it.
LEMMA JournalIsFit ==
    ASSUME StoreSound, NEW c \in Candidates
    PROVE  JournalFits(c, journal[c])
<1>1. journal[c] \in Marker /\ journal[c].owed \subseteq Candidates \ {c}
  BY DEF StoreSound, StoreTyped
<1>2. /\ journal[c].mark["reservation"] = "complete" =>
           journal[c].bytes # None /\ journal[c].bytes \in reserved[c]
      /\ journal[c].mark["append"] = "complete" => journal[c].bytes \in events[c]
      /\ journal[c].mark["manifest"] = "complete" => journal[c].bytes \in index[c]
  BY DEF StoreSound, MarksVouch
<1>3. events[c] \cup company.log[c] \cup company.queue[c] \subseteq {journal[c].bytes}
  BY DEF StoreSound, BytesAreBound
<1>4. c \in CompanyCandidates =>
         /\ LatestState(c) = "committed" =>
              TerminalReceipt(journal[c]) /\ journal[c].outcome = "committed"
         /\ TerminalReceipt(journal[c]) /\ journal[c].outcome = "committed" =>
              \A a \in Apologies : a[1] = c => apologies[a] # "awaiting"
  BY DEF StoreSound, CommitIsJournaled
<1>5. c \in CompanyCandidates => \A s \in journal[c].owed : apologies[<<c, s>>] # "none"
  BY DEF StoreSound, OwedIsWritten
<1> QED
  BY <1>1, <1>2, <1>3, <1>4, <1>5 DEF JournalFits

\* The store stays sound when one candidate's journal is replaced by one that fits.
LEMMA JournalMoves ==
    ASSUME StoreSound, NEW c \in Candidates, NEW j, JournalFits(c, j),
           journal' = [journal EXCEPT ![c] = j],
           UNCHANGED <<reserved, events, index, decided, apologies, due, abandoned,
                       orphanEvents, company>>
    PROVE  StoreSound'
<1>1. /\ journal' \in [Candidates -> Marker] /\ journal'[c] = j
      /\ \A d \in Candidates \ {c} : journal'[d] = journal[d]
  BY DEF StoreSound, StoreTyped, JournalFits
<1>2. StoreTyped'
  BY <1>1 DEF StoreSound, StoreTyped, JournalFits
<1>3. MarksVouch'
  BY <1>1 DEF StoreSound, MarksVouch, JournalFits
<1>4. BytesAreBound'
  <2> SUFFICES ASSUME NEW d \in Candidates
               PROVE  /\ events[d] \cup company.log[d] \cup company.queue[d]
                           \subseteq reserved[d] \cap {journal'[d].bytes}
                      /\ index[d] \subseteq events[d]
    BY DEF BytesAreBound
  <2> QED
    BY <1>1 DEF StoreSound, BytesAreBound, JournalFits
<1>5. DecidedIsListed'
  BY DEF StoreSound, DecidedIsListed
<1>6. CommitIsJournaled'
  BY <1>1 DEF StoreSound, CommitIsJournaled, LatestState, JournalFits
<1>7. OwedIsWritten'
  <2> SUFFICES ASSUME NEW d \in CompanyCandidates, NEW s \in journal'[d].owed
               PROVE  apologies[<<d, s>>] # "none"
    BY DEF OwedIsWritten
  <2>1. d \in Candidates
    BY DEF Candidates
  <2> QED
    BY <1>1, <2>1 DEF StoreSound, OwedIsWritten, JournalFits
<1>8. AbandonedIsWarranted'
  BY DEF StoreSound, AbandonedIsWarranted
<1> QED
  BY <1>2, <1>3, <1>4, <1>5, <1>6, <1>7, <1>8 DEF StoreSound

\* A journal in which a transition has begun.
LEMMA BegunFields ==
    ASSUME NEW j \in Marker, NEW t \in Transitions, NEW b \in Bytes
    PROVE  \E k \in Marker :
             /\ k = Begun(j, t, b)
             /\ k.bytes = IF t = "reservation" /\ j.bytes = None THEN b ELSE j.bytes
             /\ \A u \in Transitions : k.mark[u] = "complete" <=> j.mark[u] = "complete"
             /\ k.outcome = j.outcome /\ k.answered = j.answered /\ k.owed = j.owed
<1>1. PICK m : m = [j.mark EXCEPT ![t] = IF @ = "complete" THEN @ ELSE "begun"]
  OBVIOUS
<1>2. j.mark \in [Transitions -> MarkerState]
  BY DEF Marker
<1>3. /\ m \in [Transitions -> MarkerState]
      /\ \A u \in Transitions : m[u] = "complete" <=> j.mark[u] = "complete"
  BY <1>1, <1>2 DEF MarkerState
<1>4. PICK c : c = IF t = "reservation" /\ j.bytes = None THEN b ELSE j.bytes
  OBVIOUS
<1>5. PICK k : k = [j EXCEPT !.mark = m, !.bytes = c]
  OBVIOUS
<1>6. k = Begun(j, t, b)
  <2>1. m = [j.mark EXCEPT ![t] = IF j.mark[t] = "complete" THEN "complete" ELSE "begun"]
    BY <1>1, <1>2
  <2> QED
    BY <1>4, <1>5, <2>1 DEF Begun
<1>7. c \in Bytes \cup {None}
  BY <1>4 DEF Marker
<1>8. k \in Marker
  BY <1>3, <1>5, <1>7 DEF Marker
<1>9. k.mark = m /\ k.bytes = c /\ k.outcome = j.outcome /\ k.answered = j.answered /\ k.owed = j.owed
  BY <1>5 DEF Marker
<1> QED
  BY <1>3, <1>4, <1>6, <1>8, <1>9

\* A journal in which a transition is complete.
LEMMA CompletedFields ==
    ASSUME NEW j \in Marker, NEW t \in Transitions
    PROVE  \E k \in Marker :
             /\ k = Completed(j, t) /\ k.bytes = j.bytes
             /\ \A u \in Transitions : k.mark[u] = IF u = t THEN "complete" ELSE j.mark[u]
             /\ k.outcome = j.outcome /\ k.answered = j.answered /\ k.owed = j.owed
<1>1. PICK m : m = [j.mark EXCEPT ![t] = "complete"]
  OBVIOUS
<1>2. j.mark \in [Transitions -> MarkerState]
  BY DEF Marker
<1>3. /\ m \in [Transitions -> MarkerState]
      /\ \A u \in Transitions : m[u] = IF u = t THEN "complete" ELSE j.mark[u]
  BY <1>1, <1>2 DEF MarkerState
<1>5. PICK k : k = [j EXCEPT !.mark = m]
  OBVIOUS
<1>6. k = Completed(j, t)
  BY <1>1, <1>5 DEF Completed
<1>8. k \in Marker
  BY <1>3, <1>5 DEF Marker
<1>9. k.mark = m /\ k.bytes = j.bytes /\ k.outcome = j.outcome /\ k.answered = j.answered /\ k.owed = j.owed
  BY <1>5 DEF Marker
<1> QED
  BY <1>3, <1>6, <1>8, <1>9

\* The intent of a transition is written, and binds bytes the first time (begin).
LEMMA BeginTransitionKeeps ==
    ASSUME NEW p, Procs = {p}, SagaInv, BeginTransition(p)
    PROVE  SagaInv'
<1>1. PICK r \in Process : r = proc[p] /\ Sound(r)
  BY TheProcess
<1>2. r.step \in Transitions /\ r.phase = "lock"
  BY <1>1 DEF BeginTransition
<1>3. PICK c : c = r.current
  OBVIOUS
<1>4. /\ c \in Candidates
      /\ r.step \in {"append", "manifest", "receipt"} => c \in CodebaseCandidates
      /\ r.step = "apology" => c \in CompanyCandidates
  BY <1>1, <1>2, <1>3
  DEF Sound, OnItsCandidate, CodebaseSteps, CompanySteps, PostingSteps, Candidates, Transitions
<1>5. PICK j : j = journal[c]
  OBVIOUS
<1>6. JournalFits(c, j) /\ j \in Marker
  BY <1>4, <1>5, TheProcess, JournalIsFit DEF JournalFits
<1>7. r.bytes \in Bytes /\ j.bytes \in {None, r.bytes} /\ (r.step # "reservation" => j.bytes = r.bytes)
  BY <1>1, <1>2, <1>3, <1>5, ProcessFields
  DEF Sound, BytesInHand, CodebaseSteps, CompanySteps, PostingSteps, Transitions
<1>8. PICK k \in Marker :
         /\ k = Begun(j, r.step, r.bytes)
         /\ k.bytes = IF r.step = "reservation" /\ j.bytes = None THEN r.bytes ELSE j.bytes
         /\ \A u \in Transitions : k.mark[u] = "complete" <=> j.mark[u] = "complete"
         /\ k.outcome = j.outcome /\ k.answered = j.answered /\ k.owed = j.owed
  BY <1>2, <1>6, <1>7, BegunFields
<1>9. k.bytes = r.bytes /\ j.bytes \in {None, k.bytes}
  BY <1>7, <1>8
<1>10. TerminalReceipt(k) <=> TerminalReceipt(j)
  BY <1>8 DEF TerminalReceipt, Transitions
<1>11. JournalFits(c, k)
  <2>1. /\ k.mark["reservation"] = "complete" => k.bytes # None /\ k.bytes \in reserved[c]
        /\ k.mark["append"] = "complete" => k.bytes \in events[c]
        /\ k.mark["manifest"] = "complete" => k.bytes \in index[c]
    <3>1. events[c] \subseteq Bytes /\ index[c] \subseteq Bytes /\ reserved[c] \subseteq Bytes
      BY <1>4, TheProcess DEF StoreSound, StoreTyped, BytesOfCandidates
    <3> QED
      BY <1>6, <1>8, <1>9, <3>1, CandidatesAreNumbers DEF JournalFits, Transitions
  <2>2. events[c] \cup company.log[c] \cup company.queue[c] \subseteq {k.bytes}
    <3>1. events[c] \subseteq Bytes /\ company.log[c] \subseteq Bytes /\ company.queue[c] \subseteq Bytes
      BY <1>4, TheProcess DEF StoreSound, StoreTyped, BytesOfCandidates
    <3> QED
      BY <1>6, <1>9, <3>1, CandidatesAreNumbers DEF JournalFits
  <2> QED
    BY <1>6, <1>8, <1>10, <2>1, <2>2 DEF JournalFits
<1>12. journal' = [journal EXCEPT ![c] = k]
  BY <1>1, <1>3, <1>4, <1>5, <1>8, TheProcess DEF BeginTransition, StoreSound, StoreTyped
<1>13. StoreSound' /\ journal'[c] = k
  <2>1. StoreSound'
    BY <1>4, <1>11, <1>12, TheProcess, JournalMoves DEF BeginTransition
  <2> QED
    BY <1>4, <1>12, <2>1, TheProcess DEF StoreSound, StoreTyped
<1>14. PICK t : t = r.step
  OBVIOUS
<1>15. t \in StepNames /\ "effect" \in Phases /\ Goto(p, t, "effect")
  BY <1>1, <1>2, <1>14 DEF StepNames, Phases, BeginTransition
<1>16. PICK x \in Process : /\ proc' = [proc EXCEPT ![p] = x]
                            /\ x.step = t /\ x.phase = "effect" /\ Carries(x, proc[p])
  BY <1>15, GoneOn
<1>17. UNCHANGED <<reserved, events, index, apologies, abandoned, orphanEvents>>
  BY DEF BeginTransition
<1>18. BytesInHand(x)'
  BY <1>1, <1>2, <1>3, <1>7, <1>9, <1>13, <1>14, <1>16, <1>17
  DEF Sound, Carries, BytesInHand, Transitions, CodebaseSteps, CompanySteps, PostingSteps
<1>19. OutcomeInHand(x)'
  BY <1>1, <1>2, <1>3, <1>5, <1>10, <1>13, <1>14, <1>16, <1>17
  DEF Sound, Carries, OutcomeInHand, Transitions, PostingSteps
<1>20. OwedInHand(x)' /\ SweepInHand(x)'
  BY <1>1, <1>2, <1>14, <1>16, <1>17
  DEF Sound, Carries, OwedInHand, SweepInHand, Transitions, DivergingSteps
<1>21. OnItsCandidate(x) /\ IdleIsIdle(x)
  BY <1>1, <1>2, <1>14, <1>16 DEF Sound, Carries, OnItsCandidate, IdleIsIdle, Transitions
<1>22. Sound(x)'
  BY <1>16, <1>18, <1>19, <1>20, <1>21 DEF Sound, OnItsCandidate, IdleIsIdle
<1> QED
  BY <1>13, <1>16, <1>22, TheProcess, StoreMoves

\* A marker is completed after its effect, and vouches for it from then on.
LEMMA CompleteTransitionKeeps ==
    ASSUME NEW p, Procs = {p}, SagaInv, CompleteTransition(p)
    PROVE  SagaInv'
<1>1. PICK r \in Process : r = proc[p] /\ Sound(r)
  BY TheProcess
<1>2. r.step \in {"reservation", "append", "manifest", "apology"} /\ r.phase = "complete"
  BY <1>1 DEF CompleteTransition
<1>3. PICK c : c = r.current
  OBVIOUS
<1>4. /\ c \in Candidates
      /\ r.step \in {"append", "manifest"} => c \in CodebaseCandidates
      /\ r.step = "apology" => c \in CompanyCandidates
  BY <1>1, <1>2, <1>3
  DEF Sound, OnItsCandidate, CodebaseSteps, CompanySteps, PostingSteps, Candidates
<1>5. PICK j : j = journal[c]
  OBVIOUS
<1>6. JournalFits(c, j) /\ j \in Marker
  BY <1>4, <1>5, TheProcess, JournalIsFit DEF JournalFits
<1>7. /\ r.bytes # None /\ j.bytes = r.bytes /\ r.bytes \in reserved[c]
      /\ r.step \in {"append", "manifest"} => r.bytes \in events[c]
      /\ r.step = "manifest" => r.bytes \in index[c]
  BY <1>1, <1>2, <1>3, <1>5
  DEF Sound, BytesInHand, CodebaseSteps, CompanySteps, PostingSteps
<1>8. PICK k \in Marker :
         /\ k = Completed(j, r.step) /\ k.bytes = j.bytes
         /\ \A u \in Transitions : k.mark[u] = IF u = r.step THEN "complete" ELSE j.mark[u]
         /\ k.outcome = j.outcome /\ k.answered = j.answered /\ k.owed = j.owed
  <2>1. r.step \in Transitions
    BY <1>2 DEF Transitions
  <2> QED
    BY <1>6, <2>1, CompletedFields
<1>10. TerminalReceipt(k) <=> TerminalReceipt(j)
  BY <1>2, <1>8 DEF TerminalReceipt, Transitions
<1>11. JournalFits(c, k)
  <2>1. /\ k.mark["reservation"] = "complete" => k.bytes # None /\ k.bytes \in reserved[c]
        /\ k.mark["append"] = "complete" => k.bytes \in events[c]
        /\ k.mark["manifest"] = "complete" => k.bytes \in index[c]
    BY <1>2, <1>6, <1>7, <1>8 DEF JournalFits, Transitions
  <2> QED
    BY <1>6, <1>8, <1>10, <2>1 DEF JournalFits
<1>12. journal' = [journal EXCEPT ![c] = k]
  BY <1>1, <1>3, <1>4, <1>5, <1>8, TheProcess DEF CompleteTransition, StoreSound, StoreTyped
<1>13. StoreSound' /\ journal'[c] = k
  <2>1. StoreSound'
    BY <1>4, <1>11, <1>12, TheProcess, JournalMoves DEF CompleteTransition
  <2> QED
    BY <1>4, <1>12, <2>1, TheProcess DEF StoreSound, StoreTyped
<1>14. PICK t : t = After(r)
  OBVIOUS
<1>15. \/ r.step = "reservation" /\ t = "append" /\ c \in CodebaseCandidates
       \/ r.step = "reservation" /\ t = "replay" /\ c \in CompanyCandidates
       \/ r.step = "append" /\ t = "manifest"
       \/ r.step = "manifest" /\ t = "receipt"
       \/ r.step = "apology" /\ t = "siblings"
  BY <1>2, <1>3, <1>4, <1>14 DEF After, Candidates
<1>16. t \in StepNames /\ "check" \in Phases /\ Goto(p, t, "check")
  BY <1>1, <1>14, <1>15 DEF StepNames, Phases, Transitions, CompleteTransition
<1>17. PICK x \in Process : /\ proc' = [proc EXCEPT ![p] = x]
                            /\ x.step = t /\ x.phase = "check" /\ Carries(x, proc[p])
  BY <1>16, GoneOn
<1>18. UNCHANGED <<reserved, events, index, apologies, abandoned, orphanEvents>>
  BY DEF CompleteTransition
<1>19. BytesInHand(x)'
  BY <1>1, <1>3, <1>4, <1>7, <1>8, <1>13, <1>15, <1>17, <1>18
  DEF Carries, BytesInHand, CodebaseSteps, CompanySteps, PostingSteps
<1>20. OutcomeInHand(x)'
  BY <1>1, <1>3, <1>5, <1>10, <1>13, <1>15, <1>17, <1>18
  DEF Sound, Carries, OutcomeInHand, PostingSteps
<1>21. OwedInHand(x)' /\ SweepInHand(x)'
  BY <1>1, <1>15, <1>17, <1>18
  DEF Sound, Carries, OwedInHand, SweepInHand, DivergingSteps
<1>22. OnItsCandidate(x) /\ IdleIsIdle(x)
  BY <1>1, <1>3, <1>4, <1>15, <1>17
  DEF Carries, OnItsCandidate, IdleIsIdle, CodebaseSteps, CompanySteps, PostingSteps
<1>23. Sound(x)'
  BY <1>17, <1>19, <1>20, <1>21, <1>22 DEF Sound, OnItsCandidate, IdleIsIdle
<1> QED
  BY <1>13, <1>17, <1>23, TheProcess, StoreMoves

\* The receipt marker of a Codebase candidate is completed.
LEMMA CompleteReceiptKeeps ==
    ASSUME NEW p, Procs = {p}, SagaInv, CompleteReceipt(p)
    PROVE  SagaInv'
<1>1. PICK r \in Process : r = proc[p] /\ Sound(r)
  BY TheProcess
<1>2. r.step = "receipt" /\ r.phase = "complete" /\ r.current \in CodebaseCandidates
  BY <1>1 DEF CompleteReceipt, AtStep
<1>3. PICK c : c = r.current
  OBVIOUS
<1>4. c \in Candidates /\ c \notin CompanyCandidates
  BY <1>2, <1>3, CandidatesAssumption DEF Candidates
<1>5. PICK j : j = journal[c]
  OBVIOUS
<1>6. JournalFits(c, j) /\ j \in Marker
  BY <1>4, <1>5, TheProcess, JournalIsFit DEF JournalFits
<1>8. PICK k \in Marker :
         /\ k = Completed(j, "receipt") /\ k.bytes = j.bytes
         /\ \A u \in Transitions : k.mark[u] = IF u = "receipt" THEN "complete" ELSE j.mark[u]
         /\ k.outcome = j.outcome /\ k.answered = j.answered /\ k.owed = j.owed
  <2>1. "receipt" \in Transitions
    BY DEF Transitions
  <2> QED
    BY <1>6, <2>1, CompletedFields
<1>11. JournalFits(c, k)
  BY <1>4, <1>6, <1>8 DEF JournalFits, Transitions
<1>12. journal' = [journal EXCEPT ![c] = k]
  BY <1>1, <1>3, <1>4, <1>5, <1>8, TheProcess DEF CompleteReceipt, StoreSound, StoreTyped
<1>13. StoreSound' /\ journal'[c] = k
  <2>1. StoreSound'
    BY <1>4, <1>11, <1>12, TheProcess, JournalMoves DEF CompleteReceipt
  <2> QED
    BY <1>4, <1>12, <2>1, TheProcess DEF StoreSound, StoreTyped
<1>16. "receipt" \in StepNames /\ "finish" \in Phases /\ Goto(p, "receipt", "finish")
  BY DEF StepNames, Phases, Transitions, CompleteReceipt
<1>17. PICK x \in Process : /\ proc' = [proc EXCEPT ![p] = x]
                            /\ x.step = "receipt" /\ x.phase = "finish" /\ Carries(x, proc[p])
  BY <1>16, GoneOn
<1>18. UNCHANGED <<reserved, events, index, apologies, abandoned, orphanEvents>>
  BY DEF CompleteReceipt
<1>19. BytesInHand(x)'
  BY <1>1, <1>2, <1>3, <1>5, <1>8, <1>13, <1>17, <1>18
  DEF Sound, Carries, BytesInHand, CodebaseSteps, CompanySteps, PostingSteps
<1>20. OutcomeInHand(x)' /\ OwedInHand(x)' /\ SweepInHand(x)'
  BY <1>1, <1>2, <1>17, <1>18
  DEF Sound, Carries, OutcomeInHand, PostingSteps, OwedInHand, SweepInHand, DivergingSteps
<1>22. OnItsCandidate(x) /\ IdleIsIdle(x)
  BY <1>1, <1>2, <1>17
  DEF Carries, OnItsCandidate, IdleIsIdle, CodebaseSteps, CompanySteps, PostingSteps
<1>23. Sound(x)'
  BY <1>17, <1>19, <1>20, <1>22 DEF Sound, OnItsCandidate, IdleIsIdle
<1> QED
  BY <1>13, <1>17, <1>23, TheProcess, StoreMoves

\* The last marker of a saga says nothing the invariant reads.
LEMMA DoneMoves ==
    ASSUME StoreSound, NEW c \in Candidates, NEW d \in BOOLEAN,
           journal' = [journal EXCEPT ![c].done = d],
           UNCHANGED <<reserved, events, index, decided, apologies, due, abandoned,
                       orphanEvents, company>>
    PROVE  /\ StoreSound'
           /\ journal'[c].bytes = journal[c].bytes /\ journal'[c].outcome = journal[c].outcome
<1>1. PICK j : j = journal[c]
  OBVIOUS
<1>2. JournalFits(c, j) /\ j \in Marker
  BY <1>1, JournalIsFit DEF JournalFits
<1>3. PICK k : k = [j EXCEPT !.done = d]
  OBVIOUS
<1>4. /\ k \in Marker /\ k.bytes = j.bytes /\ k.mark = j.mark /\ k.outcome = j.outcome
      /\ k.owed = j.owed
  BY <1>2, <1>3 DEF Marker
<1>5. JournalFits(c, k)
  BY <1>2, <1>4 DEF JournalFits, TerminalReceipt
<1>6. journal' = [journal EXCEPT ![c] = k]
  BY <1>1, <1>3 DEF StoreSound, StoreTyped
<1>7. StoreSound'
  BY <1>5, <1>6, JournalMoves
<1> QED
  BY <1>1, <1>4, <1>6, <1>7 DEF StoreSound, StoreTyped

\* A Codebase saga is finished.
LEMMA FinishReceiptKeeps ==
    ASSUME NEW p, Procs = {p}, SagaInv, FinishReceipt(p)
    PROVE  SagaInv'
<1>1. PICK r \in Process : r = proc[p] /\ Sound(r)
  BY TheProcess
<1>2. r.step = "receipt" /\ r.phase = "finish" /\ r.current \in CodebaseCandidates
  BY <1>1 DEF FinishReceipt, AtStep
<1>3. PICK c : c = r.current
  OBVIOUS
<1>4. c \in Candidates
  BY <1>2, <1>3 DEF Candidates
<1>5. journal' = [journal EXCEPT ![c].done = TRUE]
  BY <1>1, <1>3 DEF FinishReceipt
<1>6. StoreSound' /\ journal'[c].bytes = journal[c].bytes
  BY <1>4, <1>5, DoneMoves, TheProcess DEF FinishReceipt
<1>7. "summary" \in StepNames /\ "check" \in Phases /\ Goto(p, "summary", "check")
  BY DEF StepNames, Phases, FinishReceipt
<1>8. PICK x \in Process : /\ proc' = [proc EXCEPT ![p] = x]
                           /\ x.step = "summary" /\ x.phase = "check" /\ Carries(x, proc[p])
  BY <1>7, GoneOn
<1>9. UNCHANGED <<reserved, events, index, apologies, abandoned, orphanEvents>>
  BY DEF FinishReceipt
<1>10. BytesInHand(x)'
  BY <1>1, <1>2, <1>3, <1>6, <1>8, <1>9
  DEF Sound, Carries, BytesInHand, CodebaseSteps, CompanySteps, PostingSteps
<1>11. OutcomeInHand(x)' /\ OwedInHand(x)' /\ SweepInHand(x)'
  BY <1>1, <1>2, <1>8, <1>9
  DEF Sound, Carries, OutcomeInHand, PostingSteps, OwedInHand, SweepInHand, DivergingSteps
<1>12. OnItsCandidate(x) /\ IdleIsIdle(x)
  BY <1>1, <1>2, <1>8
  DEF Carries, OnItsCandidate, IdleIsIdle, CodebaseSteps, CompanySteps, PostingSteps
<1>13. Sound(x)'
  BY <1>8, <1>10, <1>11, <1>12 DEF Sound, OnItsCandidate, IdleIsIdle
<1> QED
  BY <1>6, <1>8, <1>13, TheProcess, StoreMoves

\* A process that rests relies on nothing.
LEMMA RestingStaysSound ==
    ASSUME NEW x \in Process, Resting(x)
    PROVE  Sound(x)'
<1>1. x.sweep \subseteq Apologies
  BY ProcessFields
<1> QED
  BY <1>1 DEF Resting, Sound, OnItsCandidate, BytesInHand, OutcomeInHand, OwedInHand, SweepInHand,
       IdleIsIdle, CodebaseSteps, CompanySteps, PostingSteps, DivergingSteps

\* So does one that ends.
LEMMA IdleStaysSound == Sound(Idle)'
<1>1. Idle \in Process
  BY DEF Idle, Process, Transitions, Outcomes
<1>2. Idle.step = "idle" /\ Idle.owed = {} /\ Idle.siblings = {} /\ Idle.sweep = {}
  BY DEF Idle
<1>3. PICK x : x = Idle
  OBVIOUS
<1>4. Sound(x)'
  BY <1>1, <1>2, <1>3 DEF Sound, OnItsCandidate, BytesInHand, OutcomeInHand, OwedInHand, SweepInHand,
       IdleIsIdle, CodebaseSteps, CompanySteps, PostingSteps, DivergingSteps
<1> QED
  BY <1>3, <1>4

\* A replayed Company saga is finished.
LEMMA FinishReplayKeeps ==
    ASSUME NEW p, Procs = {p}, SagaInv, FinishReplay(p)
    PROVE  SagaInv'
<1>1. PICK r \in Process : r = proc[p] /\ Sound(r)
  BY TheProcess
<1>2. r.step = "replay" /\ r.phase = "finish"
  BY <1>1 DEF FinishReplay, AtStep
<1>3. PICK c : c = r.current
  OBVIOUS
<1>4. c \in Candidates
  BY <1>1, <1>2, <1>3 DEF Sound, OnItsCandidate, CompanySteps, Candidates
<1>5. journal' = [journal EXCEPT ![c].done = TRUE]
  BY <1>1, <1>3 DEF FinishReplay
<1>6. StoreSound'
  BY <1>4, <1>5, DoneMoves, TheProcess DEF FinishReplay
<1>7. PICK x : x = Returned(r, journal[c].outcome)
  OBVIOUS
<1>8. PICK o : o = journal[c].outcome
  OBVIOUS
<1>9. x \in Process /\ Resting(x)
  BY <1>7, <1>8, ReturningRests
<1>10. proc' = [proc EXCEPT ![p] = x]
  BY <1>1, <1>3, <1>7 DEF FinishReplay
<1> QED
  BY <1>6, <1>9, <1>10, RestingStaysSound, TheProcess, StoreMoves

\* A Company saga with a terminal outcome is finished.
LEMMA FinishOutcomeKeeps ==
    ASSUME NEW p, Procs = {p}, SagaInv, FinishOutcome(p)
    PROVE  SagaInv'
<1>1. PICK r \in Process : r = proc[p] /\ Sound(r)
  BY TheProcess
<1>2. r.step = "outcome" /\ r.phase = "finish"
  BY <1>1 DEF FinishOutcome, AtStep
<1>3. PICK c : c = r.current
  OBVIOUS
<1>4. c \in Candidates
  BY <1>1, <1>2, <1>3 DEF Sound, OnItsCandidate, CompanySteps, Candidates
<1>5. PICK d \in BOOLEAN : d = (journal[c].done \/ r.outcome # "pending")
  OBVIOUS
<1>6. journal' = [journal EXCEPT ![c].done = d]
  BY <1>1, <1>3, <1>4, <1>5, TheProcess DEF FinishOutcome, StoreSound, StoreTyped
<1>7. StoreSound'
  BY <1>4, <1>6, DoneMoves, TheProcess DEF FinishOutcome
<1>8. PICK x : x = Returned(r, r.outcome)
  OBVIOUS
<1>9. PICK o : o = r.outcome
  OBVIOUS
<1>10. x \in Process /\ Resting(x)
  BY <1>8, <1>9, ReturningRests
<1>11. proc' = [proc EXCEPT ![p] = x]
  BY <1>1, <1>8 DEF FinishOutcome
<1> QED
  BY <1>7, <1>10, <1>11, RestingStaysSound, TheProcess, StoreMoves

\* The outcome takes the place of no terminal receipt, and all it owes is written.
LEMMA RecordOutcomeKeeps ==
    ASSUME NEW p, Procs = {p}, SagaInv, RecordOutcome(p)
    PROVE  SagaInv'
<1>1. PICK r \in Process : r = proc[p] /\ Sound(r)
  BY TheProcess
<1>2. r.step = "outcome" /\ r.phase = "lock"
  BY <1>1 DEF RecordOutcome, AtStep
<1>3. PICK c : c = r.current
  OBVIOUS
<1>4. c \in Candidates /\ c \in CompanyCandidates
  BY <1>1, <1>2, <1>3 DEF Sound, OnItsCandidate, CompanySteps, Candidates
<1>5. PICK j : j = journal[c]
  OBVIOUS
<1>6. JournalFits(c, j) /\ j \in Marker
  BY <1>4, <1>5, TheProcess, JournalIsFit DEF JournalFits
<1>7. /\ r.bytes # None /\ j.bytes = r.bytes /\ r.bytes \in reserved[c]
      /\ ~TerminalReceipt(j) /\ r.outcome \in Outcomes
      /\ r.outcome = "committed" => \A a \in Apologies : a[1] = c => apologies[a] # "awaiting"
      /\ \A s \in r.owed : apologies[<<c, s>>] # "none"
      /\ r.bytes \in Bytes \cup {None} /\ r.owed \subseteq Candidates \ {c}
  <2>1. /\ r.siblings = {} /\ r.owed \subseteq Candidates \ {c}
        /\ \A s \in r.owed \ r.siblings : apologies[<<c, s>>] # "none"
    BY <1>1, <1>2, <1>3 DEF Sound, OwedInHand, DivergingSteps
  <2> QED
    BY <1>1, <1>2, <1>3, <1>5, <2>1, ProcessFields
    DEF Sound, BytesInHand, OutcomeInHand, CompanySteps
<1>8. PICK h \in Marker :
         /\ h = Completed(j, "receipt") /\ h.bytes = j.bytes
         /\ \A u \in Transitions : h.mark[u] = IF u = "receipt" THEN "complete" ELSE j.mark[u]
         /\ h.outcome = j.outcome /\ h.answered = j.answered /\ h.owed = j.owed
  <2>1. "receipt" \in Transitions
    BY DEF Transitions
  <2> QED
    BY <1>6, <2>1, CompletedFields
<1>9. PICK k : k = [h EXCEPT !.outcome = r.outcome, !.answered = r.bytes, !.owed = r.owed]
  OBVIOUS
<1>10. /\ k \in Marker /\ k.bytes = j.bytes /\ k.mark = h.mark /\ k.outcome = r.outcome
       /\ k.owed = r.owed
  BY <1>7, <1>8, <1>9 DEF Marker
<1>11. JournalFits(c, k)
  <2>1. /\ k.mark["reservation"] = "complete" => k.bytes # None /\ k.bytes \in reserved[c]
        /\ k.mark["append"] = "complete" => k.bytes \in events[c]
        /\ k.mark["manifest"] = "complete" => k.bytes \in index[c]
        /\ events[c] \cup company.log[c] \cup company.queue[c] \subseteq {k.bytes}
    BY <1>6, <1>8, <1>10 DEF JournalFits, Transitions
  <2>2. LatestState(c) # "committed"
    BY <1>4, <1>6, <1>7 DEF JournalFits
  <2> QED
    BY <1>4, <1>7, <1>10, <2>1, <2>2 DEF JournalFits
<1>12. journal' = [journal EXCEPT ![c] = k]
  BY <1>1, <1>3, <1>4, <1>5, <1>8, <1>9, TheProcess DEF RecordOutcome, StoreSound, StoreTyped
<1>13. StoreSound' /\ journal'[c] = k
  <2>1. StoreSound'
    BY <1>4, <1>11, <1>12, TheProcess, JournalMoves DEF RecordOutcome
  <2> QED
    BY <1>4, <1>12, <2>1, TheProcess DEF StoreSound, StoreTyped
<1>16. "outcome" \in StepNames /\ "verify" \in Phases /\ Goto(p, "outcome", "verify")
  BY DEF StepNames, Phases, RecordOutcome
<1>17. PICK x \in Process : /\ proc' = [proc EXCEPT ![p] = x]
                            /\ x.step = "outcome" /\ x.phase = "verify" /\ Carries(x, proc[p])
  BY <1>16, GoneOn
<1>18. UNCHANGED <<reserved, events, index, apologies, abandoned, orphanEvents>>
  BY DEF RecordOutcome
<1>19. BytesInHand(x)'
  BY <1>1, <1>3, <1>7, <1>10, <1>13, <1>17, <1>18
  DEF Carries, BytesInHand, CodebaseSteps, CompanySteps, PostingSteps
<1>20. OutcomeInHand(x)'
  BY <1>1, <1>3, <1>7, <1>8, <1>10, <1>13, <1>17, <1>18
  DEF Carries, OutcomeInHand, PostingSteps, Transitions
<1>21. OwedInHand(x)' /\ SweepInHand(x)'
  BY <1>1, <1>2, <1>17, <1>18
  DEF Sound, Carries, OwedInHand, SweepInHand, DivergingSteps
<1>22. OnItsCandidate(x) /\ IdleIsIdle(x)
  BY <1>1, <1>3, <1>4, <1>17
  DEF Carries, OnItsCandidate, IdleIsIdle, CodebaseSteps, CompanySteps, PostingSteps
<1>23. Sound(x)'
  BY <1>17, <1>19, <1>20, <1>21, <1>22 DEF Sound, OnItsCandidate, IdleIsIdle
<1> QED
  BY <1>13, <1>17, <1>23, TheProcess, StoreMoves

-----------------------------------------------------------------------------
(* Steps that write a ledger, the events or the index *)

\* The bound bytes are reserved.
LEMMA ReserveEffectKeeps ==
    ASSUME NEW p, Procs = {p}, SagaInv, ReserveEffect(p)
    PROVE  SagaInv'
<1>1. PICK r \in Process : r = proc[p] /\ Sound(r)
  BY TheProcess
<1>2. r.step = "reservation" /\ r.phase = "effect"
  BY <1>1 DEF ReserveEffect, AtStep
<1>3. PICK c : c = r.current
  OBVIOUS
<1>4. c \in Candidates /\ r.bytes \in Bytes /\ r.bytes # None /\ journal[c].bytes = r.bytes
  BY <1>1, <1>2, <1>3, ProcessFields DEF Sound, OnItsCandidate, BytesInHand
<1>5. PICK R : R = reserved[c] \cup {r.bytes}
  OBVIOUS
<1>6. reserved' = [reserved EXCEPT ![c] = R]
  BY <1>1, <1>3, <1>5 DEF ReserveEffect
<1>7. UNCHANGED <<journal, events, index, decided, apologies, due, abandoned, orphanEvents, company>>
  BY DEF ReserveEffect
<1>8. /\ reserved' \in BytesOfCandidates /\ reserved'[c] = R
      /\ \A d \in Candidates : reserved[d] \subseteq reserved'[d]
  BY <1>4, <1>5, <1>6, TheProcess DEF StoreSound, StoreTyped, BytesOfCandidates
<1>9. StoreSound'
  <2>1. StoreTyped'
    BY <1>7, <1>8, TheProcess DEF StoreSound, StoreTyped
  <2>2. MarksVouch' /\ BytesAreBound'
    BY <1>7, <1>8, TheProcess DEF StoreSound, MarksVouch, BytesAreBound
  <2>3. DecidedIsListed' /\ OwedIsWritten' /\ AbandonedIsWarranted'
    BY <1>7, TheProcess DEF StoreSound, DecidedIsListed, OwedIsWritten, AbandonedIsWarranted
  <2>4. CommitIsJournaled'
    BY <1>7, TheProcess DEF StoreSound, CommitIsJournaled, LatestState
  <2> QED
    BY <2>1, <2>2, <2>3, <2>4 DEF StoreSound
<1>10. "reservation" \in StepNames /\ "complete" \in Phases /\ Goto(p, "reservation", "complete")
  BY DEF StepNames, Transitions, Phases, ReserveEffect
<1>11. PICK x \in Process : /\ proc' = [proc EXCEPT ![p] = x]
                            /\ x.step = "reservation" /\ x.phase = "complete" /\ Carries(x, proc[p])
  BY <1>10, GoneOn
<1>12. Sound(x)'
  BY <1>1, <1>2, <1>3, <1>4, <1>5, <1>7, <1>8, <1>11
  DEF Sound, Carries, OnItsCandidate, BytesInHand, OutcomeInHand, OwedInHand, SweepInHand, IdleIsIdle,
      CodebaseSteps, CompanySteps, PostingSteps, DivergingSteps
<1> QED
  BY <1>9, <1>11, <1>12, TheProcess, StoreMoves

\* The bound and reserved bytes become an event.
LEMMA AppendEffectKeeps ==
    ASSUME NEW p, Procs = {p}, SagaInv, AppendEffect(p)
    PROVE  SagaInv'
<1>1. PICK r \in Process : r = proc[p] /\ Sound(r)
  BY TheProcess
<1>2. r.step = "append" /\ r.phase = "effect"
  BY <1>1 DEF AppendEffect, AtStep
<1>3. PICK c : c = r.current
  OBVIOUS
<1>4. /\ c \in CodebaseCandidates /\ c \in Candidates /\ r.bytes \in Bytes /\ r.bytes # None
      /\ journal[c].bytes = r.bytes /\ r.bytes \in reserved[c]
  BY <1>1, <1>2, <1>3, ProcessFields
  DEF Sound, OnItsCandidate, BytesInHand, CodebaseSteps, Candidates
<1>5. PICK R : R = events[c] \cup {r.bytes}
  OBVIOUS
<1>6. events' = [events EXCEPT ![c] = R]
  BY <1>1, <1>3, <1>5 DEF AppendEffect
<1>7. UNCHANGED <<journal, reserved, index, decided, apologies, due, abandoned, orphanEvents, company>>
  BY DEF AppendEffect
<1>8. /\ events' \in BytesOfCandidates /\ events'[c] = R
      /\ \A d \in Candidates : events[d] \subseteq events'[d]
      /\ \A d \in Candidates \ {c} : events'[d] = events[d]
  BY <1>4, <1>5, <1>6, TheProcess, ZenonT(60) DEF StoreSound, StoreTyped, BytesOfCandidates
<1>9. StoreSound'
  <2>1. StoreTyped'
    BY <1>7, <1>8, TheProcess DEF StoreSound, StoreTyped
  <2>2. MarksVouch'
    BY <1>7, <1>8, TheProcess DEF StoreSound, MarksVouch
  <2>3. BytesAreBound'
    <3> SUFFICES ASSUME NEW d \in Candidates
                 PROVE  /\ events'[d] \cup company.log[d] \cup company.queue[d]
                             \subseteq reserved[d] \cap {journal[d].bytes}
                        /\ index[d] \subseteq events'[d]
      BY <1>7 DEF BytesAreBound
    <3>1. /\ events[d] \cup company.log[d] \cup company.queue[d]
               \subseteq reserved[d] \cap {journal[d].bytes}
          /\ index[d] \subseteq events[d]
      BY TheProcess DEF StoreSound, BytesAreBound
    <3> QED
      BY <1>4, <1>5, <1>8, <3>1
  <2>4. DecidedIsListed' /\ OwedIsWritten' /\ AbandonedIsWarranted'
    BY <1>7, TheProcess DEF StoreSound, DecidedIsListed, OwedIsWritten, AbandonedIsWarranted
  <2>5. CommitIsJournaled'
    BY <1>7, TheProcess DEF StoreSound, CommitIsJournaled, LatestState
  <2> QED
    BY <2>1, <2>2, <2>3, <2>4, <2>5 DEF StoreSound
<1>10. "append" \in StepNames /\ "complete" \in Phases /\ Goto(p, "append", "complete")
  BY DEF StepNames, Transitions, Phases, AppendEffect
<1>11. PICK x \in Process : /\ proc' = [proc EXCEPT ![p] = x]
                            /\ x.step = "append" /\ x.phase = "complete" /\ Carries(x, proc[p])
  BY <1>10, GoneOn
<1>12. Sound(x)'
  BY <1>1, <1>2, <1>3, <1>4, <1>5, <1>7, <1>8, <1>11
  DEF Sound, Carries, OnItsCandidate, BytesInHand, OutcomeInHand, OwedInHand, SweepInHand, IdleIsIdle,
      CodebaseSteps, CompanySteps, PostingSteps, DivergingSteps
<1> QED
  BY <1>9, <1>11, <1>12, TheProcess, StoreMoves

\* The index lists every event: all that relied on it still may.
LEMMA IndexMoves ==
    ASSUME StoreSound, index' = events,
           UNCHANGED <<journal, reserved, events, decided, apologies, due, abandoned, company>>,
           orphanEvents' \in [Apologies -> Nat],
           \A a \in Apologies : orphanEvents'[a] >= orphanEvents[a]
    PROVE  StoreSound' /\ \A c \in Candidates : index[c] \subseteq index'[c]
<1>1. \A c \in Candidates : index[c] \subseteq index'[c]
  BY DEF StoreSound, BytesAreBound
<1>2. StoreTyped'
  BY DEF StoreSound, StoreTyped
<1>3. MarksVouch'
  BY <1>1 DEF StoreSound, MarksVouch
<1>4. BytesAreBound'
  BY DEF StoreSound, BytesAreBound
<1>5. DecidedIsListed'
  BY <1>1 DEF StoreSound, DecidedIsListed, Candidates
<1>6. CommitIsJournaled' /\ OwedIsWritten'
  BY DEF StoreSound, CommitIsJournaled, LatestState, OwedIsWritten
<1>7. AbandonedIsWarranted'
  <2>1. orphanEvents \in [Apologies -> Nat]
    BY DEF StoreSound, StoreTyped
  <2> QED
    BY <2>1 DEF StoreSound, AbandonedIsWarranted
<1> QED
  BY <1>1, <1>2, <1>3, <1>4, <1>5, <1>6, <1>7 DEF StoreSound

\* The index is brought up to date.
LEMMA ManifestEffectKeeps ==
    ASSUME NEW p, Procs = {p}, SagaInv, ManifestEffect(p)
    PROVE  SagaInv'
<1>1. PICK r \in Process : r = proc[p] /\ Sound(r)
  BY TheProcess
<1>2. r.step = "manifest" /\ r.phase = "effect"
  BY <1>1 DEF ManifestEffect, AtStep
<1>3. UNCHANGED <<journal, reserved, events, decided, apologies, due, abandoned, orphanEvents, company>>
  BY DEF ManifestEffect
<1>4. index' = events
  BY DEF ManifestEffect
<1>5. StoreSound'
  <2>1. orphanEvents \in [Apologies -> Nat]
    BY TheProcess DEF StoreSound, StoreTyped
  <2>2. \A a \in Apologies : orphanEvents[a] >= orphanEvents[a]
    BY <2>1
  <2> QED
    BY <1>3, <1>4, <2>1, <2>2, IndexMoves, TheProcess
<1>10. "manifest" \in StepNames /\ "complete" \in Phases /\ Goto(p, "manifest", "complete")
  BY DEF StepNames, Transitions, Phases, ManifestEffect
<1>11. PICK x \in Process : /\ proc' = [proc EXCEPT ![p] = x]
                            /\ x.step = "manifest" /\ x.phase = "complete" /\ Carries(x, proc[p])
  BY <1>10, GoneOn
<1>12. Sound(x)'
  BY <1>1, <1>2, <1>3, <1>4, <1>11
  DEF Sound, Carries, OnItsCandidate, BytesInHand, OutcomeInHand, OwedInHand, SweepInHand, IdleIsIdle,
      CodebaseSteps, CompanySteps, PostingSteps, DivergingSteps
<1> QED
  BY <1>5, <1>11, <1>12, TheProcess, StoreMoves

\* The receipt file is written; nothing else depends on it.
LEMMA WriteReceiptKeeps ==
    ASSUME NEW p, Procs = {p}, SagaInv, WriteReceipt(p)
    PROVE  SagaInv'
<1>1. PICK r \in Process : r = proc[p] /\ Sound(r)
  BY TheProcess
<1>2. r.step = "receipt" /\ r.phase = "effect"
  BY <1>1 DEF WriteReceipt, AtStep
<1>3. UNCHANGED Ledgers /\ due' = due
  BY DEF WriteReceipt, Ledgers
<1>4. StoreSound'
  BY <1>3, StoreStays, TheProcess DEF StoreSound, StoreTyped
<1>10. "receipt" \in StepNames /\ "verify" \in Phases /\ Goto(p, "receipt", "verify")
  BY DEF StepNames, Transitions, Phases, WriteReceipt
<1>11. PICK x \in Process : /\ proc' = [proc EXCEPT ![p] = x]
                            /\ x.step = "receipt" /\ x.phase = "verify" /\ Carries(x, proc[p])
  BY <1>10, GoneOn
<1>12. Sound(x)
  BY <1>1, <1>2, <1>11
  DEF Sound, Carries, OnItsCandidate, BytesInHand, OutcomeInHand, OwedInHand, SweepInHand, IdleIsIdle,
      CodebaseSteps, CompanySteps, PostingSteps, DivergingSteps
<1>13. Sound(x)'
  BY <1>3, <1>12, SoundStays
<1> QED
  BY <1>4, <1>11, <1>13, TheProcess, StoreMoves

-----------------------------------------------------------------------------
(* Steps that write a receipt to the decision ledger *)

\* A receipt is added of bytes the index lists, or of a commit the journal holds.
LEMMA DecidedMoves ==
    ASSUME StoreSound, NEW c \in Candidates, NEW state \in Outcomes, NEW b \in Bytes \cup {None},
           Finalize(c, state, b),
           UNCHANGED <<journal, reserved, events, index, apologies, due, abandoned,
                       orphanEvents, company>>,
           c \in CodebaseCandidates => b \in index[c],
           c \in CompanyCandidates /\ state = "committed" =>
             TerminalReceipt(journal[c]) /\ journal[c].outcome = "committed"
    PROVE  StoreSound'
<1>1. CASE decided' = decided
  <2>1. UNCHANGED Ledgers /\ due' \subseteq Apologies
    BY <1>1 DEF Ledgers, StoreSound, StoreTyped
  <2> QED
    BY <2>1, StoreStays
<1>2. CASE decided' = [decided EXCEPT ![c] = Append(@, [state |-> state, bytes |-> b])]
  <2>1. PICK row : row = [state |-> state, bytes |-> b]
    OBVIOUS
  <2>2. row \in Decision /\ row.state = state /\ row.bytes = b
    BY <2>1 DEF Decision
  <2>3. PICK q : q = decided[c]
    OBVIOUS
  <2>4. PICK t : t = Append(q, row)
    OBVIOUS
  <2>5. q \in Seq(Decision) /\ decided \in [Candidates -> Seq(Decision)]
    BY <2>3 DEF StoreSound, StoreTyped
  <2>6. t \in Seq(Decision) /\ Len(t) = Len(q) + 1 /\ Len(q) \in Nat
    BY <2>2, <2>4, <2>5, LenProperties, AppendProperties
  <2>7. /\ t[Len(t)] = row
        /\ \A i \in 1..Len(q) : t[i] = q[i]
        /\ DOMAIN t = 1..Len(t) /\ DOMAIN q = 1..Len(q)
    BY <2>2, <2>4, <2>5, <2>6, LenProperties, AppendProperties
  <2>8. /\ decided' = [decided EXCEPT ![c] = t] /\ decided'[c] = t
        /\ \A d \in Candidates \ {c} : decided'[d] = decided[d]
    BY <1>2, <2>1, <2>3, <2>4, <2>5
  <2>9. StoreTyped'
    BY <2>5, <2>6, <2>8 DEF StoreSound, StoreTyped
  <2>10. MarksVouch' /\ BytesAreBound' /\ OwedIsWritten' /\ AbandonedIsWarranted'
    BY DEF StoreSound, MarksVouch, BytesAreBound, OwedIsWritten, AbandonedIsWarranted
  <2>11. DecidedIsListed'
    <3> SUFFICES ASSUME NEW d \in CodebaseCandidates, NEW i \in DOMAIN decided'[d]
                 PROVE  decided'[d][i].bytes \in index[d]
      BY DEF DecidedIsListed
    <3>1. CASE d # c
      <4>1. d \in Candidates \ {c}
        BY <3>1 DEF Candidates
      <4> QED
        BY <2>8, <4>1 DEF StoreSound, DecidedIsListed
    <3>2. CASE d = c /\ i = Len(t)
      BY <2>2, <2>7, <2>8, <3>2
    <3>3. CASE d = c /\ i # Len(t)
      <4>1. i \in 1..Len(q)
        BY <2>6, <2>7, <2>8, <3>3
      <4>2. i \in DOMAIN decided[c] /\ decided'[c][i] = decided[c][i]
        BY <2>3, <2>7, <2>8, <4>1
      <4> QED
        BY <3>3, <4>2 DEF StoreSound, DecidedIsListed
    <3> QED
      BY <3>1, <3>2, <3>3
  <2>12. LatestState(c)' = state
    <3>1. t # <<>> /\ Last(t) = row
      BY <2>6, <2>7, EmptySeq DEF Last
    <3> QED
      BY <2>2, <2>8, <3>1 DEF LatestState
  <2>13. \A d \in Candidates \ {c} : LatestState(d)' = LatestState(d)
    BY <2>8 DEF LatestState
  <2>14. CommitIsJournaled'
    <3> SUFFICES ASSUME NEW d \in CompanyCandidates
                 PROVE  /\ LatestState(d)' = "committed" =>
                             TerminalReceipt(journal[d]) /\ journal[d].outcome = "committed"
                        /\ TerminalReceipt(journal[d]) /\ journal[d].outcome = "committed" =>
                             \A a \in Apologies : a[1] = d => apologies[a] # "awaiting"
      BY DEF CommitIsJournaled
    <3>1. d \in Candidates
      BY DEF Candidates
    <3> QED
      BY <2>12, <2>13, <3>1 DEF StoreSound, CommitIsJournaled
  <2> QED
    BY <2>9, <2>10, <2>11, <2>14 DEF StoreSound
<1> QED
  BY <1>1, <1>2 DEF Finalize

\* The committed receipt of an event that is listed and read back.
LEMMA VerifyReceiptKeeps ==
    ASSUME NEW p, Procs = {p}, SagaInv, VerifyReceipt(p)
    PROVE  SagaInv'
<1>1. PICK r \in Process : r = proc[p] /\ Sound(r)
  BY TheProcess
<1>2. r.step = "receipt" /\ r.phase = "verify" /\ r.current \in CodebaseCandidates
  BY <1>1 DEF VerifyReceipt, AtStep
<1>3. PICK c : c = r.current
  OBVIOUS
<1>4. /\ c \in CodebaseCandidates /\ c \in Candidates /\ c \notin CompanyCandidates
      /\ r.bytes \in Bytes \cup {None} /\ r.bytes \in index[c]
  BY <1>1, <1>2, <1>3, ProcessFields, CandidatesAssumption DEF Sound, BytesInHand, Candidates
<1>5. UNCHANGED <<journal, reserved, events, index, apologies, due, abandoned, orphanEvents, company>>
  BY DEF VerifyReceipt
<1>6. CASE ReadBack(c, r.bytes)
  <2>1. PICK b : b = r.bytes
    OBVIOUS
  <2>2. Finalize(c, "committed", b) /\ Goto(p, "receipt", "complete")
    BY <1>1, <1>3, <1>6, <2>1 DEF VerifyReceipt
  <2>3. "committed" \in Outcomes /\ b \in Bytes \cup {None} /\ b \in index[c]
    BY <1>4, <2>1 DEF Outcomes
  <2>4. StoreSound'
    BY <1>4, <1>5, <2>2, <2>3, DecidedMoves, TheProcess
  <2>5. "receipt" \in StepNames /\ "complete" \in Phases
    BY DEF StepNames, Transitions, Phases
  <2>6. PICK x \in Process : /\ proc' = [proc EXCEPT ![p] = x]
                             /\ x.step = "receipt" /\ x.phase = "complete" /\ Carries(x, proc[p])
    BY <2>2, <2>5, GoneOn
  <2>7. Sound(x)
    BY <1>1, <1>2, <2>6
    DEF Sound, Carries, OnItsCandidate, BytesInHand, OutcomeInHand, OwedInHand, SweepInHand, IdleIsIdle,
        CodebaseSteps, CompanySteps, PostingSteps, DivergingSteps
  <2>8. Sound(x)'
    BY <1>5, <2>7, SoundDecides
  <2> QED
    BY <2>4, <2>6, <2>8, TheProcess, StoreMoves
<1>7. CASE ~ReadBack(c, r.bytes)
  <2>1. PICK x : x = LeaveTarget(r)
    OBVIOUS
  <2>2. x \in Process /\ Resting(x)
    BY <2>1, LeavingRests
  <2>3. proc' = [proc EXCEPT ![p] = x] /\ decided' = decided
    BY <1>1, <1>3, <1>7, <2>1, TheProcess DEF VerifyReceipt
  <2>4. StoreSound'
    BY <1>5, <2>3, StoreStays, TheProcess DEF Ledgers, StoreSound, StoreTyped
  <2> QED
    BY <2>2, <2>3, <2>4, RestingStaysSound, TheProcess, StoreMoves
<1> QED
  BY <1>6, <1>7

\* A terminal receipt is replayed; anything else is posted.
LEMMA ReplayReceiptKeeps ==
    ASSUME NEW p, Procs = {p}, SagaInv, ReplayReceipt(p)
    PROVE  SagaInv'
<1>1. PICK r \in Process : r = proc[p] /\ Sound(r)
  BY TheProcess
<1>2. r.step = "replay" /\ r.phase = "check"
  BY <1>1 DEF ReplayReceipt, AtStep
<1>3. PICK c : c = r.current
  OBVIOUS
<1>4. c \in CompanyCandidates /\ c \in Candidates /\ c \notin CodebaseCandidates
  BY <1>1, <1>2, <1>3, CandidatesAssumption DEF Sound, OnItsCandidate, CompanySteps, Candidates
<1>5. PICK j : j = journal[c]
  OBVIOUS
<1>6. UNCHANGED <<journal, reserved, events, index, apologies, due, abandoned, orphanEvents, company>>
  BY DEF ReplayReceipt
<1>7. CASE TerminalReceipt(j)
  <2>1. PICK o : o = j.outcome
    OBVIOUS
  <2>2. PICK b : b = j.answered
    OBVIOUS
  <2>3. Finalize(c, o, b) /\ Goto(p, "replay", "finish")
    BY <1>1, <1>3, <1>5, <1>7, <2>1, <2>2 DEF ReplayReceipt
  <2>4. o \in Outcomes /\ b \in Bytes \cup {None} /\ journal[c].outcome = o
    <3>1. j \in Marker
      BY <1>4, <1>5, TheProcess DEF StoreSound, StoreTyped
    <3> QED
      BY <1>5, <1>7, <2>1, <2>2, <3>1 DEF TerminalReceipt, Outcomes, Marker
  <2>5. StoreSound'
    BY <1>4, <1>5, <1>6, <1>7, <2>3, <2>4, DecidedMoves, TheProcess
  <2>6. "replay" \in StepNames /\ "finish" \in Phases
    BY DEF StepNames, Phases
  <2>7. PICK x \in Process : /\ proc' = [proc EXCEPT ![p] = x]
                             /\ x.step = "replay" /\ x.phase = "finish" /\ Carries(x, proc[p])
    BY <2>3, <2>6, GoneOn
  <2>8. Sound(x)
    BY <1>1, <1>2, <2>7
    DEF Sound, Carries, OnItsCandidate, BytesInHand, OutcomeInHand, OwedInHand, SweepInHand, IdleIsIdle,
        CodebaseSteps, CompanySteps, PostingSteps, DivergingSteps
  <2>9. Sound(x)'
    BY <1>6, <2>8, SoundDecides
  <2> QED
    BY <2>5, <2>7, <2>9, TheProcess, StoreMoves
<1>8. CASE ~TerminalReceipt(j)
  <2>1. Goto(p, "post", "check") /\ decided' = decided
    BY <1>1, <1>3, <1>5, <1>8 DEF ReplayReceipt
  <2>2. "post" \in StepNames /\ "check" \in Phases
    BY DEF StepNames, Phases
  <2>3. PICK x \in Process : /\ proc' = [proc EXCEPT ![p] = x]
                             /\ x.step = "post" /\ x.phase = "check" /\ Carries(x, proc[p])
    BY <2>1, <2>2, GoneOn
  <2>4. Sound(x)
    BY <1>1, <1>2, <1>3, <1>5, <1>8, <2>3
    DEF Sound, Carries, OnItsCandidate, BytesInHand, OutcomeInHand, OwedInHand, SweepInHand, IdleIsIdle,
        CodebaseSteps, CompanySteps, PostingSteps, DivergingSteps
  <2>5. Sound(x)'
    BY <1>6, <2>4, SoundDecides
  <2>6. StoreSound'
    BY <1>6, <2>1, StoreStays, TheProcess DEF Ledgers, StoreSound, StoreTyped
  <2> QED
    BY <2>3, <2>5, <2>6, TheProcess, StoreMoves
<1> QED
  BY <1>7, <1>8

\* The recorded outcome gets its receipt.
LEMMA FinalizeOutcomeKeeps ==
    ASSUME NEW p, Procs = {p}, SagaInv, FinalizeOutcome(p)
    PROVE  SagaInv'
<1>1. PICK r \in Process : r = proc[p] /\ Sound(r)
  BY TheProcess
<1>2. r.step = "outcome" /\ r.phase = "verify"
  BY <1>1 DEF FinalizeOutcome, AtStep
<1>3. PICK c : c = r.current
  OBVIOUS
<1>4. c \in CompanyCandidates /\ c \in Candidates /\ c \notin CodebaseCandidates
  BY <1>1, <1>2, <1>3, CandidatesAssumption DEF Sound, OnItsCandidate, CompanySteps, Candidates
<1>5. PICK o : o = r.outcome
  OBVIOUS
<1>6. PICK b : b = r.bytes
  OBVIOUS
<1>7. UNCHANGED <<journal, reserved, events, index, apologies, due, abandoned, orphanEvents, company>>
  BY DEF FinalizeOutcome
<1>8. /\ o \in Outcomes /\ b \in Bytes \cup {None} /\ journal[c].outcome = o
      /\ journal[c].mark["receipt"] = "complete"
  BY <1>1, <1>2, <1>3, <1>5, <1>6, ProcessFields DEF Sound, OutcomeInHand
<1>9. Finalize(c, o, b) /\ Goto(p, "outcome", "finish")
  BY <1>1, <1>3, <1>5, <1>6 DEF FinalizeOutcome
<1>10. StoreSound'
  <2>1. o = "committed" => TerminalReceipt(journal[c]) /\ journal[c].outcome = "committed"
    BY <1>8 DEF TerminalReceipt
  <2> QED
    BY <1>4, <1>7, <1>8, <1>9, <2>1, DecidedMoves, TheProcess
<1>11. "outcome" \in StepNames /\ "finish" \in Phases
  BY DEF StepNames, Phases
<1>12. PICK x \in Process : /\ proc' = [proc EXCEPT ![p] = x]
                            /\ x.step = "outcome" /\ x.phase = "finish" /\ Carries(x, proc[p])
  BY <1>9, <1>11, GoneOn
<1>13. Sound(x)
  BY <1>1, <1>2, <1>12
  DEF Sound, Carries, OnItsCandidate, BytesInHand, OutcomeInHand, OwedInHand, SweepInHand, IdleIsIdle,
      CodebaseSteps, CompanySteps, PostingSteps, DivergingSteps
<1>14. Sound(x)'
  BY <1>7, <1>13, SoundDecides
<1> QED
  BY <1>10, <1>12, <1>14, TheProcess, StoreMoves

-----------------------------------------------------------------------------
(* Steps of Company *)

\* Company keeps what is bound and reserved.
LEMMA CompanyMoves ==
    ASSUME StoreSound, NEW c \in Candidates, NEW b \in Bytes, b = journal[c].bytes, b \in reserved[c],
           \/ company' = company
           \/ company' = [company EXCEPT !.log[c] = @ \cup {b}]
           \/ company' = [company EXCEPT !.queue[c] = @ \cup {b}],
           UNCHANGED <<journal, reserved, events, index, decided, apologies, due, abandoned,
                       orphanEvents>>
    PROVE  StoreSound'
<1>1. company \in [log : BytesOfCandidates, queue : BytesOfCandidates]
  BY DEF StoreSound, StoreTyped
<1>2. /\ company' \in [log : BytesOfCandidates, queue : BytesOfCandidates]
      /\ \A d \in Candidates : /\ company'.log[d] \subseteq company.log[d] \cup (IF d = c THEN {b} ELSE {})
                               /\ company'.queue[d] \subseteq company.queue[d] \cup (IF d = c THEN {b} ELSE {})
  <2>1. CASE company' = company
    BY <1>1, <2>1
  <2>2. CASE company' = [company EXCEPT !.log[c] = @ \cup {b}]
    BY <1>1, <2>2 DEF BytesOfCandidates
  <2>3. CASE company' = [company EXCEPT !.queue[c] = @ \cup {b}]
    BY <1>1, <2>3 DEF BytesOfCandidates
  <2> QED
    BY <2>1, <2>2, <2>3
<1>3. StoreTyped'
  BY <1>2 DEF StoreSound, StoreTyped
<1>4. MarksVouch' /\ DecidedIsListed' /\ OwedIsWritten' /\ AbandonedIsWarranted'
  BY DEF StoreSound, MarksVouch, DecidedIsListed, OwedIsWritten, AbandonedIsWarranted
<1>5. BytesAreBound'
  <2> SUFFICES ASSUME NEW d \in Candidates
               PROVE  /\ events[d] \cup company'.log[d] \cup company'.queue[d]
                           \subseteq reserved[d] \cap {journal[d].bytes}
                      /\ index[d] \subseteq events[d]
    BY DEF BytesAreBound
  <2>1. /\ events[d] \cup company.log[d] \cup company.queue[d]
             \subseteq reserved[d] \cap {journal[d].bytes}
        /\ index[d] \subseteq events[d]
    BY DEF StoreSound, BytesAreBound
  <2> QED
    BY <1>2, <2>1
<1>6. CommitIsJournaled'
  BY DEF StoreSound, CommitIsJournaled, LatestState
<1> QED
  BY <1>3, <1>4, <1>5, <1>6 DEF StoreSound

\* The post of a process whose bytes are bound and reserved, with any answer.
LEMMA PostKeeps ==
    ASSUME NEW p, Procs = {p}, SagaInv, Post(p)
    PROVE  SagaInv'
<1>1. PICK r \in Process : r = proc[p] /\ Sound(r)
  BY TheProcess
<1>2. r.step = "post" /\ r.phase = "check"
  BY <1>1 DEF Post, AtStep
<1>3. PICK c : c = r.current
  OBVIOUS
<1>4. PICK b : b = r.bytes
  OBVIOUS
<1>5. /\ c \in CompanyCandidates /\ c \in Candidates /\ b \in Bytes
      /\ b = journal[c].bytes /\ b \in reserved[c] /\ ~TerminalReceipt(journal[c])
  BY <1>1, <1>2, <1>3, <1>4, ProcessFields
  DEF Sound, OnItsCandidate, BytesInHand, OutcomeInHand, CompanySteps, PostingSteps, Candidates
<1>6. /\ \/ company' = company
         \/ company' = [company EXCEPT !.log[c] = @ \cup {b}]
         \/ company' = [company EXCEPT !.queue[c] = @ \cup {b}]
      /\ \E o \in Outcomes : Answered(p, o)
  BY <1>1, <1>3, <1>4 DEF Post, Outcomes
<1>7. PICK o \in Outcomes : Answered(p, o)
  BY <1>6
<1>8. UNCHANGED <<journal, reserved, events, index, decided, apologies, due, abandoned, orphanEvents>>
  BY DEF Post
<1>9. StoreSound'
  BY <1>5, <1>6, <1>8, CompanyMoves, TheProcess
<1>10. PICK st : st = IF o = "committed" THEN "reconcile" ELSE "diverge"
  OBVIOUS
<1>11. PICK x : x = [r EXCEPT !.outcome = o, !.step = st]
  OBVIOUS
<1>12. proc' = [proc EXCEPT ![p] = x]
  BY <1>1, <1>7, <1>10, <1>11, TheProcess DEF Answered
<1>13. x \in Process
  <2>1. st \in StepNames
    BY <1>10 DEF StepNames
  <2> QED
    BY <1>7, <1>11, <2>1 DEF Process, StepNames
<1>14. /\ x.step = st /\ x.phase = r.phase /\ x.current = r.current /\ x.bytes = r.bytes
       /\ x.outcome = o /\ x.owed = r.owed /\ x.siblings = r.siblings /\ x.sweep = r.sweep
  BY <1>11 DEF Process
<1>15. Sound(x)
  BY <1>1, <1>2, <1>3, <1>5, <1>10, <1>13, <1>14
  DEF Sound, OnItsCandidate, BytesInHand, OutcomeInHand, OwedInHand, SweepInHand, IdleIsIdle,
      CodebaseSteps, CompanySteps, PostingSteps, DivergingSteps, Outcomes
<1>16. Sound(x)'
  BY <1>8, <1>15, SoundDecides
<1> QED
  BY <1>9, <1>12, <1>16, TheProcess, StoreMoves

\* A steward moves what Company keeps already.
LEMMA StewardAdmitsKeeps ==
    ASSUME NEW p, Procs = {p}, SagaInv, NEW c \in CompanyCandidates, StewardAdmits(c)
    PROVE  SagaInv'
<1>1. PICK b \in company.queue[c] : company' = [company EXCEPT !.log[c] = @ \cup {b}]
  BY DEF StewardAdmits
<1>2. c \in Candidates
  BY DEF Candidates
<1>3. b = journal[c].bytes /\ b \in reserved[c] /\ b \in Bytes
  BY <1>2, TheProcess DEF StoreSound, StoreTyped, BytesAreBound, BytesOfCandidates
<1>4. UNCHANGED <<journal, reserved, events, index, decided, apologies, due, abandoned, orphanEvents>>
  BY DEF StewardAdmits
<1>5. StoreSound'
  BY <1>1, <1>2, <1>3, <1>4, CompanyMoves, TheProcess
<1> QED
  BY <1>4, <1>5, ProcStays DEF StewardAdmits

-----------------------------------------------------------------------------
(* Steps that write an apology *)

\* An apology once written is not unwritten; it waits only while no commit is
\* on record, and is abandoned with its warrant.
LEMMA ApologiesMove ==
    ASSUME StoreSound,
           apologies' \in [Apologies -> {"none", "awaiting", "reconciled", "abandoned"}],
           \A a \in Apologies :
              /\ apologies'[a] = "none" => apologies[a] = "none"
              /\ apologies'[a] = "awaiting" =>
                   \/ apologies[a] = "awaiting"
                   \/ ~(TerminalReceipt(journal[a[1]]) /\ journal[a[1]].outcome = "committed")
              /\ apologies'[a] = "abandoned" =>
                   \/ apologies[a] = "abandoned"
                   \/ orphanEvents[a] > 0 /\ a \in abandoned,
           UNCHANGED <<journal, reserved, events, index, decided, due, abandoned,
                       orphanEvents, company>>
    PROVE  StoreSound'
<1>1. StoreTyped'
  BY DEF StoreSound, StoreTyped
<1>2. MarksVouch' /\ BytesAreBound' /\ DecidedIsListed'
  BY DEF StoreSound, MarksVouch, BytesAreBound, DecidedIsListed
<1>3. CommitIsJournaled'
  BY DEF StoreSound, CommitIsJournaled, LatestState
<1>4. OwedIsWritten'
  <2> SUFFICES ASSUME NEW c \in CompanyCandidates, NEW s \in journal[c].owed
               PROVE  apologies'[<<c, s>>] # "none"
    BY DEF OwedIsWritten
  <2>1. c \in Candidates
    BY DEF Candidates
  <2>2. s \in Candidates \ {c}
    BY <2>1 DEF StoreSound, StoreTyped
  <2>3. <<c, s>> \in Apologies
    BY <2>2 DEF Apologies
  <2> QED
    BY <2>3 DEF StoreSound, OwedIsWritten
<1>5. AbandonedIsWarranted'
  BY DEF StoreSound, AbandonedIsWarranted
<1> QED
  BY <1>1, <1>2, <1>3, <1>4, <1>5 DEF StoreSound

\* A commit leaves no apology of its candidate waiting.
LEMMA ReconcileKeeps ==
    ASSUME NEW p, Procs = {p}, SagaInv, Reconcile(p)
    PROVE  SagaInv'
<1>1. PICK r \in Process : r = proc[p] /\ Sound(r)
  BY TheProcess
<1>2. r.step = "reconcile" /\ r.phase = "check"
  BY <1>1 DEF Reconcile, AtStep
<1>3. PICK c : c = r.current
  OBVIOUS
<1>4. UNCHANGED <<journal, reserved, events, index, decided, due, abandoned, orphanEvents, company>>
  BY DEF Reconcile
<1>5. apologies \in [Apologies -> {"none", "awaiting", "reconciled", "abandoned"}]
  BY TheProcess DEF StoreSound, StoreTyped
<1>6. apologies' = [a \in Apologies |-> IF a \in OpenApologies(c) THEN "reconciled"
                                       ELSE apologies[a]]
  BY <1>1, <1>3 DEF Reconcile
<1>7. /\ apologies' \in [Apologies -> {"none", "awaiting", "reconciled", "abandoned"}]
      /\ \A a \in Apologies : /\ apologies'[a] \in {"reconciled", apologies[a]}
                              /\ a[1] = c => apologies'[a] # "awaiting"
  BY <1>5, <1>6 DEF OpenApologies
<1>8. StoreSound'
  BY <1>4, <1>5, <1>7, ApologiesMove, TheProcess
<1>9. "outcome" \in StepNames /\ "lock" \in Phases /\ Goto(p, "outcome", "lock")
  BY DEF StepNames, Phases, Reconcile
<1>10. PICK x \in Process : /\ proc' = [proc EXCEPT ![p] = x]
                            /\ x.step = "outcome" /\ x.phase = "lock" /\ Carries(x, proc[p])
  BY <1>9, GoneOn
<1>11. /\ x.current = c /\ x.bytes = r.bytes /\ x.outcome = "committed" /\ x.owed = {}
       /\ x.siblings = {} /\ x.sweep = r.sweep
  BY <1>1, <1>2, <1>3, <1>10 DEF Carries, Sound, OutcomeInHand, OwedInHand, DivergingSteps
<1>12. /\ c \in CompanyCandidates /\ c \in Candidates /\ r.bytes # None
       /\ journal[c].bytes = r.bytes /\ r.bytes \in reserved[c] /\ ~TerminalReceipt(journal[c])
       /\ r.sweep \subseteq Apologies
  BY <1>1, <1>2, <1>3
  DEF Sound, OnItsCandidate, BytesInHand, OutcomeInHand, SweepInHand, CompanySteps, PostingSteps,
      Candidates
<1>13. BytesInHand(x)' /\ OutcomeInHand(x)'
  BY <1>4, <1>7, <1>10, <1>11, <1>12
  DEF BytesInHand, OutcomeInHand, CodebaseSteps, CompanySteps, PostingSteps, Outcomes
<1>14. OwedInHand(x)' /\ SweepInHand(x)' /\ OnItsCandidate(x) /\ IdleIsIdle(x)
  BY <1>10, <1>11, <1>12
  DEF OwedInHand, SweepInHand, OnItsCandidate, IdleIsIdle, DivergingSteps, CodebaseSteps,
      CompanySteps, PostingSteps
<1>15. Sound(x)'
  BY <1>10, <1>13, <1>14 DEF Sound, OnItsCandidate, IdleIsIdle
<1> QED
  BY <1>8, <1>10, <1>15, TheProcess, StoreMoves

\* An apology is written for one sibling, of a candidate without a commit.
LEMMA ApologyEffectKeeps ==
    ASSUME NEW p, Procs = {p}, SagaInv, ApologyEffect(p)
    PROVE  SagaInv'
<1>1. PICK r \in Process : r = proc[p] /\ Sound(r)
  BY TheProcess
<1>2. r.step = "apology" /\ r.phase = "effect"
  BY <1>1 DEF ApologyEffect, AtStep
<1>3. PICK c : c = r.current
  OBVIOUS
<1>4. PICK m : m = Min(r.siblings)
  OBVIOUS
<1>5. /\ r.siblings # {} /\ r.siblings \subseteq r.owed /\ r.owed \subseteq Candidates \ {c}
      /\ \A s \in r.owed \ r.siblings : apologies[<<c, s>>] # "none"
  BY <1>1, <1>2, <1>3 DEF Sound, OwedInHand, DivergingSteps
<1>6. m \in r.siblings
  <2>1. r.siblings \in SUBSET Nat
    BY <1>5, CandidatesAreNumbers
  <2> QED
    BY <1>4, <1>5, <2>1, MinIsMember
<1>7. /\ c \in CompanyCandidates /\ c \in Candidates /\ r.bytes # None
      /\ journal[c].bytes = r.bytes /\ r.bytes \in reserved[c] /\ ~TerminalReceipt(journal[c])
      /\ r.outcome \in {"pending", "refused"} /\ r.sweep \subseteq Apologies
  BY <1>1, <1>2, <1>3
  DEF Sound, OnItsCandidate, BytesInHand, OutcomeInHand, SweepInHand, CompanySteps, PostingSteps,
      Candidates
<1>8. PICK a : a = <<c, m>>
  OBVIOUS
<1>9. a \in Apologies /\ a[1] = c /\ a[2] = m
  BY <1>5, <1>6, <1>7, <1>8 DEF Apologies
<1>10. UNCHANGED <<journal, reserved, events, index, decided, due, abandoned, orphanEvents, company>>
  BY DEF ApologyEffect
<1>11. apologies \in [Apologies -> {"none", "awaiting", "reconciled", "abandoned"}]
  BY TheProcess DEF StoreSound, StoreTyped
<1>12. apologies' = [apologies EXCEPT ![a] = IF @ = "none" THEN "awaiting" ELSE @]
  BY <1>1, <1>3, <1>4, <1>8 DEF ApologyEffect
<1>13. /\ apologies' \in [Apologies -> {"none", "awaiting", "reconciled", "abandoned"}]
       /\ apologies'[a] # "none"
       /\ apologies'[a] = apologies[a] \/ apologies'[a] = "awaiting"
       /\ \A d \in Apologies \ {a} : apologies'[d] = apologies[d]
  BY <1>9, <1>11, <1>12
<1>14. StoreSound'
  <2>1. ~(TerminalReceipt(journal[a[1]]) /\ journal[a[1]].outcome = "committed")
    BY <1>7, <1>9
  <2> QED
    BY <1>10, <1>13, <2>1, ApologiesMove, TheProcess
<1>15. PICK x : x = [r EXCEPT !.siblings = r.siblings \ {m}, !.phase = "complete"]
  OBVIOUS
<1>16. proc' = [proc EXCEPT ![p] = x]
  BY <1>1, <1>4, <1>15, TheProcess DEF ApologyEffect
<1>17. x \in Process
  BY <1>15 DEF Process
<1>18. /\ x.step = "apology" /\ x.phase = "complete" /\ x.current = c /\ x.bytes = r.bytes
       /\ x.outcome = r.outcome /\ x.owed = r.owed /\ x.siblings = r.siblings \ {m}
       /\ x.sweep = r.sweep
  BY <1>2, <1>3, <1>15 DEF Process
<1>19. BytesInHand(x)' /\ OutcomeInHand(x)'
  BY <1>7, <1>10, <1>18
  DEF BytesInHand, OutcomeInHand, CodebaseSteps, CompanySteps, PostingSteps
<1>20. OwedInHand(x)'
  <2>1. \A s \in r.owed \ (r.siblings \ {m}) : apologies'[<<c, s>>] # "none"
    <3> SUFFICES ASSUME NEW s \in r.owed, s = m \/ s \notin r.siblings
                 PROVE  apologies'[<<c, s>>] # "none"
      OBVIOUS
    <3>1. CASE s = m
      BY <1>8, <1>13, <3>1
    <3>2. CASE s # m
      <4>1. s \in r.owed \ r.siblings
        BY <3>2
      <4>2. <<c, s>> \in Apologies /\ <<c, s>> # a
        BY <1>5, <1>7, <1>8, <3>2 DEF Apologies
      <4> QED
        BY <1>5, <1>13, <4>1, <4>2
    <3> QED
      BY <3>1, <3>2
  <2> QED
    BY <1>5, <1>18, <2>1 DEF OwedInHand, DivergingSteps
<1>21. SweepInHand(x)' /\ OnItsCandidate(x) /\ IdleIsIdle(x)
  BY <1>7, <1>18
  DEF SweepInHand, OnItsCandidate, IdleIsIdle, CodebaseSteps, CompanySteps, PostingSteps
<1>22. Sound(x)'
  BY <1>17, <1>19, <1>20, <1>21 DEF Sound, OnItsCandidate, IdleIsIdle
<1> QED
  BY <1>14, <1>16, <1>22, TheProcess, StoreMoves

-----------------------------------------------------------------------------
(* The sweep *)

\* A deadline is nothing the process in hand relies on.
LEMMA DeadlinePassesKeeps ==
    ASSUME NEW p, Procs = {p}, SagaInv, NEW a \in Apologies, DeadlinePasses(a)
    PROVE  SagaInv'
<1>1. UNCHANGED Ledgers /\ UNCHANGED proc /\ due' \subseteq Apologies
  BY TheProcess DEF DeadlinePasses, Ledgers, StoreSound, StoreTyped
<1>2. StoreSound'
  BY <1>1, StoreStays, TheProcess
<1> QED
  BY <1>1, <1>2, ProcStays DEF Ledgers

\* What a process sweeps next is an apology.
LEMMA SweptIsApology ==
    ASSUME NEW p, NEW r, r = proc[p], r.sweep # {}, r.sweep \subseteq Apologies
    PROVE  Swept(p) = SweptOf(r) /\ SweptOf(r) \in r.sweep /\ SweptOf(r) \in Apologies
BY DEF Swept, SweptOf

\* The event of an abandonment, and an index that lists all events.
LEMMA EmitOrphanKeeps ==
    ASSUME NEW p, Procs = {p}, SagaInv, EmitOrphan(p)
    PROVE  SagaInv'
<1>1. PICK r \in Process : r = proc[p] /\ Sound(r)
  BY TheProcess
<1>2. r.step = "sweep" /\ r.phase = "effect" /\ r.sweep # {} /\ r.sweep \subseteq Apologies
  BY <1>1 DEF EmitOrphan, AtStep, Sound, SweepInHand
<1>3. PICK a : a = SweptOf(r)
  OBVIOUS
<1>4. a \in Apologies /\ Swept(p) = a
  BY <1>1, <1>2, <1>3, SweptIsApology
<1>5. UNCHANGED <<journal, reserved, events, decided, apologies, due, abandoned, company>>
  BY DEF EmitOrphan
<1>6. index' = events
  BY DEF EmitOrphan
<1>7. orphanEvents \in [Apologies -> Nat] /\ orphanEvents' = [orphanEvents EXCEPT ![a] = @ + 1]
  BY <1>4, TheProcess DEF EmitOrphan, StoreSound, StoreTyped
<1>8. /\ orphanEvents' \in [Apologies -> Nat] /\ orphanEvents'[a] > 0
      /\ \A d \in Apologies : orphanEvents'[d] >= orphanEvents[d]
  BY <1>4, <1>7
<1>9. StoreSound'
  BY <1>5, <1>6, <1>8, IndexMoves, TheProcess
<1>10. "sweep" \in StepNames /\ "verify" \in Phases /\ Goto(p, "sweep", "verify")
  BY DEF StepNames, Phases, EmitOrphan
<1>11. PICK x \in Process : /\ proc' = [proc EXCEPT ![p] = x]
                            /\ x.step = "sweep" /\ x.phase = "verify" /\ Carries(x, proc[p])
  BY <1>10, GoneOn
<1>12. SweepInHand(x)'
  <2>1. x.sweep = r.sweep
    BY <1>1, <1>11 DEF Carries
  <2>2. SweptOf(x) = a
    BY <1>3, <2>1 DEF SweptOf
  <2> QED
    BY <1>2, <1>8, <1>11, <2>1, <2>2 DEF SweepInHand, SweptOf
<1>13. Sound(x)'
  BY <1>1, <1>2, <1>5, <1>11, <1>12
  DEF Sound, Carries, OnItsCandidate, BytesInHand, OutcomeInHand, OwedInHand, IdleIsIdle,
      CodebaseSteps, CompanySteps, PostingSteps, DivergingSteps
<1> QED
  BY <1>9, <1>11, <1>13, TheProcess, StoreMoves

\* The ledger entry, after the event.
LEMMA LogOrphanKeeps ==
    ASSUME NEW p, Procs = {p}, SagaInv, LogOrphan(p)
    PROVE  SagaInv'
<1>1. PICK r \in Process : r = proc[p] /\ Sound(r)
  BY TheProcess
<1>2. r.step = "sweep" /\ r.phase = "verify" /\ r.sweep # {} /\ r.sweep \subseteq Apologies
  BY <1>1 DEF LogOrphan, AtStep, Sound, SweepInHand
<1>3. PICK a : a = SweptOf(r)
  OBVIOUS
<1>4. a \in Apologies /\ Swept(p) = a /\ orphanEvents[a] > 0
  BY <1>1, <1>2, <1>3, SweptIsApology DEF Sound, SweepInHand
<1>5. UNCHANGED <<journal, reserved, events, index, decided, apologies, due, orphanEvents, company>>
  BY DEF LogOrphan
<1>6. abandoned' = abandoned \cup {a}
  BY <1>4 DEF LogOrphan
<1>7. StoreSound'
  <2>1. StoreTyped'
    BY <1>4, <1>5, <1>6, TheProcess DEF StoreSound, StoreTyped
  <2>2. MarksVouch' /\ BytesAreBound' /\ DecidedIsListed' /\ OwedIsWritten' /\ CommitIsJournaled'
    BY <1>5, TheProcess
    DEF StoreSound, MarksVouch, BytesAreBound, DecidedIsListed, OwedIsWritten, CommitIsJournaled,
        LatestState
  <2>3. AbandonedIsWarranted'
    BY <1>5, <1>6, TheProcess DEF StoreSound, AbandonedIsWarranted
  <2> QED
    BY <2>1, <2>2, <2>3 DEF StoreSound
<1>8. "sweep" \in StepNames /\ "complete" \in Phases /\ Goto(p, "sweep", "complete")
  BY DEF StepNames, Phases, LogOrphan
<1>9. PICK x \in Process : /\ proc' = [proc EXCEPT ![p] = x]
                           /\ x.step = "sweep" /\ x.phase = "complete" /\ Carries(x, proc[p])
  BY <1>8, GoneOn
<1>10. SweepInHand(x)'
  <2>1. x.sweep = r.sweep
    BY <1>1, <1>9 DEF Carries
  <2>2. SweptOf(x) = a
    BY <1>3, <2>1 DEF SweptOf
  <2> QED
    BY <1>2, <1>4, <1>5, <1>6, <1>9, <2>1, <2>2 DEF SweepInHand
<1>11. Sound(x)'
  BY <1>1, <1>2, <1>5, <1>9, <1>10
  DEF Sound, Carries, OnItsCandidate, BytesInHand, OutcomeInHand, OwedInHand, IdleIsIdle,
      CodebaseSteps, CompanySteps, PostingSteps, DivergingSteps
<1> QED
  BY <1>7, <1>9, <1>11, TheProcess, StoreMoves

\* The apology is closed with both.
LEMMA CloseApologyKeeps ==
    ASSUME NEW p, Procs = {p}, SagaInv, CloseApology(p)
    PROVE  SagaInv'
<1>1. PICK r \in Process : r = proc[p] /\ Sound(r)
  BY TheProcess
<1>2. r.step = "sweep" /\ r.phase = "complete" /\ r.sweep # {} /\ r.sweep \subseteq Apologies
  BY <1>1 DEF CloseApology, AtStep, Sound, SweepInHand
<1>3. PICK a : a = SweptOf(r)
  OBVIOUS
<1>4. a \in Apologies /\ Swept(p) = a /\ orphanEvents[a] > 0 /\ a \in abandoned
  BY <1>1, <1>2, <1>3, SweptIsApology DEF Sound, SweepInHand
<1>5. UNCHANGED <<journal, reserved, events, index, decided, due, abandoned, orphanEvents, company>>
  BY DEF CloseApology
<1>6. apologies \in [Apologies -> {"none", "awaiting", "reconciled", "abandoned"}]
  BY TheProcess DEF StoreSound, StoreTyped
<1>7. apologies' = [apologies EXCEPT ![a] = "abandoned"]
  BY <1>4 DEF CloseApology
<1>8. /\ apologies' \in [Apologies -> {"none", "awaiting", "reconciled", "abandoned"}]
      /\ apologies'[a] = "abandoned" /\ \A d \in Apologies \ {a} : apologies'[d] = apologies[d]
  BY <1>4, <1>6, <1>7
<1>9. StoreSound'
  BY <1>4, <1>5, <1>8, ApologiesMove, TheProcess
<1>10. PICK T : T = r.sweep \ {a}
  OBVIOUS
<1>11. CASE T = {}
  <2>1. PICK x : x = Idle
    OBVIOUS
  <2>2. proc' = [proc EXCEPT ![p] = x]
    BY <1>1, <1>4, <1>10, <1>11, <2>1 DEF CloseApology
  <2>3. Sound(x)'
    BY <2>1, IdleStaysSound
  <2> QED
    BY <1>9, <2>2, <2>3, TheProcess, StoreMoves
<1>12. CASE T # {}
  <2>1. PICK x : x = [r EXCEPT !.sweep = T, !.phase = "effect"]
    OBVIOUS
  <2>2. proc' = [proc EXCEPT ![p] = x]
    BY <1>1, <1>4, <1>10, <1>12, <2>1, TheProcess DEF CloseApology
  <2>3. T \subseteq Apologies
    BY <1>2, <1>10
  <2>4. x \in Process
    BY <2>1, <2>3 DEF Process
  <2>5. /\ x.step = "sweep" /\ x.phase = "effect" /\ x.owed = {} /\ x.siblings = {} /\ x.sweep = T
    BY <1>1, <1>2, <2>1 DEF Process, Sound, OwedInHand, DivergingSteps
  <2>6. Sound(x)'
    BY <1>12, <2>3, <2>4, <2>5
    DEF Sound, OnItsCandidate, BytesInHand, OutcomeInHand, OwedInHand, SweepInHand, IdleIsIdle,
        CodebaseSteps, CompanySteps, PostingSteps, DivergingSteps
  <2> QED
    BY <1>9, <2>2, <2>6, TheProcess, StoreMoves
<1> QED
  BY <1>11, <1>12

-----------------------------------------------------------------------------
(* The invariant *)

\* Nothing has been journaled, written or posted at the start.
LEMMA InitIsSound == Init => SagaInv
<1> SUFFICES ASSUME Init PROVE SagaInv
  OBVIOUS
<1>1. PICK j : j = NoJournal
  OBVIOUS
<1>2. /\ j \in Marker /\ j.owed = {} /\ j.bytes = None /\ j.outcome = "none"
      /\ \A t \in Transitions : j.mark[t] = "none"
  BY <1>1 DEF NoJournal, Marker, MarkerState
<1>3. journal = [c \in Candidates |-> j]
  BY <1>1 DEF Init
<1>4. \A c \in Candidates : decided[c] = <<>> /\ LatestState(c) = "none"
  BY DEF Init, LatestState
<1>5. StoreTyped
  <2>1. <<>> \in Seq(Decision)
    BY EmptySeq
  <2>2. decided \in [Candidates -> Seq(Decision)]
    BY <2>1 DEF Init
  <2>3. company \in [log : BytesOfCandidates, queue : BytesOfCandidates]
    BY DEF Init, BytesOfCandidates
  <2>4. journal \in [Candidates -> Marker] /\ \A c \in Candidates : journal[c].owed = {}
    BY <1>2, <1>3
  <2> QED
    BY <2>2, <2>3, <2>4 DEF Init, StoreTyped, BytesOfCandidates
<1>6. MarksVouch
  BY <1>2, <1>3 DEF MarksVouch, Transitions
<1>7. BytesAreBound
  BY DEF Init, BytesAreBound
<1>8. DecidedIsListed
  <2> SUFFICES ASSUME NEW c \in CodebaseCandidates, NEW i \in DOMAIN decided[c] PROVE FALSE
    BY DEF DecidedIsListed
  <2>1. decided[c] = <<>>
    BY <1>4 DEF Candidates
  <2> QED
    BY <2>1
<1>9. CommitIsJournaled /\ OwedIsWritten
  <2>1. \A c \in CompanyCandidates : c \in Candidates
    BY DEF Candidates
  <2> QED
    BY <1>2, <1>3, <1>4, <2>1 DEF CommitIsJournaled, OwedIsWritten
<1>10. AbandonedIsWarranted
  BY DEF Init, AbandonedIsWarranted
<1>11. DOMAIN proc = Procs /\ \A p \in Procs : Sound(proc[p])
  BY IdleIsSound DEF Init
<1> QED
  BY <1>5, <1>6, <1>7, <1>8, <1>9, <1>10, <1>11 DEF SagaInv, StoreSound

\* Whatever a process does next keeps the invariant.
LEMMA StepKeeps ==
    ASSUME NEW p, Procs = {p}, SagaInv, Step(p)
    PROVE  SagaInv'
<1>1. CASE NextTarget(p)
  BY <1>1, NextTargetKeeps
<1>2. CASE Recover(p)
  BY <1>2, RecoverKeeps
<1>3. CASE Bind(p)
  BY <1>3, BindKeeps
<1>4. CASE CheckMarker(p)
  BY <1>4, CheckMarkerKeeps
<1>5. CASE BeginTransition(p)
  BY <1>5, BeginTransitionKeeps
<1>6. CASE CompleteTransition(p)
  BY <1>6, CompleteTransitionKeeps
<1>7. CASE ReserveEffect(p)
  BY <1>7, ReserveEffectKeeps
<1>8. CASE AppendEffect(p)
  BY <1>8, AppendEffectKeeps
<1>9. CASE ManifestEffect(p)
  BY <1>9, ManifestEffectKeeps
<1>10. CASE WriteReceipt(p)
  BY <1>10, WriteReceiptKeeps
<1>11. CASE VerifyReceipt(p)
  BY <1>11, VerifyReceiptKeeps
<1>12. CASE CompleteReceipt(p)
  BY <1>12, CompleteReceiptKeeps
<1>13. CASE FinishReceipt(p)
  BY <1>13, FinishReceiptKeeps
<1>14. CASE Summary(p)
  BY <1>14, SummaryKeeps
<1>15. CASE ReplayReceipt(p)
  BY <1>15, ReplayReceiptKeeps
<1>16. CASE FinishReplay(p)
  BY <1>16, FinishReplayKeeps
<1>17. CASE Post(p)
  BY <1>17, PostKeeps
<1>18. CASE Reconcile(p)
  BY <1>18, ReconcileKeeps
<1>19. CASE Diverge(p)
  BY <1>19, DivergeKeeps
<1>20. CASE NextSibling(p)
  BY <1>20, NextSiblingKeeps
<1>21. CASE ApologyEffect(p)
  BY <1>21, ApologyEffectKeeps
<1>22. CASE RecordOutcome(p)
  BY <1>22, RecordOutcomeKeeps
<1>23. CASE FinalizeOutcome(p)
  BY <1>23, FinalizeOutcomeKeeps
<1>24. CASE FinishOutcome(p)
  BY <1>24, FinishOutcomeKeeps
<1>25. CASE LockSweep(p)
  BY <1>25, LockSweepKeeps
<1>26. CASE EmitOrphan(p)
  BY <1>26, EmitOrphanKeeps
<1>27. CASE LogOrphan(p)
  BY <1>27, LogOrphanKeeps
<1>28. CASE CloseApology(p)
  BY <1>28, CloseApologyKeeps
<1>29. CASE LockTimeout(p)
  BY <1>29, LockTimeoutKeeps
<1> QED
  BY <1>1, <1>2, <1>3, <1>4, <1>5, <1>6, <1>7, <1>8, <1>9, <1>10, <1>11, <1>12, <1>13, <1>14,
     <1>15, <1>16, <1>17, <1>18, <1>19, <1>20, <1>21, <1>22, <1>23, <1>24, <1>25, <1>26, <1>27,
     <1>28, <1>29
  DEF Step

\* Another command of the repository takes and gives back the lock only.
LEMMA NothingMoves ==
    ASSUME NEW p, Procs = {p}, SagaInv, UNCHANGED store, UNCHANGED proc
    PROVE  SagaInv'
<1>1. UNCHANGED Ledgers /\ due' \subseteq Apologies
  BY TheProcess DEF store, Ledgers, StoreSound, StoreTyped
<1>2. StoreSound'
  BY <1>1, StoreStays, TheProcess
<1> QED
  BY <1>1, <1>2, ProcStays DEF Ledgers

\* Every step keeps the invariant.
LEMMA NextKeeps ==
    ASSUME OneProcess
    PROVE  SagaInv /\ [Next]_vars => SagaInv'
<1> SUFFICES ASSUME SagaInv, [Next]_vars PROVE SagaInv'
  OBVIOUS
<1>1. PICK p : Procs = {p}
  BY DEF OneProcess
<1>2. CASE Step(p)
  BY <1>1, <1>2, StepKeeps
<1>3. CASE Checkpoint(p)
  BY <1>1, <1>3, CheckpointKeeps
<1>4. CASE OtherAdmission(p)
  BY <1>1, <1>4, OtherAdmissionKeeps
<1>5. CASE StartSweep(p)
  BY <1>1, <1>5, StartSweepKeeps
<1>6. CASE Crash(p)
  BY <1>1, <1>6, CrashKeeps
<1>7. ASSUME NEW c \in CompanyCandidates, StewardAdmits(c) PROVE SagaInv'
  BY <1>1, <1>7, StewardAdmitsKeeps
<1>8. ASSUME NEW a \in Apologies, DeadlinePasses(a) PROVE SagaInv'
  BY <1>1, <1>8, DeadlinePassesKeeps
<1>9. CASE NeighbourLocks
  BY <1>1, <1>9, NothingMoves DEF NeighbourLocks
<1>10. CASE NeighbourReleases
  BY <1>1, <1>10, NothingMoves DEF NeighbourReleases
<1>11. CASE UNCHANGED vars
  BY <1>1, <1>11, NothingMoves DEF vars
<1> QED
  BY <1>1, <1>2, <1>3, <1>4, <1>5, <1>6, <1>7, <1>8, <1>9, <1>10, <1>11 DEF Next

\* What is bound, reserved, durable, indexed and recorded agrees, and so does
\* what the process has in hand, wherever it dies and whenever Company answers.
THEOREM SagaIsSound ==
    ASSUME OneProcess
    PROVE  Spec => []SagaInv
<1>1. SagaInv /\ [Next]_vars => SagaInv'
  BY NextKeeps
<1> QED
  BY <1>1, InitIsSound, PTL DEF Spec

-----------------------------------------------------------------------------
(* The properties of the run *)

\* A candidate gets one event, whichever of its retries wrote it; it is
\* reserved before and listed in the index after (reserve_nonce, begin,
\* recover_fanout_journal).
THEOREM EventsAreJournaledAlways ==
    ASSUME OneProcess
    PROVE  Spec => []EventsAreJournaled
<1>1. SagaInv => EventsAreJournaled
  <2> SUFFICES ASSUME SagaInv PROVE EventsAreJournaled
    OBVIOUS
  <2>1. OneEventPerCandidate
    <3> SUFFICES ASSUME NEW c \in Candidates
                 PROVE  Cardinality(events[c] \cup company.log[c]) <= 1
      BY DEF OneEventPerCandidate
    <3>1. PICK b : b = journal[c].bytes
      OBVIOUS
    <3>2. PICK S : S = events[c] \cup company.log[c]
      OBVIOUS
    <3>3. S \subseteq {b}
      BY <3>1, <3>2 DEF SagaInv, StoreSound, BytesAreBound
    <3>4. S = {} \/ S = {b}
      BY <3>3
    <3>5. Cardinality({}) = 0 /\ Cardinality({b}) = 1
      BY FS_EmptySet, FS_Singleton
    <3>6. Cardinality(S) <= 1
      BY <3>4, <3>5
    <3> QED
      BY <3>2, <3>6
  <2>2. ReservedBeforeEvent
    BY DEF SagaInv, StoreSound, BytesAreBound, ReservedBeforeEvent
  <2>3. CommittedIsIndexed
    <3> SUFFICES ASSUME NEW c \in CodebaseCandidates, LatestState(c) = "committed"
                 PROVE  Last(decided[c]).bytes \in index[c]
      BY DEF CommittedIsIndexed
    <3>1. PICK q : q = decided[c]
      OBVIOUS
    <3>2. q \in Seq(Decision)
      BY <3>1 DEF SagaInv, StoreSound, StoreTyped, Candidates
    <3>3. q # <<>>
      BY <3>1 DEF LatestState
    <3>4. Len(q) \in DOMAIN q
      BY <3>2, <3>3, EmptySeq, LenProperties
    <3> QED
      BY <3>1, <3>4 DEF SagaInv, StoreSound, DecidedIsListed, Last
  <2> QED
    BY <2>1, <2>2, <2>3 DEF EventsAreJournaled
<1> QED
  BY <1>1, SagaIsSound, PTL

\* An apology is written for every sibling an outcome owes one, settled before
\* a commit is on record, and abandoned only with its event and its ledger
\* entry (commit_company, emit_due_orphan_abandonments).
THEOREM ApologiesAreKeptAlways ==
    ASSUME OneProcess
    PROVE  Spec => []ApologiesAreKept
<1>1. SagaInv => ApologiesAreKept
  <2> SUFFICES ASSUME SagaInv PROVE ApologiesAreKept
    OBVIOUS
  <2>1. CommitSettlesApologies
    <3> SUFFICES ASSUME NEW a \in Apologies, LatestState(a[1]) = "committed"
                 PROVE  apologies[a] # "awaiting"
      BY DEF CommitSettlesApologies
    <3>1. PICK c \in CompanyCandidates : c = a[1]
      BY DEF Apologies
    <3> QED
      BY <3>1 DEF SagaInv, StoreSound, CommitIsJournaled
  <2> QED
    BY <2>1 DEF ApologiesAreKept, SagaInv, StoreSound
<1> QED
  BY <1>1, SagaIsSound, PTL

\* A terminal receipt in the journal is replayed as it is, never replaced
\* (commit_company).
THEOREM TerminalReceiptStaysAlways ==
    ASSUME OneProcess
    PROVE  Spec => TerminalReceiptStays
<1> DEFINE Stays == \A c \in CompanyCandidates :
                      TerminalReceipt(journal[c]) => journal'[c].outcome = journal[c].outcome
<1>1. SagaInv /\ [Next]_vars => [Stays]_vars
  <2> SUFFICES ASSUME SagaInv, Next PROVE Stays
    BY DEF vars, store
  <2>1. PICK p : Procs = {p}
    BY DEF OneProcess
  <2>2. PICK r \in Process : r = proc[p] /\ Sound(r)
    BY <2>1, TheProcess
  <2>3. journal \in [Candidates -> Marker]
    BY DEF SagaInv, StoreSound, StoreTyped
  <2>4. CASE journal' = journal
    BY <2>4
  <2>6. CASE RecordOutcome(p)
    <3>1. ~TerminalReceipt(journal[r.current])
      BY <2>2, <2>6 DEF RecordOutcome, AtStep, Sound, OutcomeInHand
    <3>2. \A c \in Candidates : c # r.current => journal'[c] = journal[c]
      BY <2>2, <2>3, <2>6 DEF RecordOutcome
    <3> QED
      BY <3>1, <3>2 DEF Candidates
  <2>7. CASE BeginTransition(p)
    <3>1. journal' = [journal EXCEPT ![r.current] = Begun(@, r.step, r.bytes)]
      BY <2>2, <2>7 DEF BeginTransition
    <3> QED
      BY <2>3, <3>1 DEF Begun, Marker, Candidates
  <2>8. CASE CompleteTransition(p) \/ CompleteReceipt(p)
    <3>1. \E t \in Transitions : journal' = [journal EXCEPT ![r.current] = Completed(@, t)]
      BY <2>2, <2>8 DEF CompleteTransition, CompleteReceipt, Transitions
    <3> QED
      BY <2>3, <3>1 DEF Completed, Marker, Candidates
  <2>9. CASE FinishReceipt(p) \/ FinishReplay(p) \/ FinishOutcome(p)
    <3>1. \E d : journal' = [journal EXCEPT ![r.current].done = d]
      BY <2>2, <2>9 DEF FinishReceipt, FinishReplay, FinishOutcome
    <3> QED
      BY <2>3, <3>1 DEF Marker, Candidates
  <2>10. CASE \/ NextTarget(p) \/ Recover(p) \/ Bind(p) \/ CheckMarker(p) \/ Summary(p) \/ Diverge(p)
             \/ NextSibling(p) \/ LockTimeout(p) \/ LockSweep(p) \/ Checkpoint(p)
             \/ OtherAdmission(p) \/ StartSweep(p) \/ Crash(p) \/ NeighbourLocks
             \/ NeighbourReleases
    BY <2>4, <2>10
    DEF NextTarget, Recover, Bind, CheckMarker, Summary, Diverge, NextSibling, LockTimeout, LockSweep,
        Checkpoint, OtherAdmission, StartSweep, Crash, NeighbourLocks, NeighbourReleases, store
  <2>11. CASE \/ ReserveEffect(p) \/ AppendEffect(p) \/ ManifestEffect(p) \/ WriteReceipt(p)
             \/ VerifyReceipt(p) \/ ReplayReceipt(p) \/ Post(p) \/ Reconcile(p)
             \/ ApologyEffect(p) \/ FinalizeOutcome(p) \/ EmitOrphan(p) \/ LogOrphan(p)
             \/ CloseApology(p)
             \/ (\E c \in CompanyCandidates : StewardAdmits(c))
             \/ (\E a \in Apologies : DeadlinePasses(a))
    BY <2>4, <2>11
    DEF ReserveEffect, AppendEffect, ManifestEffect, WriteReceipt, VerifyReceipt, ReplayReceipt,
        Post, Reconcile, ApologyEffect, FinalizeOutcome, EmitOrphan, LogOrphan, CloseApology,
        StewardAdmits, DeadlinePasses
  <2> QED
    BY <2>1, <2>6, <2>7, <2>8, <2>9, <2>10, <2>11 DEF Next, Step
<1> QED
  BY <1>1, SagaIsSound, PTL DEF Spec, TerminalReceiptStays

-----------------------------------------------------------------------------
(* From messages to candidates *)

\* Some numbers have a least one.
LEMMA LeastNumber ==
    ASSUME NEW S \in SUBSET Nat, S # {}
    PROVE  \E m \in S : \A y \in S : m <= y
<1>1. PICK k \in S : TRUE
  OBVIOUS
<1> DEFINE D == {x \in S : x <= k}
<1> DEFINE T == {0..y : y \in D}
<1>2. IsFiniteSet(0..k)
  BY FS_Interval
<1>3. T \in SUBSET SUBSET (0..k) /\ T # {}
  <2>1. \A y \in D : 0..y \in SUBSET (0..k)
    OBVIOUS
  <2>2. k \in D
    OBVIOUS
  <2> QED
    BY <2>1, <2>2, Zenon
<1>4. PICK X \in T : \A Y \in T : Y \subseteq X => Y = X
  <2> DEFINE I == 0..k
  <2>1. IsFiniteSet(I) /\ T \in SUBSET SUBSET I /\ T # {}
    BY <1>2, <1>3
  <2> HIDE DEF T, I
  <2> QED
    BY <2>1, SmallestSubset
<1>5. PICK m \in D : X = 0..m
  OBVIOUS
<1>6. ASSUME NEW y \in S, ~(m <= y) PROVE FALSE
  <2>1. y \in D
    BY <1>5, <1>6
  <2>2. 0..y \in T /\ 0..y \subseteq X /\ m \in X /\ m \notin 0..y
    BY <1>5, <1>6, <2>1
  <2> QED
    BY <1>4, <2>2
<1> QED
  BY <1>5, <1>6

-----------------------------------------------------------------------------
(* The vote *)

\* The order is a sequence.
LEMMA PlacesAreNumbers == DOMAIN Order \in SUBSET Nat
BY ExtractionAssumption, LenProperties

\* The votes for a destination set are counted by a number, and so are its
\* members and its place in the order.
LEMMA Counted ==
    ASSUME NEW s \in Seq(Readings), NEW a, a \in {s[i].labels : i \in DOMAIN s}
    PROVE  /\ Votes(s, a) \in 0..Len(s) /\ Cardinality(a) \in Nat
           /\ Rank(a) \in DOMAIN Order /\ Order[Rank(a)] = a
<1>1. PICK k \in DOMAIN s : a = s[k].labels
  OBVIOUS
<1>2. DOMAIN s = 1..Len(s) /\ Len(s) \in Nat /\ s[k] \in Readings
  BY LenProperties, ElementOfSeq
<1>3. Votes(s, a) \in 0..Len(s)
  <2>1. PICK B : B = {i \in DOMAIN s : s[i].labels = a}
    OBVIOUS
  <2>2. PICK n \in Nat : n = Len(s)
    BY <1>2
  <2>3. IsFiniteSet(1..n) /\ Cardinality(1..n) = n
    BY FS_Interval
  <2>4. B \subseteq 1..n
    BY <1>2, <2>1, <2>2
  <2>5. IsFiniteSet(B) /\ Cardinality(B) <= n
    BY <2>3, <2>4, FS_Subset
  <2>6. Cardinality(B) \in Nat
    BY <2>5, FS_CardinalityType
  <2> QED
    BY <2>1, <2>2, <2>5, <2>6 DEF Votes
<1>4. a \subseteq Labels
  BY <1>1, <1>2, ExtractionAssumption
<1>5. IsFiniteSet(Labels)
  <2>1. IsFiniteSet({"personal"})
    BY FS_Singleton
  <2>2. IsFiniteSet({"personal"} \cup {"company"})
    BY <2>1, FS_AddElement
  <2>3. IsFiniteSet(({"personal"} \cup {"company"}) \cup {"codebase"})
    BY <2>2, FS_AddElement
  <2>4. IsFiniteSet((({"personal"} \cup {"company"}) \cup {"codebase"}) \cup {"none"})
    BY <2>3, FS_AddElement
  <2>5. Labels = (({"personal"} \cup {"company"}) \cup {"codebase"}) \cup {"none"}
    BY DEF Labels
  <2> QED
    BY <2>4, <2>5
<1>6. Cardinality(a) \in Nat
  BY <1>4, <1>5, FS_Subset, FS_CardinalityType
<1>7. \E i \in DOMAIN Order : Order[i] = a
  <2>1. a \in {r.labels : r \in Readings}
    BY <1>1, <1>2
  <2> QED
    BY <2>1, ExtractionAssumption
<1> QED
  BY <1>3, <1>6, <1>7 DEF Rank

\* One of the destination sets that were read beats all the others.
LEMMA SomeoneWins ==
    ASSUME NEW s \in Seq(Readings), s # <<>>
    PROVE  LET given == {s[i].labels : i \in DOMAIN s}
           IN \E a \in given : \A b \in given \ {a} : Beats(s, a, b)
<1> DEFINE given == {s[i].labels : i \in DOMAIN s}
<1>1. \A a \in given : /\ Votes(s, a) \in 0..Len(s) /\ Cardinality(a) \in Nat
                       /\ Rank(a) \in DOMAIN Order /\ Order[Rank(a)] = a
  BY Counted
<1>2. given # {} /\ Len(s) \in Nat
  <2>1. DOMAIN s = 1..Len(s) /\ Len(s) \in Nat /\ Len(s) # 0
    BY LenProperties, EmptySeq
  <2>2. 1 \in DOMAIN s
    BY <2>1
  <2> QED
    BY <2>1, <2>2
<1> HIDE DEF given
<1>3. PICK a1 \in given : \A b \in given : Votes(s, b) <= Votes(s, a1)
  <2> DEFINE T == {Len(s) - Votes(s, a) : a \in given}
  <2>1. T \in SUBSET Nat /\ T # {}
    BY <1>1, <1>2
  <2>2. PICK m \in T : \A y \in T : m <= y
    <3> HIDE DEF T
    <3> QED
      BY <2>1, LeastNumber
  <2>3. PICK a \in given : m = Len(s) - Votes(s, a)
    OBVIOUS
  <2>4. ASSUME NEW b \in given PROVE Votes(s, b) <= Votes(s, a)
    <3>1. Len(s) - Votes(s, b) \in T
      OBVIOUS
    <3>2. m <= Len(s) - Votes(s, b)
      BY <2>2, <3>1
    <3> QED
      BY <1>1, <1>2, <2>3, <3>2
  <2> QED
    BY <2>4
<1> DEFINE most == {a \in given : Votes(s, a) = Votes(s, a1)}
<1>4. PICK a2 \in most : \A b \in most : Cardinality(a2) <= Cardinality(b)
  <2> DEFINE T == {Cardinality(a) : a \in most}
  <2>1. T \in SUBSET Nat /\ T # {}
    BY <1>1, <1>3
  <2>2. PICK m \in T : \A y \in T : m <= y
    <3> HIDE DEF T
    <3> QED
      BY <2>1, LeastNumber
  <2> QED
    BY <2>2
<1> DEFINE small == {a \in most : Cardinality(a) = Cardinality(a2)}
<1>5. PICK a3 \in small : \A b \in small : Rank(a3) <= Rank(b)
  <2> DEFINE T == {Rank(a) : a \in small}
  <2>1. T \in SUBSET Nat /\ T # {}
    BY <1>1, <1>4, PlacesAreNumbers
  <2>2. PICK m \in T : \A y \in T : m <= y
    <3> HIDE DEF T
    <3> QED
      BY <2>1, LeastNumber
  <2> QED
    BY <2>2
<1>6. ASSUME NEW b \in given \ {a3} PROVE Beats(s, a3, b)
  <2>1. CASE b \notin most
    BY <1>1, <1>3, <2>1 DEF Beats
  <2>2. CASE b \in most /\ b \notin small
    BY <1>1, <1>4, <2>2 DEF Beats
  <2>3. CASE b \in small
    <3>1. Rank(b) # Rank(a3)
      BY <1>1
    <3>2. Rank(a3) \in Nat /\ Rank(b) \in Nat
      BY <1>1, PlacesAreNumbers
    <3> QED
      BY <1>5, <2>3, <3>1, <3>2 DEF Beats
  <2> QED
    BY <2>1, <2>2, <2>3
<1> QED
  BY <1>6 DEF given

\* The vote takes the first reading of the destination set that wins.
LEMMA ConsistentIsDrawn ==
    ASSUME NEW s \in Seq(Readings), s # <<>>
    PROVE  \E i \in DOMAIN s :
             /\ Consistent(s) = s[i]
             /\ \A j \in DOMAIN s : \/ s[j].labels = s[i].labels
                                   \/ Beats(s, s[i].labels, s[j].labels)
<1> DEFINE given == {s[i].labels : i \in DOMAIN s}
<1> DEFINE winner == CHOOSE a \in given : \A b \in given \ {a} : Beats(s, a, b)
<1>1. winner \in given /\ \A b \in given \ {winner} : Beats(s, winner, b)
  BY SomeoneWins
<1> DEFINE S == {i \in DOMAIN s : s[i].labels = winner}
<1>2. S \in SUBSET Nat /\ S # {} /\ DOMAIN s = 1..Len(s) /\ Len(s) \in Nat
  BY <1>1, LenProperties
<1>3. PICK m \in S : \A y \in S : m <= y
  <2> HIDE DEF S
  <2> QED
    BY <1>2, LeastNumber
<1> DEFINE first(i) == s[i].labels = winner /\ \A j \in 1..(i - 1) : s[j].labels # winner
<1>4. m \in DOMAIN s /\ first(m)
  <2> SUFFICES ASSUME NEW j \in 1..(m - 1), s[j].labels = winner PROVE FALSE
    BY <1>3
  <2>1. j \in DOMAIN s /\ ~(m <= j)
    BY <1>2
  <2> QED
    BY <1>3, <2>1
<1>5. PICK i \in DOMAIN s : i = (CHOOSE k \in DOMAIN s : first(k)) /\ first(i)
  <2> HIDE DEF first
  <2> QED
    BY <1>4
<1>6. Consistent(s) = s[i]
  BY <1>5 DEF Consistent
<1>7. ASSUME NEW j \in DOMAIN s, s[j].labels # s[i].labels PROVE Beats(s, s[i].labels, s[j].labels)
  <2>1. s[j].labels \in given \ {winner}
    BY <1>5, <1>7
  <2> HIDE DEF winner, given
  <2> QED
    BY <1>1, <1>5, <2>1
<1> QED
  BY <1>6, <1>7

-----------------------------------------------------------------------------
(* The invariant *)

CommandSteps == {"down", "rules", "base", "tiebreak", "observe", "atoms", "candidates", "ask",
          "admit", "done"}

\* A reading's destinations were proposed, if it was sure.
IsProposed(o, r) == r.sure => r.labels \subseteq proposed[o]

\* What a pass reads is readable, proposed, and gone when the pass ends.
PassInv ==
    /\ command \in [pc : CommandSteps, provider : {"live", "rules"}]
    /\ asking \subseteq Readable /\ sent \cap Blocked = {}
    /\ DOMAIN proposed = Messages
    /\ draws \in [Messages -> Seq(Readings)]
    /\ \A o \in Messages : \A i \in DOMAIN draws[o] : IsProposed(o, draws[o][i])
    /\ ~Sampling => \A o \in Messages : draws[o] = <<>>
    /\ outcome \in [Messages -> Readings \cup {NoReading}]
    /\ \A o \in Messages : outcome[o] # NoReading => IsProposed(o, outcome[o])

\* A ledger is written when the one before it holds all of the batch.
Layered ==
    /\ command.pc \in {"atoms", "candidates", "ask", "admit"} => Messages \subseteq observed
    /\ command.pc \in {"candidates", "ask", "admit"} => \A o \in Messages : Held(AtomOf(o))
    /\ command.pc \in {"ask", "admit"} => Minted \subseteq candidates

\* The ledgers, and the checkpoint that works on them.
LedgerInv ==
    /\ Layered
    /\ MessagesAreRead
    /\ \A a \in atoms : a.message \in Blocked => ~a.private
    /\ \A c \in candidates : c[1] \in Messages
    /\ stop \in [busy : BOOLEAN, todo : SUBSET candidates]

ExtractionInv == PassInv /\ LedgerInv

\* An atom is of its message, and a blocked one is for nobody.
LEMMA AtomFields ==
    ASSUME NEW o \in Messages
    PROVE  /\ AtomOf(o).message = o
           /\ o \in Blocked => AtomOf(o).private = FALSE /\ AtomOf(o).eligible = {}
BY DEF AtomOf, Whole, FromReading

\* A candidate is of its message, which is not blocked, and a shared one was
\* proposed.
LEMMA CandidateFields ==
    ASSUME PassInv, NEW c \in Minted
    PROVE  /\ c[1] \in Messages \ Blocked
           /\ c[2] # "personal" => c[2] \in proposed[c[1]]
<1>1. PICK o \in Messages : c \in CandidatesOf(o)
  BY DEF Minted
<1>2. c[1] = o /\ c[2] \in AtomOf(o).eligible
  BY <1>1 DEF CandidatesOf
<1>3. o \notin Blocked
  BY <1>2, AtomFields
<1>4. c[2] # "personal" => c[2] \in proposed[o]
  <2> SUFFICES ASSUME c[2] # "personal" PROVE c[2] \in proposed[o]
    OBVIOUS
  <2>1. outcome[o] # NoReading
    BY <1>2, <1>3 DEF AtomOf, Whole
  <2>2. AtomOf(o) = FromReading(o, outcome[o])
    BY <1>3, <2>1 DEF AtomOf
  <2>3. PICK r : r = outcome[o]
    OBVIOUS
  <2>4. c[2] \in FromReading(o, r).eligible
    BY <1>2, <2>2, <2>3
  <2>5. r.sure /\ c[2] \in r.labels
    BY <2>4 DEF FromReading
  <2> QED
    BY <2>1, <2>3, <2>5 DEF PassInv, IsProposed
<1> QED
  BY <1>2, <1>3, <1>4

\* While outcome and provider stay, so does what a message becomes.
LEMMA AtomsStay ==
    ASSUME UNCHANGED outcome, command'.provider = command.provider
    PROVE  Minted' = Minted /\ \A o \in Messages : AtomOf(o)' = AtomOf(o)
<1>1. \A o \in Messages : AtomOf(o)' = AtomOf(o)
  BY DEF AtomOf
<1>2. \A o \in Messages : CandidatesOf(o)' = CandidatesOf(o)
  BY <1>1 DEF CandidatesOf
<1> QED
  BY <1>1, <1>2 DEF Minted

\* The ledgers stay sound while nothing is written and more is proposed: the
\* command stays where it is, or leaves the ledgers.
LEMMA LedgerStays ==
    ASSUME PassInv, LedgerInv, UNCHANGED <<ledgers, judged, stop>>, sent' \cap Blocked = {},
           \A o \in Messages : proposed[o] \subseteq proposed'[o],
           \/ command'.pc \notin {"atoms", "candidates", "ask", "admit"}
           \/ UNCHANGED <<command, outcome>>
    PROVE  LedgerInv'
<1>1. UNCHANGED <<observed, atoms, candidates, settled, facts, stop>>
  BY DEF ledgers, judged
<1>2. MessagesAreRead'
  BY <1>1 DEF LedgerInv, MessagesAreRead, LedgersAreLayered, BlockedStaysPrivate, NothingIsGuessed
<1>3. Layered'
  <2>1. CASE command'.pc \notin {"atoms", "candidates", "ask", "admit"}
    BY <2>1 DEF Layered
  <2>2. CASE UNCHANGED <<command, outcome>>
    <3>1. Minted' = Minted /\ \A o \in Messages : AtomOf(o)' = AtomOf(o)
      BY <2>2, AtomsStay
    <3> QED
      BY <1>1, <2>2, <3>1 DEF LedgerInv, Layered, Held, SameAtom
  <2> QED
    BY <2>1, <2>2
<1> QED
  BY <1>1, <1>2, <1>3 DEF LedgerInv

\* Nothing is read and nothing taken while the ledgers are written.
LEMMA PassStays ==
    ASSUME PassInv, UNCHANGED <<extracting, outcome, told>>,
           \/ UNCHANGED command
           \/ ~Sampling /\ \E pc \in CommandSteps : CommandGoes(pc)
    PROVE  PassInv'
<1>1. UNCHANGED <<asking, draws, outcome, sent, proposed>>
  BY DEF extracting, told
<1>2. command' \in [pc : CommandSteps, provider : {"live", "rules"}]
  BY DEF PassInv, CommandGoes
<1>3. ~Sampling' => \A o \in Messages : draws[o] = <<>>
  BY DEF PassInv, Sampling
<1> QED
  BY <1>1, <1>2, <1>3 DEF PassInv, IsProposed

\* Where the process is gone, so is all it had read.
LEMMA PassEnds ==
    ASSUME PassInv, UNCHANGED told, NEW pc \in CommandSteps \ {"base", "tiebreak"}, Ends(pc)
    PROVE  PassInv' /\ command'.pc = pc
<1>1. command' \in [pc : CommandSteps, provider : {"live", "rules"}] /\ command'.pc = pc
  BY DEF PassInv, Ends, CommandGoes
<1>2. asking' = {} /\ draws' = [o \in Messages |-> <<>>] /\ outcome' = [o \in Messages |-> NoReading]
  BY DEF Ends, NoPass
<1>3. UNCHANGED <<sent, proposed>>
  BY DEF told
<1>4. draws' \in [Messages -> Seq(Readings)]
  BY <1>2, EmptySeq
<1> QED
  BY <1>1, <1>2, <1>3, <1>4 DEF PassInv

-----------------------------------------------------------------------------
(* The steps of a run *)

\* A run starts with nothing read (select_provider).
LEMMA StartKeeps ==
    ASSUME ExtractionInv, NEW provider \in {"live", "rules"}, Start(provider)
    PROVE  ExtractionInv'
<1>1. /\ command' \in [pc : CommandSteps, provider : {"live", "rules"}]
      /\ command'.pc \in {"base", "rules"}
  BY DEF Start, CommandSteps
<1>2. /\ asking' = Readable /\ draws' = [o \in Messages |-> <<>>]
      /\ outcome' = [o \in Messages |-> NoReading] /\ UNCHANGED <<sent, proposed>>
  BY DEF Start, told
<1>3. draws' \in [Messages -> Seq(Readings)]
  BY <1>2, EmptySeq
<1>4. PassInv'
  BY <1>1, <1>2, <1>3 DEF ExtractionInv, PassInv
<1>5. LedgerInv'
  BY <1>1, <1>2, LedgerStays DEF ExtractionInv, PassInv, Start
<1> QED
  BY <1>4, <1>5 DEF ExtractionInv

\* The rules read what is readable, in one answer.
LEMMA AskRulesKeeps ==
    ASSUME ExtractionInv, AskRules
    PROVE  ExtractionInv'
<1>1. sent' = sent \cup asking /\ sent' \cap Blocked = {}
  BY DEF AskRules, ExtractionInv, PassInv, Readable
<1>2. /\ asking' = {} /\ draws' = [o \in Messages |-> <<>>]
      /\ UNCHANGED <<ledgers, judged, stop>>
  BY DEF AskRules, Ends, NoPass
<1>3. draws' \in [Messages -> Seq(Readings)]
  BY <1>2, EmptySeq
<1>4. /\ command' \in [pc : CommandSteps, provider : {"live", "rules"}]
      /\ command'.pc \in {"observe", "down"}
  BY DEF AskRules, Ends, CommandGoes, ExtractionInv, PassInv, CommandSteps
<1>5. /\ DOMAIN proposed' = Messages
      /\ \A o \in Messages : proposed[o] \subseteq proposed'[o]
      /\ outcome' \in [Messages -> Readings \cup {NoReading}]
      /\ \A o \in Messages : outcome'[o] # NoReading => IsProposed(o, outcome[o])'
  <2>1. CASE Ends("down") /\ UNCHANGED proposed
    BY <2>1 DEF Ends, ExtractionInv, PassInv
  <2>2. CASE /\ outcome' = [o \in Messages |-> IF o \in asking THEN RuleReading[o] ELSE NoReading]
             /\ proposed' = [o \in Messages |->
                   proposed[o] \cup IF outcome'[o] # NoReading /\ outcome'[o].sure
                                    THEN outcome'[o].labels ELSE {}]
    <3>1. outcome' \in [Messages -> Readings \cup {NoReading}]
      BY <2>2, ExtractionAssumption DEF NoReading
    <3>2. ASSUME NEW o \in Messages, outcome'[o] # NoReading PROVE IsProposed(o, outcome[o])'
      BY <2>2, <3>2 DEF IsProposed
    <3> QED
      BY <2>2, <3>1, <3>2
  <2> QED
    BY <2>1, <2>2 DEF AskRules
<1>6. PassInv'
  BY <1>1, <1>2, <1>3, <1>4, <1>5 DEF PassInv
<1>7. LedgerInv'
  BY <1>1, <1>2, <1>4, <1>5, LedgerStays DEF ExtractionInv
<1> QED
  BY <1>6, <1>7 DEF ExtractionInv

\* A request or the clock: more is sent of what is asked about, and no more
\* is read.
LEMMA PassGoesOn ==
    ASSUME ExtractionInv,
           UNCHANGED <<command, asking, draws, outcome, ledgers, judged, stop, proposed>>,
           sent' \subseteq sent \cup asking
    PROVE  ExtractionInv'
<1>1. sent' \cap Blocked = {}
  BY DEF ExtractionInv, PassInv, Readable
<1>2. PassInv'
  BY <1>1 DEF ExtractionInv, PassInv, IsProposed, Sampling
<1>3. LedgerInv'
  BY <1>1, LedgerStays DEF ExtractionInv
<1> QED
  BY <1>2, <1>3 DEF ExtractionInv

\* An answer: every reading drawn is in the proposals it makes.
LEMMA AnswerKeeps ==
    ASSUME ExtractionInv, NEW t \in Threads, Answer(t)
    PROVE  ExtractionInv'
<1>1. PICK batch : batch = Asked(thread[t].item)
  OBVIOUS
<1>2. batch \subseteq asking
  BY <1>1 DEF Asked, Batch
<1>3. PICK answer \in [batch -> Readings \cup {NoReading}] :
        /\ draws' = [o \in Messages |->
              IF o \in batch /\ answer[o] # NoReading THEN Append(draws[o], answer[o])
              ELSE draws[o]]
        /\ proposed' = [o \in Messages |->
              proposed[o] \cup IF o \in batch /\ answer[o] # NoReading /\ answer[o].sure
                               THEN answer[o].labels ELSE {}]
  BY <1>1 DEF Answer, Answers
<1>4. UNCHANGED <<command, asking, outcome, ledgers, judged, stop>>
  BY DEF Answer
<1>5. sent' = sent \cup batch /\ sent' \cap Blocked = {} /\ Sampling
  BY <1>1, <1>2 DEF Answer, ExtractionInv, PassInv, Readable
<1>6. \A o \in Messages : proposed[o] \subseteq proposed'[o]
  BY <1>3
<1>7. ASSUME NEW o \in Messages
      PROVE  /\ draws'[o] \in Seq(Readings)
             /\ \A i \in DOMAIN draws'[o] : IsProposed(o, draws[o][i])'
  <2>1. draws[o] \in Seq(Readings) /\ \A i \in DOMAIN draws[o] : IsProposed(o, draws[o][i])
    BY DEF ExtractionInv, PassInv
  <2>2. CASE o \in batch /\ answer[o] # NoReading
    <3>1. PICK r \in Readings : r = answer[o]
      BY <1>3, <2>2
    <3>2. PICK s \in Seq(Readings) : s = draws[o]
      BY <2>1
    <3>3. PICK u : u = Append(s, r)
      OBVIOUS
    <3>4. draws'[o] = u
      BY <1>3, <2>2, <3>1, <3>2, <3>3
    <3>5. /\ u \in Seq(Readings) /\ Len(u) = Len(s) + 1 /\ u[Len(u)] = r
          /\ \A i \in 1..Len(s) : u[i] = s[i]
      BY <3>1, <3>3, AppendProperties
    <3>6. DOMAIN u = 1..Len(u) /\ DOMAIN s = 1..Len(s) /\ Len(s) \in Nat
      BY <3>5, LenProperties
    <3>7. r.sure => r.labels \subseteq proposed'[o]
      BY <1>3, <2>2, <3>1
    <3>8. ASSUME NEW i \in DOMAIN u PROVE u[i].sure => u[i].labels \subseteq proposed'[o]
      <4>1. CASE i = Len(u)
        BY <3>5, <3>7, <4>1
      <4>2. CASE i # Len(u)
        <5>1. i \in DOMAIN s /\ u[i] = s[i]
          BY <3>5, <3>6, <4>2
        <5>2. s[i].sure => s[i].labels \subseteq proposed[o]
          BY <2>1, <3>2, <5>1 DEF IsProposed
        <5> QED
          BY <1>6, <5>1, <5>2
      <4> QED
        BY <4>1, <4>2
    <3> QED
      BY <3>4, <3>5, <3>8 DEF IsProposed
  <2>3. CASE ~(o \in batch /\ answer[o] # NoReading)
    <3>1. draws'[o] = draws[o]
      BY <1>3, <2>3
    <3> QED
      BY <1>6, <2>1, <3>1 DEF IsProposed
  <2> QED
    BY <2>2, <2>3
<1>8. PassInv'
  <2>1. draws' \in [Messages -> Seq(Readings)] /\ DOMAIN proposed' = Messages
    BY <1>3, <1>7
  <2>2. \A o \in Messages : outcome'[o] # NoReading => IsProposed(o, outcome[o])'
    BY <1>4, <1>6 DEF ExtractionInv, PassInv, IsProposed
  <2>3. ~Sampling' => \A o \in Messages : draws'[o] = <<>>
    BY <1>4, <1>5 DEF Sampling
  <2> QED
    BY <1>4, <1>5, <1>7, <2>1, <2>2, <2>3 DEF ExtractionInv, PassInv
<1>9. LedgerInv'
  BY <1>4, <1>5, <1>6, LedgerStays DEF ExtractionInv
<1> QED
  BY <1>8, <1>9 DEF ExtractionInv

\* The contested messages were readable too.
LEMMA BreakTiesKeeps ==
    ASSUME ExtractionInv, BreakTies
    PROVE  ExtractionInv'
<1>1. asking' \subseteq asking
  BY DEF BreakTies, Pass, Contested
<1>2. /\ command' \in [pc : CommandSteps, provider : {"live", "rules"}] /\ command'.pc = "tiebreak"
  BY DEF BreakTies, Pass, CommandGoes, ExtractionInv, PassInv, CommandSteps
<1>3. UNCHANGED <<draws, outcome, ledgers, judged, stop, sent, proposed>>
  BY DEF BreakTies, told
<1>4. PassInv'
  BY <1>1, <1>2, <1>3 DEF ExtractionInv, PassInv, IsProposed, Sampling
<1>5. LedgerInv'
  BY <1>2, <1>3, LedgerStays DEF ExtractionInv, PassInv
<1> QED
  BY <1>4, <1>5 DEF ExtractionInv

\* What the vote takes was drawn, so it was proposed.
LEMMA VoteKeeps ==
    ASSUME ExtractionInv, Vote
    PROVE  ExtractionInv'
<1>1. /\ command' \in [pc : CommandSteps, provider : {"live", "rules"}] /\ command'.pc = "observe"
  BY DEF Vote, CommandGoes, ExtractionInv, PassInv, CommandSteps
<1>2. /\ asking' = {} /\ draws' = [o \in Messages |-> <<>>]
      /\ UNCHANGED <<ledgers, judged, stop, sent, proposed>>
  BY DEF Vote, NoPass, told
<1>3. draws' \in [Messages -> Seq(Readings)]
  BY <1>2, EmptySeq
<1>4. ASSUME NEW o \in Messages
      PROVE  /\ outcome'[o] \in Readings \cup {NoReading}
             /\ outcome'[o] # NoReading => IsProposed(o, outcome'[o])
  <2>1. PICK s \in Seq(Readings) : s = draws[o] /\ \A i \in DOMAIN s : IsProposed(o, s[i])
    BY DEF ExtractionInv, PassInv
  <2>2. outcome'[o] = Consistent(s)
    BY <2>1 DEF Vote
  <2>3. CASE s = <<>>
    BY <2>2, <2>3 DEF Consistent
  <2>4. CASE s # <<>>
    <3>1. PICK i \in DOMAIN s : Consistent(s) = s[i]
      BY <2>4, ConsistentIsDrawn
    <3>2. s[i] \in Readings
      BY ElementOfSeq, LenProperties
    <3> QED
      BY <2>1, <2>2, <3>1, <3>2
  <2> QED
    BY <2>3, <2>4
<1>5. outcome' \in [Messages -> Readings \cup {NoReading}]
  BY <1>4 DEF Vote
<1>6. PassInv'
  BY <1>1, <1>2, <1>3, <1>4, <1>5 DEF ExtractionInv, PassInv, IsProposed
<1>7. LedgerInv'
  BY <1>1, <1>2, LedgerStays DEF ExtractionInv, PassInv
<1> QED
  BY <1>6, <1>7 DEF ExtractionInv

\* The command stops or dies before it is through.
LEMMA CommandEnds ==
    ASSUME ExtractionInv, Ends("down"), UNCHANGED <<ledgers, judged, stop, told>>
    PROVE  ExtractionInv'
<1>1. PassInv' /\ command'.pc = "down"
  BY PassEnds DEF ExtractionInv, CommandSteps
<1>2. UNCHANGED <<sent, proposed>>
  BY DEF told
<1>3. LedgerInv'
  BY <1>1, <1>2, LedgerStays DEF ExtractionInv, PassInv
<1> QED
  BY <1>1, <1>3 DEF ExtractionInv

-----------------------------------------------------------------------------
(* The steps that write the ledgers *)

\* Every message is observed before the first atom.
LEMMA AppendObservationKeeps ==
    ASSUME ExtractionInv, AppendObservation
    PROVE  ExtractionInv'
<1>1. CommandAt("observe") /\ UNCHANGED <<extracting, outcome, atoms, candidates, judged, stop, told>>
  BY DEF AppendObservation
<1>2. UNCHANGED <<outcome, atoms, candidates, settled, facts, stop, sent, proposed>>
  BY <1>1 DEF judged, told
<1>3. \/ observed \subseteq observed' /\ UNCHANGED command
      \/ Messages \subseteq observed /\ CommandGoes("atoms") /\ UNCHANGED observed
  BY DEF AppendObservation, Following
<1>4. PassInv'
  BY <1>1, <1>3, PassStays DEF ExtractionInv, CommandAt, Sampling, CommandSteps
<1>5. MessagesAreRead'
  BY <1>2, <1>3
  DEF ExtractionInv, LedgerInv, MessagesAreRead, LedgersAreLayered, BlockedStaysPrivate, NothingIsGuessed
<1>6. Layered'
  BY <1>1, <1>3 DEF Layered, CommandAt, CommandGoes, ExtractionInv, PassInv
<1> QED
  BY <1>2, <1>4, <1>5, <1>6 DEF ExtractionInv, LedgerInv

\* Every message has its atom before the first candidate.
LEMMA AppendAtomKeeps ==
    ASSUME ExtractionInv, AppendAtom
    PROVE  ExtractionInv'
<1>1. CommandAt("atoms") /\ UNCHANGED <<extracting, outcome, observed, candidates, judged, stop, told>>
  BY DEF AppendAtom
<1>2. UNCHANGED <<outcome, observed, candidates, settled, facts, stop, sent, proposed>>
  BY <1>1 DEF judged, told
<1>3. Messages \subseteq observed
  BY <1>1 DEF CommandAt, ExtractionInv, LedgerInv, Layered
<1>4. CASE \E o \in Messages : atoms' = atoms \cup {AtomOf(o)} /\ UNCHANGED command
  <2>1. PICK o \in Messages : atoms' = atoms \cup {AtomOf(o)} /\ UNCHANGED command
    BY <1>4
  <2>2. PICK a : a = AtomOf(o)
    OBVIOUS
  <2>3. atoms' = atoms \cup {a} /\ a.message = o /\ (o \in Blocked => a.private = FALSE)
    BY <2>1, <2>2, AtomFields
  <2>4. PassInv'
    BY <1>1, <2>1, PassStays DEF ExtractionInv
  <2>5. MessagesAreRead'
    BY <1>2, <1>3, <2>3
    DEF ExtractionInv, LedgerInv, MessagesAreRead, LedgersAreLayered, BlockedStaysPrivate,
        NothingIsGuessed
  <2>6. Layered'
    BY <1>1, <1>2, <1>3, <2>1 DEF Layered, CommandAt
  <2>7. \A b \in atoms' : b.message \in Blocked => ~b.private
    BY <2>3 DEF ExtractionInv, LedgerInv
  <2> QED
    BY <1>2, <2>4, <2>5, <2>6, <2>7 DEF ExtractionInv, LedgerInv
<1>5. CASE (\A o \in Messages : Held(AtomOf(o))) /\ CommandGoes("candidates") /\ UNCHANGED atoms
  <2>1. PassInv'
    BY <1>1, <1>5, PassStays DEF ExtractionInv, CommandAt, Sampling, CommandSteps
  <2>2. MessagesAreRead'
    BY <1>2, <1>5
    DEF ExtractionInv, LedgerInv, MessagesAreRead, LedgersAreLayered, BlockedStaysPrivate,
        NothingIsGuessed
  <2>3. command'.pc = "candidates" /\ command'.provider = command.provider
    BY <1>5 DEF CommandGoes, ExtractionInv, PassInv
  <2>4. \A o \in Messages : AtomOf(o)' = AtomOf(o)
    BY <1>2, <2>3, AtomsStay
  <2>5. Layered'
    BY <1>2, <1>3, <1>5, <2>3, <2>4 DEF Layered, Held, SameAtom
  <2> QED
    BY <1>2, <1>5, <2>1, <2>2, <2>5 DEF ExtractionInv, LedgerInv
<1> QED
  BY <1>4, <1>5 DEF AppendAtom, Following

\* A candidate has the atom of its message, and was proposed.
LEMMA AppendCandidateKeeps ==
    ASSUME ExtractionInv, AppendCandidate
    PROVE  ExtractionInv'
<1>1. CommandAt("candidates") /\ UNCHANGED <<extracting, outcome, observed, atoms, judged, stop, told>>
  BY DEF AppendCandidate
<1>2. UNCHANGED <<outcome, observed, atoms, settled, facts, stop, sent, proposed>>
  BY <1>1 DEF judged, told
<1>3. Messages \subseteq observed /\ \A o \in Messages : Held(AtomOf(o))
  BY <1>1 DEF CommandAt, ExtractionInv, LedgerInv, Layered
<1>4. CASE \E c \in Minted : candidates' = candidates \cup {c} /\ UNCHANGED command
  <2>1. PICK c \in Minted : candidates' = candidates \cup {c} /\ UNCHANGED command
    BY <1>4
  <2>2. c[1] \in Messages \ Blocked /\ (c[2] # "personal" => c[2] \in proposed[c[1]])
    BY <2>1, CandidateFields DEF ExtractionInv
  <2>3. \E a \in atoms : a.message = c[1]
    <3>1. PICK o \in Messages : o = c[1]
      BY <2>2
    <3>2. AtomOf(o).message = o
      BY AtomFields
    <3>3. PICK x : x = AtomOf(o)
      OBVIOUS
    <3>4. Held(x)
      BY <1>3, <3>3
    <3> QED
      BY <3>1, <3>2, <3>3, <3>4 DEF Held, SameAtom
  <2>4. PassInv'
    BY <1>1, <2>1, PassStays DEF ExtractionInv
  <2>5. MessagesAreRead'
    BY <1>2, <2>1, <2>2, <2>3
    DEF ExtractionInv, LedgerInv, MessagesAreRead, LedgersAreLayered, BlockedStaysPrivate,
        NothingIsGuessed
  <2>6. \A o \in Messages : AtomOf(o)' = AtomOf(o)
    BY <1>2, <2>1, AtomsStay
  <2>7. Layered'
    BY <1>1, <1>2, <1>3, <2>1, <2>6 DEF Layered, CommandAt, Held, SameAtom
  <2> QED
    BY <1>2, <2>1, <2>2, <2>4, <2>5, <2>7 DEF ExtractionInv, LedgerInv
<1>5. CASE Minted \subseteq candidates /\ CommandGoes("ask") /\ UNCHANGED candidates
  <2>1. PassInv'
    BY <1>1, <1>5, PassStays DEF ExtractionInv, CommandAt, Sampling, CommandSteps
  <2>2. MessagesAreRead'
    BY <1>2, <1>5
    DEF ExtractionInv, LedgerInv, MessagesAreRead, LedgersAreLayered, BlockedStaysPrivate,
        NothingIsGuessed
  <2>3. command'.pc = "ask" /\ command'.provider = command.provider
    BY <1>5 DEF CommandGoes, ExtractionInv, PassInv
  <2>4. Minted' = Minted /\ \A o \in Messages : AtomOf(o)' = AtomOf(o)
    BY <1>2, <2>3, AtomsStay
  <2>5. Layered'
    BY <1>2, <1>3, <1>5, <2>3, <2>4 DEF Layered, Held, SameAtom
  <2> QED
    BY <1>2, <1>5, <2>1, <2>2, <2>5 DEF ExtractionInv, LedgerInv
<1> QED
  BY <1>4, <1>5 DEF AppendCandidate, Following

\* The owner is readable, or the run ends.
LEMMA AskOwnerKeeps ==
    ASSUME ExtractionInv, AskOwner
    PROVE  ExtractionInv'
<1>1. CASE Ends("down")
  BY <1>1, CommandEnds DEF AskOwner
<1>2. CASE CommandGoes("admit") /\ UNCHANGED <<extracting, outcome>>
  <2>1. CommandAt("ask") /\ UNCHANGED <<ledgers, judged, stop, told>>
    BY DEF AskOwner
  <2>2. UNCHANGED <<observed, atoms, candidates, settled, facts, sent, proposed>>
    BY <2>1 DEF ledgers, judged, told
  <2>3. PassInv'
    BY <1>2, <2>1, PassStays DEF ExtractionInv, CommandAt, Sampling, CommandSteps
  <2>4. MessagesAreRead'
    BY <2>2
    DEF ExtractionInv, LedgerInv, MessagesAreRead, LedgersAreLayered, BlockedStaysPrivate,
        NothingIsGuessed
  <2>5. command'.pc = "admit" /\ command'.provider = command.provider
    BY <1>2 DEF CommandGoes, ExtractionInv, PassInv
  <2>6. Minted' = Minted /\ \A o \in Messages : AtomOf(o)' = AtomOf(o)
    BY <1>2, <2>5, AtomsStay
  <2>7. Layered'
    BY <2>1, <2>2, <2>5, <2>6 DEF CommandAt, ExtractionInv, LedgerInv, Layered, Held, SameAtom
  <2> QED
    BY <2>1, <2>2, <2>3, <2>4, <2>7 DEF ExtractionInv, LedgerInv
<1> QED
  BY <1>1, <1>2 DEF AskOwner

\* Candidates of the ledger are settled, by whom ever; nothing else changes.
LEMMA SettlingKeeps ==
    ASSUME ExtractionInv, UNCHANGED <<command, extracting, outcome, ledgers, facts, told>>,
           settled' \subseteq settled \cup candidates,
           stop' \in [busy : BOOLEAN, todo : SUBSET candidates]
    PROVE  ExtractionInv'
<1>1. UNCHANGED <<observed, atoms, candidates, sent, proposed>>
  BY DEF ledgers, told
<1>2. PassInv'
  BY PassStays DEF ExtractionInv
<1>3. MessagesAreRead'
  BY <1>1
  DEF ExtractionInv, LedgerInv, MessagesAreRead, LedgersAreLayered, BlockedStaysPrivate,
      NothingIsGuessed
<1>4. Minted' = Minted /\ \A o \in Messages : AtomOf(o)' = AtomOf(o)
  BY AtomsStay
<1>5. Layered'
  BY <1>1, <1>4 DEF ExtractionInv, LedgerInv, Layered, Held, SameAtom
<1> QED
  BY <1>1, <1>2, <1>3, <1>5 DEF ExtractionInv, LedgerInv

\* The run ends with what its admissions settled on the ledger.
LEMMA AdmitKeeps ==
    ASSUME ExtractionInv, Admit
    PROVE  ExtractionInv'
<1>1. CommandAt("admit") /\ UNCHANGED <<ledgers, facts, stop, told>>
  BY DEF Admit
<1>2. CASE \E c \in Minted \ settled : /\ settled' = settled \cup {c}
                                       /\ UNCHANGED <<command, extracting, outcome>>
  <2>1. settled' \subseteq settled \cup candidates
    BY <1>1, <1>2 DEF CommandAt, ExtractionInv, LedgerInv, Layered
  <2>2. stop' \in [busy : BOOLEAN, todo : SUBSET candidates]
    BY <1>1 DEF ExtractionInv, LedgerInv
  <2> QED
    BY <1>1, <1>2, <2>1, <2>2, SettlingKeeps
<1>3. CASE UNCHANGED settled /\ Ends("down")
  BY <1>1, <1>3, CommandEnds DEF judged
<1>4. CASE UNCHANGED settled /\ Ends("done")
  <2>1. PassInv' /\ command'.pc = "done"
    BY <1>1, <1>4, PassEnds DEF ExtractionInv, CommandSteps
  <2>2. UNCHANGED <<sent, proposed>>
    BY <1>1 DEF told
  <2>3. LedgerInv'
    BY <1>1, <1>4, <2>1, <2>2, LedgerStays DEF ExtractionInv, PassInv, judged
  <2> QED
    BY <2>1, <2>3 DEF ExtractionInv
<1> QED
  BY <1>2, <1>3, <1>4 DEF Admit

\* A checkpoint begins, admits or dies, beside the command.
LEMMA CheckpointGoesOn ==
    ASSUME ExtractionInv,
           \/ StartCheckpoint \/ AdmitEach
           \/ /\ stop' = NotStopping
              /\ UNCHANGED <<command, extracting, outcome, ledgers, judged, told>>
    PROVE  ExtractionInv'
<1>1. stop \in [busy : BOOLEAN, todo : SUBSET candidates]
  BY DEF ExtractionInv, LedgerInv
<1>2. UNCHANGED <<command, extracting, outcome, ledgers, facts, told>>
  BY DEF StartCheckpoint, AdmitEach, judged
<1>3. settled' \subseteq settled \cup candidates
  BY <1>1 DEF StartCheckpoint, AdmitEach, judged
<1>4. stop' \in [busy : BOOLEAN, todo : SUBSET candidates]
  <2>1. CASE StartCheckpoint
    BY <2>1 DEF StartCheckpoint
  <2>2. CASE AdmitEach
    <3>1. PICK c : c \in stop.todo /\ stop' = [stop EXCEPT !.todo = stop.todo \ {c}]
      BY <2>2 DEF AdmitEach
    <3> QED
      BY <1>1, <3>1
  <2>3. CASE stop' = NotStopping
    BY <2>3 DEF NotStopping
  <2> QED
    BY <2>1, <2>2, <2>3
<1> QED
  BY <1>2, <1>3, <1>4, SettlingKeeps

\* Personal facts are made from atoms that are private and not blocked.
LEMMA EndCheckpointKeeps ==
    ASSUME ExtractionInv, EndCheckpoint
    PROVE  ExtractionInv'
<1>1. UNCHANGED <<command, extracting, outcome, ledgers, settled, told>>
  BY DEF EndCheckpoint
<1>2. UNCHANGED <<observed, atoms, candidates, sent, proposed>>
  BY <1>1 DEF ledgers, told
<1>3. PassInv'
  BY <1>1, PassStays DEF ExtractionInv
<1>4. facts' = facts \cup {a \in atoms : a.private /\ a.message \in observed}
  BY DEF EndCheckpoint
<1>5. MessagesAreRead'
  BY <1>1, <1>2, <1>4
  DEF ExtractionInv, LedgerInv, MessagesAreRead, LedgersAreLayered, BlockedStaysPrivate,
      NothingIsGuessed
<1>6. Minted' = Minted /\ \A o \in Messages : AtomOf(o)' = AtomOf(o)
  BY <1>1, AtomsStay
<1>7. Layered'
  BY <1>1, <1>2, <1>6 DEF ExtractionInv, LedgerInv, Layered, Held, SameAtom
<1>8. stop' \in [busy : BOOLEAN, todo : SUBSET candidates]
  BY DEF EndCheckpoint, NotStopping
<1> QED
  BY <1>2, <1>3, <1>5, <1>7, <1>8 DEF ExtractionInv, LedgerInv

-----------------------------------------------------------------------------
(* The theorems *)

\* Nothing is read and nothing written at the start.
LEMMA InitIsLayered == ExtractionInit => ExtractionInv
<1> SUFFICES ASSUME ExtractionInit PROVE ExtractionInv
  OBVIOUS
<1>1. draws \in [Messages -> Seq(Readings)]
  BY EmptySeq DEF ExtractionInit
<1>2. PassInv
  BY <1>1 DEF ExtractionInit, PassInv, CommandSteps, NoReading
<1>3. LedgerInv
  BY DEF ExtractionInit, LedgerInv, Layered, MessagesAreRead, LedgersAreLayered,
         BlockedStaysPrivate, NothingIsGuessed, NotStopping
<1> QED
  BY <1>2, <1>3 DEF ExtractionInv

\* Every step of a run, a thread, a checkpoint or the clock, and every death,
\* keeps the invariant.
LEMMA ExtractionKeeps == ExtractionInv /\ [ExtractionNext]_extractionVars => ExtractionInv'
<1> SUFFICES ASSUME ExtractionInv, [ExtractionNext]_extractionVars PROVE ExtractionInv'
  OBVIOUS
<1>1. ASSUME NEW provider \in {"live", "rules"}, Start(provider) PROVE ExtractionInv'
  BY <1>1, StartKeeps
<1>2. ASSUME NEW t \in Threads, ThreadStep(t) PROVE ExtractionInv'
  <2>1. CASE Answer(t)
    BY <2>1, AnswerKeeps
  <2>2. CASE Take(t) \/ CloseQueue(t) \/ Backpressure(t) \/ Fails(t) \/ Defect(t)
    <3>1. UNCHANGED <<command, asking, draws, outcome, ledgers, judged, stop, proposed>>
      BY <2>2 DEF Take, CloseQueue, Backpressure, Fails, Defect, told
    <3>2. sent' \subseteq sent \cup asking
      BY <2>2 DEF Take, CloseQueue, Backpressure, Fails, Defect, told, Asked, Batch
    <3> QED
      BY <3>1, <3>2, PassGoesOn
  <2> QED
    BY <1>2, <2>1, <2>2 DEF ThreadStep
<1>3. CASE Tick
  BY <1>3, PassGoesOn DEF Tick, told
<1>4. CASE AskRules
  BY <1>4, AskRulesKeeps
<1>5. CASE StopRun
  BY <1>5, CommandEnds DEF StopRun
<1>6. CASE BreakTies
  BY <1>6, BreakTiesKeeps
<1>7. CASE Vote
  BY <1>7, VoteKeeps
<1>8. CASE AppendObservation
  BY <1>8, AppendObservationKeeps
<1>9. CASE AppendAtom
  BY <1>9, AppendAtomKeeps
<1>10. CASE AppendCandidate
  BY <1>10, AppendCandidateKeeps
<1>11. CASE AskOwner
  BY <1>11, AskOwnerKeeps
<1>12. CASE Admit
  BY <1>12, AdmitKeeps
<1>13. CASE StartCheckpoint \/ AdmitEach
  BY <1>13, CheckpointGoesOn
<1>14. CASE EndCheckpoint
  BY <1>14, EndCheckpointKeeps
<1>15. CASE Die
  <2>1. CASE Ends("down") /\ UNCHANGED stop
    BY <1>15, <2>1, CommandEnds DEF Die
  <2>2. CASE stop' = NotStopping /\ UNCHANGED <<command, extracting, outcome>>
    BY <1>15, <2>2, CheckpointGoesOn DEF Die
  <2> QED
    BY <1>15, <2>1, <2>2 DEF Die
<1>16. CASE UNCHANGED extractionVars
  BY <1>16, PassGoesOn DEF extractionVars, extracting, told
<1> QED
  BY <1>1, <1>2, <1>3, <1>4, <1>5, <1>6, <1>7, <1>8, <1>9, <1>10, <1>11, <1>12, <1>13, <1>14,
     <1>15, <1>16
  DEF ExtractionNext, CommandStep, CheckpointStep

\* A pass reads only what may be read, all that is taken was proposed, and the
\* ledgers are written one behind the other (observe).
THEOREM ExtractionIsSound == ExtractionSpec => []ExtractionInv
BY InitIsLayered, ExtractionKeeps, PTL DEF ExtractionSpec

\* Whatever the classifier answers, however a run or a checkpoint dies, and
\* however often the batch is read again: the ledgers are layered, a blocked
\* message reaches nobody, and no shared destination is guessed (observe,
\* extract_atoms_bounded).
THEOREM MessagesAreReadAlways == ExtractionSpec => []MessagesAreRead
<1>1. ExtractionInv => MessagesAreRead
  BY DEF ExtractionInv, LedgerInv
<1> QED
  BY <1>1, ExtractionIsSound, PTL

\* For any number of readings of any destination sets, the reading taken was
\* drawn, and no other set had more votes, nor as many and fewer destinations
\* (self_consistent_atoms).
THEOREM MajorityDecidesAlways == ExtractionSpec => MajorityDecides
<1> DEFINE MajorityTaken ==
      \A o \in Messages :
        command.provider = "live" /\ Len(draws[o]) > 0 /\ command'.pc = "observe" =>
          \E i \in DOMAIN draws[o] :
             /\ outcome'[o] = draws[o][i]
             /\ \A j \in DOMAIN draws[o] :
                   LET mine == draws[o][i].labels  other == draws[o][j].labels IN
                   \/ Votes(draws[o], mine) > Votes(draws[o], other)
                   \/ /\ Votes(draws[o], mine) = Votes(draws[o], other)
                      /\ Cardinality(mine) <= Cardinality(other)
<1>1. ExtractionInv /\ [ExtractionNext]_extractionVars => [MajorityTaken]_extractionVars
  <2> SUFFICES ASSUME ExtractionInv, ExtractionNext, NEW o \in Messages,
                      Len(draws[o]) > 0, command'.pc = "observe"
               PROVE  \E i \in DOMAIN draws[o] :
                        /\ outcome'[o] = draws[o][i]
                        /\ \A j \in DOMAIN draws[o] :
                              LET mine == draws[o][i].labels  other == draws[o][j].labels IN
                              \/ Votes(draws[o], mine) > Votes(draws[o], other)
                              \/ /\ Votes(draws[o], mine) = Votes(draws[o], other)
                                 /\ Cardinality(mine) <= Cardinality(other)
    OBVIOUS
  <2>1. PICK s \in Seq(Readings) : s = draws[o]
    BY DEF ExtractionInv, PassInv
  <2>2. s # <<>> /\ Sampling
    BY <2>1, EmptySeq DEF ExtractionInv, PassInv
  <2>3. outcome'[o] = Consistent(s)
    <3>1. CASE Vote
      BY <2>1, <3>1 DEF Vote
    <3>2. ASSUME NEW provider, Start(provider) PROVE FALSE
      BY <2>2, <3>2 DEF Start, CommandAt, Sampling
    <3>3. ASSUME NEW t \in Threads, ThreadStep(t) PROVE FALSE
      BY <2>2, <3>3
      DEF ThreadStep, Take, CloseQueue, Answer, Backpressure, Fails, Defect, Sampling
    <3>4. CASE Tick \/ CheckpointStep
      BY <2>2, <3>4 DEF Tick, CheckpointStep, StartCheckpoint, AdmitEach, EndCheckpoint, Sampling
    <3>5. CASE StopRun \/ BreakTies
      BY <3>5 DEF StopRun, BreakTies, Pass, Ends, CommandGoes, ExtractionInv, PassInv
    <3>6. CASE AskRules \/ AppendObservation \/ AppendAtom \/ AppendCandidate \/ AskOwner \/ Admit
      BY <2>2, <3>6 DEF AskRules, AppendObservation, AppendAtom, AppendCandidate, AskOwner, Admit,
                        CommandAt, Sampling
    <3>7. CASE Die
      BY <2>2, <3>7 DEF Die, Ends, CommandGoes, Sampling, ExtractionInv, PassInv
    <3> QED
      BY <3>1, <3>2, <3>3, <3>4, <3>5, <3>6, <3>7 DEF ExtractionNext, CommandStep
  <2>4. PICK i \in DOMAIN s :
          /\ Consistent(s) = s[i]
          /\ \A j \in DOMAIN s : \/ s[j].labels = s[i].labels
                                \/ Beats(s, s[i].labels, s[j].labels)
    BY <2>2, ConsistentIsDrawn
  <2>5. ASSUME NEW j \in DOMAIN s
        PROVE  \/ Votes(s, s[i].labels) > Votes(s, s[j].labels)
               \/ /\ Votes(s, s[i].labels) = Votes(s, s[j].labels)
                  /\ Cardinality(s[i].labels) <= Cardinality(s[j].labels)
    <3>1. Cardinality(s[i].labels) \in Nat /\ Cardinality(s[j].labels) \in Nat
      BY Counted
    <3> QED
      BY <2>4, <3>1 DEF Beats
  <2> QED
    BY <2>1, <2>3, <2>4, <2>5
<1> QED
  BY <1>1, ExtractionIsSound, PTL DEF ExtractionSpec, MajorityDecides

=============================================================================
