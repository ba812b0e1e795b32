----------------------------- MODULE Extraction -----------------------------
(* What `session observe` makes of a batch of host messages                  *)
(* (crates/kinbase/src/session.rs, observe, extract_atoms_bounded,           *)
(* live_sample_pass, self_consistent_atoms, checkpoint_internal).            *)
(*                                                                           *)
(* A live classifier is asked twice about every message, and once more where *)
(* the two readings differ, by several threads inside one wall budget; the   *)
(* destination set most readings agree on decides.  The command then appends *)
(* observations, atoms and candidates to the Personal ledgers, in that       *)
(* order, and admits the candidates.  It may die anywhere and is run again   *)
(* by its worker (PendingQueue), which asks the classifier anew; every Stop  *)
(* checkpoints what the ledgers hold.  What an admission does is FanoutSaga; *)
(* here it settles its candidate or fails.                                   *)
EXTENDS Naturals, Sequences, FiniteSets, SequencesExt

CONSTANTS
    Messages,        \* the messages of the batch, 1..n in the batch's order
    Blocked,         \* those whose text the scanner hard-blocks
    Readings,        \* what a sample may say of a message: its destinations, whether
                     \* it is sure, hard-blocked, or bare of all but opaque codes
    RuleReading,     \* what the deterministic provider says of each
    Order,           \* the destination sets in lexicographic order
    Provisioned,     \* destinations this host has a store for
    Faulty,          \* destinations whose admission may fail, every time
    PerRequest,      \* LIVE_OBSERVATIONS_PER_REQUEST
    Threads,         \* LIVE_CLASSIFIER_WORKERS
    Thirds,          \* of LIVE_EXTRACTION_BUDGET_SECONDS left at the start
    MaxRuns          \* runs of the command, and deaths of a checkpoint

Labels == {"personal", "company", "codebase", "none"}

ASSUME ExtractionAssumption ==
    /\ Messages = 1..Cardinality(Messages)
    /\ Blocked \subseteq Messages
    /\ Readings \subseteq [labels : SUBSET Labels, sure : BOOLEAN, hard : BOOLEAN, bare : BOOLEAN]
    /\ RuleReading \in [Messages -> Readings \cup {<<>>}]
    /\ Order \in Seq(SUBSET Labels)
    /\ {r.labels : r \in Readings} \subseteq {Order[i] : i \in DOMAIN Order}
    /\ Provisioned \subseteq Labels /\ Faulty \subseteq Provisioned
    /\ PerRequest \in Nat \ {0} /\ Thirds \in 0..3 /\ MaxRuns \in Nat

VARIABLES
    command,     \* where the command is, and which provider it uses
    asking,      \* the messages of the pass under way
    next,        \* the next work item of the pass
    closed,      \* the pass closed on the wall budget
    fatal,       \* a request failed in a way that stops the run
    thirds,      \* thirds of the budget left; 0 when no request fits any more
    thread,      \* what each thread of the pass does
    draws,       \* the readings of each message, in order of arrival
    outcome,     \* the reading taken for each message, <<>> for none
    observed, atoms, candidates,     \* the Personal ledgers
    settled,     \* candidates whose last receipt is final
    facts,       \* Personal facts, by the atom they are made from
    stop,        \* the candidates a checkpoint under way has still to admit
    runs,        \* those so far
    sent,        \* messages whose text a classifier was given
    proposed     \* destinations some sure reading gave each message

extracting == <<asking, next, closed, fatal, thirds, thread, draws>>
ledgers    == <<observed, atoms, candidates>>
judged     == <<settled, facts>>
told       == <<sent, proposed>>
extractionVars == <<command, extracting, outcome, ledgers, judged, stop, runs, told>>

CommandAt(pc) == command.pc = pc
CommandGoes(pc) == command' = [command EXCEPT !.pc = pc]

Waiting == [pc |-> "take", item |-> 0, attempts |-> 0]
NoReading == <<>>
NotStopping == [busy |-> FALSE, todo |-> {}]

NoPass ==
    /\ asking' = {} /\ next' = 0 /\ closed' = FALSE /\ fatal' = FALSE /\ thirds' = 0
    /\ thread' = [t \in Threads |-> Waiting]
    /\ draws' = [o \in Messages |-> <<>>]

\* The process is gone, and all it held with it.
Ends(pc) ==
    /\ CommandGoes(pc)
    /\ NoPass
    /\ outcome' = [o \in Messages |-> NoReading]

-----------------------------------------------------------------------------
(* Requests: live_batches *)

Nth(o, set) == Cardinality({p \in set : p <= o}) - 1

BatchCount(set) == (Cardinality(set) + PerRequest - 1) \div PerRequest

Batch(set, k) == {o \in set : Nth(o, set) \div PerRequest = k}

\* LIVE_BASE_SAMPLES, LIVE_TIEBREAK_SAMPLES
Samples == IF CommandAt("base") THEN 2 ELSE 1

Work == BatchCount(asking) * Samples

\* Bug: all the samples of a batch are asked for before the next batch.
BatchMajor(item) == Batch(asking, item \div Samples)

\* Work is queued sample-major.
Asked(item) == Batch(asking, item % BatchCount(asking))

\* By the budget left when the request is made
Allowed == thirds

-----------------------------------------------------------------------------
(* The command starts: select_provider, the scan, the deterministic provider *)

\* Bug: the scan only marks the atoms.
AllMessages == Messages

\* A message with hard-blocking material goes to no classifier.
Readable == Messages \ Blocked

Pass(pc, set) ==
    /\ CommandGoes(pc)
    /\ asking' = set
    /\ next' = 0 /\ closed' = FALSE
    /\ thread' = [t \in Threads |-> Waiting]

\* The live model is configured, served and authorized, or the run falls back
\* to the rules before anything is sent.  A processor outside the scope is one
\* more reason to fall back.
Start(provider) ==
    /\ CommandAt("down") /\ runs < MaxRuns
    /\ command' = [pc |-> IF provider = "live" THEN "base" ELSE "rules", provider |-> provider]
    /\ asking' = Readable
    /\ next' = 0 /\ closed' = FALSE /\ fatal' = FALSE /\ thirds' = Thirds
    /\ thread' = [t \in Threads |-> Waiting]
    /\ draws' = [o \in Messages |-> <<>>]
    /\ outcome' = [o \in Messages |-> NoReading]
    /\ runs' = runs + 1
    /\ UNCHANGED <<ledgers, judged, stop, told>>

\* One answer covers the batch it was asked about, in one step with the vote.
AskRules ==
    /\ CommandAt("rules")
    /\ sent' = sent \cup asking
    /\ \/ /\ outcome' = [o \in Messages |-> IF o \in asking THEN RuleReading[o] ELSE NoReading]
          /\ proposed' = [o \in Messages |->
                proposed[o] \cup IF outcome'[o] # NoReading /\ outcome'[o].sure
                                 THEN outcome'[o].labels ELSE {}]
          /\ CommandGoes("observe") /\ NoPass
       \/ Ends("down") /\ UNCHANGED proposed
    /\ UNCHANGED <<ledgers, judged, stop, runs>>

-----------------------------------------------------------------------------
(* One pass of samples: live_sample_pass *)

Sampling == command.pc \in {"base", "tiebreak"}

Thread(t, step) == thread' = [thread EXCEPT ![t] = step]

Take(t) ==
    /\ Sampling /\ thread[t].pc = "take"
    /\ IF ~closed /\ next < Work
       THEN /\ next' = next + 1
            /\ Thread(t, [pc |-> "ask", item |-> next, attempts |-> 0])
       ELSE Thread(t, [Waiting EXCEPT !.pc = "out"]) /\ UNCHANGED next
    /\ UNCHANGED <<command, asking, closed, fatal, thirds, draws, outcome, ledgers, judged,
                   stop, runs, told>>

\* Bug: a request the provider pushed back on is offered again without a look
\* at the budget.
OfferedAgain(t) == thread[t].pc = "ask" /\ (thirds > 0 \/ thread[t].attempts > 0)

\* No request is started that the budget cannot see the end of.
Offered(t) == thread[t].pc = "ask" /\ thirds > 0

CloseQueue(t) ==
    /\ Sampling /\ thread[t].pc = "ask" /\ ~Offered(t)
    /\ closed' = TRUE
    /\ Thread(t, Waiting)
    /\ UNCHANGED <<command, asking, next, fatal, thirds, draws, outcome, ledgers, judged,
                   stop, runs, told>>

\* What may come back for a batch: a reading of each message, its destinations
\* and confidence as the product normalises them, or none.
Answers(batch) == [batch -> Readings \cup {NoReading}]

\* A message the answer leaves out gets no draw (merge_samples).
Answer(t) ==
    LET batch == Asked(thread[t].item) IN
    /\ Sampling /\ Offered(t)
    /\ sent' = sent \cup batch
    /\ \E answer \in Answers(batch) :
          /\ draws' = [o \in Messages |->
                IF o \in batch /\ answer[o] # NoReading THEN Append(draws[o], answer[o])
                ELSE draws[o]]
          /\ proposed' = [o \in Messages |->
                proposed[o] \cup IF o \in batch /\ answer[o] # NoReading /\ answer[o].sure
                                 THEN answer[o].labels ELSE {}]
    /\ Thread(t, Waiting)
    /\ UNCHANGED <<command, asking, next, closed, fatal, thirds, outcome, ledgers, judged,
                   stop, runs>>

\* The provider asks to wait: the same request again, as often as it takes (no
\* third or later attempt leaves a retry, they are counted 2, 3, 2, 3, ...).
Backpressure(t) ==
    /\ Sampling /\ Offered(t)
    /\ sent' = sent \cup Asked(thread[t].item)
    /\ Thread(t, [thread[t] EXCEPT !.attempts = IF @ < 3 THEN @ + 1 ELSE 2])
    /\ UNCHANGED <<command, asking, next, closed, fatal, thirds, draws, outcome, ledgers,
                   judged, stop, runs, proposed>>

\* A transport failure, a time-out or a malformed answer: again while the
\* attempts, those spent on backpressure included, allow it.
Fails(t) ==
    /\ Sampling /\ Offered(t)
    /\ sent' = sent \cup Asked(thread[t].item)
    /\ Thread(t, IF thread[t].attempts + 1 < Allowed
                 THEN [thread[t] EXCEPT !.attempts = @ + 1] ELSE Waiting)
    /\ UNCHANGED <<command, asking, next, closed, fatal, thirds, draws, outcome, ledgers,
                   judged, stop, runs, proposed>>

\* A configuration or authorization defect ends the thread's request; the
\* other threads finish the pass.
Defect(t) ==
    /\ Sampling /\ Offered(t)
    /\ fatal' = TRUE
    /\ Thread(t, Waiting)
    /\ UNCHANGED <<command, asking, next, closed, thirds, draws, outcome, ledgers, judged,
                   stop, runs, told>>

\* A third of the wall budget passes.
Tick ==
    /\ Sampling /\ thirds > 0
    /\ thirds' = thirds - 1
    /\ UNCHANGED <<command, asking, next, closed, fatal, thread, draws, outcome, ledgers,
                   judged, stop, runs, told>>

-----------------------------------------------------------------------------
(* The vote: readings_disagree, self_consistent_atoms *)

Votes(readings, labels) == Cardinality({i \in DOMAIN readings : readings[i].labels = labels})

\* Fewer than two readings, or readings that differ.
Disagree(readings) ==
    Len(readings) < 2 \/ \E i \in DOMAIN readings : readings[i].labels # readings[1].labels

Rank(labels) == CHOOSE i \in DOMAIN Order : Order[i] = labels

\* More votes; at equal votes the smaller set; then lexicographic order.
Beats(readings, a, b) ==
    \/ Votes(readings, a) > Votes(readings, b)
    \/ /\ Votes(readings, a) = Votes(readings, b)
       /\ \/ Cardinality(a) < Cardinality(b)
          \/ Cardinality(a) = Cardinality(b) /\ Rank(a) < Rank(b)

\* Bug: the first reading decides.
FirstReading(readings) == IF readings = <<>> THEN NoReading ELSE readings[1]

\* The first sample with the winning set gives its atoms.
Consistent(readings) ==
    IF readings = <<>> THEN NoReading
    ELSE LET given == {readings[i].labels : i \in DOMAIN readings}
             winner == CHOOSE a \in given : \A b \in given \ {a} : Beats(readings, a, b)
         IN readings[CHOOSE i \in DOMAIN readings :
                        /\ readings[i].labels = winner
                        /\ \A j \in 1..(i - 1) : readings[j].labels # winner]

Contested == {o \in asking : Disagree(draws[o])}

PassIsOver == Sampling /\ \A t \in Threads : thread[t].pc = "out"

StopRun ==
    /\ PassIsOver /\ fatal
    /\ Ends("down")
    /\ UNCHANGED <<ledgers, judged, stop, runs, told>>

\* The contested messages, and only they, are asked about once more, in what
\* is left of the budget.
BreakTies ==
    /\ PassIsOver /\ ~fatal /\ CommandAt("base") /\ Contested # {}
    /\ Pass("tiebreak", Contested)
    /\ UNCHANGED <<fatal, thirds, draws, outcome, ledgers, judged, stop, runs, told>>

Vote ==
    /\ PassIsOver /\ ~fatal
    /\ CommandAt("base") => Contested = {}
    /\ outcome' = [o \in Messages |-> Consistent(draws[o])]
    /\ NoPass
    /\ CommandGoes("observe")
    /\ UNCHANGED <<ledgers, judged, stop, runs, told>>

-----------------------------------------------------------------------------
(* Atoms and candidates: observe, atom_from_classifier, build_candidate *)

\* Of the whole message, where no reading gave its own
Whole(o, eligible) ==
    [message |-> o, whole |-> TRUE, eligible |-> eligible, private |-> eligible # {}]

\* A session's text keeps a Personal home beside what its reading proposes.
FromReading(o, r) ==
    IF r.hard \/ ~r.sure
    THEN [message |-> o, whole |-> FALSE, eligible |-> {}, private |-> FALSE]
    ELSE [message |-> o, whole |-> FALSE, eligible |-> r.labels \cup {"personal"},
          private |-> "personal" \in r.labels]

\* Bug: the rules guess where the live classifier abstained.
GuessedAtom(o) ==
    IF o \in Blocked THEN Whole(o, {})
    ELSE IF outcome[o] # NoReading THEN FromReading(o, outcome[o])
    ELSE IF RuleReading[o] # NoReading THEN FromReading(o, RuleReading[o])
    ELSE Whole(o, {"personal"})

\* Where the live classifier abstained the message stays private and unplaced;
\* where the rules have nothing to say it is a Personal atom.
AtomOf(o) ==
    IF o \in Blocked THEN Whole(o, {})
    ELSE IF outcome[o] # NoReading THEN FromReading(o, outcome[o])
    ELSE Whole(o, IF command.provider = "live" THEN {} ELSE {"personal"})

\* One candidate for every eligible destination with a store, unless
\* de-identification leaves nothing to share.
CandidatesOf(o) ==
    {<<o, d>> : d \in {e \in AtomOf(o).eligible \ {"none"} :
                           /\ e \in Provisioned
                           /\ e = "personal" \/ outcome[o] = NoReading \/ ~outcome[o].bare}}

SameAtom(a, b) == a.message = b.message /\ a.whole = b.whole

\* An append holds the first record of an identity (PersonalLedger).
Held(a) == \E b \in atoms : SameAtom(a, b)

\* Bug: candidates first.
CandidatesFirst(pc) ==
    CASE pc = "observe" -> "candidates" [] pc = "candidates" -> "atoms" [] pc = "atoms" -> "ask"

\* The order in which the ledgers are written
Following(pc) ==
    CASE pc = "observe" -> "atoms" [] pc = "atoms" -> "candidates" [] pc = "candidates" -> "ask"

AppendObservation ==
    /\ CommandAt("observe")
    /\ \/ \E o \in Messages \ observed :
             observed' = observed \cup {o} /\ UNCHANGED command
       \/ Messages \subseteq observed /\ CommandGoes(Following("observe")) /\ UNCHANGED observed
    /\ UNCHANGED <<extracting, outcome, atoms, candidates, judged, stop, runs, told>>

AppendAtom ==
    /\ CommandAt("atoms")
    /\ \/ \E o \in Messages : /\ ~Held(AtomOf(o))
                              /\ atoms' = atoms \cup {AtomOf(o)} /\ UNCHANGED command
       \/ (\A o \in Messages : Held(AtomOf(o))) /\ CommandGoes(Following("atoms")) /\ UNCHANGED atoms
    /\ UNCHANGED <<extracting, outcome, observed, candidates, judged, stop, runs, told>>

Minted == UNION {CandidatesOf(o) : o \in Messages}

AppendCandidate ==
    /\ CommandAt("candidates")
    /\ \/ \E c \in Minted \ candidates :
             candidates' = candidates \cup {c} /\ UNCHANGED command
       \/ Minted \subseteq candidates /\ CommandGoes(Following("candidates")) /\ UNCHANGED candidates
    /\ UNCHANGED <<extracting, outcome, observed, atoms, judged, stop, runs, told>>

\* question_for_unresolved_atom: the owner of the scope may not be readable,
\* and then no candidate is admitted by this run.
AskOwner ==
    /\ CommandAt("ask")
    /\ \/ CommandGoes("admit") /\ UNCHANGED <<extracting, outcome>>
       \/ Ends("down")
    /\ UNCHANGED <<ledgers, judged, stop, runs, told>>

-----------------------------------------------------------------------------
(* Admissions: observe's own, which ends at its first failure, and a         *)
(* checkpoint's, which does not                                              *)

Admit ==
    /\ CommandAt("admit")
    /\ \/ \E c \in Minted \ settled : /\ settled' = settled \cup {c}
                                      /\ UNCHANGED <<command, extracting, outcome>>
       \/ /\ \E c \in Minted \ settled : c[2] \in Faulty
          /\ Ends("down") /\ UNCHANGED settled
       \/ Minted \subseteq settled /\ Ends("done") /\ UNCHANGED settled
    /\ UNCHANGED <<ledgers, facts, stop, runs, told>>

\* A Stop or SessionEnd reads the session's candidates and their receipts.
StartCheckpoint ==
    /\ ~stop.busy
    /\ stop' = [busy |-> TRUE, todo |-> candidates \ settled]
    /\ UNCHANGED <<command, extracting, outcome, ledgers, judged, runs, told>>

\* Bug: a candidate that fails ends the checkpoint.
AdmitUntilFailure ==
    /\ stop.busy
    /\ \E c \in stop.todo :
          \/ /\ settled' = settled \cup {c}
             /\ stop' = [stop EXCEPT !.todo = @ \ {c}]
          \/ c[2] \in Faulty /\ stop' = [stop EXCEPT !.todo = {}] /\ UNCHANGED settled
    /\ UNCHANGED <<command, extracting, outcome, ledgers, facts, runs, told>>

\* Each candidate is admitted on its own; one that fails is reported.
AdmitEach ==
    /\ stop.busy
    /\ \E c \in stop.todo :
          /\ settled' \in {settled \cup {c}} \cup IF c[2] \in Faulty THEN {settled} ELSE {}
          /\ stop' = [stop EXCEPT !.todo = @ \ {c}]
    /\ UNCHANGED <<command, extracting, outcome, ledgers, facts, runs, told>>

\* Then the session's Personal atoms become Personal facts.
EndCheckpoint ==
    /\ stop.busy /\ stop.todo = {}
    /\ facts' = facts \cup {a \in atoms : a.private /\ a.message \in observed}
    /\ stop' = NotStopping
    /\ UNCHANGED <<command, extracting, outcome, ledgers, settled, runs, told>>

\* The command, or the checkpoint, dies.
Die ==
    /\ runs < MaxRuns
    /\ \/ ~CommandAt("down") /\ ~CommandAt("done") /\ Ends("down") /\ UNCHANGED <<stop, runs>>
       \/ /\ stop.busy /\ stop' = NotStopping /\ runs' = runs + 1
          /\ UNCHANGED <<command, extracting, outcome>>
    /\ UNCHANGED <<ledgers, judged, told>>

-----------------------------------------------------------------------------

ExtractionInit ==
    /\ command = [pc |-> "down", provider |-> "rules"]
    /\ asking = {} /\ next = 0 /\ closed = FALSE /\ fatal = FALSE /\ thirds = 0
    /\ thread = [t \in Threads |-> Waiting]
    /\ draws = [o \in Messages |-> <<>>] /\ outcome = [o \in Messages |-> NoReading]
    /\ observed = {} /\ atoms = {} /\ candidates = {} /\ settled = {} /\ facts = {}
    /\ stop = NotStopping /\ runs = 0
    /\ sent = {} /\ proposed = [o \in Messages |-> {}]

ThreadStep(t) ==
    Take(t) \/ CloseQueue(t) \/ Answer(t) \/ Backpressure(t) \/ Fails(t) \/ Defect(t)

CommandStep ==
    \/ AskRules \/ StopRun \/ BreakTies \/ Vote
    \/ AppendObservation \/ AppendAtom \/ AppendCandidate \/ AskOwner \/ Admit

CheckpointStep == StartCheckpoint \/ AdmitEach \/ EndCheckpoint

ExtractionNext ==
    \/ \E provider \in {"live", "rules"} : Start(provider)
    \/ \E t \in Threads : ThreadStep(t)
    \/ Tick \/ CommandStep \/ CheckpointStep \/ Die

\* Processes that run go on, time passes, and further Stops checkpoint.
ExtractionSpec ==
    /\ ExtractionInit /\ [][ExtractionNext]_extractionVars
    /\ WF_extractionVars(CommandStep) /\ WF_extractionVars(Tick)
    /\ WF_extractionVars(CheckpointStep)
    /\ \A t \in Threads : WF_extractionVars(ThreadStep(t))

-----------------------------------------------------------------------------
(* Properties *)

\* Whatever run dies where, and whatever a later run reads in the same message,
\* a candidate on the ledger has an atom of its message there, and an atom its
\* observation; only candidates on the ledger have receipts (observe's order).
LedgersAreLayered ==
    /\ \A c \in candidates : \E a \in atoms : a.message = c[1]
    /\ \A a \in atoms : a.message \in observed
    /\ settled \subseteq candidates

\* A message with hard-blocking material reaches no classifier and makes no
\* candidate and no Personal fact (observe, extract_atoms_bounded).
BlockedStaysPrivate ==
    /\ sent \cap Blocked = {}
    /\ \A c \in candidates : c[1] \notin Blocked
    /\ \A a \in facts : a.message \notin Blocked

\* A shared destination is one a reading sure of itself proposed, in this run
\* or one before it: nothing is guessed where samples were lost to failures,
\* backpressure or the budget (observe, "no destination was guessed").
NothingIsGuessed == \A c \in candidates : c[2] # "personal" => c[2] \in proposed[c[1]]

\* The reading taken is one that was drawn, and no other destination set had
\* more votes, nor as many and fewer destinations (self_consistent_atoms).
MajorityDecides ==
    [][\A o \in Messages : command.provider = "live" /\ Len(draws[o]) > 0 /\ command'.pc = "observe" =>
          \E i \in DOMAIN draws[o] :
             /\ outcome'[o] = draws[o][i]
             /\ \A j \in DOMAIN draws[o] :
                   LET mine == draws[o][i].labels  other == draws[o][j].labels IN
                   \/ Votes(draws[o], mine) > Votes(draws[o], other)
                   \/ /\ Votes(draws[o], mine) = Votes(draws[o], other)
                      /\ Cardinality(mine) <= Cardinality(other)]_extractionVars

\* However long the provider pushes back or fails, the passes end
\* (LIVE_EXTRACTION_BUDGET_SECONDS).
PassesEnd == []<>~Sampling

\* A candidate on the ledger is settled, though its run died before or in its
\* admission and another destination fails every time (checkpoint_internal).
CandidatesAreSettled == []<>(\A c \in candidates : c[2] \in Faulty \/ c \in settled)

\* What one message becomes is layered, private where it must be, and read.
MessagesAreRead == LedgersAreLayered /\ BlockedStaysPrivate /\ NothingIsGuessed

\* Passes end, and then what they left is settled.
SessionsSettle == PassesEnd /\ CandidatesAreSettled

\* Every emitted candidate is one its atom warrants: fails when a later run
\* reads the message otherwise, for the atom of the first reading stays.
CandidateIsWarranted ==
    \A c \in candidates : \E a \in atoms : a.message = c[1] /\ c[2] \in a.eligible

\* Two runs of one batch never share a message out to two readings' stores
\* (session.rs:1445, "one sample's own atoms ... never a merge").
OneReading ==
    \A o \in Messages : \A a, b \in atoms : a.message = o /\ b.message = o => a = b

\* The budget costs later samples, never a batch's only answer
\* (session.rs:1244): no message goes unread beside one read twice.
OnlyAnswerIsKept ==
    PassIsOver /\ closed /\ CommandAt("base") =>
        ~\E o, p \in asking : Len(draws[o]) = 0 /\ Len(draws[p]) = 2
=============================================================================
