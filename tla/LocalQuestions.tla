----------------------------- MODULE LocalQuestions -----------------------------
(***************************************************************************)
(* Questions to an authority as a repository keeps them: append-only       *)
(* ledgers of questions, Unknowns and answers whose newest record counts,  *)
(* and one event file per admitted answer. Commands (a projection that     *)
(* raises the question, `questions ask`, `questions answer`) run in        *)
(* processes without a common lock: each reads, then writes its records    *)
(* one after another, and may be killed between any two of them.           *)
(*                                                                         *)
(* One Unknown and its question are modelled. Ids are digests of what they *)
(* name, so an answer document stands for its record and its fact event.   *)
(* Signatures are taken as verified; ledger appends are RecordLog's.       *)
(***************************************************************************)
EXTENDS Naturals, FiniteSets

CONSTANTS
    Procs,
    Entries,    \* registry entries: [id, key, scope, kin, answers, http]
    Registries, \* the sets of them a repository may see as active
    UnknownScope, OwnerIdentity,  \* what the Unknown names
    Architecture,                 \* whether its scope is an architecture scope
    Documents,  \* signed answers: [key, names (an authority id or NoId), parents]
    NoId,
    MaxKills    \* bound: kills and registry changes together

ASSUME QuestionsAssumption ==
    /\ \A e \in Entries : DOMAIN e = {"id", "key", "scope", "kin", "answers", "http"}
    /\ \A d \in Documents : DOMAIN d = {"n", "key", "names", "parents"} /\ d.parents \in BOOLEAN
    /\ Registries \subseteq SUBSET Entries /\ MaxKills \in Nat

VARIABLES
    registry,   \* active entries, of the ledger and the cached snapshot
    question,   \* the newest question record
    unknown,    \* the newest Unknown record
    closures,   \* answers some Unknown record cites as closing it
    answers,    \* recorded answers
    facts,      \* event files: [answer, supersedes]
    delivered,  \* whether a delivery receipt was recorded
    kills, proc

questionVars == <<registry, question, unknown, closures, answers, facts, delivered, kills, proc>>

ledgers == <<question, unknown, closures, answers, facts, delivered>>
None == [status |-> "none"]
Idle == [pc |-> "idle"]
Become(p, r) == proc' = [proc EXCEPT ![p] = r]

----------------------------------------------------------------------------
(* The registry *)

Nobody == [id |-> NoId]

\* Entries that may answer for a scope: the exact ones, or, for an architecture
\* scope without any, every architect.
ActiveEntries(scope) ==
    LET exact == {e \in registry : e.scope = scope /\ (e.kin \/ e.answers)}
    IN IF exact # {} \/ ~Architecture THEN exact
       ELSE {e \in registry : e.kin}

Owners(entries) == {<<e.id, e.key>> : e \in entries}

\* The one owner of a scope, an entry with an HTTP channel first; nobody when
\* owners overlap.
Authority(scope) ==
    LET entries == ActiveEntries(scope)
        http == {e \in entries : e.http}
    IN IF Cardinality(Owners(entries)) # 1 THEN {Nobody}
       ELSE IF http # {} THEN http ELSE entries

\* The owner an Unknown names, confirmed by the registry under one key, or the
\* owner of its scope.
ResolvedOwner ==
    LET named == {e \in registry : e.id = OwnerIdentity /\ e.answers}
    IN IF named = {} THEN Authority(UnknownScope)
       ELSE IF Cardinality({e.key : e \in named}) # 1 THEN {Nobody}
       ELSE UNION {Authority(e.scope) : e \in named}

----------------------------------------------------------------------------
(* A projection raises the question *)

QuestionsInit ==
    /\ registry \in Registries
    /\ question = None /\ unknown = None /\ closures = {} /\ answers = {} /\ facts = {}
    /\ delivered = FALSE /\ kills = 0 /\ proc = [p \in Procs |-> Idle]

Opened(owner) ==
    [status |-> IF owner = Nobody THEN "awaiting_authority" ELSE "open",
     owner |-> owner.id, scope |-> IF owner = Nobody THEN UnknownScope ELSE owner.scope]

\* Bug: a question that exists is left as it is.
IsSettled(owner) == question # None

\* Only a missing owner is retried; delivery state and answers are kept.
Stands(owner) ==
    question # None /\ (question.status # "awaiting_authority" \/ owner = Nobody)

\* ensure_question reads the registry, the question and the Unknown.
Raise(p) ==
    /\ proc[p] = Idle
    /\ \E owner \in ResolvedOwner :
         /\ ~Stands(owner)
         /\ Become(p, [pc |-> IF unknown = None THEN "unknown" ELSE "raise", copy |-> Opened(owner)])
    /\ UNCHANGED <<registry, ledgers, kills>>

PersistUnknown(p) ==
    /\ proc[p].pc = "unknown"
    /\ unknown' = [status |-> "open"]
    /\ Become(p, [proc[p] EXCEPT !.pc = "raise"])
    /\ UNCHANGED <<registry, question, closures, answers, facts, delivered, kills>>

RecordRaised(p) ==
    /\ proc[p].pc = "raise"
    /\ question' = proc[p].copy
    /\ Become(p, Idle)
    /\ UNCHANGED <<registry, unknown, closures, answers, facts, delivered, kills>>

----------------------------------------------------------------------------
(* questions ask *)

\* The scope's one authority, whom a command needs.
Current == Authority(question.scope) \ {Nobody}

\* The question's record with another status.
As(status) == [status |-> status, owner |-> question.owner, scope |-> question.scope]

StartAsk(p) ==
    /\ proc[p] = Idle /\ question # None
    /\ \E e \in Current :
         Become(p, IF question.status = "awaiting_authority"
                   THEN [pc |-> "own", copy |-> Opened(e)]
                   ELSE [pc |-> "deliver", copy |-> As("asked")])
    /\ UNCHANGED <<registry, ledgers, kills>>

RecordOwner(p) ==
    /\ proc[p].pc = "own"
    /\ question' = proc[p].copy
    /\ Become(p, [proc[p] EXCEPT !.pc = "deliver"])
    /\ UNCHANGED <<registry, unknown, closures, answers, facts, delivered, kills>>

\* Bug: a question whose channel could not be reached is marked asked.
DeliverAnyway(p) ==
    /\ proc[p].pc = "deliver"
    /\ delivered' \in {delivered, TRUE}
    /\ Become(p, [proc[p] EXCEPT !.pc = "asked"])
    /\ UNCHANGED <<registry, question, unknown, closures, answers, facts, kills>>

\* What the authority's channel does with a question: it takes it, answers
\* 429 or another failure, or cannot be reached; an outbox always takes it.
Replies == {"taken", "refused", "unreachable"}

\* A reply of any status leaves a receipt.
Deliver(p) ==
    /\ proc[p].pc = "deliver"
    /\ \E reply \in Replies :
         /\ delivered' = (delivered \/ reply # "unreachable")
         /\ Become(p, IF reply = "taken" THEN [proc[p] EXCEPT !.pc = "asked"] ELSE Idle)
    /\ UNCHANGED <<registry, question, unknown, closures, answers, facts, kills>>

\* The record read at the start is written back as asked.
RecordAsked(p) ==
    /\ proc[p].pc = "asked"
    /\ question' = [proc[p].copy EXCEPT !.status = "asked"]
    /\ Become(p, Idle)
    /\ UNCHANGED <<registry, unknown, closures, answers, facts, delivered, kills>>

----------------------------------------------------------------------------
(* questions answer *)

\* Bug: whoever signed the answer may close the question.
MayAnswerAny(d, e) == d.names \in {NoId, question.owner}

\* The registered key decides, and a named authority must be the question's.
MayAnswer(d, e) == d.key = e.key /\ d.names \in {NoId, question.owner}

StartAnswer(p, d) ==
    /\ proc[p] = Idle /\ question # None
    /\ \E e \in Current : MayAnswer(d, e)
    /\ Become(p, [pc |-> "answer", doc |-> d, prior |-> answers,
                copy |-> As(IF d.parents THEN "superseded"
                            ELSE IF answers # {} THEN "conflict" ELSE "closed")])
    /\ UNCHANGED <<registry, ledgers, kills>>

\* An answer that names no parents and is not the first conflicts.
Conflicts(r) == r.copy.status = "conflict"

\* Bug: the answer is not recorded before its fact.
SkipRecord(p) ==
    /\ proc[p].pc = "answer"
    /\ Become(p, [proc[p] EXCEPT !.pc = "fact"])
    /\ UNCHANGED <<registry, ledgers, kills>>

RecordAnswer(p) ==
    /\ proc[p].pc = "answer"
    /\ answers' = answers \cup {proc[p].doc}
    /\ Become(p, [proc[p] EXCEPT !.pc = "fact"])
    /\ UNCHANGED <<registry, question, unknown, closures, facts, delivered, kills>>

\* Bug: the fact is not written.
SkipFact(p) ==
    LET r == proc[p]
    IN /\ r.pc = "fact"
       /\ Become(p, [r EXCEPT !.pc = IF Conflicts(r) THEN "settle" ELSE "close"])
       /\ UNCHANGED <<registry, ledgers, kills>>

\* An answer with parents supersedes every answer recorded before it was read.
WriteFact(p) ==
    LET r == proc[p]
    IN /\ r.pc = "fact"
       /\ facts' = facts \cup {[answer |-> r.doc,
                               supersedes |-> IF r.doc.parents THEN r.prior ELSE {}]}
       /\ Become(p, [r EXCEPT !.pc = IF Conflicts(r) THEN "settle" ELSE "close"])
       /\ UNCHANGED <<registry, question, unknown, closures, answers, delivered, kills>>

CloseUnknown(p) ==
    /\ proc[p].pc = "close" /\ unknown # None
    /\ unknown' = [status |-> "closed"]
    /\ closures' = closures \cup {proc[p].doc}
    /\ Become(p, [proc[p] EXCEPT !.pc = "settle"])
    /\ UNCHANGED <<registry, question, answers, facts, delivered, kills>>

Settle(p) ==
    LET r == proc[p]
    IN /\ r.pc = "settle"
       /\ question' = [status |-> r.copy.status, owner |-> r.copy.owner, scope |-> r.copy.scope,
                        answer |-> r.doc]
       /\ Become(p, Idle)
       /\ UNCHANGED <<registry, unknown, closures, answers, facts, delivered, kills>>

----------------------------------------------------------------------------

Kill(p) ==
    /\ proc[p] # Idle /\ kills < MaxKills
    /\ kills' = kills + 1 /\ Become(p, Idle)
    /\ UNCHANGED <<registry, ledgers>>

Register(entries) ==
    /\ entries # registry /\ kills < MaxKills
    /\ registry' = entries /\ kills' = kills + 1
    /\ UNCHANGED <<ledgers, proc>>

Continue(p) ==
    \/ PersistUnknown(p) \/ RecordRaised(p)
    \/ RecordOwner(p) \/ Deliver(p) \/ RecordAsked(p)
    \/ RecordAnswer(p) \/ WriteFact(p) \/ CloseUnknown(p) \/ Settle(p)

QuestionsNext ==
    \/ \E p \in Procs : Raise(p) \/ StartAsk(p) \/ Continue(p) \/ Kill(p)
                        \/ \E d \in Documents : StartAnswer(p, d)
    \/ \E entries \in Registries : Register(entries)

\* Projections go on being asked for; a command that runs goes on.
QuestionsFairness ==
    \A p \in Procs : WF_questionVars(Continue(p)) /\ SF_questionVars(Raise(p))

QuestionsSpec == QuestionsInit /\ [][QuestionsNext]_questionVars /\ QuestionsFairness

----------------------------------------------------------------------------
(* Properties *)

TypeOK ==
    /\ registry \subseteq Entries /\ answers \subseteq Documents /\ closures \subseteq Documents
    /\ question.status \in {"none", "awaiting_authority", "open", "asked", "conflict",
                            "closed", "superseded"}
    /\ unknown.status \in {"none", "open", "closed"}
    /\ \A f \in facts : f.answer \in Documents /\ f.supersedes \subseteq Documents
    /\ delivered \in BOOLEAN /\ kills \in 0..MaxKills

\* A question that reads as asked has been delivered: some receipt of its
\* channel or its outbox is on record (ask), whoever wrote the newest record.
AskedIsDelivered == question.status = "asked" => delivered

\* Whatever commands overlap or die, a question that reads as answered rests on
\* a recorded answer, its fact event and, unless it conflicts, a closing record
\* of the Unknown (answer).
AnsweredIsFounded ==
    question.status \in {"conflict", "closed", "superseded"} =>
        /\ question.answer \in answers
        /\ \E f \in facts : f.answer = question.answer
        /\ question.status # "conflict" => question.answer \in closures

\* No record of a question runs ahead of what it says was done.
RecordsAreFounded == AskedIsDelivered /\ AnsweredIsFounded

\* An Unknown is closed only by an answer whose fact is in the store and whose
\* signer was a registered answering key; a reader that sees it closed finds
\* the fact.
ClosingIsCited ==
    \A d \in closures :
        /\ d \in answers /\ \E f \in facts : f.answer = d
        /\ \E e \in Entries : e.key = d.key /\ (e.kin \/ e.answers)

\* What a fact supersedes has itself been recorded, so a chain of corrections
\* never points at an answer nobody can find.
SupersededIsOnRecord == \A f \in facts : f.supersedes \cup {f.answer} \subseteq answers

\* Once the registry names an owner for good, the question does not keep waiting
\* for one (ensure_question retries the owner).
OwnerIsFound ==
    [](question.status = "awaiting_authority" /\ Nobody \notin ResolvedOwner
        => <>(question.status # "awaiting_authority" \/ Nobody \in ResolvedOwner))

\* Violated: an answer given twice supersedes the record of its first time.
NoFactRetiresItself == \A f \in facts : f.answer \notin f.supersedes
=============================================================================
