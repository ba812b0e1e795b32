------------------------------ MODULE CompanyDesk ------------------------------
(***************************************************************************)
(* What kinbased keeps besides facts: questions and their answers,         *)
(* Unknowns, manifest observations and repository certificates. Every      *)
(* request first does the periodic work (lapsed observations, orphans past *)
(* their deadline) statement by statement, then loads the registry, then   *)
(* runs its handler, so a request acts on rows and on a registry other     *)
(* requests have changed meanwhile, and one that dies leaves a prefix.     *)
(*                                                                         *)
(* Questions and answers concern one scope, manifests one branch of one    *)
(* codebase; the registry is the set of keys active for that scope. Admission   *)
(* of facts, revocations and publications is CompanyAdmission.             *)
(***************************************************************************)
EXTENDS Integers, FiniteSets, SequencesExt

CONSTANTS
    Workers,             \* requests served at a time
    Keys,                \* keys a registry may list
    Questions, Answers,
    QuestionOf,          \* the question each answer document is to
    SignerOf,            \* its signer
    ParentsOf,           \* the answers it names as parents
    NamesFirst,          \* the answers that name their parent as "<question>#1"
    Apologies, Clients,  \* Unknowns of revocations, and Unknowns clients post
    Gap, Lapse,          \* the registry and the publication Unknown
    Uuids, Revisions, MaxCount,
    Mixes,               \* bound: the kinds of request one behaviour mixes
    MaxClock, MaxUpsets  \* bounds; failures and registry changes together

Unknowns == Apologies \cup Clients \cup {Gap, Lapse}

ASSUME DeskAssumption ==
    /\ QuestionOf \in [Answers -> Questions] /\ SignerOf \in [Answers -> Keys]
    /\ ParentsOf \in [Answers -> SUBSET Answers] /\ NamesFirst \subseteq Answers
    /\ Apologies \cap Clients = {} /\ Gap \notin Apologies \cup Clients
    /\ Lapse \notin Apologies \cup Clients \cup {Gap}
    /\ MaxCount \in Nat /\ MaxClock \in Nat /\ MaxUpsets \in Nat

VARIABLES
    mix,          \* the kinds of request of this behaviour
    clock, upsets,
    registry,     \* the keys active for the scope
    log,          \* ids of the events in the log
    questions,    \* question rows
    answers,      \* answer rows in the order of their cursors
    unknowns,     \* Unknown rows
    observations, \* manifest observations by id
    certificates, \* repositories with a certificate
    req           \* each request

vars == <<mix, clock, upsets, registry, log, questions, answers, unknowns, observations,
          certificates, req>>

Idle == [pc |-> "idle"]
Unposted == [status |-> "absent"]
NoRow == [status |-> "absent", due |-> 0, evidence |-> {}]
OpenUntil(due) == [status |-> "open", due |-> due, evidence |-> {}]

Init ==
    /\ mix \in Mixes /\ clock = 0 /\ upsets = 0
    /\ registry \in {{k} : k \in Keys}
    /\ log = {} /\ answers = <<>> /\ observations = <<>> /\ certificates = {}
    /\ questions = [q \in Questions |-> Unposted]
    /\ unknowns = [u \in Unknowns |-> NoRow]
    /\ req = [w \in Workers |-> Idle]

rows == <<questions, answers, unknowns, observations, certificates>>
world == <<mix, clock, upsets, registry>>

Become(w, r) == req' = [req EXCEPT ![w] = r]
AppendEvent(e) == log' = log \cup {e}
Upsert(u, row) == unknowns' = [unknowns EXCEPT ![u] = row]

----------------------------------------------------------------------------
(* Periodic work *)

Lapsed(o, now) == o.status = "current" /\ o.until <= now

Arrive(w) ==
    /\ req[w] = Idle
    /\ Become(w, [pc |-> "retiring", now |-> clock, done |-> {},
                  todo |-> {i \in DOMAIN observations : Lapsed(observations[i], clock)}])
    /\ UNCHANGED <<world, log, rows>>

Retire(w, i) ==
    /\ req[w].pc = "retiring" /\ i \in req[w].todo
    /\ observations' = [observations EXCEPT ![i].status = "historical"]
    /\ Become(w, [req[w] EXCEPT !.todo = @ \ {i}, !.done = @ \cup {i}])
    /\ UNCHANGED <<world, log, questions, answers, unknowns, certificates>>

\* The lapse of each retired observation is signed into the log, then its
\* Unknown is opened.
AnnounceLapse(w, i) ==
    /\ req[w].pc = "retiring" /\ req[w].todo = {} /\ i \in req[w].done
    /\ AppendEvent(<<"lapse", i>>)
    /\ Become(w, [req[w] EXCEPT !.pc = "lapsing", !.done = @ \ {i}])
    /\ UNCHANGED <<world, rows>>

OpenLapse(w) ==
    /\ req[w].pc = "lapsing"
    /\ Upsert(Lapse, OpenUntil(req[w].now + 1))
    /\ Become(w, [req[w] EXCEPT !.pc = "retiring"])
    /\ UNCHANGED <<world, log, questions, answers, observations, certificates>>

\* Bug: an orphan is due only after its deadline has passed.
OrphansAfter(now) == {u \in Apologies : unknowns[u].status = "open" /\ unknowns[u].due < now}

\* The orphans past their deadline, as the open rows read now.
Orphans(now) == {u \in Apologies : unknowns[u].status = "open" /\ unknowns[u].due <= now}

ListOrphans(w) ==
    /\ req[w].pc = "retiring" /\ req[w].todo = {} /\ req[w].done = {}
    /\ Become(w, [pc |-> "orphans", now |-> req[w].now,
                  todo |-> {[id |-> u, row |-> unknowns[u]] : u \in Orphans(req[w].now)}])
    /\ UNCHANGED <<world, log, rows>>

AnnounceOrphan(w, o) ==
    /\ req[w].pc = "orphans" /\ o \in req[w].todo
    /\ AppendEvent(<<"orphan", o.id>>)
    /\ Become(w, [pc |-> "abandoning", now |-> req[w].now, todo |-> req[w].todo \ {o},
                  orphan |-> o])
    /\ UNCHANGED <<world, rows>>

\* Bug: an orphan nobody answered is closed.
AbandonAsClosed(w) ==
    /\ req[w].pc = "abandoning"
    /\ Upsert(req[w].orphan.id, [req[w].orphan.row EXCEPT !.status = "closed"])
    /\ Become(w, [pc |-> "orphans", now |-> req[w].now, todo |-> req[w].todo])
    /\ UNCHANGED <<world, log, questions, answers, observations, certificates>>

\* The row is written back as it was read.
Abandon(w) ==
    /\ req[w].pc = "abandoning"
    /\ Upsert(req[w].orphan.id, [req[w].orphan.row EXCEPT !.status = "abandoned"])
    /\ Become(w, [pc |-> "orphans", now |-> req[w].now, todo |-> req[w].todo])
    /\ UNCHANGED <<world, log, questions, answers, observations, certificates>>

LoadTrust(w) ==
    /\ req[w].pc = "orphans" /\ req[w].todo = {}
    /\ Become(w, [pc |-> "loaded", now |-> req[w].now, trust |-> registry])
    /\ UNCHANGED <<world, log, rows>>

Handles(w, kind) == req[w].pc = "loaded" /\ kind \in mix

\* A read, or a request its handler refuses.
Answered(w) ==
    /\ req[w].pc = "loaded"
    /\ Become(w, Idle)
    /\ UNCHANGED <<world, log, rows>>

----------------------------------------------------------------------------
(* Questions and answers *)

\* A scope nobody owns becomes a steward's Unknown.
OpenGap(w) ==
    /\ Handles(w, "question") /\ req[w].trust = {}
    /\ Upsert(Gap, OpenUntil(req[w].now + 1))
    /\ Become(w, Idle)
    /\ UNCHANGED <<world, log, questions, answers, observations, certificates>>

\* A question is stored once, whatever a later request under its id says.
PostQuestion(w, q, about) ==
    /\ Handles(w, "question") /\ Cardinality(req[w].trust) = 1
    /\ IF questions[q] = Unposted
       THEN /\ questions' = [questions EXCEPT ![q] = [status |-> "queued", about |-> about]]
            /\ AppendEvent(<<"question", q>>)
       ELSE UNCHANGED <<questions, log>>
    /\ Become(w, Idle)
    /\ UNCHANGED <<world, answers, unknowns, observations, certificates>>

\* Where the answers to a question stand, and the first of them.
Prior(q) == {i \in DOMAIN answers : QuestionOf[answers[i].id] = q}

First(q) == {i \in Prior(q) : \A j \in Prior(q) : i <= j}

Ids(places) == {answers[i].id : i \in places}

\* What an answer supersedes: a prior answer it names, or the first one it
\* refers to by place.
Superseded(a, q) ==
    LET named == ParentsOf[a] \cap Ids(Prior(q))
    IN IF named # {} THEN {{p} : p \in named}
       ELSE IF a \in NamesFirst THEN {Ids(First(q))}
       ELSE {{}}

\* An answer to a question that has one, and that supersedes none of them.
Conflicts(q, superseded) == Prior(q) # {} /\ superseded = {}

\* Bug: a document sent again replaces its row.
AdmitReplacing(a, superseded) ==
    LET row == [id |-> a, supersedes |-> superseded]
    IN IF \E i \in DOMAIN answers : answers[i].id = a
       THEN [i \in DOMAIN answers |-> IF answers[i].id = a THEN row ELSE answers[i]]
       ELSE Append(answers, row)

\* Bug: a document sent again is stored again.
AdmitAgain(a, superseded) == Append(answers, [id |-> a, supersedes |-> superseded])

\* An answer has one row, the first written under its id.
Admit(a, superseded) ==
    IF \E i \in DOMAIN answers : answers[i].id = a THEN answers
    ELSE Append(answers, [id |-> a, supersedes |-> superseded])

\* One transaction admits the answer, its event and its fact, and closes or
\* reopens the Unknown the question names.
PostAnswer(w, a) ==
    LET q == QuestionOf[a]
    IN /\ Handles(w, "answer") /\ questions[q] # Unposted
       /\ req[w].trust = {SignerOf[a]}
       /\ \E superseded \in Superseded(a, q) :
            LET conflict == Conflicts(q, superseded)
                about == questions[q].about
            IN /\ log' = log \cup {<<"answer", a>>, <<"fact", a>>}
               /\ answers' = Admit(a, superseded)
               /\ questions' = [questions EXCEPT ![q].status =
                                   IF conflict THEN "conflict" ELSE "answered"]
               /\ unknowns' = IF unknowns[about] = NoRow THEN unknowns
                              ELSE [unknowns EXCEPT ![about] =
                                      [status |-> IF conflict THEN "open" ELSE "closed",
                                       due |-> @.due, evidence |-> {a}]]
       /\ Become(w, Idle)
       /\ UNCHANGED <<world, observations, certificates>>

----------------------------------------------------------------------------
(* Unknowns *)

\* Bug: a posted Unknown is not put into the log.
KeepUnlogged(w, u) ==
    /\ Handles(w, "unknown")
    /\ Become(w, [pc |-> "recording", unknown |-> u])
    /\ UNCHANGED <<world, log, rows>>

\* A client's Unknown is logged, then its row is written, whatever it held.
LogUnknown(w, u) ==
    /\ Handles(w, "unknown")
    /\ AppendEvent(<<"unknown", u>>)
    /\ Become(w, [pc |-> "recording", unknown |-> u])
    /\ UNCHANGED <<world, rows>>

RecordUnknown(w) ==
    /\ req[w].pc = "recording"
    /\ Upsert(req[w].unknown, OpenUntil(1))
    /\ Become(w, Idle)
    /\ UNCHANGED <<world, log, questions, answers, observations, certificates>>

\* A steward's revocation opens the apology Unknown of a fact it touches.
RaiseApology(w, u) ==
    /\ Handles(w, "revocation")
    /\ Upsert(u, OpenUntil(req[w].now + 1))
    /\ Become(w, Idle)
    /\ UNCHANGED <<world, log, questions, answers, observations, certificates>>

----------------------------------------------------------------------------
(* Manifest observations and certificates *)

\* Bug: the count may drop whoever lowers it.
RegressesNever(m, latest) == FALSE

\* The reachable lineage may not lose events while its observation stands,
\* unless a rewrite is signed.
Regresses(m, latest) == m.count < latest.count /\ ~m.rewrite /\ latest.status = "current"

Manifests == [revision : Revisions, count : 0..MaxCount, rewrite : BOOLEAN]

\* A revision is observed once; the latest one again changes nothing.
PostManifest(w, m) ==
    /\ Handles(w, "manifest") /\ req[w].trust # {}
    /\ \A i \in DOMAIN observations : observations[i].revision # m.revision
    /\ observations # <<>> => ~Regresses(m, Last(observations))
    /\ AppendEvent(<<"manifest", m.revision>>)
    /\ observations' = Append(observations,
          [revision |-> m.revision, count |-> m.count, rewrite |-> m.rewrite,
           status |-> "current", until |-> req[w].now + 1, stored |-> clock])
    /\ Become(w, Idle)
    /\ UNCHANGED <<world, questions, answers, unknowns, certificates>>

\* A certificate is logged under its repository, then stored; whoever asked by
\* a hint another repository has is given that one's.
LogCertificate(w, uuid) ==
    /\ Handles(w, "certificate")
    /\ certificates \subseteq {uuid}
    /\ AppendEvent(<<"certificate", uuid>>)
    /\ Become(w, [pc |-> "issuing", uuid |-> uuid])
    /\ UNCHANGED <<world, rows>>

StoreCertificate(w) ==
    /\ req[w].pc = "issuing"
    /\ certificates' = certificates \cup {req[w].uuid}
    /\ Become(w, Idle)
    /\ UNCHANGED <<world, log, questions, answers, unknowns, observations>>

----------------------------------------------------------------------------
(* The world *)

\* A statement fails or the service dies: what was written stays.
Abort(w) ==
    /\ req[w] # Idle /\ upsets < MaxUpsets
    /\ upsets' = upsets + 1
    /\ Become(w, Idle)
    /\ UNCHANGED <<mix, clock, registry, log, rows>>

\* A publication or a revocation changes who owns the scope.
Register(keys) ==
    /\ "publication" \in mix /\ keys # registry /\ upsets < MaxUpsets
    /\ registry' = keys /\ upsets' = upsets + 1
    /\ UNCHANGED <<mix, clock, log, rows, req>>

Tick ==
    /\ clock < MaxClock /\ clock' = clock + 1
    /\ UNCHANGED <<mix, upsets, registry, log, rows, req>>

Serve(w) ==
    \/ Arrive(w) \/ OpenLapse(w) \/ ListOrphans(w) \/ Abandon(w) \/ LoadTrust(w)
    \/ \E i \in 1..Cardinality(Revisions) : Retire(w, i) \/ AnnounceLapse(w, i)
    \/ \E o \in IF req[w].pc = "orphans" THEN req[w].todo ELSE {} : AnnounceOrphan(w, o)
    \/ Answered(w) \/ OpenGap(w)
    \/ \E q \in Questions, u \in Apologies \cup Clients : PostQuestion(w, q, u)
    \/ \E a \in Answers : PostAnswer(w, a)
    \/ \E u \in Clients : LogUnknown(w, u)
    \/ RecordUnknown(w)
    \/ \E u \in Apologies : RaiseApology(w, u)
    \/ \E m \in Manifests : PostManifest(w, m)
    \/ \E uuid \in Uuids : LogCertificate(w, uuid)
    \/ StoreCertificate(w)

Next ==
    \/ \E w \in Workers : Serve(w) \/ Abort(w)
    \/ \E keys \in SUBSET Keys : Register(keys)
    \/ Tick

\* Requests keep arriving, and a request that arrived goes on.
Fairness == \A w \in Workers : WF_vars(Serve(w))

Spec == Init /\ [][Next]_vars /\ Fairness

----------------------------------------------------------------------------
(* Properties *)

\* The tables hold what db.rs can read back, one row to a key.
TypeOK ==
    /\ clock \in 0..MaxClock /\ upsets \in 0..MaxUpsets /\ registry \subseteq Keys
    /\ \A q \in Questions : \/ questions[q] = Unposted
                           \/ questions[q] \in [status : {"queued", "answered", "conflict"},
                                                about : Unknowns]
    /\ unknowns \in [Unknowns -> [status : {"absent", "open", "closed", "abandoned"},
                                  due : 0..MaxClock + 1, evidence : SUBSET Answers]]
    /\ \A i \in DOMAIN answers : answers[i] \in [id : Answers, supersedes : SUBSET Answers]
    /\ \A i \in DOMAIN observations : observations[i].status \in {"current", "historical"}
    /\ certificates \subseteq Uuids
    /\ \A i, j \in DOMAIN answers : answers[i].id = answers[j].id => i = j
    /\ \A i, j \in DOMAIN observations :
         observations[i].revision = observations[j].revision => i = j

\* Whatever stands in a table is in the signed log, at every instant and after
\* any failure: readers of the log can explain each row (append_event comes
\* first in each handler and in maintenance).
StandsLogged ==
    /\ \A q \in Questions : questions[q] # Unposted => <<"question", q>> \in log
    /\ \A i \in DOMAIN answers :
         {<<"answer", answers[i].id>>, <<"fact", answers[i].id>>} \subseteq log
    /\ \A u \in Clients : unknowns[u] # NoRow => <<"unknown", u>> \in log
    /\ \A u \in Apologies : unknowns[u].status = "abandoned" => <<"orphan", u>> \in log
    /\ unknowns[Lapse] # NoRow => \E i \in DOMAIN observations : <<"lapse", i>> \in log
    /\ \A i \in DOMAIN observations : <<"manifest", observations[i].revision>> \in log
    /\ \A uuid \in certificates : <<"certificate", uuid>> \in log

\* Superseding goes back: an answer supersedes an answer to the same question
\* that was admitted before it, so the answers to a question always have a
\* newest one (post_answer), however often one of them is sent.
AnswersPointBack ==
    \A i \in DOMAIN answers : \A p \in answers[i].supersedes :
        \E j \in 1..(i - 1) :
            answers[j].id = p /\ QuestionOf[p] = QuestionOf[answers[i].id]

\* An Unknown is closed, at any instant, only on the evidence of an admitted
\* answer to a question about it, and no such question stands queued alone.
ClosedOnEvidence ==
    \A u \in Unknowns : unknowns[u].status = "closed" =>
        \E i \in DOMAIN answers :
            /\ unknowns[u].evidence = {answers[i].id}
            /\ questions[QuestionOf[answers[i].id]].about = u
            /\ questions[QuestionOf[answers[i].id]].status \in {"answered", "conflict"}

\* Tables, log, answers and Unknowns never tell a reader different stories.
TablesFollowLog == StandsLogged /\ AnswersPointBack /\ ClosedOnEvidence

\* The published lineage loses no events unnoticed: an observation counts fewer
\* than the one before it only by a signed rewrite or when that one had lapsed
\* before it was stored (post_manifest against maintenance).
LineageHolds ==
    \A i \in 2..Len(observations) :
        observations[i].count < observations[i - 1].count =>
            observations[i].rewrite \/ observations[i - 1].until <= observations[i].stored

\* An apology Unknown past its deadline does not stay open: it is abandoned, or
\* closed, or raised anew (maintenance), as long as requests arrive.
OverdueIsSettled ==
    \A u \in Apologies :
        (unknowns[u].status = "open" /\ unknowns[u].due <= clock)
            ~> (unknowns[u].status # "open" \/ unknowns[u].due > clock)
=============================================================================
