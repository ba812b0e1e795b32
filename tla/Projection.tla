------------------------------- MODULE Projection -------------------------------
(***************************************************************************)
(* The projector (crates/kinbase/src/projector.rs, project_with): of the   *)
(* current facts of the stores it takes those that may be trusted, starts  *)
(* from the caller's working set, adds in each round the fact that is      *)
(* worth most beside the ones already there, within ceilings of items, of  *)
(* bytes and of Company direction, and says why it stopped. What may not   *)
(* be trusted is answered by an Unknown; an Unknown that blocks the        *)
(* decision raises a question to its owner, which LocalQuestions records.  *)
(*                                                                         *)
(* Texts are sets of words. The weight of a word (BM25) is left out: facts *)
(* match a query by how many of its words they share.                      *)
(***************************************************************************)
EXTENDS LocalQuestions, Integers, SequencesExt

CONSTANTS
    Desk,            \* the scene in which the commands of LocalQuestions run
    Scenes,          \* [facts, unknowns, closed, working, query]
    Limit,           \* PROJECTION_LIMIT
    DirectionSlots,  \* PROJECTION_DIRECTION_SLOTS
    ByteLimit        \* PROJECTION_BYTE_LIMIT

ASSUME ProjectionAssumption ==
    Desk \notin Scenes /\ {Limit, DirectionSlots, ByteLimit} \subseteq Nat

\* Facts are finitely many, with an id each; support is the part of the value that
\* counts independent sources (at most 1000) and Company references (250).
ASSUME SceneAssumption ==
    \A s \in Scenes :
        /\ IsFiniteSet(s.facts)
        /\ \A f \in s.facts : /\ {f.id, f.loss, f.bytes} \subseteq Nat /\ f.support \in 0..1250
                              /\ IsFiniteSet(f.words)
        /\ \A f, g \in s.facts : f.id = g.id => f = g

VARIABLES
    scene,     \* what the stores hold and what is asked, or Desk
    stage,
    context,   \* the current set: the working set, then what was selected
    working,   \* how many of the context are of the working set
    folds,     \* per candidate, what the context means to it
    slots,     \* direction selected
    enough,    \* an authority's answer was selected and nothing blocks
    full,      \* what of value did not fit in bytes when selection ended
    reason

selection == <<context, working, folds, slots, enough, full>>
vars == <<questionVars, scene, stage, selection, reason>>

-----------------------------------------------------------------------------
(* What may be selected, and the Unknowns for the rest *)

Selectable(f) == f.kind # "question" /\ f.state = "current"
Candidates == {f \in scene.facts : Selectable(f)}

\* An Unknown that a fact stands for carries the fact's id.
UnknownOf(f) == [id |-> <<"of", f.id>>, key |-> f.key, loss |-> f.loss, names |-> f.names]

AskedByFacts == {u \in {UnknownOf(f) : f \in {g \in scene.facts : g.kind = "question"}} :
                   u.id \notin scene.closed}
RecordedUnknowns ==
    {[id |-> u.id, key |-> u.key, loss |-> u.loss, names |-> u.names] :
       u \in {v \in scene.unknowns : v.id \notin scene.closed /\ v.status \in {"open", "asked"}}}

\* Bug: an Unknown represents its key whatever its status.
EveryKey == {u.key : u \in AskedByFacts} \cup {u.key : u \in scene.unknowns}

RepresentedKeys == {u.key : u \in AskedByFacts \cup RecordedUnknowns}

\* unknown_outputs: a fact that is not selectable asks, unless its key does.
Unknowns ==
    AskedByFacts \cup RecordedUnknowns \cup
    {UnknownOf(f) : f \in {g \in scene.facts : /\ g.kind # "question" /\ ~Selectable(g)
                                               /\ g.key \notin RepresentedKeys}}

High == 7000
Blocks(u) == u.loss >= High /\ u.names
Blocked == \E u \in Unknowns : Blocks(u)

-----------------------------------------------------------------------------
(* What a fact is worth beside others *)

ClassOf(f) ==
    IF f.kind \in {"observation", "test"} THEN "evidence"
    ELSE IF f.kind \in {"rationale", "constraint", "decision"} THEN "explanation" ELSE "none"

\* A high-loss constraint or decision stays recoverable beside near duplicates.
Protected(f) == f.loss >= High /\ f.kind \in {"constraint", "decision"}

\* One is evidence and the other what it evidences.
Pair(f, g) == {ClassOf(f), ClassOf(g)} = {"evidence", "explanation"}

Complement(f, g) ==
    \/ f.id \in g.complements \/ g.id \in f.complements
    \/ Pair(f, g) /\ \/ f.subject = g.subject /\ f.key # g.key
                     \/ Cardinality(f.words \cap g.words) >= 2

\* An explicit edge, or a source in common; 0 for neither.
Edge(f, g) ==
    IF f.id \in g.repeats \/ g.id \in f.repeats THEN IF Protected(f) THEN 2000 ELSE 8000
    ELSE IF f.sources \cap g.sources # {} THEN IF Protected(f) THEN 1000 ELSE 3000
    ELSE 0

\* Statements of stop words alone have nothing in common.
Similarity(f, g) ==
    IF f.words \cup g.words = {} THEN 0
    ELSE (Cardinality(f.words \cap g.words) * 20000) \div (Cardinality(f.words) + Cardinality(g.words))

\* Bug: a near duplicate of any kind is penalised no more than an invariant.
CappedLikeness(f, g) ==
    IF Similarity(f, g) < 6000 THEN 0 ELSE LET s == Similarity(f, g) IN IF s > 2000 THEN 2000 ELSE s

Likeness(f, g) ==
    LET s == Similarity(f, g)
    IN IF s < 6000 THEN 0 ELSE IF (Protected(f) \/ Pair(f, g)) /\ s > 2000 THEN 2000 ELSE s

Equivalent(f, g) == f.key = g.key \/ f.words = g.words

\* SetFold: the context as one candidate sees it, member by member.
NewFold == [covered |-> FALSE, complement |-> FALSE, edge |-> 0, likeness |-> 0]

\* The first edge counts, and the greatest likeness.
Absorb(f, fold, g) ==
    [covered    |-> fold.covered \/ Equivalent(f, g),
     complement |-> fold.complement \/ Complement(f, g),
     edge       |-> IF fold.edge # 0 THEN fold.edge ELSE Edge(f, g),
     likeness   |-> LET l == Likeness(f, g) IN IF l > fold.likeness THEN l ELSE fold.likeness]

FoldOf(f, set) ==
    LET fold[n \in 0..Len(set)] == IF n = 0 THEN NewFold ELSE Absorb(f, fold[n - 1], set[n])
    IN fold[Len(set)]

Shared(f) == Cardinality(f.words \cap scene.query)

\* Basis points between 2000 and 10000, the best match of the candidates at the top.
Relevance(f) ==
    LET best == CHOOSE n \in {Shared(g) : g \in Candidates} : \A g \in Candidates : Shared(g) <= n
    IN IF best = 0 THEN 2000 ELSE 2000 + (8000 * Shared(f)) \div best

\* The whole loss of a fact whose own trigger is what is asked about.
Loss(f) ==
    IF f.trigger # {} /\ f.trigger \subseteq f.words /\ f.trigger \cap scene.query # {}
    THEN f.loss ELSE (f.loss * Relevance(f)) \div 10000

Redundancy(fold) == IF fold.edge # 0 THEN fold.edge ELSE fold.likeness

Value(f, fold) ==
    (IF fold.covered THEN 0 ELSE Loss(f))
    + (IF f.company THEN 1300 ELSE 800) + (IF fold.complement THEN 2500 ELSE 0)
    + f.support - Redundancy(fold) - 250

-----------------------------------------------------------------------------
(* The working set *)

Bytes(set) ==
    LET size[n \in 0..Len(set)] == IF n = 0 THEN 0 ELSE size[n - 1] + set[n].bytes
    IN size[Len(set)] + Len(set) + 1
Fits(set, f) == Bytes(Append(set, f)) <= ByteLimit
InContext(f) == f \in ToSet(context)

\* An entry is a fact's id or a path; paths holds the id, the anchors and the
\* directories above them.
Resolved == {f \in Candidates : f.paths \cap scene.working # {}}

Rank(f) == Cardinality({g \in Resolved : g.id <= f.id})
ById(n) == CHOOSE f \in Resolved : Rank(f) = n

\* A resident is kept as long as both ceilings take it.
Keep(kept, f) == IF Len(kept) < Limit /\ Fits(kept, f) THEN Append(kept, f) ELSE kept

\* bounded_residents: what the working set names is looked at in order of id.
Residents ==
    LET kept[n \in 0..Cardinality(Resolved)] == IF n = 0 THEN <<>> ELSE Keep(kept[n - 1], ById(n))
    IN kept[Cardinality(Resolved)]

Omitted == Cardinality(Resolved) - working

\* Bug: the folds of the candidates start empty, residents or not.
BeginCold ==
    /\ stage = "begin"
    /\ context' = Residents /\ working' = Len(Residents)
    /\ folds' = [f \in Candidates |-> NewFold]
    /\ stage' = "select"
    /\ UNCHANGED <<questionVars, scene, slots, enough, full, reason>>

Begin ==
    /\ stage = "begin"
    /\ context' = Residents /\ working' = Len(Residents)
    /\ folds' = [f \in Candidates |-> FoldOf(f, Residents)]
    /\ stage' = "select"
    /\ UNCHANGED <<questionVars, scene, slots, enough, full, reason>>

-----------------------------------------------------------------------------
(* Rounds of selection *)

\* Direction past its slots is out of the round, and so is what does not fit.
Eligible(f) == ~InContext(f) /\ ~(f.company /\ slots >= DirectionSlots)
Round == {f \in Candidates : Eligible(f) /\ Fits(context, f)}
Worth(f) == Value(f, folds[f])
TooLarge == \E f \in Candidates : Eligible(f) /\ ~Fits(context, f) /\ Worth(f) > 0

\* candidate_role, as far as the order of equals depends on it.
Priority(f) ==
    IF Protected(f) THEN 4
    ELSE IF f.kind \in {"test", "rationale"} THEN 3
    ELSE IF f.repeats # {} \/ \E g \in scene.facts : g.words = f.words /\ g.key # f.key THEN 2
    ELSE 0

Before(f, g) ==
    \/ Worth(f) > Worth(g)
    \/ Worth(f) = Worth(g) /\ Priority(f) > Priority(g)
    \/ Worth(f) = Worth(g) /\ Priority(f) = Priority(g) /\ f.id < g.id

Best == CHOOSE f \in Round : \A g \in Round \ {f} : Before(f, g)

\* A Company decision that cites an answer.
IsAnswer(f) == f.company /\ f.kind = "decision" /\ f.answers

Selecting == stage = "select" /\ ~enough /\ Len(context) < Limit

Select ==
    /\ Selecting /\ \E f \in Round : Worth(f) > 0
    /\ context' = Append(context, Best)
    /\ folds' = [f \in Candidates |-> Absorb(f, folds[f], Best)]
    /\ slots' = slots + (IF Best.company THEN 1 ELSE 0)
    /\ enough' = (IsAnswer(Best) /\ ~Blocked)
    /\ UNCHANGED <<questionVars, scene, stage, working, full, reason>>

\* Selection ends: with an answer, at the item ceiling, or when nothing that
\* fits is worth its place.
End ==
    /\ stage = "select"
    /\ Selecting => \A f \in Round : Worth(f) <= 0
    /\ full' = (Selecting /\ TooLarge)
    /\ stage' = IF Blocked THEN "ask" ELSE "emit"
    /\ UNCHANGED <<questionVars, scene, context, working, folds, slots, enough, reason>>

-----------------------------------------------------------------------------
(* The question, and the reason that is reported *)

\* An owner is asked about one of the Unknowns that block the decision.
Ask(p) ==
    /\ stage = "ask" /\ Raise(p)
    /\ stage' = "asking"
    /\ UNCHANGED <<scene, selection, reason>>

Asked ==
    /\ stage = "asking" /\ \A p \in Procs : proc[p] = Idle
    /\ stage' = "emit"
    /\ UNCHANGED <<questionVars, scene, selection, reason>>

ResidentsFilled == working >= Limit \/ (Omitted > 0 /\ Len(context) = working /\ full)

\* Bug: a full projection is one that left something out.
FullAtCeiling == Len(context) >= Limit

ItemCeiling ==
    /\ Len(context) >= Limit
    /\ \/ Omitted > 0
       \/ \E f \in Candidates : ~InContext(f) /\ Value(f, FoldOf(f, context)) > 0

StoppingReason ==
    IF Blocked THEN "authority_question_raised"
    ELSE IF enough THEN "sufficiency_predicate_met"
    ELSE IF ResidentsFilled THEN "working_set_ceiling_reached"
    ELSE IF ItemCeiling THEN "item_ceiling_reached"
    ELSE IF full THEN "byte_ceiling_reached"
    ELSE "nonpositive_net_marginal_value"

Emit ==
    /\ stage = "emit"
    /\ reason' = StoppingReason
    /\ stage' = "done"
    /\ UNCHANGED <<questionVars, scene, selection>>

-----------------------------------------------------------------------------
Init ==
    /\ QuestionsInit
    /\ \/ scene = Desk /\ stage = "desk"
       \/ scene \in Scenes /\ stage = "begin" /\ registry = {}
    /\ context = <<>> /\ working = 0 /\ folds = <<>> /\ slots = 0
    /\ enough = FALSE /\ full = FALSE /\ reason = "none"

OnTheDesk == UNCHANGED <<scene, stage, selection, reason>>

Next ==
    \/ stage = "desk" /\ QuestionsNext /\ OnTheDesk
    \/ stage = "asking" /\ OnTheDesk /\ \E p \in Procs : PersistUnknown(p) \/ RecordRaised(p)
    \/ Begin \/ Select \/ End \/ Asked \/ Emit
    \/ \E p \in Procs : Ask(p)

\* Projections go on being asked for; a command that runs goes on.
Fairness ==
    \A p \in Procs :
        /\ WF_vars(Continue(p) /\ OnTheDesk)
        /\ SF_vars(stage = "desk" /\ Raise(p) /\ OnTheDesk)

Spec == Init /\ [][Next]_vars /\ Fairness

-----------------------------------------------------------------------------
(* Properties *)

\* Carrying a candidate's fold from round to round gives exactly what scanning
\* the whole current set gives (SetFold), for residents and selected facts alike.
FoldsAreScans ==
    stage = "select" => \A f \in Candidates : folds[f] = FoldOf(f, context)

Left == {f \in Candidates : ~InContext(f)}
WorthLeft == {f \in Left : Value(f, FoldOf(f, context)) > 0}

\* The reason that is reported is the one that ended the selection: a ceiling is
\* named when, and only when, it kept out something, and "nothing of value" is
\* never said while a fact of value that no reserve withholds is left.
ReasonIsTrue ==
    stage = "done" =>
        CASE reason = "nonpositive_net_marginal_value" ->
               \A f \in WorthLeft : f.company /\ slots >= DirectionSlots
          [] reason = "byte_ceiling_reached" -> \E f \in WorthLeft : ~Fits(context, f)
          [] reason = "item_ceiling_reached" -> Len(context) = Limit /\ Left # {}
          [] reason = "sufficiency_predicate_met" ->
               ~Blocked /\ \E f \in ToSet(context) : IsAnswer(f)
          [] reason = "authority_question_raised" -> question # None
          [] OTHER -> TRUE

\* Nothing goes silent: a fact that may not be trusted, for whatever reason,
\* leaves an Unknown for its key, or was closed by an answer on record.
NothingIsSilent ==
    scene # Desk =>
        \A f \in scene.facts : Selectable(f) \/ UnknownOf(f).id \in scene.closed
                               \/ \E u \in Unknowns : u.key = f.key

\* "redundant high-similarity facts do not crowd out a distinct high-distortion
\* constraint" (product.md, P-7): a fact that says again what the context says,
\* and is neither evidence for it nor an invariant of its own, is not selected.
Repeats(f, g) == f.words = g.words /\ f.words # {} /\ ~Protected(f) /\ ~Pair(f, g)

\* It holds for statements of different sources.
ParaphraseStaysOut ==
    \A i \in working + 1..Len(context) : \A j \in 1..i - 1 :
        ~(/\ Repeats(context[i], context[j])
          /\ \A k \in 1..i - 1 : context[i].sources \cap context[k].sources = {})

\* The facts that are selected, the reason that is given and the Unknowns that
\* are raised all agree with the facts there were.
ProjectionIsHonest == FoldsAreScans /\ ReasonIsTrue /\ NothingIsSilent /\ ParaphraseStaysOut

\* Violated: a source in common hides the likeness, and a paraphrase takes the
\* place of a constraint.
NoCrowdingOut ==
    \A i \in working + 1..Len(context) : \A j \in 1..i - 1 :
        Repeats(context[i], context[j]) =>
            ~\E f \in WorthLeft : Protected(f) /\ \A g \in ToSet(context) : Likeness(f, g) = 0

\* Violated: "no later projection may treat it as still blocking after the signed
\* answer" (projector.rs), but the Unknown of a fact that stays unselectable is
\* made again under the closed id.
ClosedStaysClosed ==
    scene # Desk => \A u \in Unknowns : u.id \notin scene.closed
=============================================================================
