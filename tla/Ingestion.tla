----------------------------- MODULE Ingestion ------------------------------
(***************************************************************************)
(* `kinbase ingest`: a scan of one native source is reconciled with the    *)
(* observation ledger (ingest.rs, private.rs), from which facts and        *)
(* Unknowns are derived (module Derivation).                               *)
(*                                                                         *)
(* An ingest reads the source and the rows it holds for it, and then       *)
(* writes row after row, every write a transaction of its own: it can be   *)
(* killed between any two, and two ingests of one source can overlap.  The *)
(* rows an ingest decides about are those it read, so its writes are       *)
(* settled when it begins.                                                 *)
(*                                                                         *)
(* Meanwhile people edit, rename, merge, revert and delete what the source *)
(* holds, the clock moves, and authorities are revoked and registered      *)
(* again.                                                                  *)
(***************************************************************************)
EXTENDS SourceScan, Sequences, SequencesExt

CONSTANTS Kinds,        \* the source kinds considered
          Natives,      \* native identities
          Forms,        \* kind -> the items (without bytes) it may hold
          Runs,         \* ingest processes
          Returns,      \* whether a native record may get back bytes it had before
          KindBounds,       \* kind -> the model's bounds [digests, time, faults]
          OwnKey, OtherKey   \* the repository's registered key, and another repository's

ASSUME NativesAreNumbers == Natives \subseteq Nat /\ IsFiniteSet(Natives)

ASSUME KindsAreKnown ==
  Kinds \subseteq Personal \cup RepositoryFiles \cup Exports \cup
                 {"repo_symbols", "repo_tests", "runtime_evidence", "git_history",
                  "github_export", "kindex", "authority_answer"}

(* Bytes and instants of a native item are numbers.                        *)
ASSUME FormsAreNumbered ==
  \A k \in Kinds : \A f \in Forms[k] : f.copy \in Nat /\ f.stamp \in Nat

ASSUME KindBoundsAssumption ==
  \A k \in Kinds : KindBounds[k] \in [digests : Nat, time : Nat, faults : Nat]

Stopped == [kind |-> "stopped"]

VARIABLES kind,      \* the kind of the source
          source,    \* what the native source holds
          minted,    \* bytes used so far
          clock,     \* the recorded clock
          trust,     \* what the trust context says of authority
          ledger,    \* the observations of the source
          cursor,    \* rows inserted so far
          run,       \* ingest -> [now, writes, reads], or Stopped
          rest,      \* the source as the last complete, undisturbed ingest read it, or Gone
          was,       \* the keys with a current fact when the last ingest finished, none after a kill
          kills

ingestVars == <<kind, source, minted, clock, trust, ledger, cursor, run, rest, was, kills>>

Row(r, now, life, marks) ==
  [kind |-> r.kind, native |-> r.native, at |-> r.at, digest |-> r.digest, key |-> r.key,
   life |-> life, disp |-> r.disp, origin |-> r.origin, atom |-> r.atom, observed |-> now,
   asserted |-> r.asserted, until |-> r.until, cursor |-> 0, signer |-> r.signer,
   owner |-> r.owner, scope |-> r.scope, parents |-> r.parents, attrs |-> r.attrs \cup marks]

Retired(o, life) == [o EXCEPT !.life = life]
Identity(o) == <<o.native, o.at>>
HeldFor(rows, r) == {o \in rows : Id(o) = Id(r)}

(* A receipt outside the clock's bound (one tick either way) is set aside  *)
(* before anything is written.                                             *)
Skewed(r, now) == r.receipt # 0 /\ (r.receipt > now + 1 \/ r.receipt + 1 < now)

\* Bug: the mark of a rename is lost when the row is seen again.
ReobservedAfresh(o, r, now) ==
  [o EXCEPT !.attrs = r.attrs, !.origin = r.origin, !.until = r.until, !.disp = r.disp,
            !.parents = r.parents, !.key = r.key]

(* A record the ledger holds with these bytes: what the adapter concludes  *)
(* is refreshed, and a row that was withdrawn comes back.                  *)
Reobserved(o, r, now) ==
  LET life == CASE ~r.present /\ o.life = "observed" -> "absent"
                [] r.present /\ WithdrawnLife(o) -> "observed"
                [] OTHER -> o.life
  IN  [o EXCEPT !.attrs = r.attrs \cup (@ \cap {"renamed_from", "reducer_owned"}),
                !.origin = r.origin, !.until = r.until, !.disp = r.disp, !.parents = r.parents,
                !.key = r.key, !.life = life,
                !.observed = IF life = "observed" /\ o.life # "observed" THEN now ELSE @]

(* The row that carried the same bytes under an identity that is gone.     *)
RenamedFrom(prior, present, taken, r) ==
  {o \in prior : /\ Stands(o) /\ o.digest = r.digest
                 /\ Identity(o) \notin present /\ Id(o) \notin taken}

(* What one record adds to the writes; `plan` also carries the renamed.    *)
RecordWrites(prior, present, now, plan, r) ==
  LET held == HeldFor(prior, r)
      same == {o \in prior : Identity(o) = Identity(r)}
      life == IF r.present THEN "observed" ELSE "absent"
      renamed == RenamedFrom(prior, present, plan.taken, r)
      old == LastObserved(renamed)
      write(ws) == [plan EXCEPT !.writes = @ \o ws]
  IN  IF Skewed(r, now) THEN plan
      ELSE IF held # {} THEN
             LET o == CHOOSE x \in held : TRUE
             IN  IF Reobserved(o, r, now) = o THEN plan ELSE write(<<Reobserved(o, r, now)>>)
      ELSE IF same # {} THEN
             write(SetToSeq({Retired(o, "superseded") : o \in StandingIn(same)})
                     \o <<Row(r, now, life, {})>>)
      ELSE IF renamed # {} THEN
             [plan EXCEPT !.taken = @ \cup {Id(old)},
                          !.writes = @ \o <<Retired(old, "renamed"),
                                            Row(r, now, life, {"renamed_from"})>>]
      ELSE write(<<Row(r, now, life, {})>>)

\* Bug: a record missing from a newer scan is kept as it is.
VanishedNever(prior, present, elsewhere, taken) == {}

(* Rows of identities the scan no longer holds: retracted while their unit *)
(* remains, absent when it is gone too.                                    *)
UnitIsItem == {"repo_code", "docs_adr", "repo_symbols", "repo_tests", "runtime_evidence",
               "git_history", "authority_answer"}

Vanished(prior, present, elsewhere, taken) ==
  {o \in prior : /\ Stands(o) /\ Identity(o) \notin present /\ Id(o) \notin taken
                 /\ ~ \E e \in elsewhere : /\ e[1] = o.native
                                           /\ \A p \in prior : Identity(p) = Identity(o)
                                                                => p.origin = e[2]}

(* The records of a scan are reconciled in the order of their identities.  *)
RecordOrder(r) == <<r.native, Branch(r), r.digest>>
FirstRecord(todo) ==
  CHOOSE r \in todo : \A s \in todo \ {r} : Less(RecordOrder(r), RecordOrder(s))

PlanFor(prior, present, now, records) ==
  LET plan[i \in 0..Cardinality(records)] ==
        IF i = 0 THEN [writes |-> <<>>, taken |-> {}, todo |-> records]
        ELSE LET r == FirstRecord(plan[i - 1].todo)
             IN  [RecordWrites(prior, present, now, plan[i - 1], r) EXCEPT !.todo = @ \ {r}]
  IN  plan[Cardinality(records)]

(* All the writes of an ingest, in their order; an unavailable source has  *)
(* no records.                                                             *)
RecordsOf(k, src) == Scan(k, src, FALSE)

Reconciled(k, src, prior, now, available, unitPresent) ==
  LET records == IF available THEN RecordsOf(k, src) ELSE {}
      present == {Identity(r) : r \in records}
      plan == PlanFor(prior, present, now, records)
      gone == Vanished(prior, present, IF available THEN PresentElsewhere(k, src) ELSE {},
                       plan.taken)
      life == IF available /\ unitPresent THEN "retracted" ELSE "absent"
  IN  plan.writes \o SetToSeq({Retired(o, life) : o \in gone})

-----------------------------------------------------------------------------
IngestInit ==
  /\ kind \in Kinds
  /\ source = [n \in Natives |-> Gone]
  /\ minted = 0 /\ clock = 1 /\ cursor = 0 /\ kills = 0 /\ was = {}
  /\ ledger = {}
  /\ trust = [active |-> {[scope |-> "repository", key |-> OwnKey, identity |-> "owner", cursor |-> 1],
                          [scope |-> "company", key |-> OwnKey, identity |-> "owner", cursor |-> 1]},
              revoked |-> {}, governing |-> {}, maintainers |-> {}, repoKeys |-> {OwnKey},
              watermark |-> <<>>, certificate |-> TRUE, steward |-> "steward"]
  /\ run = [p \in Runs |-> Stopped]
  /\ rest = Gone

(* The rows on the ledger and those an ingest under way will write.        *)
Recorded == ledger \cup UNION {ToSet(run[p].writes) : p \in {q \in Runs : run[q] # Stopped}}

(* People change a native item: new bytes in any form, or, for the same    *)
(* bytes, a form that is not part of them.  A commit is never changed, its *)
(* name never comes to mean other bytes, and what the log says of it only  *)
(* grows.                                                                  *)
BesidesBytes == {"repo_code", "docs_adr", "repo_symbols", "git_history", "github_export", "kindex"}
BytesOf(k, item) ==
  [item EXCEPT !.place = None, !.copy = 0, !.marks = IF k = "github_export" THEN @ \cap {"edited"}
                                                     ELSE {}]

Item(n, form, digest) ==
  [subject |-> IF form.subject = 0 THEN n ELSE form.subject, digest |-> digest,
   state |-> form.state, place |-> form.place, copy |-> form.copy, stamp |-> form.stamp,
   until |-> form.until, signer |-> form.signer, owner |-> form.owner,
   parents |-> form.parents, marks |-> form.marks]

Disturbed == rest' = Gone

Edit(n, form) ==
  /\ minted < KindBounds[kind].digests /\ form.parents \subseteq 1..minted
  /\ kind = "git_history" => source[n] = Gone /\ \A o \in Recorded : o.native # n
  /\ minted' = minted + 1
  /\ source' = [source EXCEPT ![n] = Item(n, form, minted')]
  /\ Disturbed
  /\ UNCHANGED <<kind, clock, trust, ledger, cursor, run, was, kills>>

Reclassify(n, form) ==
  /\ kind \in BesidesBytes /\ source[n] # Gone
  /\ LET item == Item(n, form, source[n].digest)
     IN  /\ kind = "git_history" => source[n].marks \subseteq item.marks
         /\ item # source[n] /\ BytesOf(kind, item) = BytesOf(kind, source[n])
         /\ source' = [source EXCEPT ![n] = item]
  /\ Disturbed
  /\ UNCHANGED <<kind, minted, clock, trust, ledger, cursor, run, was, kills>>

(* Earlier bytes come back: always, or only where the ledger was never told *)
(* of the bytes they replace, nor that the record was gone.                *)
PutBack(n, digest) ==
  /\ kind = "repo_code" /\ source[n] # Gone /\ digest # source[n].digest
  /\ Returns \/ \A o \in Recorded : o.native = n => o.digest = digest /\ Stands(o)
  /\ source' = [source EXCEPT ![n].digest = digest]
  /\ Disturbed
  /\ UNCHANGED <<kind, minted, clock, trust, ledger, cursor, run, was, kills>>

Rename(n, m) ==
  /\ kind \in RepositoryFiles
  /\ source[n] # Gone /\ source[m] = Gone
  /\ Returns \/ ~ \E o \in ledger : o.native = m
  /\ source' = [source EXCEPT ![n] = Gone, ![m] = [source[n] EXCEPT !.subject = m]]
  /\ Disturbed
  /\ UNCHANGED <<kind, minted, clock, trust, ledger, cursor, run, was, kills>>

Delete(n) ==
  /\ source[n] # Gone
  /\ source' = [source EXCEPT ![n] = Gone]
  /\ Disturbed
  /\ UNCHANGED <<kind, minted, clock, trust, ledger, cursor, run, was, kills>>

ClockTicks ==
  /\ clock < KindBounds[kind].time
  /\ clock' = clock + 1
  /\ UNCHANGED <<kind, source, minted, trust, ledger, cursor, run, rest, was, kills>>

(* Kills and revocations, bounded together.                                *)
Faults == kills + Cardinality(trust.revoked)

(* The registry authority revokes a key, or registers it again.            *)
RevokeKey(key) ==
  /\ Faults < KindBounds[kind].faults
  /\ key \notin trust.governing
  /\ trust' = [trust EXCEPT !.revoked = @ \cup {[key |-> key, cursor |-> Cardinality(@) + 1,
                                                effective |-> clock]},
                            !.governing = @ \cup {key}]
  /\ UNCHANGED <<kind, source, minted, clock, ledger, cursor, run, rest, was, kills>>

RegisterAgain(key) ==
  /\ key \in trust.governing
  /\ trust' = [trust EXCEPT !.governing = @ \ {key}]
  /\ UNCHANGED <<kind, source, minted, clock, ledger, cursor, run, rest, was, kills>>

-----------------------------------------------------------------------------
(* An ingest begins: it reads the source and its rows; a source it cannot  *)
(* read as one is refused, and nothing is written.                         *)
BeginIngest(p, available, unitPresent) ==
  /\ run[p] = Stopped
  /\ IF available THEN ~ScanRefused(kind, source)
     ELSE Native(source) = {} /\ ledger # {} /\ kind # "git_history"
  /\ unitPresent => kind \notin UnitIsItem
  /\ run' = [run EXCEPT ![p] = [kind |-> "ingest", now |-> clock, reads |-> source,
                               writes |-> Reconciled(kind, source, ledger, clock, available,
                                                     unitPresent)]]
  /\ UNCHANGED <<kind, source, minted, clock, trust, ledger, cursor, rest, was, kills>>

\* Bug: a held row is inserted again with its new contents.
InsertRow(p) ==
  /\ run[p] # Stopped /\ run[p].writes # <<>>
  /\ ledger' = ledger \cup {[Head(run[p].writes) EXCEPT !.cursor = cursor + 1]}
  /\ cursor' = cursor + 1
  /\ run' = [run EXCEPT ![p].writes = Tail(@)]
  /\ UNCHANGED <<kind, source, minted, clock, trust, rest, was, kills>>

(* INSERT OR IGNORE of a new row (cursor 0), UPDATE of a row held.         *)
WriteRow(p) ==
  /\ run[p] # Stopped /\ run[p].writes # <<>>
  /\ LET row == Head(run[p].writes)
         held == HeldFor(ledger, row)
         new == row.cursor = 0 /\ held = {}
     IN  /\ ledger' = IF new THEN ledger \cup {[row EXCEPT !.cursor = cursor + 1]}
                      ELSE IF row.cursor = 0 THEN ledger
                      ELSE (ledger \ held) \cup {row}
         /\ cursor' = IF new THEN cursor + 1 ELSE cursor
  /\ run' = [run EXCEPT ![p].writes = Tail(@)]
  /\ UNCHANGED <<kind, source, minted, clock, trust, rest, was, kills>>

(* The last step reads the trust facts, which note the ledger's cursor for *)
(* every revocation observed for the first time, and derives the report.   *)
NewestOf(t, key) == Latest({r.cursor : r \in {x \in t.revoked : x.key = key}})

Observed(t, now) ==
  [t EXCEPT !.watermark = [k \in {r.key : r \in t.revoked} |->
                             IF k \in DOMAIN @ /\ @[k][1] = NewestOf(t, k) THEN @[k]
                             ELSE <<NewestOf(t, k), now>>]]

CurrentKeys(rows, t, now) == {f.key : f \in {x \in Derive(rows, t, now) : x.fact = "current"}}

FinishIngest(p) ==
  /\ run[p] # Stopped /\ run[p].writes = <<>>
  /\ trust' = Observed(trust, cursor)
  /\ was' = CurrentKeys(ledger, trust', clock)
  /\ rest' = IF run[p].reads = source THEN source ELSE Gone
  /\ run' = [run EXCEPT ![p] = Stopped]
  /\ UNCHANGED <<kind, source, minted, clock, ledger, cursor, kills>>

Kill(p) ==
  /\ run[p] # Stopped /\ Faults < KindBounds[kind].faults
  /\ kills' = kills + 1
  /\ run' = [run EXCEPT ![p] = Stopped] /\ was' = {}
  /\ UNCHANGED <<kind, source, minted, clock, trust, ledger, cursor, rest>>

IngestNext ==
  \/ \E n \in Natives, form \in Forms[kind] : Edit(n, form) \/ Reclassify(n, form)
  \/ \E n \in Natives, d \in 1..minted : PutBack(n, d)
  \/ \E n, m \in Natives : Rename(n, m)
  \/ \E n \in Natives : Delete(n)
  \/ ClockTicks
  \/ RevokeKey(OwnKey) \/ RegisterAgain(OwnKey)
  \/ \E p \in Runs : \/ \E available, unitPresent \in BOOLEAN : BeginIngest(p, available, unitPresent)
                     \/ WriteRow(p) \/ FinishIngest(p) \/ Kill(p)

IngestSpec == IngestInit /\ [][IngestNext]_ingestVars

-----------------------------------------------------------------------------
View == Derive(ledger, trust, clock)
AtRest == rest # Gone /\ \A p \in Runs : run[p] = Stopped
CurrentFacts == {f \in View : f.fact = "current"}
Ordered == {"repo_tests", "runtime_evidence"}

(* The ledger holds one row for an identity and its bytes, its admission   *)
(* cursors are distinct, and every ingest's plan is a sequence of rows.    *)
IngestTypeOK ==
  /\ kind \in Kinds /\ minted \in 0..KindBounds[kind].digests /\ clock \in 1..KindBounds[kind].time
  /\ Faults \in 0..KindBounds[kind].faults
  /\ \A o, p \in ledger : Id(o) = Id(p) \/ o.cursor = p.cursor => o = p
  /\ \A o \in ledger : /\ o.cursor \in 1..cursor /\ o.observed \in 1..clock
                       /\ o.life \in {"observed", "absent", "retracted", "superseded", "renamed"}
  /\ rest \in {Gone, source}

(* What the native source itself says is accepted.                         *)
OwnWarrant == OwnKey \notin trust.governing

AnswerStands(item) ==
  /\ "signature_valid" \in item.marks /\ item.signer = OwnKey /\ OwnWarrant
  /\ \A r \in trust.revoked : r.key = OwnKey => r.effective <= item.stamp

Accepted(item) ==
  CASE kind = "repo_code" -> item.digest # 0 /\ item.place # "branch" /\ OwnWarrant
    [] kind = "docs_adr" ->
         item.digest # 0 /\ item.place # "branch" /\ item.state = "accepted" /\ OwnWarrant
    [] kind = "git_history" ->
         item.state = "merge" /\ item.place = "default" /\ "reverted_by" \notin item.marks
    [] kind = "github_export" -> item.state = "merged" /\ "newest snapshot" \in item.marks
    [] kind \in Exports -> item.state \in {"completed", "merged", "accepted"} /\ OwnWarrant
    [] kind = "kindex" ->
         /\ item.state = "accepted" /\ OwnWarrant /\ (item.until = 0 \/ item.until > clock)
         /\ item.marks = {}
    [] kind = "repo_symbols" ->
         /\ OwnWarrant
         /\ \A n \in Native(source) : source[n].subject = item.subject
                                        => source[n].digest = item.digest
    [] kind = "authority_answer" ->
         /\ AnswerStands(item)
         /\ \A n \in Native(source) :
              LET other == source[n]
              IN  other.subject = item.subject /\ other # item /\ AnswerStands(other)
                    => other.digest \in item.parents
    [] OTHER -> item.state = "line"

AcceptedKeys ==
  {r.key : r \in UNION {ScanItem(kind, source, n) : n \in {m \in Native(source) : Accepted(source[m])}}}

(* At rest, the current facts are those of the accepted items of the       *)
(* source and no others: no draft, unmerged branch, reverted merge, closed *)
(* request, withdrawn node, superseded or unregistered answer, and nothing *)
(* a revoked authority warranted.                                          *)
CurrentIsAccepted ==
  AtRest /\ kind \notin Ordered
    => \A key \in {f.key : f \in View} \cup AcceptedKeys :
         \/ \E n \in Native(source) : /\ "outside window" \in source[n].marks
                                      /\ source[n].subject = key
         \/ (\E f \in CurrentFacts : f.key = key) <=> key \in AcceptedKeys

(* A key that was current when one ingest finished and is not when the     *)
(* next does is explained: an Unknown asks about it, a fact that is not a  *)
(* withdrawal stands in its place, its time was over, or only a branch     *)
(* still holds it; and a commit that only left the scan's window stays     *)
(* current.                                                                *)
Explained(key, facts) ==
  \/ \E f \in facts : /\ f.key = key
                      /\ \/ \E ask \in f.asks : ask[2] \in {"open", "reopened"}
                         \/ f.fact \notin {NoFact, "withdrawn"}
  \/ \E o \in ledger : o.key = key /\ Expired(o, clock)
  \/ \E o \in StandingIn(ledger) : o.key = key /\ o.origin = "unreviewed-branch"

StandsOrIsExplained ==
  [][(\E p \in Runs : FinishIngest(p)) /\ kind \notin Ordered =>
       \A key \in was :
         \/ key \in was'
         \/ /\ Explained(key, Derive(ledger, trust', clock))
            /\ rest' # Gone =>
                 ~ \E n \in Native(source) : /\ "outside window" \in source[n].marks
                                             /\ source[n].subject = key /\ Accepted(source[n])]_ingestVars

(* A scan of a source that has not changed since the last rest writes      *)
(* nothing: re-ingest is idempotent.                                       *)
RescanWritesNothing ==
  [][\A p \in Runs : /\ run[p] = Stopped /\ run'[p] # Stopped
                     /\ AtRest /\ kind \notin Ordered
                     => run'[p].writes = <<>>]_ingestVars

(* A test result or a runtime observation never gives way to an older one, *)
(* in whatever order they are ingested, while its own row stands.          *)
HeadOf(key, facts) == {f.row : f \in {x \in facts : x.key = key /\ x.fact = "current"}}
AssertedAt(rows, id) == {o.asserted : o \in {x \in rows : Id(x) = id /\ Stands(x)}}

NoOlderReceipt ==
  kind \in Ordered =>
    \A key \in {o.key : o \in ledger}, id \in {Id(o) : o \in ledger} :
      id \in HeadOf(key, View) =>
        \A next \in HeadOf(key, View') :
          \A before \in AssertedAt(ledger', id), after \in AssertedAt(ledger', next) :
            before <= after

NewestReceiptStays == [][NoOlderReceipt]_ingestVars

(* An observation on the ledger is neither written twice nor overtaken.    *)
ObservationsStand == RescanWritesNothing /\ NewestReceiptStays

(* spec/architecture.md: anything below merged-default is ineligible for   *)
(* trusted durable direction.                                              *)
UnreviewedIsNotCurrent ==
  \A f \in CurrentFacts : \A o \in ledger : Id(o) = f.row => o.origin # "unreviewed-branch"

(* spec/product.md: a changed source produces a new observation and        *)
(* explicit staleness.  At rest the ledger's standing bytes of an identity *)
(* are those the source holds.                                             *)
StandingBytesAreScanned ==
  AtRest => \A o \in StandingIn(ledger) :
              kind = "repo_code" /\ ~o.at => source[o.native] # Gone
                                             /\ source[o.native].digest = o.digest
=============================================================================
