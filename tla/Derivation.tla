----------------------------- MODULE Derivation -----------------------------
(***************************************************************************)
(* What an observation ledger says: `derive` of lifecycle.rs, which turns  *)
(* the rows of one cohort (one logical key) into facts and Unknowns.       *)
(*                                                                         *)
(* An observation is a record                                              *)
(*   [kind, native, at, digest, key, life, disp, origin, atom, observed,   *)
(*    asserted, until, cursor, signer, owner, scope, parents, attrs]       *)
(* `native` and `digest` are numbers and stand for the native identity and *)
(* the bytes; `at` says that the identity is a branch copy (`path@branch`).*)
(* Times are numbers, 0 where the field is absent.                         *)
(*                                                                         *)
(* A derivation is a set of outcomes, one for every row: the state and     *)
(* disposition recorded for the row, the state of the fact pushed for it   *)
(* (NoFact where none is), the rows that support the fact, and the         *)
(* Unknowns it opens or closes, as pairs of a kind and a status.           *)
(***************************************************************************)
EXTENDS Integers, FiniteSets

CONSTANTS None,    \* an absent signer, owner or steward
          Unread   \* no answer of the registry about governing revocations

NoFact == "no fact"

Personal == {"codex_jsonl", "claude_jsonl"}
RepositoryFiles == {"repo_code", "docs_adr"}
Exports == {"issue_tracker", "pull_request", "chat_thread", "document"}

StoreFor(kind) == IF kind \in Personal THEN "personal"
                  ELSE IF kind = "authority_answer" THEN "company" ELSE "codebase"

Id(o) == <<o.native, o.at, o.digest>>
Has(o, name) == name \in o.attrs
Stands(o) == o.life = "observed"
WithdrawnLife(o) == o.life \in {"retracted", "absent", "rewritten"}
Expired(o, now) == o.until # 0 /\ o.until <= now

(* Tuples of numbers in lexicographic order.                               *)
Less(s, t) == \E i \in DOMAIN s : s[i] < t[i] /\ \A j \in 1..(i - 1) : s[j] = t[j]
Branch(o) == IF o.at THEN 1 ELSE 0
ObservedOrder(o) == <<o.observed, o.native, Branch(o), o.digest>>
AssertedOrder(o) == <<o.asserted, o.observed, o.native, Branch(o), o.digest>>

(* The last of some rows in the order `derive` sorts them into, and in the *)
(* order of their own times.                                               *)
LastObserved(S) == CHOOSE o \in S : \A p \in S \ {o} : Less(ObservedOrder(p), ObservedOrder(o))
FirstObserved(S) == CHOOSE o \in S : \A p \in S \ {o} : Less(ObservedOrder(o), ObservedOrder(p))

\* Bug: the newest is the one observed last.
LastArrived(S) == LastObserved(S)

LastAsserted(S) == CHOOSE o \in S : \A p \in S \ {o} : Less(AssertedOrder(p), AssertedOrder(o))
FirstAsserted(S) == CHOOSE o \in S : \A p \in S \ {o} : Less(AssertedOrder(o), AssertedOrder(p))

-----------------------------------------------------------------------------
(* What the derivation knows of authority: a record                        *)
(*   [active, revoked, governing, maintainers, repoKeys, watermark,        *)
(*    certificate, steward]                                                *)
(* active: entries [scope, key, identity, cursor]; revoked: [key, cursor,  *)
(* effective]; watermark: of each key its newest revocation, by cursor, and *)
(* the ledger cursor at which that one was first observed.                 *)

Latest(S) == CHOOSE n \in S : \A m \in S : m <= n

KeyRevoked(t, key) ==
  IF t.governing # Unread THEN key \in t.governing
  ELSE LET revoked == {r.cursor : r \in {x \in t.revoked : x.key = key}}
           listed == {a.cursor : a \in {x \in t.active : x.key = key}}
       IN  revoked # {} /\ \A c \in listed : c <= Latest(revoked)

RevokedFor(t, key, asserted) ==
  \/ KeyRevoked(t, key)
  \/ asserted # 0 /\ \E r \in t.revoked : r.key = key /\ r.effective > asserted

RepositoryWarranted(t) ==
  \E key \in {a.key : a \in {x \in t.active : x.scope = "repository"}} \cup t.maintainers :
    ~KeyRevoked(t, key)

OwnersOf(t, scope) == {a \in t.active : a.scope = scope /\ ~KeyRevoked(t, a.key)}

(* The revocation that withdraws an observation: of its signer, or, for an *)
(* unsigned Codebase row, of the last authority that warranted the         *)
(* repository.                                                             *)
RevocationOf(t, o) ==
  IF o.signer # None THEN RevokedFor(t, o.signer, o.asserted)
  ELSE /\ StoreFor(o.kind) = "codebase"
       /\ t.revoked # {} \/ t.governing \notin {Unread, {}}
       /\ t.certificate
       /\ ~RepositoryWarranted(t)
       /\ \E r \in t.revoked : r.key \in t.repoKeys \cup t.maintainers

WarrantingKey(t, o) ==
  LET watched == {k \in DOMAIN t.watermark : \E r \in t.revoked : r.key = k}
  IN  IF o.signer # None THEN o.signer
      ELSE IF StoreFor(o.kind) = "codebase" /\ watched # {} THEN CHOOSE k \in watched : TRUE
      ELSE None

(* Whether the ledger held the row before the revocation was observed.     *)
AdmittedBeforeRevocation(t, o, key) ==
  \/ o.cursor = 0
  \/ IF key \in DOMAIN t.watermark THEN o.cursor <= t.watermark[key][2]
     ELSE DOMAIN t.watermark = {} \/ \E k \in DOMAIN t.watermark : o.cursor <= t.watermark[k][2]

(* Who answers for what a row says.                                        *)
OwnerFor(t, o, personalOwner) ==
  LET registered(scope) == (CHOOSE a \in OwnersOf(t, scope) : TRUE).identity
  IN  CASE StoreFor(o.kind) = "personal" -> <<"session-owner", personalOwner>>
        [] StoreFor(o.kind) = "company" ->
             IF OwnersOf(t, o.scope) # {} THEN <<"scope-authority", registered(o.scope)>>
             ELSE <<"company-steward", t.steward>>
        [] o.kind = "runtime_evidence" /\ o.owner # None -> <<"deploy-owner", o.owner>>
        [] OTHER -> <<"repository-maintainer",
                      IF OwnersOf(t, "repository") # {} THEN registered("repository") ELSE None>>

-----------------------------------------------------------------------------
(* Eligibility.                                                            *)

IneligibleDispositions ==
  {"proposed", "rejected", "superseded", "retracted", "reverted", "revert", "open", "closed",
   "reopened", "approved", "disputed", "terminal", "committed", "ref", "expired",
   "manifest_observation_expired"}

EligibleDisposition(o) == o.disp \notin IneligibleDispositions
TrustedOrigin(o) ==
  o.origin \in {"merged-default", "approved-pr", "merged-pull", "personal-host",
                "company-authority", None}
HeadEligible(o) == TrustedOrigin(o) \/ o.origin = "uncommitted-worktree"
WouldBeCurrent(o, now) ==
  EligibleDisposition(o) /\ HeadEligible(o) /\ ~o.at /\ ~Expired(o, now)

-----------------------------------------------------------------------------
(* Outcomes.                                                               *)

Outcome(o, state, disp, fact, supports, asks) ==
  [row |-> Id(o), key |-> o.key, kind |-> o.kind, state |-> state, disp |-> disp, fact |-> fact,
   supports |-> {Id(s) : s \in supports}, asks |-> asks]

Narrowed(o) == IF Has(o, "narrowed_view") THEN {<<"narrowed-view", "open">>} ELSE {}
Mark(o, state, disp) == Outcome(o, state, disp, NoFact, {}, {})
PushHistory(o, state, disp, fact) == Outcome(o, state, disp, fact, {}, {})
PushFact(o, supports, state, disp, fact, asks) ==
  Outcome(o, state, disp, fact, supports, asks \cup Narrowed(o))
Current(o, disp) == PushFact(o, {}, "current", disp, "current", {})

HistoricalState(o) ==
  CASE o.life = "retracted" -> <<"retracted", "retracted_observation">>
    [] o.life = "absent" -> <<"retracted", "absent_source_recorded">>
    [] o.life = "rewritten" -> <<"stale", "rewritten_lineage">>
    [] o.life = "renamed" -> <<"stale", "renamed">>
    [] OTHER -> <<"stale", "superseded">>

\* Bug: a withdrawn row asks nothing.
SettleHistoryQuietly(rows, was) ==
  {Outcome(o, HistoricalState(o)[1], HistoricalState(o)[2],
           IF WithdrawnLife(o) THEN "withdrawn" ELSE "superseded", {}, {})
     : o \in {r \in rows : ~Stands(r)}}

(* The rows no longer alive; one of `was` that was withdrawn asks whether  *)
(* its fact still holds.                                                   *)
SettleHistory(rows, was) ==
  {Outcome(o, HistoricalState(o)[1], HistoricalState(o)[2],
           IF WithdrawnLife(o) THEN "withdrawn" ELSE "superseded", {},
           IF WithdrawnLife(o) /\ o \in was THEN {<<"withdrawn", "open">>} ELSE {})
     : o \in {r \in rows : ~Stands(r)}}

StandingIn(rows) == {o \in rows : Stands(o)}

ReopenedBy(t, o, key) ==
  IF AdmittedBeforeRevocation(t, o, key) THEN {<<"revoked", "reopened">>} ELSE {}

WithdrawRevoked(t, o) ==
  PushFact(o, {}, "quarantined", "revoked_observation", "withdrawn",
           ReopenedBy(t, o, WarrantingKey(t, o)))

-----------------------------------------------------------------------------
(* One operator for every family of sources.                               *)

DerivePersonal(rows) ==
  LET plain(o) == o.atom # "observation"
      disposition(o) == IF Has(o, "raw_withheld") THEN "expired_raw_withheld"
                        ELSE IF Has(o, "resumed_from") THEN "resumed"
                        ELSE IF Has(o, "edited") THEN "amended_new_observation" ELSE "current"
  IN  SettleHistory(rows, {o \in rows : o.disp = "current" /\ plain(o)})
        \cup {IF o.disp = "terminal" \/ ~plain(o) THEN Mark(o, "current", "terminal")
              ELSE Current(o, disposition(o)) : o \in StandingIn(rows)}

(* The head is the newest copy outside any branch; a branch copy agrees    *)
(* with it or conflicts with it.                                           *)
RepositoryHead(rows) == {o \in rows : HeadEligible(o) /\ ~o.at}
HeadFact(o) == IF o.disp \in {"proposed", "rejected", "superseded"} THEN o.disp ELSE "current"

DeriveRepositoryFile(t, now, rows) ==
  LET alive == StandingIn(rows)
      heads == RepositoryHead(alive)
      head == LastObserved(heads)
      isHead(o) == heads # {} /\ o = head
      revoked == \E o \in alive : RevocationOf(t, o)
      agreeing(o) == {p \in alive \ {o} : p.digest = o.digest}
      settle(o) ==
        CASE revoked /\ isHead(o) -> WithdrawRevoked(t, o)
          [] revoked /\ ~isHead(o) ->
               PushHistory(o, "quarantined", "revoked_observation", "withdrawn")
          [] ~revoked /\ isHead(o) ->
               PushFact(o, agreeing(o), "current",
                        IF Has(o, "renamed_from") THEN "amended_new_observation" ELSE o.disp,
                        HeadFact(o), {})
          [] ~revoked /\ heads = {} ->
               PushFact(o, {}, "current", "unreviewed", "unverified", {})
          [] OTHER ->
               IF head.digest = o.digest THEN Mark(o, "current", "supporting")
               ELSE PushFact(o, {}, "current", "conflicting_observations", "conflict",
                             {<<"conflict", "open">>})
  IN  SettleHistory(rows, {o \in rows : WouldBeCurrent(o, now)}) \cup {settle(o) : o \in alive}

(* Test results and runtime observations: the newest by its own time is    *)
(* the head, however late an older one arrives.                            *)
OrderedAsks(ordered, head) ==
  LET failed(o) == Has(o, "exit_failed")
      tests == head.kind = "repo_tests"
      first == FirstAsserted(ordered).owner
      asked(condition, ask) == IF condition THEN {ask} ELSE {}
  IN  asked(tests /\ failed(head), <<"test-failure", "open">>)
      \cup asked(tests /\ ~failed(head) /\ (\E o \in ordered : failed(o)),
                 <<"test-failure", "closed">>)
      \cup asked(/\ head.kind = "runtime_evidence"
                 /\ None \notin {first, head.owner} /\ first # head.owner,
                 <<"owner-change", "open">>)

DeriveOrdered(t, now, rows) ==
  LET ordered == StandingIn(rows)
      head == LastAsserted(ordered)
      late(o) == o.asserted < head.asserted /\ o.observed > head.observed
      settle(o) ==
        IF o # head THEN
               PushHistory(o, "stale", IF late(o) THEN "late_arrival_ordered" ELSE "superseded",
                           "superseded")
        ELSE IF RevocationOf(t, head) THEN WithdrawRevoked(t, head)
        ELSE IF Expired(head, now) THEN
               PushFact(head, {}, "stale", "expired_raw_withheld", "withdrawn",
                        {<<"expired", "open">>})
        ELSE PushFact(head, {}, "current",
                      IF Has(head, "skewed_receipt") THEN "skew_bounded" ELSE head.disp,
                      "current", OrderedAsks(ordered, head))
  IN  SettleHistory(rows, {}) \cup {settle(o) : o \in ordered}

(* Git: a merge is a decision, a ref is evidence, a commit is history.     *)
DeriveGit(now, rows) ==
  LET alive == StandingIn(rows)
      head == LastObserved(alive)
      others == {o \in alive : o # head}
      merged ==
        IF Has(head, "reverted_by") THEN
               PushFact(head, others, "current", "reverted", "withdrawn",
                        {<<"reverted", "reopened">>})
        ELSE IF TrustedOrigin(head) THEN PushFact(head, others, "current", "merged", "current", {})
        ELSE PushFact(head, others, "current", "unreviewed", "unverified", {})
      settled ==
        CASE head.atom = "ref" -> PushFact(head, others, "current", "ref", "evidence", {})
          [] head.atom = "merge" -> merged
          [] OTHER -> Mark(head, "current",
                           IF Has(head, "skew_bounded") THEN "skew_bounded"
                           ELSE IF Has(head, "reverts") THEN "revert"
                           ELSE IF Has(head, "reverted_by") THEN "reverted" ELSE "committed")
  IN  SettleHistory(rows, {o \in rows : o.atom = "merge" /\ WouldBeCurrent(o, now)})
        \cup (IF alive = {} THEN {} ELSE {settled})
        \cup {Mark(o, "current", "supporting") : o \in others}

Superseded(o) == PushHistory(o, "stale", "superseded", "superseded")

DeriveGithub(now, rows) ==
  LET alive == StandingIn(rows)
      head == LastObserved(alive)
      asks == CASE head.disp = "merged" -> {<<"review-conflict", "closed">>}
                [] head.disp = "disputed" -> {<<"review-conflict", "open">>}
                [] head.disp = "reopened" -> {<<"reopened", "reopened">>}
                [] OTHER -> {}
      fact == CASE head.disp = "merged" -> "current"
                [] head.disp = "disputed" -> "conflict"
                [] head.disp = "reopened" -> "open"
                [] OTHER -> head.disp
  IN  SettleHistory(rows, {o \in rows : WouldBeCurrent(o, now) /\ o.disp = "merged"})
        \cup {Superseded(o) : o \in {p \in alive : p # head}}
        \cup (IF alive = {} THEN {}
              ELSE {PushFact(head, {}, "current",
                             IF Has(head, "edited") THEN "amended_new_observation" ELSE head.disp,
                             fact, asks)})

(* Declarations sharing a key: one head for every site, current together   *)
(* or in conflict. `digest` stands for the shape, `at` is not used.        *)
DeriveSymbols(t, now, rows) ==
  LET alive == StandingIn(rows)
      site(o) == {p \in alive : p.native = o.native}
      heads == {o \in alive : o = LastObserved(site(o))}
      head == CHOOSE o \in heads : \A p \in heads : o.native <= p.native
      differ == \E o, p \in heads : o.digest # p.digest
      settle(o) ==
        IF \E p \in heads : RevocationOf(t, p) THEN WithdrawRevoked(t, o)
        ELSE CASE differ /\ o = head ->
                    PushFact(o, heads \ {o}, "current", "conflicting_observations", "conflict",
                             {<<"conflict", "open">>})
               [] differ /\ o # head -> Mark(o, "current", "conflicting_observations")
               [] ~differ /\ o = head -> PushFact(o, heads \ {o}, "current", o.disp, "current", {})
               [] OTHER -> Mark(o, "current", "supporting")
  IN  SettleHistory(rows, {o \in rows : WouldBeCurrent(o, now)})
        \cup {Superseded(o) : o \in alive \ heads}
        \cup {settle(o) : o \in heads}

(* Tickets, pull requests, threads and documents: the newest snapshot by   *)
(* the record's own update time, current only if it was accepted.          *)
DeriveExport(t, now, rows) ==
  LET alive == StandingIn(rows)
      head == LastAsserted(alive)
      settled ==
        IF RevocationOf(t, head) THEN WithdrawRevoked(t, head)
        ELSE IF Expired(head, now) THEN
               PushFact(head, {}, "stale", "expired_raw_withheld", "withdrawn", {})
        ELSE IF WouldBeCurrent(head, now) THEN Current(head, head.disp)
        ELSE PushFact(head, {}, "current", head.disp, head.disp, {})
  IN  SettleHistory(rows, {o \in rows : WouldBeCurrent(o, now)})
        \cup {Superseded(o) : o \in {p \in alive : p # head}}
        \cup (IF alive = {} THEN {} ELSE {settled})

DeriveKindex(t, now, rows) ==
  LET alive == StandingIn(rows)
      head == LastObserved(alive)
      settled ==
        IF RevocationOf(t, head) THEN WithdrawRevoked(t, head)
        ELSE IF Expired(head, now) \/ head.disp = "manifest_observation_expired" THEN
               PushFact(head, {}, "stale", "expired_raw_withheld", "historical",
                        {<<"expired", "open">>})
        ELSE IF Has(head, "contradicts") THEN
               PushFact(head, {}, "current", "conflicting_observations", "conflict",
                        {<<"conflict", "open">>})
        ELSE IF head.disp = "retracted" THEN
               PushFact(head, {}, "retracted", "retracted_observation", "withdrawn",
                        {<<"withdrawn", "reopened">>})
        ELSE IF head.disp = "superseded" \/ Has(head, "superseded_by") THEN
               PushFact(head, {}, "stale", "superseded", "superseded", {})
        ELSE Current(head, "current")
  IN  SettleHistory(rows, {o \in rows : WouldBeCurrent(o, now) /\ ~Has(o, "contradicts")})
        \cup {Superseded(o) : o \in {p \in alive : p # head}}
        \cup (IF alive = {} THEN {} ELSE {settled})

(* Answers: only one whose signature verifies and whose signer is          *)
(* registered for its scope counts; one that another names as its parent   *)
(* is superseded; two that remain conflict.                                *)
Registered(t, o) == \E a \in t.active : a.scope = o.scope /\ a.key = o.signer

DeriveAnswers(t, now, rows) ==
  LET alive == StandingIn(rows)
      revoked == {o \in alive : RevocationOf(t, o)}
      verified == {o \in alive \ revoked : Has(o, "signature_valid") /\ Registered(t, o)}
      named == UNION {o.parents : o \in verified}
      heads == {o \in verified : o.digest \notin named}
      settle(o) ==
        IF o \in revoked THEN
               PushFact(o, {}, "quarantined", "revoked_observation", "withdrawn",
                        ReopenedBy(t, o, o.signer))
        ELSE IF o \notin verified THEN
               PushFact(o, {}, "quarantined", "unverified_signature", "unverified", {})
        ELSE IF o \notin heads THEN Superseded(o)
        ELSE IF Cardinality(heads) > 1 THEN
               PushFact(o, {}, "current", "conflicting_observations", "conflict",
                        IF o = LastObserved(heads) THEN {<<"conflict", "open">>} ELSE {})
        ELSE PushFact(o, {}, "current",
                      IF Has(o, "late") THEN "late_arrival_ordered" ELSE "answered",
                      "current", {<<"question", "closed">>})
  IN  SettleHistory(rows, {o \in rows : WouldBeCurrent(o, now)}) \cup {settle(o) : o \in alive}

-----------------------------------------------------------------------------
(* The derivation of a cohort and of a ledger.                             *)

DeriveCohort(t, now, rows) ==
  LET kind == FirstObserved(rows).kind
  IN  CASE kind \in Personal -> DerivePersonal(rows)
        [] kind \in RepositoryFiles -> DeriveRepositoryFile(t, now, rows)
        [] kind = "git_history" -> DeriveGit(now, rows)
        [] kind = "github_export" -> DeriveGithub(now, rows)
        [] kind \in Exports -> DeriveExport(t, now, rows)
        [] kind = "repo_symbols" -> DeriveSymbols(t, now, rows)
        [] kind = "kindex" -> DeriveKindex(t, now, rows)
        [] kind = "authority_answer" -> DeriveAnswers(t, now, rows)
        [] OTHER -> DeriveOrdered(t, now, rows)

Derivable(o) == ~Has(o, "reducer_owned") /\ o.disp # "CLOCK_SKEW"

Derive(observations, t, now) ==
  LET rows == {o \in observations : Derivable(o)}
  IN  UNION {DeriveCohort(t, now, {o \in rows : o.key = key}) : key \in {o.key : o \in rows}}
=============================================================================
