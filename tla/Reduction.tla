----------------------------- MODULE Reduction -----------------------------
(***************************************************************************)
(* The current-view reducer: `reduce` of reducer.rs, a pure function of    *)
(* the admitted events of a store, its tombstones and Unknown records, the *)
(* revocations its reader holds, the authority cursor and an instant.      *)
(*                                                                         *)
(* An event is a record                                                    *)
(*   [id, key, stmt, store, kind, scope, disp, standing, prov, governs,    *)
(*    under, signer, asserted, from, until, parents, supersedes,           *)
(*    candidate]                                                           *)
(* `id` is a number whose order stands for the order of the names of       *)
(* events, facts and files, `stmt` for the squeezed statement, `governs`   *)
(* and `under` for the paths it rules on and the paths its evidence lies   *)
(* under. Times are numbers; `until` is 0 where no end is declared.        *)
(*                                                                         *)
(* An input is a record                                                    *)
(*   [store, events, verdict, cursor, asked, closed, tombs, revs, at,      *)
(*    authority, environment, rank]                                        *)
(* verdict and cursor are functions on the ids of the events; asked and    *)
(* closed are the explicit Unknown records that are open and closed, as    *)
(* names of Unknowns; tombs are records [kind, target, authorized] and     *)
(* revs records [key, scope, cursor, effective, observed]; environment     *)
(* says that the registry knows the environment scope; rank is the rank of *)
(* every event, see Ranks.                                                 *)
(***************************************************************************)
EXTENDS Integers, FiniteSets, Sequences

CONSTANTS None,       \* an absent scope of a revocation
          Lifetime    \* how long transient evidence lives when it does not say

ASSUME LifetimeIsPositive == Lifetime \in Nat \ {0}

Negative(disp) ==
  disp \in {"rejected", "reverted", "retracted", "withdrawn", "expired", "never_true", "superseded"}
Transient(disp) ==
  disp \in {"draft", "proposed", "open", "incident", "experiment", "workaround"}
Durable(disp) == disp \in {"approved", "accepted", "merged", "deployed", "current"}

(* A record that acts on another event instead of stating a fact.          *)
Withdrawals == {"misextraction", "never_true", "support_withdrawn"}

-----------------------------------------------------------------------------
(* Standing: what an event claims, capped by how it came to exist, and     *)
(* demoted when a ruling governs the paths its evidence lies under.        *)

Standings == <<"authoritative", "ratified", "enforced", "exemplary", "prevalent", "present",
               "unruled">>
StandingRank(s) == CHOOSE i \in DOMAIN Standings : Standings[i] = s
Outranks(s, t) == StandingRank(s) < StandingRank(t)

StandingCeiling(prov) == IF prov = "human" THEN "authoritative"
                 ELSE IF prov \in {"human_review", "transcript"} THEN "prevalent"
                 ELSE "present"

\* Bug: a claimed standing is taken as it is, whoever wrote the evidence.
ClaimedStanding(e) == e.standing

EffectiveStanding(e) ==
  IF Outranks(e.standing, StandingCeiling(e.prov)) THEN StandingCeiling(e.prov) ELSE e.standing

Rulings(in) ==
  {e \in in.events : e.kind \in {"north_star", "directional", "invariant"} /\ e.governs # {}}

(* The least and the greatest of some events in the order of the store's   *)
(* cursor.                                                                 *)
Earliest(in, S) == CHOOSE e \in S : \A f \in S : in.cursor[e.id] <= in.cursor[f.id]
Latest(in, S) == CHOOSE e \in S : \A f \in S : in.cursor[f.id] <= in.cursor[e.id]

Governing(in, e) == {r \in Rulings(in) : r.governs \cap e.under # {} /\ r.id # e.id}

StandingFor(in, e) ==
  LET own == EffectiveStanding(e)
      rules == Governing(in, e)
  IN  IF /\ rules # {}
         /\ own \in {"prevalent", "present"}
         /\ Outranks(EffectiveStanding(Earliest(in, rules)), own)
      THEN "present" ELSE own

-----------------------------------------------------------------------------
(* Authority rank inside one store; 0 is evidence that cannot direct. The  *)
(* origin of a file never lowers it: only verified events are ranked, and  *)
(* a verified event is stamped as one of the default lineage.              *)

(* What a fact carries that claims no standing: its store and its scope.   *)
ShapeRank(e) ==
  CASE e.store = "company" /\ e.scope = "architecture"              -> 6
    [] e.scope = "environment"                                      -> 3
    [] e.store = "company"                                          -> 5
    [] \/ e.disp = "approved" \/ e.candidate
       \/ e.kind \in {"constraint", "decision"}                     -> 4
    [] OTHER                                                        -> 2

AuthorityRank(in, e) ==
  LET standing == StandingFor(in, e)
  IN  IF standing = "unruled" THEN 0
      ELSE IF standing = "present" THEN ShapeRank(e)
      ELSE 13 - StandingRank(standing)

Ranks(in) ==
  [i \in {e.id : e \in in.events} |-> AuthorityRank(in, CHOOSE e \in in.events : e.id = i)]

ExpiryOf(e) == IF e.until # 0 THEN e.until
               ELSE IF Transient(e.disp) THEN e.from + Lifetime ELSE 0

-----------------------------------------------------------------------------
(* Revocations the reader has observed, and what they withdraw.            *)

ObservedRevocations(in) == {r \in in.revs : r.observed \/ r.cursor <= in.authority}

\* Bug: the revocation of one scope withdraws the key everywhere.
CoversKey(r, e) == r.key = e.signer

Covers(r, e) == r.key = e.signer /\ r.scope \in {None, e.scope}

SupportRevoked(in, e) == \E r \in ObservedRevocations(in) : Covers(r, e)
RevokedBefore(in, e) ==
  \E r \in ObservedRevocations(in) : Covers(r, e) /\ r.effective <= e.asserted

-----------------------------------------------------------------------------
(* Step 1: the events that may speak for a key.                            *)

IdsOf(S) == {e.id : e \in S}

UnknownEnvironment(in, e) ==
  e.store = "codebase" /\ e.scope = "environment" /\ ~in.environment

Ineligible(in, e) ==
  \/ UnknownEnvironment(in, e)
  \/ in.verdict[e.id] # "verified"
  \/ RevokedBefore(in, e)
  \/ e.store # in.store /\ in.store # "mixed"
  \/ in.rank[e.id] = 0

(* An entry of the trace whose reason begins with REVOKED.                 *)
RejectedAsRevoked(in, e) ==
  /\ ~UnknownEnvironment(in, e)
  /\ \/ in.verdict[e.id] = "revoked"
     \/ in.verdict[e.id] = "verified" /\ RevokedBefore(in, e)

-----------------------------------------------------------------------------
(* Step 2, over the eligible events El of a key: retraction, supersession, *)
(* the resolution of a conflict by an event that names its heads as        *)
(* parents, and tombstones.                                                *)

\* Bug: an event of the same scope retires a head of a higher rank.
OwnsScope(in, new, old) == old.scope = new.scope

Owns(in, new, old) == in.rank[old.id] <= in.rank[new.id] /\ old.scope = new.scope

NamedHeads(El, e) ==
  IF Cardinality(e.parents) >= 2 THEN {old \in El : old.id \in e.parents} ELSE {}

ByResolution(in, El, e) ==
  IF e.supersedes = {} THEN IdsOf({old \in NamedHeads(El, e) : Owns(in, e, old)}) ELSE {}

\* Bug: a resolution stands beside the heads it could not retire.
NotSetAside(in, El, e) == {}

SetAside(in, El, e) ==
  IF \E old \in NamedHeads(El, e) : ~Owns(in, e, old) /\ old.stmt # e.stmt THEN {e.id} ELSE {}

BySupersession(in, El, e) ==
  {t \in e.supersedes : \/ \E old \in El : old.id = t /\ Owns(in, e, old)
                        \/ t \in IdsOf(in.events \ El)}

RetiredBy(in, El, e) ==
  ByResolution(in, El, e) \cup SetAside(in, El, e) \cup
  (CASE e.disp \in {"retracted", "withdrawn"} -> e.supersedes \cup e.parents \cup {e.id}
     [] e.disp \in {"rejected", "reverted"}   -> {}
     [] OTHER                                 -> BySupersession(in, El, e))

Tombed(in, kind, e) == \E t \in in.tombs : t.kind = kind /\ t.target = e.id /\ t.authorized

RetiredByAny(in, El) == UNION {RetiredBy(in, El, e) : e \in El}
Disowned(in, El) == {e \in El : Tombed(in, "never_true", e)}
Retired(in, El) == RetiredByAny(in, El) \cup IdsOf(Disowned(in, El))

-----------------------------------------------------------------------------
(* Steps 3 to 6: negative evidence and evidence outside its lifetime drop  *)
(* out; exact duplicates form one head, which stands while some of its     *)
(* support was not withdrawn with a revoked key.                           *)

Lapsed(in, e) == e.from > in.at \/ (ExpiryOf(e) # 0 /\ ExpiryOf(e) <= in.at)

Members(in, Live, s) == {e \in Live : e.stmt = s /\ ~Tombed(in, "support_withdrawn", e)}

\* Bug: a statement keeps the support of a key that was revoked.
AllMembers(in, M) == M

Support(in, M) == {e \in M : ~SupportRevoked(in, e)}

Greatest(S) == CHOOSE n \in S : \A m \in S : m <= n

\* Bug: the rank of a head counts how often its statement was repeated.
CountedRank(in, S) == Greatest({in.rank[e.id] : e \in S}) + Cardinality(S) - 1

RankOf(in, S) == Greatest({in.rank[e.id] : e \in S})

HeadOf(in, S) ==
  [stmt |-> (CHOOSE e \in S : TRUE).stmt, rank |-> RankOf(in, S),
   event |-> Earliest(in, S), newest |-> Latest(in, S), support |-> IdsOf(S),
   withheld |-> \E e \in S : Tombed(in, "misextraction", e)]

-----------------------------------------------------------------------------
(* Step 7: one head, a conflict, or the decay of an observation.           *)

AllOf(H, kind) == \A h \in H : h.event.kind = kind
SameSource(H) == Cardinality({h.event.signer : h \in H}) = 1

Drift(low) == {h \in low : h.event.store = "codebase" /\ Durable(h.event.disp)}
Direction(H) == \A h \in H : h.event.store = "company" /\ h.event.scope = "architecture"

NewestHead(in, H) ==
  CHOOSE h \in H : \A g \in H : in.cursor[g.newest.id] <= in.cursor[h.newest.id]
FirstHead(H) == CHOOSE h \in H : \A g \in H : h.event.id <= g.event.id

Decays(top) == Cardinality(top) > 1 /\ AllOf(top, "observation") /\ SameSource(top)

ConflictIn(top, low) ==
  CASE Cardinality(top) > 1 -> IF Decays(top) \/ AllOf(top, "rationale") THEN {} ELSE top
    [] OTHER -> IF Direction(top) /\ Drift(low) # {} THEN top \cup Drift(low) ELSE {}

CurrentIn(in, top, conflict) ==   \* a set of at most one head
  IF top = {} \/ conflict # {} THEN {}
  ELSE IF Decays(top) THEN {NewestHead(in, top)} ELSE {FirstHead(top)}

(* A live observation of a registered environment defeats a default.       *)
Defeated(current, h) ==
  \E c \in current : /\ c.event.scope = "environment" /\ c.event.kind = "observation"
                     /\ h.event.scope # "environment"

-----------------------------------------------------------------------------
(* Steps 8 and 9: one current fact, or an Unknown that names its owner. An *)
(* Unknown is named by the key, its kind and the evidence: the same        *)
(* evidence names the same Unknown again.                                  *)

Ask(k, kind, evidence) == [key |-> k, kind |-> kind, evidence |-> evidence]
About(H) == IdsOf({h.event : h \in H})

(* Why nothing is current.                                                 *)
Vacancy(revoked, withdrawn, expired, negative) ==
  CASE revoked        -> "revoked"
    [] withdrawn      -> "withdrawn"
    [] expired        -> "expired"
    [] negative       -> "withdrawn"
    [] OTHER          -> "unverified"

(* Steps 1 to 4 of a key: its events, those that may speak for it, and what *)
(* of them a retirement, a negative disposition and the clock leave.        *)
Sifted(in, group, el) ==
  LET standing == {e \in el : e.id \notin Retired(in, el)}
      negative == {e \in standing : Negative(e.disp)}
  IN  [group |-> group, el |-> el, negative |-> negative,
       expired |-> {e \in standing \ negative : Lapsed(in, e)},
       live |-> {e \in standing \ negative : ~Lapsed(in, e)}]

Eligible(in, group) == Sifted(in, group, {e \in group : ~Ineligible(in, e)})

(* Steps 5 and 6: the clusters of live duplicates and their support.        *)
Clusters(in, live) == {Members(in, live, s) : s \in {e.stmt : e \in live}} \ {{}}
Lost(in, clusters) == {M \in clusters : Support(in, M) = {}}
HeadsIn(in, clusters) == {HeadOf(in, Support(in, M)) : M \in clusters \ Lost(in, clusters)}
SupportWithdrawn(in, el, clusters) ==
  \/ \E e \in el : Tombed(in, "support_withdrawn", e)
  \/ \E M \in clusters : Support(in, M) \notin {{}, M}
TopOf(heads) == {h \in heads : \A g \in heads : g.rank <= h.rank}

(* Step 8: the state of a key with the heads H, of which C are in conflict  *)
(* and the one in cur is current. A misextraction notice withholds a fact;  *)
(* the cache clocks, which can too, are left out: every reader modelled     *)
(* here reduces at an instant at which its data is fresh.                   *)
Strange(in, group) == {e \in group : UnknownEnvironment(in, e)}
StateOf(in, ev, clusters, H, C, cur) ==
  CASE Strange(in, ev.group) # {}      -> "unknown"
    [] C # {}                          -> "conflict"
    [] H = {}                          ->
         Vacancy(\/ Lost(in, clusters) # {}
                 \/ \E e \in ev.group : RejectedAsRevoked(in, e),
                 SupportWithdrawn(in, ev.el, clusters), ev.expired # {}, ev.negative # {})
    [] \E h \in cur : h.withheld       -> "withheld"
    [] OTHER                           -> "current"

(* Step 9: the Unknowns asked of a key in that state.                       *)
Drifting(low, C, cur) ==
  {h \in low \ C : ~Transient(h.event.disp) /\ ~Defeated(cur, h)}
Asked(in, k, ev, lost, low, C, cur, state) ==
  CASE state = "unknown"  ->
         {Ask(k, "environment-registry", IdsOf({e \in ev.group : Ineligible(in, e)}))}
    [] state = "conflict" -> {Ask(k, "conflict", About(C))}
    [] state \in {"current", "withheld"} ->
         {Ask(k, "misextraction", h.support) : h \in {c \in cur : c.withheld}}
           \cup {Ask(k, "contradiction", About({h} \cup cur)) : h \in Drifting(low, C, cur)}
    [] OTHER -> {Ask(k, state, IdsOf(ev.expired \cup ev.negative \cup UNION lost))}

Outcome(in, k, ev, clusters, H, C, cur, state) ==
  [state |-> state, heads |-> H, lower |-> H \ TopOf(H), conflict |-> C,
   asks |-> Asked(in, k, ev, Lost(in, clusters), H \ TopOf(H), C, cur, state),
   current |-> IF state \in {"current", "withheld"} THEN cur ELSE {}]

Decided(in, k, ev, clusters, H, C, cur) ==
  Outcome(in, k, ev, clusters, H, C, cur, StateOf(in, ev, clusters, H, C, cur))
Weighed(in, k, ev, clusters, H, top, C) ==
  Decided(in, k, ev, clusters, H, C, CurrentIn(in, top, C))
Ranked(in, k, ev, clusters, H, top) ==
  Weighed(in, k, ev, clusters, H, top, ConflictIn(top, H \ top))
Headed(in, k, ev, clusters, H) == Ranked(in, k, ev, clusters, H, TopOf(H))
Clustered(in, k, ev, clusters) == Headed(in, k, ev, clusters, HeadsIn(in, clusters))
Evidence(in, k, ev) == Clustered(in, k, ev, Clusters(in, ev.live))

(* What the reducer derives for one key: its state, its heads, the current *)
(* one or the one that is withheld, the heads in conflict and below, and   *)
(* the Unknowns it asks.                                                   *)
ReduceKey(in, k) == Evidence(in, k, Eligible(in, {e \in in.events : e.key = k}))

(* The statement that is current for a reduced key, as a set.              *)
CurrentStatement(v) == {h.stmt : h \in {c \in v.current : v.state = "current"}}

(* The whole view: what is derived for every key, and the Unknowns that    *)
(* are open. A ruling that no ruling is wanted silences what is derived    *)
(* for its key, and a closed record what was asked under its name.         *)
Reduce(in) ==
  LET keys     == [k \in {e.key : e \in in.events} |-> ReduceKey(in, k)]
      shrugged == {k \in DOMAIN keys : keys[k].state = "current" /\ AllOf(keys[k].current, "shrug")}
      derived  == UNION {keys[k].asks : k \in DOMAIN keys \ shrugged}
  IN  [keys |-> keys, open |-> (derived \ in.closed) \cup in.asked]

=============================================================================
