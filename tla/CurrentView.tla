---------------------------- MODULE CurrentView ----------------------------
(***************************************************************************)
(* Three readers of admitted evidence and what they publish:               *)
(*   - the Company service reduces its own event log (company/reduction.rs,*)
(*     company/trust.rs),                                                  *)
(*   - a repository reduces the event files of its worktree under the      *)
(*     authority snapshot it last fetched (repository.rs), and             *)
(*   - `explain` reduces the union of both (corpus.rs).                    *)
(* The reduction itself is module Reduction. Here evidence arrives in any  *)
(* order, keys are revoked, dropped from a scope and registered again, a   *)
(* repository learns of it only when it fetches, time passes, and owners   *)
(* record Unknowns as open or closed.                                      *)
(***************************************************************************)
EXTENDS Reduction, SequencesExt

CONSTANTS
  Pools,       \* [reader, events, changes, records]: who reads, the events
               \* that may arrive, and the most authority changes and Unknown
               \* records of the behaviour
  Entries,     \* the registry's first entries, as <<key, scope>>
  Stewards,    \* keys that may publish in every scope
  MaxAdmitted, \* events admitted in one behaviour
  MaxTime      \* the last instant

(* An event is named by the digest of its bytes.                           *)
ASSUME EventsAreNamed ==
  \A p \in Pools : \A d, e \in p.events : d.id \in Nat /\ (d.id = e.id => d = e)

VARIABLES
  pool,      \* who reads, and what may happen
  log,       \* events in the order they arrived
  registry,  \* active entries [key, scope, since]
  revs,      \* revocations in force
  cursor,    \* the authority cursor
  held,      \* what the repository last fetched
  asked,     \* open Unknown records
  closed,    \* closed Unknown records
  now,
  view       \* what the reader publishes

readerVars == <<pool, log, registry, revs, cursor, held, asked, closed, now, view>>
authorityVars == <<registry, revs, cursor>>

(* All a reader reads, as one record.                                      *)
World == [store |-> pool.reader, log |-> log, registry |-> registry, revs |-> revs,
          cursor |-> cursor, held |-> held, asked |-> asked, closed |-> closed, at |-> now]

TrustOf(w) == [registry |-> w.registry, revs |-> w.revs, cursor |-> w.cursor, upto |-> Len(w.log)]
Trusted == [registry |-> registry, revs |-> revs, cursor |-> cursor, upto |-> Len(log)]

-----------------------------------------------------------------------------
(* Who may sign what.                                                      *)

(* Revoked, and not registered again at a later cursor.                    *)
IsRevoked(trust, key) ==
  LET cursors == {r.cursor : r \in {x \in trust.revs : x.key = key /\ x.scope = None}}
      since == {t.since : t \in {x \in trust.registry : x.key = key}}
  IN  cursors # {} /\ \A s \in since : s <= Greatest(cursors)

EntriesFor(trust, key) == {t \in trust.registry : t.key = key}

Verify(trust, e) ==
  CASE IsRevoked(trust, e.signer)                                 -> "revoked"
    [] e.signer \in Stewards                                      -> "verified"
    [] \E t \in EntriesFor(trust, e.signer) : t.scope = e.scope   -> "verified"
    [] EntriesFor(trust, e.signer) = {}                           -> "unverified"
    [] OTHER                                                      -> "wrong-scope"

-----------------------------------------------------------------------------
(* Lifecycle actions: tombstones, and whether their signer may set them.   *)

(* `arrived` is the log a reader holds.                                     *)
Position(arrived, e) == CHOOSE i \in DOMAIN arrived : arrived[i] = e
Named(e) == e.parents \cup e.supersedes
InLog(arrived, S) == {t \in ToSet(arrived) : t.id \in S}

(* In the Company log a withdrawal needs the scope of the first event it   *)
(* names, in log order, or a steward; a notice needs a verified signer.    *)
CompanyTargets(arrived, e) == {t \in InLog(arrived, Named(e)) : t.store = "company"}
FirstIn(arrived, S) ==
  CHOOSE t \in S : \A u \in S : Position(arrived, t) <= Position(arrived, u)

LifecycleAuthorized(arrived, trust, e) ==
  \/ e.disp = "misextraction"
  \/ e.signer \in Stewards
  \/ LET targets == CompanyTargets(arrived, e)
     IN  /\ targets # {}
         /\ \E x \in EntriesFor(trust, e.signer) : x.scope = FirstIn(arrived, targets).scope

CompanyActs(e) == e.store = "company" /\ e.disp \in Withdrawals

CompanyTombs(arrived, trust) ==
  UNION {{[kind |-> e.disp, target |-> t, authorized |-> LifecycleAuthorized(arrived, trust, e)] :
            t \in Named(e)} : e \in {x \in ToSet(arrived) : CompanyActs(x)}}

(* In a repository an abandoned orphan withdraws the support of its claim, *)
(* and an action names one event, its first parent.                        *)
ActionOf(e) == IF e.disp = "orphan_abandoned" THEN "support_withdrawn" ELSE e.disp
CodebaseActs(e) == e.store = "codebase" /\ ActionOf(e) \in Withdrawals
Target(e) == CHOOSE t \in (IF e.parents = {} THEN e.supersedes ELSE e.parents) : TRUE

MayAct(arrived, trust, e) ==
  /\ Verify(trust, e) = "verified"
  /\ CASE ActionOf(e) = "misextraction" ->
            \E x \in {e.scope} \cup {t.scope : t \in EntriesFor(trust, e.signer)} : x = "approver"
       [] ActionOf(e) = "never_true" ->
            \E t \in InLog(arrived, {Target(e)}) : t.store = "codebase" /\ t.scope = e.scope
       [] OTHER -> TRUE

CodebaseTombs(arrived, trust) ==
  {[kind |-> ActionOf(e), target |-> Target(e), authorized |-> MayAct(arrived, trust, e)] :
     e \in {x \in ToSet(arrived) : CodebaseActs(x) /\ Named(x) # {}}}

-----------------------------------------------------------------------------
(* What each reader reduces.                                               *)

CompanyEvents(arrived, upto) ==
  {e \in ToSet(arrived) : e.store = "company" /\ ~CompanyActs(e) /\ Position(arrived, e) <= upto}

(* A refused notice or withdrawal stays in a repository as evidence of the *)
(* wrong scope.                                                            *)
RefusedAction(arrived, trust, e) ==
  CodebaseActs(e) /\ ~MayAct(arrived, trust, e) /\ ActionOf(e) # "support_withdrawn"
CodebaseEvents(arrived, trust) ==
  {e \in ToSet(arrived) : /\ e.store = "codebase"
                          /\ CodebaseActs(e) => RefusedAction(arrived, trust, e)}

VerdictOf(arrived, trust, e) ==
  IF e.store = "company" THEN "verified"
  ELSE IF RefusedAction(arrived, trust, e) THEN "wrong-scope" ELSE Verify(trust, e)

VerdictsOf(arrived, trust, events) ==
  [i \in IdsOf(events) |-> VerdictOf(arrived, trust, CHOOSE e \in events : e.id = i)]

(* Files are read in the order of their names, the log in that of arrival. *)
CursorOf(arrived, e) == IF e.store = "company" THEN Position(arrived, e) ELSE e.id

CursorsOf(arrived, events) ==
  [i \in IdsOf(events) |-> CursorOf(arrived, CHOOSE e \in events : e.id = i)]

InputOf(w, events, trust, tombs, observed) ==
  [store |-> w.store, events |-> events,
   verdict |-> VerdictsOf(w.log, trust, events),
   cursor |-> CursorsOf(w.log, events),
   rank |-> Ranks([events |-> events, cursor |-> CursorsOf(w.log, events)]),
   asked |-> w.asked, closed |-> w.closed, tombs |-> tombs,
   revs |-> {[key |-> r.key, scope |-> r.scope, cursor |-> r.cursor,
              effective |-> r.effective, observed |-> observed] : r \in trust.revs},
   at |-> w.at, authority |-> trust.cursor,
   environment |-> \E t \in trust.registry : t.scope = "environment"]

(* A repository reads only the revocations of whole keys.                  *)
WholeKeys(trust) == [trust EXCEPT !.revs = {r \in trust.revs : r.scope = None}]

Input(w) ==
  CASE w.store = "company" ->
         InputOf(w, CompanyEvents(w.log, Len(w.log)), TrustOf(w),
                 CompanyTombs(w.log, TrustOf(w)), TRUE)
    [] w.store = "codebase" ->
         InputOf(w, CodebaseEvents(w.log, w.held), WholeKeys(w.held),
                 CodebaseTombs(w.log, w.held), FALSE)
    [] OTHER ->
         InputOf(w, CodebaseEvents(w.log, w.held) \cup CompanyEvents(w.log, w.held.upto), w.held,
                 CodebaseTombs(w.log, w.held), FALSE)

Read(w) == Reduce(Input(w))

-----------------------------------------------------------------------------
TypeOK ==
  /\ pool \in Pools
  /\ ToSet(log) \subseteq pool.events /\ Len(log) <= MaxAdmitted /\ IsInjective(log)
  /\ \A t \in registry : t.since \in 0..cursor
  /\ \A r \in revs : r.cursor \in 1..cursor
  /\ cursor \in 0..pool.changes /\ held.cursor \in 0..cursor /\ held.upto \in 0..Len(log)
  /\ now \in 0..MaxTime /\ view = Read(World)

ReaderInit ==
  /\ pool \in Pools
  /\ log = <<>>
  /\ registry = {[key |-> p[1], scope |-> p[2], since |-> 0] : p \in Entries}
  /\ revs = {} /\ cursor = 0 /\ asked = {} /\ closed = {} /\ now = 0
  /\ held = Trusted /\ view = Read(World)

\* Bug: an event that is there already is admitted again.
AdmitAgain(e) ==
  /\ Len(log) < MaxAdmitted
  /\ log' = Append(log, e)
  /\ UNCHANGED <<pool, authorityVars, held, asked, closed, now>>

(* The service admits a Company event when its signer may publish it; it   *)
(* is recorded as verified and not checked again. A file is just there.    *)
Admit(e) ==
  /\ e \notin ToSet(log) /\ Len(log) < MaxAdmitted
  /\ pool.reader = "mixed" \/ e.store = pool.reader
  /\ e.store = "company" => /\ Verify(Trusted, e) = "verified"
                            /\ CompanyActs(e) => LifecycleAuthorized(log, Trusted, e)
  /\ log' = Append(log, e)
  /\ UNCHANGED <<pool, authorityVars, held, asked, closed, now>>

(* A key is revoked, as of now or as of an earlier instant.                *)
Revoke(key, effective) ==
  /\ cursor < pool.changes /\ \E t \in registry : t.key = key
  /\ effective <= now
  /\ cursor' = cursor + 1
  /\ revs' = revs \cup {[key |-> key, scope |-> None, cursor |-> cursor', effective |-> effective]}
  /\ registry' = {t \in registry : t.key # key}
  /\ UNCHANGED <<pool, log, held, asked, closed, now>>

(* A republished registry lists the key no longer for one scope.           *)
DropScope(key, scope) ==
  /\ cursor < pool.changes
  /\ \E t \in registry : t.key = key /\ t.scope = scope
  /\ \E t \in registry : t.key = key /\ t.scope # scope
  /\ cursor' = cursor + 1
  /\ revs' = revs \cup {[key |-> key, scope |-> scope, cursor |-> cursor', effective |-> now]}
  /\ registry' = {t \in registry : ~(t.key = key /\ t.scope = scope)}
  /\ UNCHANGED <<pool, log, held, asked, closed, now>>

(* A key listed again lifts its earlier revocations, one of a scope only   *)
(* when it is listed for that scope.                                       *)
Register(key, scope) ==
  /\ cursor < pool.changes /\ ~\E t \in registry : t.key = key /\ t.scope = scope
  /\ cursor' = cursor + 1
  /\ registry' = registry \cup {[key |-> key, scope |-> scope, since |-> cursor']}
  /\ revs' = {r \in revs : ~(r.key = key /\ r.scope \in {None, scope})}
  /\ UNCHANGED <<pool, log, held, asked, closed, now>>

Fetch ==
  /\ pool.reader # "company" /\ held # Trusted /\ held' = Trusted
  /\ UNCHANGED <<pool, log, authorityVars, asked, closed, now>>

RecordUnknown(u, status) ==
  /\ IF status = "open" THEN asked' = asked \cup {u} /\ closed' = closed
     ELSE closed' = closed \cup {u} /\ asked' = asked
  /\ <<asked, closed>>' # <<asked, closed>>
  /\ Cardinality(asked') + Cardinality(closed') <= pool.records
  /\ UNCHANGED <<pool, log, authorityVars, held, now>>

Tick ==
  /\ now < MaxTime /\ now' = now + 1
  /\ UNCHANGED <<pool, log, authorityVars, held, asked, closed>>

Signers == {p[1] : p \in Entries}
Scopes == {p[2] : p \in Entries}

Step ==
  \/ \E e \in pool.events : Admit(e)
  \/ \E k \in Signers, t \in 0..MaxTime : Revoke(k, t)
  \/ \E k \in Signers, s \in Scopes : DropScope(k, s) \/ (<<k, s>> \in Entries /\ Register(k, s))
  \/ Fetch
  \/ \E u \in view.open, st \in {"open", "closed"} : RecordUnknown(u, st)
  \/ Tick

(* Reading changes nothing: the view is what is read after every step.     *)
ReaderNext ==
  /\ Step
  /\ view' = Read([store |-> pool.reader, log |-> log', registry |-> registry', revs |-> revs',
                   cursor |-> cursor', held |-> held', asked |-> asked', closed |-> closed',
                   at |-> now'])

ReaderSpec == ReaderInit /\ [][ReaderNext]_readerVars

-----------------------------------------------------------------------------
(* Properties.                                                             *)

Newcomers == {e \in ToSet(log') : e \notin ToSet(log)}
Statements(H) == {h.stmt : h \in H}
Keys == DOMAIN view.keys

(* An event that names the heads of a conflict as its parents and has the  *)
(* authority over none of them leaves every head in conflict where it is   *)
(* (step 2 of the reducer).                                                *)
ConflictStands ==
  [][\A e \in Newcomers :
       e.key \in Keys =>
         LET heads == view.keys[e.key].conflict
             now2  == view'.keys[e.key]
         IN  /\ heads # {} /\ About(heads) \subseteq e.parents
             /\ Cardinality(e.parents) >= 2 /\ e.supersedes = {} /\ Durable(e.disp)
             /\ \A h \in heads : /\ h.stmt # e.stmt
                                 /\ \/ h.event.scope # e.scope
                                    \/ h.rank > ShapeRank(e) /\ e.standing = "present"
             => now2.state = "conflict" /\ Statements(now2.conflict) = Statements(heads)]_readerVars

(* What an agent observed never changes the statement a decision made      *)
(* current, whatever standing the observation claims and however often it  *)
(* is repeated (standing, provenance ceiling and rank of the reducer).     *)
AgentNeverDirects ==
  [][\A e \in Newcomers :
         /\ e.key \in Keys /\ view.keys[e.key].state = "current"
         /\ e.prov = "agent" /\ e.kind = "observation" /\ e.scope # "environment"
         /\ e.parents = {} /\ e.supersedes = {} /\ e.governs = {}
         /\ \A h \in view.keys[e.key].current :
              h.event.kind = "decision" /\ h.event.store = e.store
         => CurrentStatement(view'.keys[e.key]) = CurrentStatement(view.keys[e.key])]_readerVars

(* Neither an author without authority nor an agent's repetition decides.   *)
NobodyDecidesAlone == ConflictStands /\ AgentNeverDirects

(* What withdraws an event in the eyes of a reader. A repository reads no  *)
(* revocation of a scope; it sees the scope gone from the registry, which  *)
(* takes nothing from a steward.                                           *)
Withdraws(reader, r, e) ==
  /\ r.key = e.signer
  /\ \/ r.scope = None
     \/ r.scope = e.scope /\ ~(reader = "codebase" /\ e.signer \in Stewards)

(* No statement is current when every event that states it was signed by a *)
(* key, or in a scope of a key, whose revocation the reader has observed   *)
(* (the revocation cascade of step 6, and the verdicts of both readers).   *)
RevokedIsWithdrawn ==
  LET observed == IF pool.reader = "company" THEN revs ELSE held.revs
  IN  \A k \in Keys : \A h \in view.keys[k].current :
        \E e \in ToSet(log) :
          e.id \in h.support /\ ~\E r \in observed : Withdraws(pool.reader, r, e)

(* A statement that a revocation leaves an independent support for stays   *)
(* a head: a revocation withdraws what the key warranted and nothing else. *)
SupportStays ==
  [][revs' \ revs # {} =>
       \A k \in Keys : \A h \in view.keys[k].heads :
         (\E e \in ToSet(log) :
            /\ e.id \in h.support
            /\ ~\E r \in revs' : r.key = e.signer /\ r.scope \in {None, e.scope})
         => h.stmt \in Statements(view'.keys[k].heads)]_readerVars

(* An event that resolves a conflict without authority over every head it  *)
(* contradicts "leaves the heads in place" (reducer.rs). The code retires  *)
(* the heads it does own before it sets the event aside.                   *)
UnauthorizedLeavesHeads ==
  [][\A e \in Newcomers :
       e.key \in Keys =>
         LET heads == view.keys[e.key].conflict
         IN  /\ heads # {} /\ About(heads) \subseteq e.parents /\ Durable(e.disp)
             /\ \E h \in heads : h.event.scope # e.scope /\ h.stmt # e.stmt
             => Statements(view'.keys[e.key].conflict) = Statements(heads)]_readerVars

(* "A later closed record with the same stable ID retires the earlier open *)
(* record" (reducer.rs). The code lists the open record all the same.      *)
ClosedIsRetired == closed \cap view.open = {}

(* "Code contradicts current Company architecture: conflict, not a silent  *)
(* override" (verification.md). A proposal filed before the accepted rule  *)
(* of the same words speaks for both, and hides the drift.                 *)
DriftIsConflict ==
  \A k \in Keys : \A h \in view.keys[k].current :
    (h.event.store = "company" /\ h.event.scope = "architecture") =>
      ~\E e \in ToSet(log) : /\ e.store = "codebase" /\ Durable(e.disp)
                             /\ \E g \in view.keys[k].lower : e.id \in g.support

(* "Reject ineligible authority, scope and signature events" (architecture *)
(* 6, step 1): a file that is not verified changes no current statement.   *)
RejectedChangesNothing ==
  [][\A e \in Newcomers :
       (e.store = "codebase" /\ Verify(held, e) # "verified" /\ Named(e) = {}) =>
         \A k \in Keys :
           CurrentStatement(view'.keys[k]) = CurrentStatement(view.keys[k])]_readerVars
=============================================================================
