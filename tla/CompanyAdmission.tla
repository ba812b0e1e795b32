-------------------------- MODULE CompanyAdmission --------------------------
(***************************************************************************)
(* Admission into the Company store (kinbased, src/crates/kinbase/src/     *)
(* company/): facts posted by clients, and the steward's registry          *)
(* publications, revocations and rotations, served concurrently over one   *)
(* SQLite database.                                                        *)
(*                                                                         *)
(* A request is served in steps.  Arrive runs the maintenance that prunes  *)
(* nonces and loads the trust state OUTSIDE any transaction; a fact is     *)
(* then Checked against that trust state and the log, and only then does   *)
(* CommitFact open the BEGIN IMMEDIATE transaction.  Everything another    *)
(* connection commits between two steps of a request is seen by the later  *)
(* step and not by the earlier one.                                        *)
(*                                                                         *)
(* A row cursor stands for the transaction that appended the row: the rows *)
(* of one transaction share it.  The code compares the cursors of rows of  *)
(* one transaction only as "registry row, then its revocations", and no    *)
(* comparison changes when the two are equal.                              *)
(***************************************************************************)
EXTENDS Naturals, FiniteSets

CONSTANTS
  Connections,     \* requests in flight at once (MAX_CONNECTIONS)
  Clients,         \* client keys with a token
  Reviewed,        \* the clients whose token has scope questions:write
  Events,          \* canonical fact-event bytes; an event is its own digest
  Header,          \* the parsed fields of each event
  EventIds, FactIds, Keys, Scopes,
  Root,            \* the steward's root key
  ApprovalNonces,  \* nonces an approval token may carry
  Submissions,     \* the fact posts clients send, any number of times
  Identities,      \* (authority_id, scope) rows of the registry
  ScopeOf,         \* the scope of each of them
  StewardDocs,     \* signed registry, revocation and rotation documents
  NonceRetention, MaxClock,
  None

Everywhere == None   \* the scope of a revocation that names none

Kinds == {"fact", "relaxation", "misextraction", "withdrawal"}

Nonces == Events \cup ApprovalNonces

\* An approval without a nonce, and a bare event, are recorded under the digest
Posts == {s \in [doc : Events, client : Clients, nonce : Nonces, approved : BOOLEAN] :
            s.nonce = s.doc \/ (s.approved /\ s.nonce \in ApprovalNonces)}

Headers == [id : EventIds, fact : FactIds, signer : Keys, scope : Scopes,
            kind : Kinds, target : EventIds \cup {None}, signed : BOOLEAN]

RegistryDocs == {d \in StewardDocs : d.kind = "registry"}

ASSUME ConstantsAssumption ==
  /\ Reviewed \subseteq Clients
  /\ Header \in [Events -> Headers]
  /\ Submissions \subseteq Posts
  /\ ScopeOf \in [Identities -> Scopes]
  /\ Root \in Keys
  /\ Events \cap ApprovalNonces = {} /\ Events \cap StewardDocs = {}
  /\ None \notin Scopes \cup EventIds \cup Keys
  /\ NonceRetention \in Nat /\ MaxClock \in Nat
  /\ \A d \in StewardDocs :
        /\ d.kind \in {"registry", "revocation", "rotation"}
        /\ d.signer \in Keys
        /\ d.kind = "registry" => /\ d.cursor \in Nat \ {0}
                                  /\ DOMAIN d.entries \subseteq Identities
                                  /\ \A i \in DOMAIN d.entries : d.entries[i] \in Keys
        /\ d.kind \in {"revocation", "rotation"} => d.key \in Keys

VARIABLES
  clock,             \* the service's wall clock
  cursor,            \* newest row of the events table
  facts,             \* its rows of kind fact-event
  publications,      \* of kind registry
  revocations,       \* of kind revocation
  rotations,         \* of kind rotation
  registry,          \* the registry table
  nonces,            \* the nonces table, destination 'company'
  queue,             \* the steward_queue table
  apologies,         \* apology Unknowns raised, by revoked key and fact
  revocationCursor,  \* meta 'revocation_cursor'
  conns              \* what each connection is doing

tables == <<cursor, facts, publications, revocations, rotations, registry,
            nonces, queue, apologies, revocationCursor>>
vars == <<clock, tables, conns>>

-----------------------------------------------------------------------------
(* The log *)

\* event_cursor(event_id) is Some
IdLogged(e) == \E f \in facts : Header[f.event].id = Header[e].id

\* ... and the logged row holds these very bytes
Logged(e) == \E f \in facts : f.event = e

RowOf(e) == CHOOSE f \in facts : f.event = e

-----------------------------------------------------------------------------
(* Trust, as trust::load derives it from the tables *)

Active(i) == registry[i].status = "active"

\* Bug: any active entry of the key lifts a revocation, older ones too
RelistedByAnyEntry(r) ==
  \E i \in Identities : /\ Active(i)
                        /\ registry[i].key = r.key
                        /\ r.scope \in {Everywhere, ScopeOf[i]}

\* A key the steward republished after revoking it is authorized again; a
\* scope revocation is lifted only by that scope coming back.
Relisted(r) ==
  \E i \in Identities : /\ Active(i)
                        /\ registry[i].key = r.key
                        /\ r.scope \in {Everywhere, ScopeOf[i]}
                        /\ registry[i].cursor > r.cursor

StandingRevocations(k) ==
  {r \in revocations : r.key = k /\ r.scope = Everywhere /\ ~Relisted(r)}

\* The newest revocation, in whatever cursor space it is numbered, is not
\* followed by an active entry at a later registry row.
IsRevoked(k) ==
  \E r \in StandingRevocations(k) :
     \A i \in Identities :
        Active(i) /\ registry[i].key = k => registry[i].cursor <= r.order

IsSteward(k) ==
  /\ k = Root \/ \E r \in rotations : r.doc.key = k
  /\ StandingRevocations(k) = {}

\* What admission goes on to read of the trust state, for one signer
TrustIn(k) ==
  [revoked |-> IsRevoked(k),
   steward |-> IsSteward(k),
   scopes  |-> {ScopeOf[i] : i \in {j \in Identities : Active(j) /\ registry[j].key = k}}]

TrustViews == [revoked : BOOLEAN, steward : BOOLEAN, scopes : SUBSET Scopes]

VerifySigner(e, trust) ==
  CASE ~Header[e].signed -> "SignatureInvalid"
    [] Header[e].signed /\ trust.revoked -> "Revoked"
    [] Header[e].signed /\ ~trust.revoked
         /\ (trust.steward \/ Header[e].scope \in trust.scopes) -> "Verified"
    [] OTHER -> "Unverified"

\* A withdrawal belongs to the steward or to the owner of the target's scope;
\* a relaxation to the steward alone; a misextraction notice to any signer.
LifecycleAuthorized(e, trust) ==
  LET targets == {f \in facts : Header[f.event].id = Header[e].target}
  IN  CASE Header[e].kind = "withdrawal" ->
             trust.steward \/ \E f \in targets : Header[f.event].scope \in trust.scopes
        [] Header[e].kind = "relaxation" -> trust.steward
        [] OTHER -> TRUE

-----------------------------------------------------------------------------
(* Requests *)

Idle == [pc |-> "idle"]

\* `at` is the request's clock reading, `seen` the newest row its trust state
\* was loaded with; `admission` is what the check decided.
FactAnswers == {"none", "committed", "pending-steward-review", "APPROVAL_REPLAY",
                "DIGEST_MISMATCH", "SIGNATURE_INVALID", "AUTHORITY_WRONG_SCOPE"}
StewardAnswers == {"none", "recorded", "APPROVAL_REPLAY", "AUTHORITY_WRONG_SCOPE"}

FactRequests ==
  [pc : {"loaded", "checked", "done"}, doc : Events, client : Clients, nonce : Nonces,
   approved : BOOLEAN, trust : TrustViews, at : 0 .. MaxClock, seen : Nat,
   admission : {"undecided", "committed", "pending-steward-review"},
   answer : FactAnswers]

StewardRequests ==
  [pc : {"loaded", "done"}, doc : StewardDocs, steward : BOOLEAN, seen : Nat,
   answer : StewardAnswers]

Requests == {Idle} \cup FactRequests \cup StewardRequests

IsFact(c) == conns[c].pc # "idle" /\ conns[c].doc \in Events
IsStewardRequest(c) == conns[c].pc # "idle" /\ conns[c].doc \in StewardDocs

Answer(c, text) ==
  conns' = [conns EXCEPT ![c] = [@ EXCEPT !.pc = "done", !.answer = text]]

Init ==
  /\ clock = 0 /\ cursor = 0
  /\ facts = {} /\ publications = {} /\ revocations = {} /\ rotations = {}
  /\ registry = [i \in Identities |-> [status |-> "absent", key |-> None, cursor |-> 0]]
  /\ nonces = [n \in {} |-> None]
  /\ queue = [q \in {} |-> None]
  /\ apologies = {}
  /\ revocationCursor = 0
  /\ conns = [c \in Connections |-> Idle]

Tick ==
  /\ clock < MaxClock
  /\ clock' = clock + 1
  /\ UNCHANGED <<tables, conns>>

\* Maintenance on arrival: DELETE FROM nonces WHERE expires_at <= now
PruneNonces ==
  LET live == {n \in DOMAIN nonces : nonces[n].expires > clock}
  IN  nonces' = [n \in live |-> nonces[n]]

ArriveFact(c) ==
  /\ conns[c] = Idle
  /\ PruneNonces
  /\ \E s \in Submissions :
        conns' = [conns EXCEPT ![c] =
          [pc |-> "loaded", doc |-> s.doc, client |-> s.client, nonce |-> s.nonce,
           approved |-> s.approved, trust |-> TrustIn(Header[s.doc].signer),
           at |-> clock, seen |-> cursor, admission |-> "undecided", answer |-> "none"]]
  /\ UNCHANGED <<clock, cursor, facts, publications, revocations, rotations, registry,
                 queue, apologies, revocationCursor>>

ArriveSteward(c) ==
  /\ conns[c] = Idle
  /\ PruneNonces
  /\ \E d \in StewardDocs :
        conns' = [conns EXCEPT ![c] =
          [pc |-> "loaded", doc |-> d, steward |-> IsSteward(d.signer), seen |-> cursor,
           answer |-> "none"]]
  /\ UNCHANGED <<clock, cursor, facts, publications, revocations, rotations, registry,
                 queue, apologies, revocationCursor>>

-----------------------------------------------------------------------------
(* admit_fact before its transaction *)

\* The path-exists fast path looks for the nonce row of the DIGEST, whatever
\* nonce the request itself carries.
ToOriginalClient(c) ==
  LET e == conns[c].doc
  IN  e \in DOMAIN nonces /\ nonces[e].client = conns[c].client

FastPath(c) ==
  /\ Logged(conns[c].doc)
  /\ Answer(c, IF ToOriginalClient(c) THEN "committed" ELSE "APPROVAL_REPLAY")

\* What admission the signer's standing allows, or the refusal
Decision(c) ==
  LET e == conns[c].doc
      verdict == VerifySigner(e, conns[c].trust)
  IN  CASE verdict = "SignatureInvalid" -> "SIGNATURE_INVALID"
        [] verdict = "Revoked" -> "AUTHORITY_WRONG_SCOPE"
        [] verdict = "Verified" ->
             IF LifecycleAuthorized(e, conns[c].trust) THEN "committed"
                                                       ELSE "AUTHORITY_WRONG_SCOPE"
        [] verdict = "Unverified" ->
             IF conns[c].approved /\ conns[c].client \in Reviewed
             THEN "pending-steward-review" ELSE "AUTHORITY_WRONG_SCOPE"

Admissible == {"committed", "pending-steward-review"}

Judge(c) ==
  /\ ~Logged(conns[c].doc)
  /\ IF Decision(c) \in Admissible
     THEN conns' = [conns EXCEPT ![c] = [@ EXCEPT !.pc = "checked", !.admission = Decision(c)]]
     ELSE Answer(c, Decision(c))

\* Bug: no fast path, the signer's present standing decides every retry
CheckStandingOnly(c) ==
  /\ IsFact(c) /\ conns[c].pc = "loaded"
  /\ IF Decision(c) \in Admissible
     THEN conns' = [conns EXCEPT ![c] = [@ EXCEPT !.pc = "checked", !.admission = Decision(c)]]
     ELSE Answer(c, Decision(c))
  /\ UNCHANGED <<clock, tables>>

CheckFact(c) ==
  /\ IsFact(c) /\ conns[c].pc = "loaded"
  /\ FastPath(c) \/ Judge(c)
  /\ UNCHANGED <<clock, tables>>

-----------------------------------------------------------------------------
(* The admission transaction *)

Awaiting(n) == nonces[n].status = "pending-steward-review"

\* Bug: the record is matched by client alone
SameClient(c) == nonces[conns[c].nonce].client = conns[c].client

SameBinding(c) ==
  LET n == conns[c].nonce
  IN  nonces[n].doc = conns[c].doc /\ nonces[n].client = conns[c].client

\* A submission that waited for a steward is admitted by its own retry once
\* its signer has become an authority.
AdmitNow(c) ==
  /\ conns[c].nonce \in DOMAIN nonces
  /\ SameBinding(c)
  /\ Awaiting(conns[c].nonce)
  /\ ~IdLogged(conns[c].doc)
  /\ conns[c].admission = "committed"

\* The nonce row is there: its stored receipt, or a refusal
ReplayNonce(c) ==
  LET n == conns[c].nonce
  IN  /\ n \in DOMAIN nonces
      /\ ~AdmitNow(c)
      /\ Answer(c, IF ~SameBinding(c) THEN "APPROVAL_REPLAY"
                   ELSE IF Awaiting(n) /\ ~IdLogged(conns[c].doc)
                        THEN "pending-steward-review" ELSE "committed")
      /\ UNCHANGED tables

Proceeds(c) == conns[c].nonce \notin DOMAIN nonces \/ AdmitNow(c)

\* Bug: the reservation is left in place of the receipt
StoreReservation(c, status, row) ==
  nonces' = [m \in DOMAIN nonces \cup {conns[c].nonce} |->
               IF m = conns[c].nonce
               THEN [doc |-> conns[c].doc, client |-> conns[c].client,
                     expires |-> conns[c].at + NonceRetention, status |-> "reserved", row |-> row]
               ELSE nonces[m]]

\* INSERT OR IGNORE reserves the nonce, UPDATE stores the receipt in it
StoreReceipt(c, status, row) ==
  LET n == conns[c].nonce
      expires == IF n \in DOMAIN nonces THEN nonces[n].expires
                                        ELSE conns[c].at + NonceRetention
  IN  nonces' = [m \in DOMAIN nonces \cup {n} |->
                   IF m = n THEN [doc |-> conns[c].doc, client |-> conns[c].client,
                                  expires |-> expires, status |-> status, row |-> row]
                            ELSE nonces[m]]

\* Bug: a row under the same event id is taken for the same bytes
AdmitSameId(c) ==
  /\ Proceeds(c)
  /\ IdLogged(conns[c].doc)
  /\ LET f == CHOOSE g \in facts : Header[g.event].id = Header[conns[c].doc].id
     IN  StoreReceipt(c, "committed", f.cursor)
  /\ Answer(c, "committed")
  /\ UNCHANGED <<cursor, facts, publications, revocations, rotations, registry, queue,
                 apologies, revocationCursor>>

\* Another connection admitted the event, or other bytes under its id, since
\* the check.  A mismatch rolls the reservation back.
AdmitExisting(c) ==
  /\ Proceeds(c)
  /\ IdLogged(conns[c].doc)
  /\ IF Logged(conns[c].doc)
     THEN StoreReceipt(c, "committed", RowOf(conns[c].doc).cursor) /\ Answer(c, "committed")
     ELSE UNCHANGED nonces /\ Answer(c, "DIGEST_MISMATCH")
  /\ UNCHANGED <<cursor, facts, publications, revocations, rotations, registry, queue,
                 apologies, revocationCursor>>

\* Bug: admission leaves the queue row another submission made
Unresolved(id) == queue

\* resolve_steward_queue
Resolved(id) == [q \in DOMAIN queue |-> IF q = id THEN [queue[q] EXCEPT !.status = "admitted"]
                                                   ELSE queue[q]]

\* Bug: the transaction relies on the look-up made before it began
AdmitUnseen(c) ==
  /\ Proceeds(c)
  /\ conns[c].admission = "committed"
  /\ cursor' = cursor + 1
  /\ facts' = facts \cup {[cursor |-> cursor + 1, event |-> conns[c].doc,
                           client |-> conns[c].client,
                           nonce |-> conns[c].nonce, seen |-> conns[c].seen]}
  /\ queue' = Resolved(Header[conns[c].doc].id)
  /\ StoreReceipt(c, "committed", cursor + 1)
  /\ Answer(c, "committed")
  /\ UNCHANGED <<publications, revocations, rotations, registry, apologies, revocationCursor>>

\* `nonce` and `seen` of a fact row are history the table does not hold
AdmitCommitted(c) ==
  /\ Proceeds(c)
  /\ ~IdLogged(conns[c].doc)
  /\ conns[c].admission = "committed"
  /\ cursor' = cursor + 1
  /\ facts' = facts \cup {[cursor |-> cursor + 1, event |-> conns[c].doc,
                           client |-> conns[c].client,
                           nonce |-> conns[c].nonce, seen |-> conns[c].seen]}
  /\ queue' = Resolved(Header[conns[c].doc].id)
  /\ StoreReceipt(c, "committed", cursor + 1)
  /\ Answer(c, "committed")
  /\ UNCHANGED <<publications, revocations, rotations, registry, apologies, revocationCursor>>

\* Bug: the receipt is stored, the queue row is not
AdmitUnqueued(c) ==
  /\ Proceeds(c)
  /\ ~IdLogged(conns[c].doc)
  /\ conns[c].admission = "pending-steward-review"
  /\ StoreReceipt(c, "pending-steward-review", 0)
  /\ Answer(c, "pending-steward-review")
  /\ UNCHANGED <<cursor, facts, publications, revocations, rotations, registry, queue,
                 apologies, revocationCursor>>

\* queue_for_steward: INSERT OR IGNORE by event id
AdmitPending(c) ==
  LET id == Header[conns[c].doc].id
  IN  /\ Proceeds(c)
      /\ ~IdLogged(conns[c].doc)
      /\ conns[c].admission = "pending-steward-review"
      /\ queue' = IF id \in DOMAIN queue THEN queue
                  ELSE [q \in DOMAIN queue \cup {id} |->
                          IF q = id THEN [doc |-> conns[c].doc, status |-> "pending-steward-review"]
                                    ELSE queue[q]]
      /\ StoreReceipt(c, "pending-steward-review", 0)
      /\ Answer(c, "pending-steward-review")
      /\ UNCHANGED <<cursor, facts, publications, revocations, rotations, registry,
                     apologies, revocationCursor>>

CommitFact(c) ==
  /\ IsFact(c) /\ conns[c].pc = "checked"
  /\ ReplayNonce(c) \/ AdmitExisting(c) \/ AdmitCommitted(c) \/ AdmitPending(c)
  /\ UNCHANGED clock

-----------------------------------------------------------------------------
(* Registry publication, explicit revocation, rotation *)

Published(d) == \E p \in publications : p.doc = d

\* published_registry: the newest publication
IsCurrent(p) == \A q \in publications : q.cursor <= p.cursor

\* Bug: newer than some publication, not than the current one
AdvancesPastAny(d) ==
  publications = {} \/ \E p \in publications : d.cursor > p.doc.cursor

Advances(d) == \A p \in publications : IsCurrent(p) => d.cursor > p.doc.cursor

ListedKeys(d) == {d.entries[i] : i \in DOMAIN d.entries}

OmittedEntries(d) == {i \in Identities : Active(i) /\ i \notin DOMAIN d.entries}

\* Bug: only omitted entries lose their key, not entries given another key
OmittedKeys(d) == {registry[i].key : i \in OmittedEntries(d)} \ ListedKeys(d)

\* The keys and the scopes of still listed keys that publishing d drops (R-10)
LostKeys(d) == {registry[i].key : i \in {j \in Identities : Active(j)}} \ ListedKeys(d)

LostScopes(d) ==
  {<<registry[i].key, ScopeOf[i]>> : i \in {j \in Identities :
     /\ Active(j)
     /\ registry[j].key \in ListedKeys(d)
     /\ \A l \in DOMAIN d.entries : ~(d.entries[l] = registry[j].key /\ ScopeOf[l] = ScopeOf[j])}}

\* Bug: entries the document omits stay active
Upserted(d) ==
  [i \in Identities |->
     IF i \in DOMAIN d.entries
     THEN [status |-> "active", key |-> d.entries[i], cursor |-> cursor + 1] ELSE registry[i]]

\* The registry table once d is published: listed entries are upserted, omitted
\* ones retired.
Republished(d) ==
  [i \in Identities |->
     IF i \in DOMAIN d.entries
     THEN [status |-> "active", key |-> d.entries[i], cursor |-> cursor + 1]
     ELSE IF i \in OmittedEntries(d)
          THEN [status |-> "revoked", key |-> registry[i].key, cursor |-> cursor + 1]
          ELSE registry[i]]

\* Bug: a key revocation is treated as one of a scope
WarrantedInScope(k, scope) ==
  {[key |-> k, fact |-> Header[f.event].fact] : f \in {g \in facts :
     Header[g.event].signer = k /\ scope = Header[g.event].scope}}

\* revocation_cascade: one apology Unknown for each fact the key warranted
Warranted(k, scope) ==
  {[key |-> k, fact |-> Header[f.event].fact] : f \in {g \in facts :
     Header[g.event].signer = k /\ scope \in {Everywhere, Header[g.event].scope}}}

Revocation(k, scope, order, d) ==
  [cursor |-> cursor + 1, key |-> k, scope |-> scope, order |-> order, doc |-> d]

PublishNew(c) ==
  LET d == conns[c].doc
      row == cursor + 1
      lost == {<<k, Everywhere>> : k \in LostKeys(d)} \cup LostScopes(d)
  IN  /\ ~Published(d) /\ Advances(d)
      /\ cursor' = row
      /\ publications' = publications \cup {[cursor |-> row, doc |-> d]}
      /\ registry' = Republished(d)
      /\ revocations' = revocations \cup {Revocation(l[1], l[2], d.cursor, d) : l \in lost}
      /\ apologies' = apologies \cup UNION {Warranted(l[1], l[2]) : l \in lost}
      /\ revocationCursor' = IF lost # {} \/ OmittedEntries(d) # {} THEN row ELSE revocationCursor
      /\ Answer(c, "recorded")
      /\ UNCHANGED <<facts, rotations, nonces, queue>>

\* The current document again answers its receipt; anything older refuses.
PublishOld(c) ==
  LET d == conns[c].doc
  IN  /\ Published(d) \/ ~Advances(d)
      /\ Answer(c, IF \E p \in publications : p.doc = d /\ IsCurrent(p)
                   THEN "recorded" ELSE "APPROVAL_REPLAY")
      /\ UNCHANGED tables

\* Posting the same document again appends nothing, but runs the cascade again
\* at the cursor the request's trust state was loaded with.
Revoke(c) ==
  LET d == conns[c].doc
      again == \E r \in revocations : r.doc = d
      row == IF again THEN conns[c].seen ELSE cursor + 1
  IN  /\ d.kind = "revocation"
      /\ cursor' = IF again THEN cursor ELSE cursor + 1
      /\ revocations' = IF again THEN revocations
                        ELSE revocations \cup {Revocation(d.key, Everywhere, cursor + 1, d)}
      /\ revocationCursor' = row
      /\ apologies' = apologies \cup Warranted(d.key, Everywhere)
      /\ Answer(c, "recorded")
      /\ UNCHANGED <<facts, publications, rotations, registry, nonces, queue>>

Rotate(c) ==
  LET d == conns[c].doc
      again == \E r \in rotations : r.doc = d
  IN  /\ d.kind = "rotation"
      /\ cursor' = IF again THEN cursor ELSE cursor + 1
      /\ rotations' = IF again THEN rotations
                      ELSE rotations \cup {[cursor |-> cursor + 1, doc |-> d]}
      /\ Answer(c, "recorded")
      /\ UNCHANGED <<facts, publications, revocations, registry, nonces, queue, apologies,
                     revocationCursor>>

\* verify_steward_document against the trust state loaded on arrival
ServeSteward(c) ==
  /\ IsStewardRequest(c) /\ conns[c].pc = "loaded"
  /\ \/ ~conns[c].steward /\ Answer(c, "AUTHORITY_WRONG_SCOPE") /\ UNCHANGED tables
     \/ /\ conns[c].steward
        /\ \/ conns[c].doc.kind = "registry" /\ (PublishNew(c) \/ PublishOld(c))
           \/ Revoke(c)
           \/ Rotate(c)
  /\ UNCHANGED clock

\* The answer is delivered, or the connection or the process is lost: an open
\* transaction rolls back, committed ones stay.
Release(c) ==
  /\ conns[c].pc # "idle"
  /\ conns' = [conns EXCEPT ![c] = Idle]
  /\ UNCHANGED <<clock, tables>>

Next ==
  \/ Tick
  \/ \E c \in Connections :
        \/ ArriveFact(c) \/ CheckFact(c) \/ CommitFact(c)
        \/ ArriveSteward(c) \/ ServeSteward(c)
        \/ Release(c)

Spec == Init /\ [][Next]_vars

-----------------------------------------------------------------------------
(* Properties *)

FactRows == [cursor : Nat, event : Events, client : Clients, nonce : Nonces, seen : Nat]
RevocationRows == [cursor : Nat, key : Keys, scope : Scopes \cup {Everywhere}, order : Nat,
                   doc : StewardDocs]
StewardRows == [cursor : Nat, doc : StewardDocs]
AbsentEntries == [status : {"absent"}, key : {None}, cursor : {0}]
HeldEntries == [status : {"active", "revoked"}, key : Keys, cursor : Nat]
RegistryEntries == AbsentEntries \cup HeldEntries
NonceRecords == [doc : Events, client : Clients, expires : Nat,
                 status : {"committed", "pending-steward-review"}, row : Nat]
QueueRows == [doc : Events, status : {"pending-steward-review", "admitted"}]

\* Every table holds rows of its own shape.
TypeOK ==
  /\ clock \in 0 .. MaxClock
  /\ cursor \in Nat
  /\ facts \subseteq FactRows
  /\ publications \subseteq [cursor : Nat, doc : RegistryDocs]
  /\ revocations \subseteq RevocationRows
  /\ rotations \subseteq StewardRows
  /\ registry \in [Identities -> RegistryEntries]
  /\ DOMAIN nonces \subseteq Nonces /\ nonces \in [DOMAIN nonces -> NonceRecords]
  /\ DOMAIN queue \subseteq EventIds /\ queue \in [DOMAIN queue -> QueueRows]
  /\ apologies \subseteq [key : Keys, fact : FactIds]
  /\ revocationCursor \in Nat
  /\ conns \in [Connections -> Requests]

\* An event id is admitted once, however many requests carrying it (with the
\* same bytes or with others, under one nonce or several) passed the check
\* before the first of them committed (UNIQUE event_id, and the look-up inside
\* the transaction).
AdmittedOnce ==
  \A f, g \in facts : Header[f.event].id = Header[g.event].id \/ f.cursor = g.cursor => f = g

\* A stored committed receipt names the log row that holds its own bytes.
ReceiptsAreBacked ==
  \A n \in DOMAIN nonces : nonces[n].status = "committed" =>
     \E f \in facts : f.event = nonces[n].doc /\ f.cursor = nonces[n].row

\* The steward is never asked to review what is already in the log: whichever
\* request admits an event also settles a queue row another request left.
QueueIsSettled ==
  \A q \in DOMAIN queue : queue[q].status = "pending-steward-review" =>
     \A f \in facts : Header[f.event].id # q

\* A client told "pending" is not forgotten: its event id is queued or logged.
PendingIsQueuedOrLogged ==
  \A n \in DOMAIN nonces : Awaiting(n) =>
     Header[nonces[n].doc].id \in DOMAIN queue \/ IdLogged(nonces[n].doc)

\* While its row lives, a consumed nonce keeps the bytes and the client it was
\* first bound to, and a committed receipt is never taken back.
NonceKeepsItsBinding ==
  [][\A n \in DOMAIN nonces \cap DOMAIN nonces' :
        /\ nonces'[n].doc = nonces[n].doc /\ nonces'[n].client = nonces[n].client
        /\ nonces[n].status = "committed" => nonces'[n].status = "committed"]_vars

\* A client that posted bare bytes and committed them gets its receipt again as
\* long as the nonce row is retained, whatever was admitted or revoked since.
BareRetryIsAnswered ==
  [][\A c \in Connections :
        /\ IsFact(c) /\ conns'[c].pc = "done" /\ conns[c].pc # "done"
        /\ conns[c].nonce = conns[c].doc
        /\ conns[c].doc \in DOMAIN nonces
        /\ SameBinding(c) /\ nonces[conns[c].doc].status = "committed"
        => conns'[c].answer = "committed"]_vars

\* Publication only moves the registry forward: authority cursors increase with
\* the service's own row cursors, whichever documents are replayed or raced.
RegistryMovesForward ==
  \A p, q \in publications : p.cursor < q.cursor => p.doc.cursor < q.doc.cursor

\* The registry's active entries are exactly those of the current document.
RegistryIsCurrentDocument ==
  \A p \in publications : IsCurrent(p) =>
     \A i \in Identities :
        IF i \in DOMAIN p.doc.entries
        THEN Active(i) /\ registry[i].key = p.doc.entries[i]
        ELSE ~Active(i)

ListsKey(p, k) == k \in ListedKeys(p.doc)

\* A key some publication listed and the current one does not is revoked; a key
\* the current one lists is not, unless a revocation came after it.
DroppedKeysAreRevoked ==
  \A p \in publications : IsCurrent(p) =>
     \A k \in Keys :
        IF ListsKey(p, k)
        THEN IsRevoked(k) => \E r \in revocations : r.key = k /\ r.cursor > p.cursor
        ELSE (\E q \in publications : ListsKey(q, k)) => IsRevoked(k)

RevokedAt(k, row) ==
  \E r \in revocations :
     /\ r.key = k /\ r.scope = Everywhere /\ r.cursor <= row
     /\ \A p \in publications : ListsKey(p, k) => ~(r.cursor < p.cursor /\ p.cursor <= row)

\* No fact is admitted for a request that arrived after its signer was revoked.
ArrivedBeforeRevocation ==
  \A f \in facts : ~RevokedAt(Header[f.event].signer, f.seen)

\* Every fact a key had warranted when it was revoked, everywhere or in one
\* scope, is covered by an apology Unknown.
CascadeIsComplete ==
  \A r \in revocations, f \in facts :
     /\ Header[f.event].signer = r.key /\ f.cursor < r.cursor
     /\ r.scope \in {Everywhere, Header[f.event].scope}
     => [key |-> r.key, fact |-> Header[f.event].fact] \in apologies

\* Of the log: one row to an event id, and behind every committed receipt.
LogIsSound == AdmittedOnce /\ ReceiptsAreBacked

\* Of the steward's queue: it holds what still waits, and only that.
NothingIsForgotten == QueueIsSettled /\ PendingIsQueuedOrLogged

\* Of the nonces: a retry finds what its first attempt was told.
RetriesAreAnswered == NonceKeepsItsBinding /\ BareRetryIsAnswered

\* Of a revocation: it stops what arrives after it, and it reaches back to
\* everything the key had warranted.
RevocationReaches == ArrivedBeforeRevocation /\ CascadeIsComplete

\* Of the registry: who may sign is who the newest document and the revocations
\* after it say.
RegistryIsFollowed == RegistryIsCurrentDocument /\ DroppedKeysAreRevoked

-----------------------------------------------------------------------------
(* What the documentation says and the code does not do: in no run *)

\* "Post-revocation events refuse" (spec/architecture.md): no fact is logged
\* after its signer's revocation.
PostRevocationEventsRefuse ==
  \A f \in facts : ~RevokedAt(Header[f.event].signer, f.cursor)

\* "A matching authorized committed retry returns the stored historical
\* receipt": also when the approval carried a nonce of its own.
CommittedRetryReturnsReceipt ==
  [][\A c \in Connections :
        /\ IsFact(c) /\ conns'[c].pc = "done" /\ conns[c].pc # "done"
        /\ conns[c].nonce \in DOMAIN nonces
        /\ SameBinding(c) /\ nonces[conns[c].nonce].status = "committed"
        => conns'[c].answer = "committed"]_vars

\* Admitted bytes are "answered with the historical receipt, and only to the
\* client that admitted them".
ReceiptOnlyToAdmitter ==
  \A c \in Connections :
     IsFact(c) /\ conns[c].pc = "done" /\ conns[c].answer = "committed" =>
        \A f \in facts : f.event = conns[c].doc => f.client = conns[c].client

\* A waiting submission is answered as "committed once the event is in the log".
CommittedAnswerIsInTheLog ==
  \A c \in Connections :
     IsFact(c) /\ conns[c].pc = "done" /\ conns[c].answer = "committed" =>
        Logged(conns[c].doc)

\* "A nonce absent after that horizon is ... never eligible as fresh": no two
\* events are ever admitted under one nonce.
ConsumedNonceIsNeverFresh ==
  \A f, g \in facts : f.nonce = g.nonce => f = g

\* "monotonic cursors": the revocation cursor the service publishes never
\* goes back.
RevocationCursorAdvances == [][revocationCursor' >= revocationCursor]_vars
=============================================================================
