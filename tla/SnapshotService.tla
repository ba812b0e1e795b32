---------------------------- MODULE SnapshotService ----------------------------
(***************************************************************************)
(* How kinbased answers GET /snapshot and GET /facts: a request captures   *)
(* its instant, loads the trust state in several statements, takes the     *)
(* reduced view from a cache shared by all requests or builds it, and      *)
(* answers with the content or with a receipt that the content the client  *)
(* offered is still Company's answer. Other requests commit meanwhile.     *)
(*                                                                         *)
(* The reduction itself is modelled in Reduction; here a fact is current   *)
(* when its key is not revoked and the instant lies in its validity. A     *)
(* digest is its content.                                                  *)
(***************************************************************************)
EXTENDS Naturals, FiniteSets, Sequences, SequencesExt

CONSTANTS
    Readers,       \* requests under way at once
    Repositories,  \* repositories that ask for their direction
    Keys,          \* signing keys of the authority registry
    Facts,         \* facts that may be admitted: [key, governs, from, until]
    Anywhere,      \* what a fact governs that names no path
    MaxTraffic,    \* bound: instants, rows and side-table changes together
    MaxAsks,       \* bound: requests
    ViewSlots,     \* SLOTS
    MemoCap,       \* MAX_CONTENT_DIGESTS
    Assemblies,    \* MAX_CONCURRENT_SNAPSHOTS
    EventLimit     \* SNAPSHOT_EVENT_LIMIT

ASSUME LimitsAssumption ==
    /\ {MaxTraffic, MaxAsks} \subseteq Nat
    /\ {MemoCap, Assemblies, EventLimit} \subseteq Nat \ {0}
    /\ ViewSlots \in Nat \ {0, 1}  \* one for the clock, one for another instant
ASSUME FactsAssumption ==
    /\ Anywhere \notin Repositories
    /\ \A f \in Facts : /\ f.key \in Keys /\ f.governs \in Repositories \cup {Anywhere}
                        /\ f.from \in Nat /\ f.until \in Nat

VARIABLES
    now,       \* the service's clock
    log,       \* the events; the position of a row is its cursor
    side,      \* how often fact versions or audited refusals were added
    views,     \* ViewCache.entries: reductions with their digest memo
    req,       \* each reader's request
    taken,     \* the content a client of the repository took last
    asks       \* how many requests were made

serviceVars == <<now, log, side, views, req, taken, asks>>

NoContent == [facts |-> {}]

----------------------------------------------------------------------------
(* The log, the trust state and the reduction *)

\* The log as it was when it had n rows.
LogTo(n) == SubSeq(log, 1, n)

RowsOf(rows, kind) == {i \in 1..Len(rows) : rows[i].kind = kind}

\* The registry table: it is written in the transaction that appends the
\* publication, so the log up to a row determines it.
RegistryOf(rows) ==
    [k \in Keys |->
        LET entries == {i \in RowsOf(rows, "registry") : rows[i].key = k}
        IN IF entries = {} THEN [status |-> "active", cursor |-> 0]
           ELSE LET last == Max(entries) IN [status |-> rows[last].status, cursor |-> last]]

\* Keys with a revocation among the rows that no later publication lifts, as the
\* registry reads in reg.
Revoked(rows, reg) ==
    {k \in Keys : \E i \in RowsOf(rows, "revocation") :
        rows[i].key = k /\ ~(reg[k].status = "active" /\ reg[k].cursor > i)}

IsCurrent(f, revoked, at) == f.key \notin revoked /\ f.from <= at /\ at < f.until

Current(rows, revoked, at) == {i \in RowsOf(rows, "fact") : IsCurrent(rows[i].fact, revoked, at)}

GovernedBy(rows, set, repo) == {i \in set : rows[i].fact.governs \in {repo, Anywhere}}

\* The newest fact events up to the limit, none when some were left out.
EventWindow(rows) ==
    IF Cardinality(RowsOf(rows, "fact")) > EventLimit
    THEN [rows |-> {}, omitted |-> Cardinality(RowsOf(rows, "fact")) - EventLimit]
    ELSE [rows |-> RowsOf(rows, "fact"), omitted |-> 0]

\* What a snapshot for the repository holds, apart from when it was answered.
SnapshotOf(rows, repo, reg, revoked, sideRead, at) ==
    [facts |-> GovernedBy(rows, Current(rows, revoked, at), repo),
     events |-> EventWindow(rows),
     registry |-> reg,
     revoked |-> revoked,
     side |-> sideRead]

\* What a client makes of a snapshot: it reduces the events when they are
\* all there and takes Company's own facts otherwise.
ClientReading(content, at) ==
    IF content.events.omitted = 0
    THEN {i \in content.events.rows : IsCurrent(log[i].fact, content.revoked, at)}
    ELSE content.facts

----------------------------------------------------------------------------
(* The view cache *)

Boundaries(rows) ==
    UNION {{rows[i].fact.from, rows[i].fact.until} : i \in RowsOf(rows, "fact")}

\* No boundary lies in the half-open interval between the two instants.
HoldsAt(v, at) ==
    \A b \in v.boundaries : ~(Min({at, v.at}) < b /\ b <= Max({at, v.at}))

\* Bug: the cursor alone names the trust a reduction used.
CursorKey(q) == [cursor |-> q.cursor]

ViewKey(q) == [cursor |-> q.cursor, registry |-> q.registry, revoked |-> q.revoked]

Hits(key, at) == {j \in 1..Len(views) : views[j].key = key /\ HoldsAt(views[j], at)}

\* The entries of the log and trust state that a key names.
OfKey(key) ==
    LET kept[n \in 0..Len(views)] ==
          IF n = 0 THEN <<>>
          ELSE IF views[n].key = key THEN Append(kept[n - 1], views[n]) ELSE kept[n - 1]
    IN kept[Len(views)]

\* Bug: the oldest entry makes room, whichever instant it holds at.
RememberEvictingOldest(v, at) ==
    LET kept == OfKey(v.key)
    IN Append(IF Len(kept) >= ViewSlots THEN Tail(kept) ELSE kept, v)

\* The first entry that does not hold at an instant, or the first of all.
Victim(kept, at) ==
    LET away == {j \in 1..Len(kept) : ~HoldsAt(kept[j], at)}
    IN IF away = {} THEN 1 ELSE Min(away)

\* Entries of another log or trust state go; past the slots one makes room that
\* does not hold at the service's clock.
Remember(v, at) ==
    LET kept == OfKey(v.key)
    IN Append(IF Len(kept) >= ViewSlots THEN RemoveAt(kept, Victim(kept, at)) ELSE kept, v)

\* The digest memo of an entry: content keys with the content remembered for
\* them, the oldest first.
Recalled(v, key) == {v.memo[j].content : j \in {i \in 1..Len(v.memo) : v.memo[i].key = key}}

RememberDigest(v, key, content) ==
    LET pair == [key |-> key, content |-> content]
    IN IF Recalled(v, key) # {}
       THEN [v EXCEPT !.memo = [j \in 1..Len(v.memo) |->
                                  IF v.memo[j].key = key THEN pair ELSE v.memo[j]]]
       ELSE [v EXCEPT !.memo = Append(IF Len(v.memo) >= MemoCap
                                      THEN Tail(v.memo) ELSE v.memo, pair)]

\* The reduction of an entry, without what it remembers.
Bare(v) == [key |-> v.key, revoked |-> v.revoked, at |-> v.at, rows |-> v.rows,
            boundaries |-> v.boundaries]

\* The cached entries that are the one the request holds.
Shared(q) == {j \in 1..Len(views) : Bare(views[j]) = q.view}

ContentKey(q) == [repo |-> q.repo, side |-> side]

----------------------------------------------------------------------------
(* Requests *)

Idle == [pc |-> "idle"]

ServiceInit ==
    /\ now = 0 /\ log = <<>> /\ side = 0 /\ asks = 0 /\ views = <<>>
    /\ req = [r \in Readers |-> Idle]
    /\ taken = [p \in Repositories |-> NoContent]

Goes(r, q) == req' = [req EXCEPT ![r] = q]

\* What a request has not read yet.
NotYet == [unread |-> TRUE]

\* handle: the instant is captured, then trust::load reads the registry table
\* and the revocation events.
Ask(r, route, repo, known, at) ==
    /\ req[r] = Idle /\ asks < MaxAsks
    /\ asks' = asks + 1
    /\ Goes(r, [pc |-> "cursor", route |-> route, repo |-> repo, known |-> known, at |-> at,
                now |-> now, baseRows |-> Len(log), baseSide |-> side,
                registry |-> RegistryOf(log), revoked |-> Revoked(log, RegistryOf(log)),
                cursor |-> 0, view |-> NotYet, key |-> NotYet,
                kind |-> "none", content |-> NoContent, revocationCursor |-> 0])
    /\ UNCHANGED <<now, log, side, views, taken>>

AskSnapshot(r) ==
    \E repo \in Repositories : \E known \in {NoContent, taken[repo]} :
        Ask(r, "snapshot", repo, known, now)

AskFacts(r) == \E at \in 0..now : Ask(r, "facts", Anywhere, NoContent, at)

\* The cursor is read last, after other requests may have committed.
LoadCursor(r) ==
    /\ req[r].pc = "cursor"
    /\ Goes(r, [req[r] EXCEPT !.pc = "view", !.cursor = Len(log)])
    /\ UNCHANGED <<now, log, side, views, taken, asks>>

\* /facts answers from the view alone; /snapshot goes on to its content.
WithView(r, v) ==
    IF req[r].route = "facts"
    THEN Goes(r, [req[r] EXCEPT !.pc = "answered", !.kind = "facts",
                                !.content = Current(LogTo(v.rows), v.revoked, v.at)])
    ELSE Goes(r, [req[r] EXCEPT !.pc = "key", !.view = Bare(v)])

Built(q) ==
    [key |-> ViewKey(q), revoked |-> q.revoked, at |-> q.at, rows |-> Len(log),
     boundaries |-> Boundaries(log), memo |-> <<>>]

\* ViewCache::read: a hit is shared; a miss rebuilds under the rebuild lock,
\* from the log as it is then. The lookup is repeated under the lock, so the
\* read is one step.
ReadView(r) ==
    LET hits == Hits(ViewKey(req[r]), req[r].at)
    IN /\ req[r].pc = "view"
       /\ \/ /\ hits # {}
             /\ WithView(r, views[Min(hits)])
             /\ UNCHANGED views
          \/ /\ hits = {}
             /\ views' = Remember(Built(req[r]), req[r].now)
             /\ WithView(r, Built(req[r]))
       /\ UNCHANGED <<now, log, side, taken, asks>>

\* The cursor of the last revocation, as the meta row names it.
RevocationCursor == Max({0} \cup RowsOf(log, "revocation"))

\* A signed answer names what it vouches for and the revocation cursor.
Sign(r, kind, content) ==
    Goes(r, [req[r] EXCEPT !.pc = "answered", !.kind = kind, !.content = content,
                           !.revocationCursor = RevocationCursor])

Assembling == {r \in Readers : req[r].pc = "assemble"}

\* The digest offered is the one remembered for the content key.
IsRemembered(q) ==
    /\ q.known # NoContent
    /\ \E j \in Shared(q) : q.known \in Recalled(views[j], ContentKey(q))

AnswerUnchanged(r) ==
    /\ req[r].pc = "key" /\ IsRemembered(req[r])
    /\ Sign(r, "receipt", req[r].known)
    /\ UNCHANGED <<now, log, side, views, taken, asks>>

\* Past the ceiling of assemblies a snapshot is refused, not queued.
StartAssembly(r) ==
    /\ req[r].pc = "key" /\ ~IsRemembered(req[r])
    /\ IF Cardinality(Assembling) < Assemblies
       THEN Goes(r, [req[r] EXCEPT !.pc = "assemble", !.key = ContentKey(req[r])])
       ELSE Goes(r, [req[r] EXCEPT !.pc = "answered", !.kind = "refused"])
    /\ UNCHANGED <<now, log, side, views, taken, asks>>

\* Facts, events and revocations come from the view and the loaded trust, the
\* side tables are read now; a digest the client offered gets a receipt.
Assemble(r) ==
    LET q == req[r]
        content == SnapshotOf(LogTo(q.view.rows), q.repo, q.registry, q.view.revoked,
                              side, q.view.at)
    IN /\ q.pc = "assemble"
       /\ views' = [j \in 1..Len(views) |->
                      IF j \in Shared(q) THEN RememberDigest(views[j], q.key, content)
                                         ELSE views[j]]
       /\ Sign(r, IF q.known = content THEN "receipt" ELSE "snapshot", content)
       /\ UNCHANGED <<now, log, side, taken, asks>>

\* The answer reaches its client, or the client has given up.
Deliver(r) ==
    /\ req[r].pc = "answered"
    /\ Goes(r, Idle)
    /\ \/ UNCHANGED taken
       \/ /\ req[r].kind = "snapshot"
          /\ taken' = [taken EXCEPT ![req[r].repo] = req[r].content]
    /\ UNCHANGED <<now, log, side, views, asks>>

----------------------------------------------------------------------------
(* What other requests commit *)

Traffic == now + side + Len(log)

CommitRows(rows) ==
    /\ Traffic + Len(rows) <= MaxTraffic
    /\ log' = log \o rows
    /\ UNCHANGED <<now, side, views, req, taken, asks>>

IsActive(k) == /\ RegistryOf(log)[k].status = "active"
               /\ k \notin Revoked(log, RegistryOf(log))

Admit(f) == IsActive(f.key) /\ CommitRows(<<[kind |-> "fact", fact |-> f]>>)

\* An explicit revocation appends its event and leaves the registry alone.
Revoke(k) == IsActive(k) /\ CommitRows(<<[kind |-> "revocation", key |-> k]>>)

\* A publication that no longer lists the key retires its entry and revokes it.
Delist(k) ==
    /\ IsActive(k)
    /\ CommitRows(<<[kind |-> "registry", key |-> k, status |-> "revoked"],
                    [kind |-> "revocation", key |-> k]>>)

Relist(k) == ~IsActive(k) /\ CommitRows(<<[kind |-> "registry", key |-> k, status |-> "active"]>>)

\* A version row or an audited refusal lands without an event.
TouchSide ==
    /\ Traffic < MaxTraffic
    /\ side' = side + 1
    /\ UNCHANGED <<now, log, views, req, taken, asks>>

ClockMoves ==
    /\ Traffic < MaxTraffic
    /\ now' = now + 1
    /\ UNCHANGED <<log, side, views, req, taken, asks>>

ServiceNext ==
    \/ \E r \in Readers :
        \/ AskSnapshot(r) \/ AskFacts(r) \/ LoadCursor(r)
        \/ ReadView(r) \/ AnswerUnchanged(r) \/ StartAssembly(r) \/ Assemble(r) \/ Deliver(r)
    \/ \E f \in Facts : Admit(f)
    \/ \E k \in Keys : Revoke(k) \/ Delist(k) \/ Relist(k)
    \/ TouchSide
    \/ ClockMoves

ServiceSpec == ServiceInit /\ [][ServiceNext]_serviceVars

----------------------------------------------------------------------------
(* Properties *)

ServiceTypeOK ==
    /\ {now, side} \subseteq Nat /\ Traffic <= MaxTraffic /\ asks \in 0..MaxAsks
    /\ Len(views) <= ViewSlots
    /\ \A j \in 1..Len(views) : Len(views[j].memo) <= MemoCap
    /\ Cardinality(Assembling) <= Assemblies
    /\ DOMAIN req = Readers /\ DOMAIN taken = Repositories

Answered(kinds) == {r \in Readers : req[r].pc = "answered" /\ req[r].kind \in kinds}

\* Every answer is one a service without caches could have given: content and
\* receipt alike vouch for what the trust tables, then the log and the side
\* tables read at some moment after the instant the answer is issued at. No
\* hit, memo or receipt passes older state on.
AnswersAreFresh ==
    \A r \in Answered({"snapshot", "receipt", "facts"}) :
      LET q == req[r]
      IN \E t \in q.baseRows..Len(log) : \E n \in t..Len(log) :
           LET registry == RegistryOf(LogTo(t))
               revoked == Revoked(LogTo(t), registry)
           IN IF q.kind = "facts"
              THEN q.content = Current(LogTo(n), revoked, q.at)
              ELSE \E s \in q.baseSide..side :
                     q.content = SnapshotOf(LogTo(n), q.repo, registry, revoked, s, q.now)

\* A reader of another instant never pushes out a reduction that holds at the
\* service's clock and is still of the log and trust it was made from.
CurrentViewIsKept ==
    [][\A r \in Readers :
         req[r].pc = "view" /\ req'[r].pc # "view" =>
           \A j \in 1..Len(views) :
              views[j].key = ViewKey(req[r]) /\ HoldsAt(views[j], req[r].now)
              => views[j] \in Range(views')]_serviceVars

\* What a client reduces from a snapshot is what Company calls current for its
\* repository, whether or not the events fitted.
ReadingIsWhole ==
    \A r \in Answered({"snapshot"}) :
      GovernedBy(log, ClientReading(req[r].content, req[r].now), req[r].repo) = req[r].content.facts

\* Whatever caches, memos and limits did, the client reduces what Company held.
AnswersAreTrue == AnswersAreFresh /\ ReadingIsWhole

----------------------------------------------------------------------------
(* What the documentation says and the code does not do *)

\* A signed answer names a cursor no older than Company's revocation cursor
\* (spec/architecture.md).
CursorCoversRevocations ==
    \A r \in Answered({"snapshot", "receipt"}) : req[r].cursor >= req[r].revocationCursor
=============================================================================
