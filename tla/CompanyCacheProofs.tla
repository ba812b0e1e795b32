-------------------------- MODULE CompanyCacheProofs --------------------------
(***************************************************************************)
(* What holds of the Company cache of a machine, of the certificates it    *)
(* trusts, and of the cached views kinbased answers it from, for any       *)
(* number of processes, repositories, changes, certificates and requests.  *)
(*                                                                         *)
(* The argument: an answer covers what was committed before it was asked   *)
(* for, and later changes are committed later; so whatever is stored, and  *)
(* whoever read it, keeps covering its instant.  References are looked at  *)
(* in turn, and what each makes of the fact is by induction on their       *)
(* number.  The service's log only grows, so what a request loaded, a view *)
(* reduced or a digest remembered stays the state of a moment since.       *)
(***************************************************************************)
EXTENDS CompanyReferences, SnapshotService,
        FiniteSetTheorems, SequenceTheorems, WellFoundedInduction, TLAPS

Changes == [governs : Repos \cup {Everywhere}, at : Nat]
RowType == [digest : SUBSET Nat, scope : Repos, cursor : Nat, issued : Nat]

\* Changes are committed in the order of their instants, none in the future.
History ==
  /\ wall \in Nat
  /\ commits \in Seq(Changes)
  /\ \A i \in 1..Len(commits) : commits[i].at <= wall

\* A row, or a copy of one, covers the instant it was issued at.
Vouched(r) == r # None => r \in RowType /\ r.issued <= wall /\ Covers(r, r.issued)

\* What a process knows: a refresh asked at an instant is answered by content
\* that is no older, and what a reader holds was in the row.
ProcessKnows(q) ==
  /\ q.pc = "asked" =>
       /\ q.asked \in Nat /\ q.asked <= wall
       /\ q.base \in Nat /\ q.base <= Len(commits) /\ CommittedBy(q.asked) <= q.base
       /\ q.warm => ~Cold
  /\ q.pc = "read" => Vouched(q.first)
  /\ q.pc = "shown" =>
       /\ Vouched(q.seen) /\ q.trusted \in BOOLEAN
       /\ q.trusted /\ ~q.torn => q.seen # None /\ RevocationFresh(q.seen, q.at)
  /\ q.pc \in {"asked", "reading", "read", "shown"} => q.at \in Nat

CacheInv ==
  /\ History
  /\ Vouched(row)
  /\ proc = [p \in Procs |-> proc[p]]
  /\ \A p \in Procs : ProcessKnows(proc[p])

-----------------------------------------------------------------------------
(* Content and instants *)

\* The changes are finitely many, and each has its instant.
LEMMA HistoryIsFinite ==
  ASSUME History
  PROVE  /\ Len(commits) \in Nat
         /\ IsFiniteSet(1..Len(commits)) /\ Cardinality(1..Len(commits)) = Len(commits)
         /\ \A i \in 1..Len(commits) : commits[i] \in Changes /\ commits[i].at \in Nat
<1>1. commits \in Seq(Changes)
  BY DEF History
<1>2. Len(commits) \in Nat
  BY <1>1, LenProperties
<1>3. IsFiniteSet(1..Len(commits)) /\ Cardinality(1..Len(commits)) = Len(commits)
  <2>1. \A n \in Nat : IsFiniteSet(1..n) /\ Cardinality(1..n) = IF 1 > n THEN 0 ELSE n - 1 + 1
    BY FS_Interval
  <2>2. \A n \in Nat : (IF 1 > n THEN 0 ELSE n - 1 + 1) = n
    OBVIOUS
  <2> QED
    BY <1>2, <2>1, <2>2
<1>4. \A i \in 1..Len(commits) : commits[i] \in Changes
  BY <1>1, ElementOfSeq
<1> QED
  BY <1>2, <1>3, <1>4 DEF Changes

\* No more changes were committed before an instant than there are.
LEMMA CommittedIsCounted ==
  ASSUME History, NEW t \in Nat
  PROVE  CommittedBy(t) \in Nat /\ CommittedBy(t) <= Len(commits)
<1> DEFINE S == {i \in 1..Len(commits) : commits[i].at < t}
<1>1. IsFiniteSet(1..Len(commits)) /\ Cardinality(1..Len(commits)) = Len(commits) /\ Len(commits) \in Nat
  BY HistoryIsFinite
<1>2. S \in SUBSET (1..Len(commits))
  OBVIOUS
<1>3. IsFiniteSet(S) /\ Cardinality(S) <= Len(commits)
  BY <1>1, <1>2, FS_Subset
<1> QED
  BY <1>3, FS_CardinalityType DEF CommittedBy

\* An earlier instant asks for less.
LEMMA EarlierAsksLess ==
  ASSUME History, NEW t \in Nat, NEW u \in Nat, t <= u
  PROVE  CommittedBy(t) <= CommittedBy(u)
<1> DEFINE S == {i \in 1..Len(commits) : commits[i].at < t}
           T == {i \in 1..Len(commits) : commits[i].at < u}
<1>1. \A i \in 1..Len(commits) : commits[i].at \in Nat
  BY HistoryIsFinite
<1>2. S \in SUBSET T /\ T \in SUBSET (1..Len(commits))
  BY <1>1
<1>3. IsFiniteSet(T)
  BY <1>2, HistoryIsFinite, FS_Subset
<1> QED
  BY <1>2, <1>3, FS_Subset DEF CommittedBy

\* What covers an instant covers the instants before.
LEMMA CoversEarlier ==
  ASSUME History, NEW r, NEW t \in Nat, NEW u \in Nat, t <= u, Covers(r, u)
  PROVE  Covers(r, t)
<1>1. /\ CommittedBy(t) <= CommittedBy(u) /\ CommittedBy(t) \in Nat /\ CommittedBy(u) \in Nat
      /\ Len(commits) \in Nat
  BY EarlierAsksLess, CommittedIsCounted, LenProperties DEF History
<1> QED
  BY <1>1 DEF Covers

\* A change that is committed now alters nothing that covers an instant.
LEMMA LaterChanges ==
  ASSUME History, \/ UNCHANGED commits
                  \/ \E c \in Changes : c.at = wall /\ commits' = Append(commits, c)
  PROVE  /\ Len(commits) <= Len(commits') /\ Len(commits) \in Nat /\ Len(commits') \in Nat
         /\ \A t \in Nat : t <= wall => CommittedBy(t)' = CommittedBy(t)
         /\ \A r, t : t \in Nat /\ t <= wall /\ Covers(r, t) => Covers(r, t)'
<1>1. CASE UNCHANGED commits
  BY <1>1, LenProperties DEF History, CommittedBy, Covers, Content
<1>2. CASE \E c \in Changes : c.at = wall /\ commits' = Append(commits, c)
  <2>1. PICK c \in Changes : c.at = wall /\ commits' = Append(commits, c)
    BY <1>2
  <2>2. /\ Len(commits) \in Nat /\ Len(commits') = Len(commits) + 1
        /\ commits'[Len(commits) + 1] = c
        /\ \A i \in 1..Len(commits) : commits'[i] = commits[i]
    BY <2>1, AppendProperties, LenProperties DEF History
  <2>3. ASSUME NEW t \in Nat, t <= wall PROVE CommittedBy(t)' = CommittedBy(t)
    <3>1. {i \in 1..Len(commits') : commits'[i].at < t} = {i \in 1..Len(commits) : commits[i].at < t}
      BY <2>1, <2>2, <2>3 DEF History
    <3> QED
      BY <3>1 DEF CommittedBy
  <2>4. ASSUME NEW n \in Int, n <= Len(commits), NEW scope PROVE Content(scope, n)' = Content(scope, n)
    BY <2>2, <2>4 DEF Content
  <2>5. ASSUME NEW r, NEW t, t \in Nat, t <= wall, Covers(r, t) PROVE Covers(r, t)'
    <3>1. PICK n \in CommittedBy(t)..Len(commits) : r.digest = Content(r.scope, n)
      BY <2>5 DEF Covers
    <3>2. n \in CommittedBy(t)'..Len(commits')
      BY <2>2, <2>3, <2>5, <3>1, CommittedIsCounted
    <3>3. n \in Int /\ n <= Len(commits)
      BY <3>1, CommittedIsCounted, <2>5, <2>2
    <3>4. Content(r.scope, n)' = Content(r.scope, n)
      BY <2>4, <3>3
    <3> QED
      BY <3>1, <3>2, <3>4 DEF Covers
  <2> QED
    BY <2>2, <2>3, <2>5
<1> QED
  BY <1>1, <1>2

-----------------------------------------------------------------------------
(* The inductive invariant *)

\* A row is not the absence of one.
LEMMA RowIsThere ==
  ASSUME NEW r \in RowType
  PROVE  r # None
<1>1. DOMAIN r = {"digest", "scope", "cursor", "issued"}
  BY DEF RowType
<1>2. DOMAIN None = {"digest"}
  BY DEF None
<1> QED
  BY <1>1, <1>2

\* A row that was issued when a refresh was asked for, with content that is no
\* older than what was committed by then, is vouched for.
LEMMA AnswerIsVouched ==
  ASSUME History, NEW q, q.asked \in Nat, q.asked <= wall, q.base \in Nat,
         CommittedBy(q.asked) <= q.base, NEW scope \in Repos,
         NEW n \in q.base..Len(commits), NEW c \in q.base..n,
         NEW r, r = [digest |-> Content(scope, n), scope |-> scope, cursor |-> c, issued |-> q.asked]
  PROVE  r \in RowType /\ Vouched(r)
<1>1. /\ CommittedBy(q.asked) \in Nat /\ Len(commits) \in Nat /\ n \in Nat /\ c \in Nat
      /\ n \in CommittedBy(q.asked)..Len(commits)
  <2>1. CommittedBy(q.asked) \in Nat /\ Len(commits) \in Nat
    BY CommittedIsCounted, HistoryIsFinite
  <2> QED
    BY <2>1
<1>2. Content(scope, n) \in SUBSET Nat
  BY <1>1 DEF Content
<1>3. r \in RowType
  BY <1>1, <1>2 DEF RowType
<1>4. Covers(r, r.issued)
  BY <1>1 DEF Covers
<1> QED
  BY <1>3, <1>4 DEF Vouched

\* A step of one process keeps what the others know, as long as a row is
\* followed by a row.
LEMMA StepOfOne ==
  ASSUME CacheInv, UNCHANGED <<wall, commits>>, Vouched(row)', ~Cold => ~Cold',
         NEW p \in Procs, NEW q, Become(p, q), ProcessKnows(q)'
  PROVE  CacheInv'
<1>1. History' /\ Len(commits)' = Len(commits) /\ (\A t : CommittedBy(t)' = CommittedBy(t))
  BY DEF CacheInv, History, CommittedBy
<1>2. \A r : Vouched(r) => Vouched(r)'
  BY DEF Vouched, Covers, Content, CommittedBy
<1>3. proc' = [o \in Procs |-> IF o = p THEN q ELSE proc[o]]
  BY DEF CacheInv, Become
<1>4. proc' = [o \in Procs |-> proc'[o]]
  BY <1>3
<1>5. ASSUME NEW o \in Procs PROVE ProcessKnows(proc[o])'
  <2>1. CASE o = p
    BY <2>1, <1>3
  <2>2. CASE o # p
    <3>1. proc'[o] = proc[o] /\ ProcessKnows(proc[o])
      BY <2>2, <1>3 DEF CacheInv
    <3> QED
      BY <3>1, <1>1, <1>2 DEF ProcessKnows, RevocationFresh
  <2> QED
    BY <2>1, <2>2
<1> QED
  BY <1>1, <1>4, <1>5 DEF CacheInv

\* The machine starts with no row and idle processes.
LEMMA CacheInit == Init => CacheInv
<1> SUFFICES ASSUME Init PROVE CacheInv
  OBVIOUS
<1>1. commits \in Seq(Changes) /\ Len(commits) = 0
  BY DEF Init
<1>2. History
  BY <1>1 DEF Init, History
<1>3. \A p \in Procs : proc[p] = [pc |-> "idle"]
  BY DEF Init
<1>4. \A p \in Procs : proc[p].pc = "idle"
  BY <1>3
<1>5. proc = [p \in Procs |-> proc[p]]
  BY DEF Init
<1> QED
  BY <1>2, <1>4, <1>5 DEF Init, CacheInv, Vouched, ProcessKnows

\* What a refresh that asks now knows.
LEMMA AskingKnows ==
  ASSUME History, NEW q, q.at \in Nat, q.warm => ~Cold, NEW known,
         NEW r, r = Asking(q, known)
  PROVE  ProcessKnows(r)
<1>1. CommittedBy(wall) \in Nat /\ CommittedBy(wall) <= Len(commits) /\ Len(commits) \in Nat
  BY CommittedIsCounted, HistoryIsFinite DEF History
<1>2. wall \in Nat
  BY DEF History
<1> QED
  BY <1>1, <1>2 DEF ProcessKnows, Asking

\* What a process that is about to read knows.
LEMMA ReadingKnows ==
  ASSUME NEW status, NEW at \in Nat
  PROVE  ProcessKnows(Reading(status, at))
BY DEF ProcessKnows, Reading

\* The instant of a process is a number.
LEMMA OpenedKnows ==
  ASSUME CacheInv, NEW status, NEW explicit \in BOOLEAN
  PROVE  LET q == Opened(status, explicit)
         IN q.at \in Nat /\ (q.warm => ~Cold) /\ Advanced(q.at, explicit) \in Nat
<1>1. wall \in Nat /\ (~Cold => row.issued \in Nat)
  BY DEF CacheInv, History, Vouched, RowType, Cold
<1> QED
  BY <1>1 DEF Opened, Advanced

-----------------------------------------------------------------------------
(* The steps of a process that leave the row alone *)

\* A step that leaves the row alone needs no more than what the process knows.
LEMMA StepBesideTheRow ==
  ASSUME CacheInv, UNCHANGED <<wall, commits, row>>,
         NEW p \in Procs, NEW q, Become(p, q), ProcessKnows(q)
  PROVE  CacheInv'
<1>1. Vouched(row)' /\ (~Cold => ~Cold')
  BY DEF CacheInv, Vouched, Covers, Content, CommittedBy, Cold
<1>2. ProcessKnows(q)'
  BY DEF ProcessKnows, Vouched, Covers, Content, CommittedBy, Cold, RevocationFresh
<1> QED
  BY <1>1, <1>2, StepOfOne

\* A brief reads a cache that suffices and asks for another.
LEMMA StartBriefStep ==
  ASSUME CacheInv, NEW p \in Procs, StartBrief(p)
  PROVE  CacheInv'
<1>1. PICK explicit \in BOOLEAN :
         LET q == Opened(FALSE, explicit)
         IN Become(p, IF Suffices(p, q.at) THEN Reading(FALSE, Advanced(q.at, explicit))
                      ELSE Asking(q, Known(q.warm, RepoOf[p])))
  BY DEF StartBrief
<1>2. PICK q : q = Opened(FALSE, explicit)
  OBVIOUS
<1>3. q.at \in Nat /\ (q.warm => ~Cold) /\ Advanced(q.at, explicit) \in Nat
  BY <1>2, OpenedKnows
<1>4. PICK r : r = IF Suffices(p, q.at) THEN Reading(FALSE, Advanced(q.at, explicit))
                   ELSE Asking(q, Known(q.warm, RepoOf[p]))
  OBVIOUS
<1>5. Become(p, r)
  BY <1>1, <1>2, <1>4
<1>6. ProcessKnows(r)
  BY <1>3, <1>4, ReadingKnows, AskingKnows DEF CacheInv
<1> QED
  BY <1>5, <1>6, StepBesideTheRow DEF StartBrief

\* An online status read asks.
LEMMA StartStatusStep ==
  ASSUME CacheInv, NEW p \in Procs, StartStatus(p)
  PROVE  CacheInv'
<1>1. PICK explicit \in BOOLEAN :
         LET q == Opened(TRUE, explicit) IN Become(p, Asking(q, Known(q.warm, RepoOf[p])))
  BY DEF StartStatus
<1>2. PICK q : q = Opened(TRUE, explicit)
  OBVIOUS
<1>3. PICK r : r = Asking(q, Known(q.warm, RepoOf[p]))
  OBVIOUS
<1>4. Become(p, r) /\ ProcessKnows(r)
  BY <1>1, <1>2, <1>3, OpenedKnows, AskingKnows DEF CacheInv
<1> QED
  BY <1>4, StepBesideTheRow DEF StartStatus

\* A host start reads.
LEMMA StartHostStep ==
  ASSUME CacheInv, NEW p \in Procs, StartHost(p)
  PROVE  CacheInv'
<1>1. PICK q : q = Opened(FALSE, FALSE)
  OBVIOUS
<1>2. PICK r : r = Reading(FALSE, q.at)
  OBVIOUS
<1>3. Become(p, r) /\ ProcessKnows(r)
  BY <1>1, <1>2, OpenedKnows, ReadingKnows DEF StartHost
<1> QED
  BY <1>3, StepBesideTheRow DEF StartHost

\* What a process reads after a refresh.
LEMMA GoesOnKnows ==
  ASSUME NEW q, q.at \in Nat, NEW held, held # None => held.issued \in Nat,
         NEW r, r = GoesOn(q, held)
  PROVE  ProcessKnows(r) /\ r.pc = "reading" /\ r.at \in Nat
<1>1. \E status, at : at \in Nat /\ r = Reading(status, at)
  BY DEF GoesOn
<1>2. PICK status, at : at \in Nat /\ r = Reading(status, at)
  BY <1>1
<1> QED
  BY <1>2, ReadingKnows DEF Reading

\* A process whose refresh failed, or was refused, reads the row there is.
LEMMA WithoutAnswerStep ==
  ASSUME CacheInv, NEW p \in Procs, RefreshFails(p) \/ Refuse(p)
  PROVE  CacheInv'
<1>1. proc[p].pc = "asked" /\ Become(p, GoesOn(proc[p], row)) /\ UNCHANGED <<wall, commits, row>>
  BY DEF RefreshFails, Refuse
<1>2. PICK q : q = proc[p]
  OBVIOUS
<1>3. PICK held : held = row
  OBVIOUS
<1>4. PICK r : r = GoesOn(q, held)
  OBVIOUS
<1>5. q.at \in Nat /\ (held # None => held.issued \in Nat)
  BY <1>1, <1>2, <1>3 DEF CacheInv, ProcessKnows, Vouched, RowType
<1>6. ProcessKnows(r)
  BY <1>4, <1>5, GoesOnKnows
<1>7. Become(p, r)
  BY <1>1, <1>2, <1>3, <1>4
<1> QED
  BY <1>1, <1>6, <1>7, StepBesideTheRow

\* A refresh whose receipt vouches for nothing it holds asks in full.
LEMMA AskInFullStep ==
  ASSUME CacheInv, NEW p \in Procs, AskInFull(p)
  PROVE  CacheInv'
<1>1. PICK q : q = proc[p]
  OBVIOUS
<1>2. q.at \in Nat /\ (q.warm => ~Cold)
  BY <1>1 DEF AskInFull, CacheInv, ProcessKnows
<1>3. PICK r : r = Asking(q, <<>>)
  OBVIOUS
<1>4. ProcessKnows(r)
  BY <1>2, <1>3, AskingKnows DEF CacheInv
<1>5. Become(p, r)
  BY <1>1, <1>3 DEF AskInFull
<1> QED
  BY <1>4, <1>5, StepBesideTheRow DEF AskInFull

\* A reader takes a copy of the row.
LEMMA ReadFirstStep ==
  ASSUME CacheInv, NEW p \in Procs, ReadFirst(p)
  PROVE  CacheInv'
<1>1. PICK r : r = [pc |-> "read", status |-> proc[p].status, at |-> proc[p].at, first |-> row]
  OBVIOUS
<1>2. ProcessKnows(r)
  BY <1>1 DEF ReadFirst, CacheInv, ProcessKnows
<1> QED
  BY <1>1, <1>2, StepBesideTheRow DEF ReadFirst

\* It shows that copy or the row, which it trusts by the clocks of the other.
LEMMA ReadSecondStep ==
  ASSUME CacheInv, NEW p \in Procs, ReadSecond(p)
  PROVE  CacheInv'
<1>1. PICK q : q = proc[p]
  OBVIOUS
<1>2. PICK held : held = row
  OBVIOUS
<1>3. q.at \in Nat /\ Vouched(q.first) /\ Vouched(held)
  BY <1>1, <1>2 DEF ReadSecond, CacheInv, ProcessKnows
<1>4. PICK content, clocks :
         /\ content = IF q.status THEN held ELSE q.first
         /\ clocks = IF q.status THEN q.first ELSE held
  OBVIOUS
<1>5. PICK r : r = [pc |-> "shown", at |-> q.at, seen |-> content,
                    trusted |-> clocks # None /\ Trusted(clocks, q.at),
                    torn |-> content # clocks]
  OBVIOUS
<1>6. Become(p, r)
  BY <1>1, <1>2, <1>4, <1>5 DEF ReadSecond
<1>7. Vouched(content)
  BY <1>3, <1>4
<1>8. r.trusted /\ ~r.torn => content # None /\ RevocationFresh(content, q.at)
  BY <1>5 DEF Trusted
<1>9. ProcessKnows(r)
  BY <1>3, <1>5, <1>7, <1>8 DEF ProcessKnows
<1> QED
  BY <1>6, <1>9, StepBesideTheRow DEF ReadSecond

\* It ends.
LEMMA FinishStep ==
  ASSUME CacheInv, NEW p \in Procs, Finish(p)
  PROVE  CacheInv'
<1>1. PICK r : r = [pc |-> "idle"]
  OBVIOUS
<1>2. ProcessKnows(r)
  BY <1>1 DEF ProcessKnows
<1> QED
  BY <1>1, <1>2, StepBesideTheRow DEF Finish

-----------------------------------------------------------------------------
(* The steps that write the row, and those of Company *)

\* What answers there are.
LEMMA AnswersAre ==
  ASSUME NEW p, NEW a, a \in Answers(p), NEW q, q = proc[p]
  PROVE  \E n \in q.base..Len(commits) : \E c \in q.base..n : a = Answer(q, RepoOf[p], c, n)
<1> DEFINE From(n) == {Answer(q, RepoOf[p], c, n) : c \in q.base..n}
<1>1. a \in UNION {From(n) : n \in q.base..Len(commits)}
  BY DEF Answers
<1> HIDE DEF From
<1>2. PICK n \in q.base..Len(commits) : a \in From(n)
  BY <1>1
<1>3. \E c \in q.base..n : a = Answer(q, RepoOf[p], c, n)
  BY <1>2 DEF From
<1> QED
  BY <1>3

\* An answer is stored.
LEMMA StoreSnapshotStep ==
  ASSUME CacheInv, NEW p \in Procs, StoreSnapshot(p)
  PROVE  CacheInv' /\ (~Cold => row'.cursor >= row.cursor)
<1>1. PICK a \in Answers(p) :
         /\ ~a.receipt /\ Admits(a)
         /\ row' = [digest |-> a.digest, scope |-> a.scope, cursor |-> a.cursor, issued |-> a.issued]
         /\ Become(p, GoesOn(proc[p], row'))
  BY DEF StoreSnapshot
<1>2. PICK q : q = proc[p]
  OBVIOUS
<1>3. /\ q.asked \in Nat /\ q.asked <= wall /\ q.base \in Nat /\ CommittedBy(q.asked) <= q.base
      /\ q.at \in Nat
  BY <1>2 DEF StoreSnapshot, CacheInv, ProcessKnows
<1>4. \E n \in q.base..Len(commits) : \E c \in q.base..n : a = Answer(q, RepoOf[p], c, n)
  BY <1>2, AnswersAre
<1>41. PICK n \in q.base..Len(commits) : \E c \in q.base..n : a = Answer(q, RepoOf[p], c, n)
  BY <1>4
<1>42. PICK c \in q.base..n : a = Answer(q, RepoOf[p], c, n)
  BY <1>41
<1>5. PICK w : w = [digest |-> Content(RepoOf[p], n), scope |-> RepoOf[p], cursor |-> c,
                    issued |-> q.asked]
  OBVIOUS
<1>6. row' = w
  BY <1>1, <1>42, <1>5 DEF Answer
<1>7. RepoOf[p] \in Repos
  BY CacheAssumption
<1>8. w \in RowType /\ Vouched(w)
  BY <1>3, <1>5, <1>7, AnswerIsVouched DEF CacheInv
<1>9. UNCHANGED <<wall, commits>>
  BY DEF StoreSnapshot
<1>10. Vouched(row)' /\ ~Cold'
  BY <1>6, <1>8, <1>9, RowIsThere DEF Vouched, Covers, Content, CommittedBy, Cold
<1>11. PICK r : r = GoesOn(q, w)
  OBVIOUS
<1>12. r.pc = "reading" /\ r.at \in Nat
  BY <1>3, <1>8, <1>11, GoesOnKnows DEF RowType
<1>13. ProcessKnows(r)'
  BY <1>12 DEF ProcessKnows
<1>14. Become(p, r)
  BY <1>1, <1>2, <1>6, <1>11
<1>15. CacheInv'
  BY <1>9, <1>10, <1>13, <1>14, StepOfOne
<1> QED
  BY <1>1, <1>15 DEF Admits

\* A receipt is stored: it vouches for the content the row holds.
LEMMA StoreUnchangedStep ==
  ASSUME CacheInv, NEW p \in Procs, StoreUnchanged(p)
  PROVE  CacheInv' /\ (~Cold => row'.cursor >= row.cursor)
<1>1. PICK a \in Answers(p) :
         /\ a.receipt /\ Admits(a) /\ HoldsVouched(proc[p], a)
         /\ row' = [row EXCEPT !.cursor = a.cursor, !.issued = a.issued]
         /\ Become(p, GoesOn(proc[p], row'))
  BY DEF StoreUnchanged
<1>2. PICK q : q = proc[p]
  OBVIOUS
<1>3. /\ q.asked \in Nat /\ q.asked <= wall /\ q.base \in Nat /\ CommittedBy(q.asked) <= q.base
      /\ q.at \in Nat /\ (q.warm => ~Cold)
  BY <1>2 DEF StoreUnchanged, CacheInv, ProcessKnows
<1>4. \E n \in q.base..Len(commits) : \E c \in q.base..n : a = Answer(q, RepoOf[p], c, n)
  BY <1>2, AnswersAre
<1>41. PICK n \in q.base..Len(commits) : \E c \in q.base..n : a = Answer(q, RepoOf[p], c, n)
  BY <1>4
<1>42. PICK c \in q.base..n : a = Answer(q, RepoOf[p], c, n)
  BY <1>41
<1>5. q.warm /\ row.scope = a.scope /\ row.digest = a.digest
  <2>1. Known(q.warm, a.scope) = <<a.digest>>
    BY <1>1, <1>2 DEF HoldsVouched
  <2>2. q.warm /\ row.scope = a.scope
    BY <2>1 DEF Known
  <2> QED
    BY <2>1, <2>2 DEF Known
<1>6. row \in RowType
  BY <1>3, <1>5 DEF CacheInv, Vouched, Cold
<1>7. PICK w : w = [digest |-> Content(RepoOf[p], n), scope |-> RepoOf[p], cursor |-> c,
                    issued |-> q.asked]
  OBVIOUS
<1>8. row' = w
  <2>1. /\ a.digest = Content(RepoOf[p], n) /\ a.scope = RepoOf[p] /\ a.cursor = c
        /\ a.issued = q.asked
    BY <1>42 DEF Answer
  <2>2. c \in Nat
    BY <1>3, HistoryIsFinite DEF CacheInv
  <2>3. /\ row'.digest = row.digest /\ row'.scope = row.scope /\ row'.cursor = c
        /\ row'.issued = q.asked /\ row' \in RowType
    <3>1. row' = [row EXCEPT !.cursor = c, !.issued = q.asked]
      BY <1>1, <2>1
    <3>2. PICK r : r = row
      OBVIOUS
    <3>3. PICK asked \in Nat : asked = q.asked
      BY <1>3
    <3>4. [r EXCEPT !.cursor = c, !.issued = asked] \in RowType
      BY <1>6, <2>2, <3>2 DEF RowType
    <3>5. /\ [r EXCEPT !.cursor = c, !.issued = asked].digest = r.digest
          /\ [r EXCEPT !.cursor = c, !.issued = asked].scope = r.scope
          /\ [r EXCEPT !.cursor = c, !.issued = asked].cursor = c
          /\ [r EXCEPT !.cursor = c, !.issued = asked].issued = asked
      BY <1>6, <3>2 DEF RowType
    <3> QED
      BY <3>1, <3>2, <3>3, <3>4, <3>5
  <2>4. \A r \in RowType : r = [digest |-> r.digest, scope |-> r.scope, cursor |-> r.cursor,
                                issued |-> r.issued]
    BY DEF RowType
  <2> QED
    BY <1>5, <1>7, <2>1, <2>3, <2>4
<1>9. RepoOf[p] \in Repos
  BY CacheAssumption
<1>10. w \in RowType /\ Vouched(w)
  BY <1>3, <1>7, <1>9, AnswerIsVouched DEF CacheInv
<1>11. UNCHANGED <<wall, commits>>
  BY DEF StoreUnchanged
<1>12. Vouched(row)' /\ ~Cold'
  BY <1>8, <1>10, <1>11, RowIsThere DEF Vouched, Covers, Content, CommittedBy, Cold
<1>13. PICK r : r = GoesOn(q, w)
  OBVIOUS
<1>14. r.pc = "reading" /\ r.at \in Nat
  BY <1>3, <1>10, <1>13, GoesOnKnows DEF RowType
<1>15. ProcessKnows(r)'
  BY <1>14 DEF ProcessKnows
<1>16. Become(p, r)
  BY <1>1, <1>2, <1>8, <1>13
<1>17. CacheInv'
  BY <1>11, <1>12, <1>15, <1>16, StepOfOne
<1>18. row'.cursor = a.cursor
  BY <1>1, <1>6 DEF RowType
<1> QED
  BY <1>1, <1>17, <1>18 DEF Admits

\* Company commits a change, or an instant passes.
LEMMA CompanyStep ==
  ASSUME CacheInv, (\E scope \in Repos \cup {Everywhere} : Commit(scope)) \/ Tick
  PROVE  CacheInv'
<1>1. UNCHANGED <<row, proc>> /\ wall \in Nat /\ wall' \in Nat /\ wall <= wall'
  <2>1. wall \in Nat
    BY DEF CacheInv, History
  <2>2. CASE Tick
    BY <2>1, <2>2 DEF Tick
  <2>3. CASE \E scope \in Repos \cup {Everywhere} : Commit(scope)
    BY <2>1, <2>3 DEF Commit
  <2> QED
    BY <2>2, <2>3
<1>2. UNCHANGED commits \/ \E c \in Changes : c.at = wall /\ wall' = wall /\ commits' = Append(commits, c)
  <2>1. CASE Tick
    BY <2>1 DEF Tick
  <2>2. CASE \E scope \in Repos \cup {Everywhere} : Commit(scope)
    <3>1. PICK scope \in Repos \cup {Everywhere} : Commit(scope)
      BY <2>2
    <3>2. [governs |-> scope, at |-> wall] \in Changes
      BY <1>1 DEF Changes
    <3> QED
      BY <3>1, <3>2 DEF Commit
  <2> QED
    BY <2>1, <2>2
<1>3. History
  BY DEF CacheInv
<1>4. /\ Len(commits) <= Len(commits') /\ Len(commits) \in Nat /\ Len(commits') \in Nat
      /\ \A t \in Nat : t <= wall => CommittedBy(t)' = CommittedBy(t)
      /\ \A r, t : t \in Nat /\ t <= wall /\ Covers(r, t) => Covers(r, t)'
  BY <1>2, <1>3, LaterChanges
<1>5. History'
  <2>1. CASE UNCHANGED commits
    BY <2>1, <1>1, <1>3, HistoryIsFinite DEF History
  <2>2. CASE \E c \in Changes : c.at = wall /\ wall' = wall /\ commits' = Append(commits, c)
    <3>1. PICK c \in Changes : c.at = wall /\ wall' = wall /\ commits' = Append(commits, c)
      BY <2>2
    <3>2. /\ commits' \in Seq(Changes) /\ Len(commits') = Len(commits) + 1
          /\ commits'[Len(commits) + 1] = c
          /\ \A i \in 1..Len(commits) : commits'[i] = commits[i]
      BY <3>1, <1>3, AppendProperties DEF History
    <3>3. \A i \in 1..Len(commits') : i \in 1..Len(commits) \/ i = Len(commits) + 1
      BY <3>2, <1>4
    <3> QED
      BY <3>1, <3>2, <3>3, <1>1, <1>3 DEF History
  <2> QED
    BY <1>2, <2>1, <2>2
<1>6. \A r : Vouched(r) => Vouched(r)'
  <2>1. ASSUME NEW r, Vouched(r), r # None PROVE Vouched(r)'
    <3>1. r \in RowType /\ r.issued \in Nat /\ r.issued <= wall /\ Covers(r, r.issued)
      BY <2>1 DEF Vouched, RowType
    <3>2. r.issued <= wall'
      BY <1>1, <3>1
    <3> QED
      BY <1>4, <3>1, <3>2 DEF Vouched
  <2> QED
    BY <2>1 DEF Vouched
<1>7. ASSUME NEW p \in Procs PROVE ProcessKnows(proc[p])'
  <2>1. ProcessKnows(proc[p])
    BY DEF CacheInv
  <2>2. PICK q : q = proc[p]
    OBVIOUS
  <2>3. ASSUME q.pc = "asked"
        PROVE  /\ q.asked \in Nat /\ q.asked <= wall'
               /\ q.base \in Nat /\ q.base <= Len(commits') /\ CommittedBy(q.asked)' <= q.base
               /\ q.warm => ~Cold'
    <3>1. /\ q.asked \in Nat /\ q.asked <= wall /\ (q.warm => ~Cold)
          /\ q.base \in Nat /\ q.base <= Len(commits) /\ CommittedBy(q.asked) <= q.base
      BY <2>1, <2>2, <2>3 DEF ProcessKnows
    <3>2. CommittedBy(q.asked)' = CommittedBy(q.asked)
      BY <1>4, <3>1
    <3>3. q.warm => ~Cold'
      BY <1>1, <3>1 DEF Cold
    <3> QED
      BY <1>1, <1>4, <3>1, <3>2, <3>3
  <2>4. ProcessKnows(q)'
    BY <2>1, <2>2, <2>3, <1>6 DEF ProcessKnows, RevocationFresh
  <2> QED
    BY <2>2, <2>4, <1>1
<1> QED
  BY <1>1, <1>5, <1>6, <1>7 DEF CacheInv

-----------------------------------------------------------------------------
(* The theorems about the cache *)

\* Every step keeps the invariant and lets the high-water mark rise only.
LEMMA CacheNext ==
  ASSUME CacheInv, [Next]_vars
  PROVE  CacheInv' /\ (~Cold => row'.cursor >= row.cursor)
<1> DEFINE Rises == ~Cold => row'.cursor >= row.cursor
<1>1. ASSUME UNCHANGED row PROVE Rises
  BY <1>1 DEF CacheInv, Vouched, RowType, Cold
<1>2. ASSUME NEW p \in Procs,
             \/ StartBrief(p) \/ StartStatus(p) \/ StartHost(p) \/ RefreshFails(p)
             \/ AskInFull(p) \/ Refuse(p) \/ ReadFirst(p) \/ ReadSecond(p) \/ Finish(p)
      PROVE  CacheInv' /\ Rises
  <2>1. UNCHANGED row
    BY <1>2 DEF StartBrief, StartStatus, StartHost, RefreshFails, AskInFull, Refuse, ReadFirst,
                ReadSecond, Finish
  <2>2. CacheInv'
    BY <1>2, StartBriefStep, StartStatusStep, StartHostStep, WithoutAnswerStep, AskInFullStep,
       ReadFirstStep, ReadSecondStep, FinishStep
  <2> QED
    BY <1>1, <2>1, <2>2
<1>3. ASSUME NEW p \in Procs, StoreSnapshot(p) \/ StoreUnchanged(p) PROVE CacheInv' /\ Rises
  BY <1>3, StoreSnapshotStep, StoreUnchangedStep
<1>4. ASSUME (\E scope \in Repos \cup {Everywhere} : Commit(scope)) \/ Tick PROVE CacheInv' /\ Rises
  <2>1. UNCHANGED row
    BY <1>4 DEF Commit, Tick
  <2> QED
    BY <1>1, <1>4, <2>1, CompanyStep
<1>5. ASSUME UNCHANGED vars PROVE CacheInv' /\ Rises
  <2>1. UNCHANGED <<wall, commits, row, proc>>
    BY <1>5 DEF vars
  <2>2. CacheInv'
    BY <2>1 DEF CacheInv, History, Vouched, Covers, Content, CommittedBy, Cold, ProcessKnows, RevocationFresh
  <2> QED
    BY <1>1, <2>1, <2>2
<1> QED
  BY <1>2, <1>3, <1>4, <1>5 DEF Next

\* The machine moves its cache as the cache moves.
LEMMA MachineMovesCache ==
  ASSUME [MachineNext]_<<vars, machine, brief>>
  PROVE  [Next]_vars
BY DEF MachineNext, Caching, Certifying, vars

\* The invariant of the cache holds of the machine.
THEOREM CacheIsSound == MachineSpec => []CacheInv
<1>1. MachineInit => CacheInv
  BY CacheInit DEF MachineInit
<1>2. CacheInv /\ [MachineNext]_<<vars, machine, brief>> => CacheInv'
  BY MachineMovesCache, CacheNext
<1> QED
  BY <1>1, <1>2, PTL DEF MachineSpec

\* RowIsVouched, for any number of processes, repositories and changes: the
\* content of the cache row covers the instant the row was last issued at
\* (cache.rs, store_snapshot and store_unchanged).
THEOREM RowVouches == MachineSpec => []RowIsVouched
<1>1. CacheInv => RowIsVouched
  BY DEF CacheInv, Vouched, RowIsVouched, Cold
<1> QED
  BY <1>1, CacheIsSound, PTL

\* HighWaterRises: the sealed cursor never moves back (cache.rs).
THEOREM CursorRises == MachineSpec => HighWaterRises
<1>1. CacheInv /\ [MachineNext]_<<vars, machine, brief>> => [~Cold => row'.cursor >= row.cursor]_vars
  BY MachineMovesCache, CacheNext
<1> QED
  BY <1>1, CacheIsSound, PTL DEF MachineSpec, HighWaterRises

\* ShownIsCovered, the half of ShownIsCurrent that is about the cache: what is
\* shown as trusted covers every change older than the revocation window
\* (repository.rs, build_trust; projector.rs).
THEOREM ShownCovers == MachineSpec => []ShownIsCovered
<1>1. CacheInv => ShownIsCovered
  <2> SUFFICES ASSUME CacheInv, NEW p \in Procs, NEW q, q = proc[p],
                      q.pc = "shown", q.trusted, ~q.torn,
                      NEW t \in 0..MaxChanges, t + RevocationFreshness <= q.at + 1
               PROVE  Covers(q.seen, t)
    BY DEF ShownIsCovered
  <2>1. /\ q.at \in Nat /\ Vouched(q.seen) /\ q.seen # None /\ RevocationFresh(q.seen, q.at)
    BY DEF CacheInv, ProcessKnows
  <2>2. q.seen.issued \in Nat /\ Covers(q.seen, q.seen.issued)
    BY <2>1 DEF Vouched, RowType
  <2>3. RevocationFreshness \in Nat /\ t \in Nat
    BY CacheAssumption
  <2>4. t <= q.seen.issued
    BY <2>1, <2>2, <2>3 DEF RevocationFresh
  <2> QED
    BY <2>2, <2>3, <2>4, CoversEarlier DEF CacheInv
<1> QED
  BY <1>1, CacheIsSound, PTL

-----------------------------------------------------------------------------
(* The certificates *)

MaybeCertificates == {0} \cup Certificates

Bindings == [file : MaybeCertificates, index : MaybeCertificates, claim : MaybeCertificates]

MachineType ==
  [bound : [Repos -> Bindings], init : MaybeCertificates, pin : MaybeCertificates,
   trusted : SUBSET [certificate : Certificates, rivals : SUBSET Certificates],
   offered : SUBSET Certificates]

\* Every certificate is kept with the repository it is for, and a claim only
\* beside a row that names another.
KeptFor(r, held) ==
  /\ {held.file, held.index, held.claim} \subseteq {0} \cup {c \in Certificates : CertifiedFor[c] = r}
  /\ held.claim # 0 => held.index # 0 /\ held.claim # held.index

\* What a snapshot offered is in the row of its repository, or there is a claim.
Remembered(m, d) ==
  LET held == m.bound[CertifiedFor[d]] IN held.index # 0 /\ (held.index = d \/ held.claim # 0)

\* What a machine was offered it remembers, and it trusts only what it pinned.
SoundMachine(m) ==
  /\ m \in MachineType
  /\ \A r \in Repos : KeptFor(r, m.bound[r])
  /\ \A d \in m.offered : Remembered(m, d)
  /\ \A t \in m.trusted : t.certificate = m.pin /\ t.rivals = {}

\* A certificate is for a repository, and is not the absence of one.
LEMMA CertificatesAreFor ==
  /\ 0 \notin Certificates
  /\ \A c \in Certificates : CertifiedFor[c] \in Repos
<1>1. CertifiedFor \in [1..Len(CertifiedFor) -> Repos]
  BY ReferencesAssumption
<1> QED
  BY <1>1 DEF Certificates

\* A snapshot offers a certificate.
LEMMA SnapshotIsSound ==
  ASSUME NEW m, SoundMachine(m), NEW c \in Certificates
  PROVE  SoundMachine(Snapshot(m, c))
<1>1. PICK r : r = CertifiedFor[c]
  OBVIOUS
<1>2. PICK held : held = Indexed(m.bound[r], c)
  OBVIOUS
<1>3. m.bound[r] \in Bindings /\ KeptFor(r, m.bound[r]) /\ r \in Repos /\ c # 0
  BY <1>1, CertificatesAreFor DEF SoundMachine, MachineType
<1>4. held \in Bindings /\ KeptFor(r, held) /\ held.index # 0 /\ (held.index = c \/ held.claim # 0)
      /\ (m.bound[r].index # 0 => held.index = m.bound[r].index)
      /\ (m.bound[r].claim # 0 => held.claim # 0)
  <2>1. CASE m.bound[r].index = c
    BY <2>1, <1>2, <1>3 DEF Indexed, KeptFor
  <2>2. CASE m.bound[r].index = 0
    BY <2>2, <1>1, <1>2, <1>3 DEF Indexed, KeptFor, Bindings, MaybeCertificates
  <2>3. CASE m.bound[r].index \notin {0, c}
    BY <2>3, <1>1, <1>2, <1>3 DEF Indexed, KeptFor, Bindings, MaybeCertificates
  <2> QED
    BY <2>1, <2>2, <2>3
<1>5. PICK n : n = Snapshot(m, c)
  OBVIOUS
<1>6. /\ n \in MachineType
      /\ n.bound = [m.bound EXCEPT ![r] = held] /\ n.offered = m.offered \cup {c}
      /\ n.init = m.init /\ n.pin = m.pin /\ n.trusted = m.trusted
  BY <1>1, <1>2, <1>3, <1>4, <1>5 DEF Snapshot, SoundMachine, MachineType
<1>7. \A o \in Repos : n.bound[o] = IF o = r THEN held ELSE m.bound[o]
  BY <1>6 DEF SoundMachine, MachineType
<1>8. \A o \in Repos : KeptFor(o, n.bound[o])
  BY <1>4, <1>7 DEF SoundMachine
<1>9. \A d \in n.offered : Remembered(n, d)
  BY <1>1, <1>4, <1>6, <1>7, CertificatesAreFor DEF SoundMachine, Remembered, MachineType
<1>10. \A t \in n.trusted : t.certificate = n.pin /\ t.rivals = {}
  BY <1>6 DEF SoundMachine
<1> QED
  BY <1>5, <1>6, <1>8, <1>9, <1>10 DEF SoundMachine

\* A `repo init` writes the file.
LEMMA InstallFileIsSound ==
  ASSUME NEW m, SoundMachine(m), NEW c \in Certificates
  PROVE  SoundMachine(InstallFile(m, c))
<1>1. PICK r : r = CertifiedFor[c]
  OBVIOUS
<1>2. PICK n : n = InstallFile(m, c)
  OBVIOUS
<1>3. m.bound[r] \in Bindings /\ KeptFor(r, m.bound[r]) /\ r \in Repos /\ c \in MaybeCertificates
  BY <1>1, CertificatesAreFor DEF SoundMachine, MachineType, MaybeCertificates
<1>4. CASE ~({m.bound[r].index, m.bound[r].file} \subseteq {0, c})
  BY <1>1, <1>4 DEF InstallFile
<1>5. CASE {m.bound[r].index, m.bound[r].file} \subseteq {0, c}
  <2>1. PICK held : held = [m.bound[r] EXCEPT !.file = c]
    OBVIOUS
  <2>2. held \in Bindings /\ held.index = m.bound[r].index /\ held.claim = m.bound[r].claim
        /\ held.file = c
    BY <2>1, <1>3 DEF Bindings
  <2>3. KeptFor(r, held)
    BY <2>2, <1>1, <1>3 DEF KeptFor
  <2>4. /\ n \in MachineType
        /\ n.bound = [m.bound EXCEPT ![r] = held] /\ n.offered = m.offered
        /\ n.pin = m.pin /\ n.trusted = m.trusted
    BY <1>1, <1>2, <1>3, <1>5, <2>1, <2>2 DEF InstallFile, SoundMachine, MachineType
  <2>5. \A o \in Repos : n.bound[o] = IF o = r THEN held ELSE m.bound[o]
    BY <2>4 DEF SoundMachine, MachineType
  <2>6. \A o \in Repos : KeptFor(o, n.bound[o])
    BY <2>3, <2>5 DEF SoundMachine
  <2>7. \A d \in n.offered : Remembered(n, d)
    BY <2>2, <2>4, <2>5, CertificatesAreFor DEF SoundMachine, Remembered, MachineType
  <2>8. \A t \in n.trusted : t.certificate = n.pin /\ t.rivals = {}
    BY <2>4 DEF SoundMachine
  <2> QED
    BY <1>2, <2>4, <2>6, <2>7, <2>8 DEF SoundMachine
<1> QED
  BY <1>4, <1>5

\* The row follows, unless a snapshot filled it meanwhile.
LEMMA InstallIndexIsSound ==
  ASSUME NEW m, SoundMachine(m)
  PROVE  SoundMachine(InstallIndex(m))
<1>1. CASE m.init = 0
  BY <1>1 DEF InstallIndex
<1>2. CASE m.init # 0
  <2>1. PICK c \in Certificates : c = m.init
    BY <1>2 DEF SoundMachine, MachineType, MaybeCertificates
  <2>2. PICK r : r = CertifiedFor[c]
    OBVIOUS
  <2>3. PICK n : n = InstallIndex(m)
    OBVIOUS
  <2>4. m.bound[r] \in Bindings /\ KeptFor(r, m.bound[r]) /\ r \in Repos /\ c # 0
        /\ c \in MaybeCertificates /\ 0 \in MaybeCertificates
    BY <2>1, <2>2, CertificatesAreFor DEF SoundMachine, MachineType, MaybeCertificates
  <2>5. PICK x : x = IF m.bound[r].index = 0 THEN c ELSE m.bound[r].index
    OBVIOUS
  <2>6. x \in MaybeCertificates
    BY <2>4, <2>5 DEF Bindings
  <2>7. PICK held : held = [m.bound[r] EXCEPT !.index = x]
    OBVIOUS
  <2>8. held \in Bindings /\ held.index = x /\ held.claim = m.bound[r].claim
        /\ held.file = m.bound[r].file
    BY <2>4, <2>6, <2>7 DEF Bindings
  <2>9. KeptFor(r, held)
    BY <2>2, <2>4, <2>5, <2>8, SMTT(40) DEF KeptFor
  <2>10. /\ n \in MachineType
         /\ n.bound = [m.bound EXCEPT ![r] = held] /\ n.offered = m.offered
         /\ n.pin = m.pin /\ n.trusted = m.trusted
    BY <1>2, <2>1, <2>2, <2>3, <2>4, <2>5, <2>7, <2>8 DEF InstallIndex, SoundMachine, MachineType
  <2>11. \A o \in Repos : n.bound[o] = IF o = r THEN held ELSE m.bound[o]
    BY <2>10 DEF SoundMachine, MachineType
  <2>12. \A o \in Repos : KeptFor(o, n.bound[o])
    BY <2>9, <2>11 DEF SoundMachine
  <2>13. \A d \in n.offered : Remembered(n, d)
    <3>1. SUFFICES ASSUME NEW d \in m.offered PROVE Remembered(n, d)
      BY <2>10
    <3>2. Remembered(m, d) /\ CertifiedFor[d] \in Repos
      BY CertificatesAreFor DEF SoundMachine, MachineType
    <3> QED
      BY <2>5, <2>8, <2>11, <3>2 DEF Remembered
  <2>14. \A t \in n.trusted : t.certificate = n.pin /\ t.rivals = {}
    BY <2>10 DEF SoundMachine
  <2> QED
    BY <2>3, <2>10, <2>12, <2>13, <2>14 DEF SoundMachine
<1> QED
  BY <1>1, <1>2

\* Where all claims agree with the file there is no claim, and the row names the
\* certificate of the file or none.
LEMMA VerifiedIsAlone ==
  ASSUME NEW r, NEW held \in Bindings, KeptFor(r, held), Verified(held)
  PROVE  held.claim = 0 /\ held.index \in {0, held.file} /\ held.file \in Certificates
<1>1. held.file \in Claims(held) /\ held.file # 0
  BY DEF Verified, Claims
<1>2. PICK x : Claims(held) = {x}
  <2>1. IsFiniteSet({held.file, held.index, held.claim})
    <3>1. IsFiniteSet({held.file}) /\ IsFiniteSet({held.index}) /\ IsFiniteSet({held.claim})
      BY FS_Singleton
    <3>2. IsFiniteSet({held.file} \cup {held.index})
      BY <3>1, FS_Union
    <3>3. IsFiniteSet(({held.file} \cup {held.index}) \cup {held.claim})
      BY <3>1, <3>2, FS_Union
    <3>4. {held.file, held.index, held.claim} = ({held.file} \cup {held.index}) \cup {held.claim}
      OBVIOUS
    <3> QED
      BY <3>3, <3>4
  <2>2. IsFiniteSet(Claims(held))
    <3>1. Claims(held) \in SUBSET {held.file, held.index, held.claim}
      BY DEF Claims
    <3> QED
      BY <2>1, <3>1, FS_Subset
  <2>3. Cardinality(Claims(held)) = 1
    BY DEF Verified
  <2> QED
    BY <2>2, <2>3, FS_Singleton
<1>3. \A y \in {held.file, held.index, held.claim} : y = 0 \/ y = held.file
  BY <1>1, <1>2 DEF Claims
<1>4. held.file \in Certificates
  BY <1>1 DEF Bindings, MaybeCertificates
<1> QED
  BY <1>3, <1>4 DEF KeptFor

\* A trust context that trusts a certificate saw no other offered.
LEMMA BuildTrustIsSound ==
  ASSUME NEW m, SoundMachine(m), NEW r \in Repos
  PROVE  SoundMachine(BuildTrust(m, r))
<1>1. PICK held : held = m.bound[r]
  OBVIOUS
<1>2. PICK n : n = BuildTrust(m, r)
  OBVIOUS
<1>3. held \in Bindings /\ KeptFor(r, held)
  BY <1>1 DEF SoundMachine, MachineType
<1>4. CASE ~PinHolds(m, held)
  <2>1. n = m
    BY <1>1, <1>2, <1>4 DEF BuildTrust, SoundMachine, MachineType
  <2> QED
    BY <1>2, <2>1
<1>5. CASE PinHolds(m, held)
  <2>1. Verified(held) /\ m.pin \in {0, held.file}
    BY <1>5 DEF PinHolds
  <2>2. held.claim = 0 /\ held.index \in {0, held.file} /\ held.file \in Certificates
    BY <1>3, <2>1, VerifiedIsAlone
  <2>3. CertifiedFor[held.file] = r
    BY <1>3, <2>2, CertificatesAreFor DEF KeptFor
  <2>4. Rivals(m, held.file) = {}
    <3>1. SUFFICES ASSUME NEW d \in m.offered, CertifiedFor[d] = CertifiedFor[held.file] PROVE d = held.file
      BY DEF Rivals
    <3>2. Remembered(m, d)
      BY DEF SoundMachine
    <3> QED
      BY <1>1, <2>2, <2>3, <3>1, <3>2 DEF Remembered
  <2>5. PICK t : t = [certificate |-> held.file, rivals |-> {}]
    OBVIOUS
  <2>6. t \in [certificate : Certificates, rivals : SUBSET Certificates]
    BY <2>2, <2>5
  <2>7. held.file \in MaybeCertificates
    BY <2>2 DEF MaybeCertificates
  <2>8. n = [m EXCEPT !.pin = held.file, !.trusted = m.trusted \cup {t}]
    BY <1>1, <1>2, <1>5, <2>4, <2>5 DEF BuildTrust
  <2>9. /\ n \in MachineType /\ n.bound = m.bound /\ n.offered = m.offered
        /\ n.pin = held.file /\ n.trusted = m.trusted \cup {t}
    BY <2>6, <2>7, <2>8 DEF SoundMachine, MachineType
  <2>10. \A u \in n.trusted : u.certificate = n.pin /\ u.rivals = {}
    <3>1. SUFFICES ASSUME NEW u \in m.trusted PROVE u.certificate = held.file /\ u.rivals = {}
      BY <2>5, <2>9
    <3>2. u.certificate = m.pin /\ u.rivals = {} /\ u.certificate \in Certificates
      BY DEF SoundMachine, MachineType
    <3> QED
      BY <2>1, <3>2, CertificatesAreFor
  <2>11. \A d \in n.offered : Remembered(n, d)
    BY <2>9 DEF SoundMachine, Remembered
  <2> QED
    BY <1>2, <2>9, <2>10, <2>11 DEF SoundMachine
<1> QED
  BY <1>4, <1>5

\* A new machine holds no certificate.
LEMMA EmptyIsSound == SoundMachine(EmptyMachine)
<1>1. 0 \in MaybeCertificates
  BY DEF MaybeCertificates
<1>2. [file |-> 0, index |-> 0, claim |-> 0] \in Bindings
  BY <1>1 DEF Bindings
<1>3. EmptyMachine \in MachineType
  BY <1>1, <1>2 DEF EmptyMachine, MachineType
<1>4. \A r \in Repos : EmptyMachine.bound[r] = [file |-> 0, index |-> 0, claim |-> 0]
  BY DEF EmptyMachine
<1>5. \A r \in Repos : KeptFor(r, EmptyMachine.bound[r])
  BY <1>4 DEF KeptFor
<1>6. EmptyMachine.offered = {} /\ EmptyMachine.trusted = {}
  BY DEF EmptyMachine
<1> QED
  BY <1>3, <1>5, <1>6 DEF SoundMachine

\* OneBinding, for any certificates of any repositories: the contexts of a URL
\* trust one certificate, and none trusts it after a snapshot offered the
\* repository another (repository.rs, build_trust; cache.rs, write_snapshot).
THEOREM BindingIsOne == MachineSpec => []OneBinding
<1>1. MachineInit => SoundMachine(machine)
  BY EmptyIsSound DEF MachineInit
<1>2. SoundMachine(machine) /\ [MachineNext]_<<vars, machine, brief>> => SoundMachine(machine)'
  <2> SUFFICES ASSUME SoundMachine(machine), [MachineNext]_<<vars, machine, brief>>
               PROVE  SoundMachine(machine)'
    OBVIOUS
  <2>1. PICK m : m = machine
    OBVIOUS
  <2>2. CASE UNCHANGED machine
    BY <2>2 DEF SoundMachine, Remembered
  <2>3. ASSUME NEW c \in Certificates, TakeSnapshot(c) \/ Install(c) PROVE SoundMachine(machine)'
    <3>1. machine' = Snapshot(m, c) \/ machine' = InstallFile(m, c)
      BY <2>1, <2>3 DEF TakeSnapshot, Install
    <3>2. SoundMachine(Snapshot(m, c)) /\ SoundMachine(InstallFile(m, c))
      BY <2>1, SnapshotIsSound, InstallFileIsSound
    <3>3. PICK n : n = machine' /\ SoundMachine(n)
      BY <3>1, <3>2
    <3> QED
      BY <3>3
  <2>4. CASE InstallRow
    <3>1. PICK n : n = InstallIndex(m)
      OBVIOUS
    <3>2. SoundMachine(n) /\ machine' = n
      BY <2>1, <2>4, <3>1, InstallIndexIsSound DEF InstallRow
    <3> QED
      BY <3>2
  <2>5. ASSUME NEW r \in Repos, Trust(r) PROVE SoundMachine(machine)'
    <3>1. PICK n : n = BuildTrust(m, r)
      OBVIOUS
    <3>2. SoundMachine(n) /\ machine' = n
      BY <2>1, <2>5, <3>1, BuildTrustIsSound DEF Trust
    <3> QED
      BY <3>2
  <2> QED
    BY <2>2, <2>3, <2>4, <2>5 DEF MachineNext, Caching
<1>3. SoundMachine(machine) => OneBinding
  BY DEF SoundMachine, OneBinding
<1> QED
  BY <1>1, <1>2, <1>3, PTL DEF MachineSpec

-----------------------------------------------------------------------------
(* Induction, over numbers and finite sets *)

\* Some sets of subsets of a finite set have a smallest member.
LEMMA SmallestSubset ==
    ASSUME NEW S, IsFiniteSet(S), NEW T \in SUBSET SUBSET S, T # {}
    PROVE  \E X \in T : \A Y \in T : Y \subseteq X => Y = X
<1>1. IsWellFoundedOn(StrictSubsetOrdering(S), SUBSET S)
  BY FS_StrictSubsetOrderingWellFounded, FS_FiniteSubsetsOfFinite
<1>2. PICK X \in T : \A Y \in T : ~(<<Y, X>> \in StrictSubsetOrdering(S))
  BY <1>1, WFMin
<1> QED
  BY <1>2 DEF StrictSubsetOrdering

\* Some numbers have a least one.
LEMMA LeastNumber ==
    ASSUME NEW S \in SUBSET Nat, S # {}
    PROVE  \E m \in S : \A y \in S : m <= y
<1>1. PICK k \in S : TRUE
  OBVIOUS
<1> DEFINE D == {x \in S : x <= k}
<1> DEFINE T == {0..y : y \in D}
<1>2. IsFiniteSet(0..k)
  BY FS_Interval
<1>3. T \in SUBSET SUBSET (0..k) /\ T # {}
  <2>1. \A y \in D : 0..y \in SUBSET (0..k)
    OBVIOUS
  <2>2. k \in D
    OBVIOUS
  <2> QED
    BY <2>1, <2>2, Zenon
<1>4. PICK X \in T : \A Y \in T : Y \subseteq X => Y = X
  <2> DEFINE I == 0..k
  <2>1. IsFiniteSet(I) /\ T \in SUBSET SUBSET I /\ T # {}
    BY <1>2, <1>3
  <2> HIDE DEF T, I
  <2> QED
    BY <2>1, SmallestSubset
<1>5. PICK m \in D : X = 0..m
  OBVIOUS
<1>6. ASSUME NEW y \in S, ~(m <= y) PROVE FALSE
  <2>1. y \in D
    BY <1>5, <1>6
  <2>2. 0..y \in T /\ 0..y \subseteq X /\ m \in X /\ m \notin 0..y
    BY <1>5, <1>6, <2>1
  <2> QED
    BY <1>4, <2>2
<1> QED
  BY <1>5, <1>6

\* What holds of 0, and of the next of each number it holds of, holds of all.
LEMMA AllNumbers ==
  ASSUME NEW S \in SUBSET Nat, 0 \in S, \A n \in S : n + 1 \in S
  PROVE  S = Nat
<1> SUFFICES ASSUME Nat \ S # {} PROVE FALSE
  OBVIOUS
<1>1. PICK m \in Nat \ S : \A y \in Nat \ S : m <= y
  <2> DEFINE T == Nat \ S
  <2>1. T \in SUBSET Nat /\ T # {}
    OBVIOUS
  <2> HIDE DEF T
  <2>2. \E m \in T : \A y \in T : m <= y
    BY <2>1, LeastNumber
  <2> QED
    BY <2>2 DEF T
<1>2. m # 0 /\ m - 1 \in Nat
  BY <1>1
<1>3. m - 1 \in S
  BY <1>1, <1>2
<1> QED
  BY <1>1, <1>3

-----------------------------------------------------------------------------
(* The references of a fact *)

Unread(local) == [trust |-> "trusted", owners |-> {}, class |-> local]

\* The first n references have been looked at in turn.
Reads(walk, n, c, references, local, at) ==
  walk = [k \in 0..n |-> IF k = 0 THEN Unread(local)
                         ELSE After(walk[k - 1], references[k], c, local, at)]

\* However many references there are, they can be looked at in turn.
LEMMA ReadsExist ==
  ASSUME NEW c, NEW references, NEW local, NEW at, NEW N \in Nat
  PROVE  \E walk : Reads(walk, N, c, references, local, at)
<1> DEFINE S == {n \in Nat : \E walk : Reads(walk, n, c, references, local, at)}
<1>1. 0 \in S
  <2> DEFINE w == [k \in 0..0 |-> Unread(local)]
  <2>1. Reads(w, 0, c, references, local, at)
    BY DEF Reads
  <2> QED
    BY <2>1
<1>2. ASSUME NEW n \in S PROVE n + 1 \in S
  <2>1. PICK walk : Reads(walk, n, c, references, local, at)
    OBVIOUS
  <2> DEFINE more == After(walk[n], references[n + 1], c, local, at)
             longer == [k \in 0..(n + 1) |-> IF k <= n THEN walk[k] ELSE more]
  <2>2. n \in Nat /\ n + 1 \in Nat
    OBVIOUS
  <2>3. ASSUME NEW k \in 0..(n + 1)
        PROVE  longer[k] = IF k = 0 THEN Unread(local)
                           ELSE After(longer[k - 1], references[k], c, local, at)
    <3>1. CASE k <= n
      <4>1. k \in 0..n /\ longer[k] = walk[k]
        BY <2>2, <3>1
      <4>2. k # 0 => longer[k - 1] = walk[k - 1]
        BY <2>2, <3>1
      <4>3. walk[k] = IF k = 0 THEN Unread(local)
                      ELSE After(walk[k - 1], references[k], c, local, at)
        BY <2>1, <4>1 DEF Reads
      <4> QED
        BY <4>1, <4>2, <4>3
    <3>2. CASE ~(k <= n)
      <4>1. k = n + 1 /\ k # 0 /\ k - 1 = n
        BY <2>2, <3>2
      <4>2. longer[k] = more
        BY <3>2
      <4>3. longer[n] = walk[n]
        BY <2>2
      <4> QED
        BY <4>1, <4>2, <4>3
    <3> QED
      BY <3>1, <3>2
  <2>4. Reads(longer, n + 1, c, references, local, at)
    BY <2>3 DEF Reads
  <2> QED
    BY <2>2, <2>4
<1> HIDE DEF S
<1>3. S = Nat
  <2>1. S \in SUBSET Nat
    BY DEF S
  <2> QED
    BY <1>1, <1>2, <2>1, AllNumbers
<1> QED
  BY <1>3 DEF S

\* A walk along the references leads to the fact.
InTurn(walk, c, references, local, at) ==
  /\ FactOf(c, references, local, at) = walk[Len(references)]
  /\ walk[0] = Unread(local)
  /\ \A k \in 1..Len(references) :
        walk[k] = After(walk[k - 1], references[k], c, local, at)

\* A fact is what looking at its references in turn makes of it
\* (resolve_company_references).
LEMMA FactIsRead ==
  ASSUME NEW c, NEW references, NEW local, NEW at, Len(references) \in Nat
  PROVE  \E walk : InTurn(walk, c, references, local, at)
<1> DEFINE N == Len(references)
           walk == CHOOSE w : Reads(w, N, c, references, local, at)
<1>1. Reads(walk, N, c, references, local, at)
  BY ReadsExist
<1>2. FactOf(c, references, local, at) = walk[N]
  BY DEF FactOf, Reads, Unread
<1> HIDE DEF walk
<1>3. walk[0] = Unread(local)
  BY <1>1 DEF Reads
<1>4. ASSUME NEW k \in 1..N PROVE walk[k] = After(walk[k - 1], references[k], c, local, at)
  <2>1. k \in 0..N /\ k # 0
    OBVIOUS
  <2> QED
    BY <1>1, <2>1 DEF Reads
<1>5. InTurn(walk, c, references, local, at)
  BY <1>2, <1>3, <1>4 DEF InTurn
<1> QED
  BY <1>5

\* A reference leaves its trust and its owner.
LEMMA AfterIs ==
  ASSUME NEW fact, NEW reference, NEW c, NEW local, NEW at,
         NEW resolved, resolved = Resolved(c, reference, local, at),
         NEW after, after = After(fact, reference, c, local, at)
  PROVE  /\ after.trust = Kept(fact, resolved)
         /\ fact.owners \cup {resolved.owner} \subseteq after.owners
BY DEF After

\* A fact is trusted when each of its references resolves, and the owner of one
\* that does not is asked, whatever comes after it.
LEMMA EveryReferenceCounts ==
  ASSUME NEW c, NEW references, NEW local, NEW at, Len(references) \in Nat
  PROVE  LET fact == FactOf(c, references, local, at)
             Of(i) == Resolved(c, references[i], local, at)
         IN /\ fact.trust = "trusted" <=> \A i \in 1..Len(references) : Of(i).trust = "trusted"
            /\ \A i \in 1..Len(references) : Of(i).owner \in fact.owners
<1>0. PICK walk : InTurn(walk, c, references, local, at)
  BY FactIsRead
<1>1. /\ FactOf(c, references, local, at) = walk[Len(references)]
      /\ walk[0] = Unread(local)
      /\ \A k \in 1..Len(references) :
            walk[k] = After(walk[k - 1], references[k], c, local, at)
  BY <1>0 DEF InTurn
<1> DEFINE N == Len(references)
           Of(i) == Resolved(c, references[i], local, at)
<1> DEFINE Counted(n) ==
             /\ walk[n].trust = "trusted" <=> \A i \in 1..n : Of(i).trust = "trusted"
             /\ \A i \in 1..n : Of(i).owner \in walk[n].owners
           S == {n \in Nat : n <= N => Counted(n)}
<1> HIDE DEF Of
<1>2. 0 \in S
  BY <1>1 DEF Unread
<1>3. ASSUME NEW n \in S PROVE n + 1 \in S
  <2> SUFFICES ASSUME n + 1 <= N PROVE Counted(n + 1)
    OBVIOUS
  <2>1. n \in Nat /\ n + 1 \in 1..N /\ Counted(n) /\ (n + 1) - 1 = n
    OBVIOUS
  <2>2. walk[n + 1] = After(walk[n], references[n + 1], c, local, at)
    BY <1>1, <2>1
  <2>3. /\ walk[n + 1].trust = IF Of(n + 1).trust = "trusted" THEN walk[n].trust ELSE Of(n + 1).trust
        /\ walk[n].owners \cup {Of(n + 1).owner} \subseteq walk[n + 1].owners
    <3>1. walk[n + 1] = After(walk[n], references[n + 1], c, local, at)
      BY <2>2
    <3>2. /\ walk[n + 1].trust = Kept(walk[n], Of(n + 1))
          /\ walk[n].owners \cup {Of(n + 1).owner} \subseteq walk[n + 1].owners
      BY <3>1, AfterIs DEF Of
    <3> QED
      BY <3>2 DEF Kept
  <2>4. \A i \in 1..(n + 1) : i \in 1..n \/ i = n + 1
    BY <2>1
  <2>5. 1..n \subseteq 1..(n + 1) /\ n + 1 \in 1..(n + 1)
    BY <2>1
  <2> QED
    BY <2>1, <2>3, <2>4, <2>5
<1>4. S = Nat
  <2>1. S \in SUBSET Nat
    OBVIOUS
  <2> HIDE DEF S
  <2> QED
    BY <1>2, <1>3, <2>1, AllNumbers
<1>5. Counted(N)
  BY <1>4
<1> QED
  BY <1>1, <1>5 DEF Of

\* What a context says, and what a reference holds.
SoundContext(c) ==
  /\ {c.valid, c.revocation, c.fact, c.present} \subseteq BOOLEAN
  /\ c.relaxations \in Relaxations \cup {<<>>}

SoundReference(reference) ==
  /\ reference.known \in BOOLEAN
  /\ {reference.digest, reference.version, reference.until} \subseteq Nat

\* The contexts and references of a brief are such.
LEMMA BriefsAreSound ==
  /\ \A c \in Contexts : SoundContext(c)
  /\ \A reference \in References : SoundReference(reference)
<1>1. ASSUME NEW c \in Contexts PROVE SoundContext(c)
  <2>1. CASE c \in Cached
    BY <2>1 DEF Cached, SoundContext
  <2>2. ASSUME NEW valid \in BOOLEAN, NEW r \in {"no", "unasked"}, c = ColdContext(valid, r)
        PROVE  SoundContext(c)
    BY <2>2 DEF ColdContext, SoundContext
  <2> QED
    BY <2>1, <2>2 DEF Contexts
<1>2. ASSUME NEW reference \in References PROVE SoundReference(reference)
  <2>1. reference \in [known : BOOLEAN, digest : Nat, version : Nat, until : Nat, class : Classes]
    BY ReferencesAssumption
  <2> QED
    BY <2>1 DEF SoundReference
<1> QED
  BY <1>1, <1>2

\* The row of the truth table that trusts a reference.
Resolves(c, reference, at) ==
  /\ c.valid /\ c.revocation /\ c.fact
  /\ c.versions # {} /\ reference.known
  /\ reference.digest = Max(c.versions)
  /\ reference.until > at

\* The truth table trusts in that one row, whatever the class.
LEMMA OneRowTrusts ==
  ASSUME NEW c, SoundContext(c), NEW reference, SoundReference(reference),
         NEW class, NEW at
  PROVE  Projected(c, reference, class, at).trust = "trusted"
           <=> c.valid /\ c.revocation /\ c.fact /\ reference.until > at
<1>1. /\ c.valid \in BOOLEAN /\ c.revocation \in BOOLEAN /\ c.fact \in BOOLEAN
  BY DEF SoundContext
<1>2. CASE ~c.valid
  BY <1>1, <1>2 DEF Projected
<1>3. CASE c.valid /\ ~c.revocation
  BY <1>1, <1>3 DEF Projected
<1>4. CASE c.valid /\ c.revocation /\ ~(c.fact /\ reference.until > at)
  BY <1>1, <1>4 DEF Projected
<1>5. CASE c.valid /\ c.revocation /\ c.fact /\ reference.until > at
  BY <1>1, <1>5 DEF Projected
<1> QED
  BY <1>1, <1>2, <1>3, <1>4, <1>5

\* A reference resolves when its row says so (resolve_company_references).
LEMMA ResolvedIsTable ==
  ASSUME NEW c, SoundContext(c), NEW reference, SoundReference(reference),
         NEW local, NEW at
  PROVE  Resolved(c, reference, local, at).trust = "trusted" <=> Resolves(c, reference, at)
<1>1. reference.known \in BOOLEAN
  BY DEF SoundReference
<1>2. CASE ~reference.known
  BY <1>1, <1>2 DEF Resolved, Resolves
<1>3. CASE reference.known /\ c.versions = {}
  BY <1>1, <1>3 DEF Resolved, Resolves
<1>4. CASE reference.known /\ c.versions # {} /\ ~IsLive(c, reference)
  BY <1>1, <1>4 DEF Resolved, Resolves, IsLive, Live
<1>5. CASE reference.known /\ c.versions # {} /\ IsLive(c, reference)
  <2>1. PICK class : class = Class(c, reference, local, at)
    OBVIOUS
  <2>2. Resolved(c, reference, local, at) = Projected(c, reference, class, at)
    BY <1>1, <1>5, <2>1 DEF Resolved
  <2> QED
    BY <1>5, <2>2, OneRowTrusts DEF Resolves, IsLive, Live
<1> QED
  BY <1>1, <1>2, <1>3, <1>4, <1>5

\* A reference that does not resolve has an owner, unless Company could not be
\* asked (digest_mismatch_attribution).
LEMMA UnresolvedIsOwned ==
  ASSUME NEW c, SoundContext(c), NEW reference, SoundReference(reference),
         NEW local, NEW at, NEW resolved, resolved = Resolved(c, reference, local, at),
         resolved.trust # "trusted"
  PROVE  resolved.owner # "none" \/ c.reachable = "no" \/ ~c.present
<1>1. reference.known \in BOOLEAN /\ c.present \in BOOLEAN
  BY DEF SoundReference, SoundContext
<1>2. CASE ~reference.known
  BY <1>1, <1>2 DEF Resolved
<1>3. CASE reference.known /\ c.versions = {}
  BY <1>1, <1>3 DEF Resolved, CompanyUnavailable
<1>4. CASE reference.known /\ c.versions # {} /\ ~IsLive(c, reference)
  <2>1. PICK owner : owner = Attributed(c, reference)
    OBVIOUS
  <2>2. resolved.owner = owner
    BY <1>1, <1>4, <2>1 DEF Resolved
  <2>3. owner = "none" => c.reachable = "no"
    <3>1. PICK named : named = IF reference.version # 0 THEN c.versions \cap {reference.version}
                               ELSE IF reference.digest \in c.versions THEN {reference.digest}
                               ELSE {Min(c.versions)}
      OBVIOUS
    <3>2. owner = CASE named = {reference.digest} -> "client"
                    [] named = {} -> IF c.reachable = "no" THEN "none" ELSE "company-steward"
                    [] named \notin {{}, {reference.digest}} -> "company-steward"
      BY <2>1, <3>1 DEF Attributed
    <3> QED
      BY <3>2
  <2> QED
    BY <2>2, <2>3
<1>5. CASE reference.known /\ c.versions # {} /\ IsLive(c, reference)
  <2>1. PICK class : class = Class(c, reference, local, at)
    OBVIOUS
  <2>2. resolved = Projected(c, reference, class, at)
    BY <1>1, <1>5, <2>1 DEF Resolved
  <2>3. c.valid \in BOOLEAN /\ c.revocation \in BOOLEAN /\ c.fact \in BOOLEAN
    BY DEF SoundContext
  <2> QED
    BY <2>2, <2>3 DEF Projected
<1> QED
  BY <1>1, <1>2, <1>3, <1>4, <1>5

\* Some numbers up to another have a greatest one.
LEMMA MaxIsGreatest ==
  ASSUME NEW n \in Nat, NEW S \in SUBSET (0..n), S # {}
  PROVE  Max(S) \in S /\ \A y \in S : y <= Max(S)
<1>1. \A x \in S : x \in Nat /\ n - x \in Nat
  OBVIOUS
<1> DEFINE T == {n - x : x \in S}
<1>2. T \in SUBSET Nat /\ T # {}
  BY <1>1
<1>3. PICK m \in T : \A y \in T : m <= y
  <2> HIDE DEF T
  <2> QED
    BY <1>2, LeastNumber
<1>4. PICK x \in S : m = n - x
  BY <1>3
<1>5. ASSUME NEW y \in S PROVE x >= y
  <2>1. n - y \in T
    OBVIOUS
  <2>2. n - x <= n - y
    BY <1>3, <1>4, <2>1
  <2>3. x \in Nat /\ y \in Nat
    BY <1>1
  <2> QED
    BY <2>2, <2>3
<1>6. \E z \in S : \A y \in S : z >= y
  BY <1>5
<1>7. Max(S) \in S /\ \A y \in S : Max(S) >= y
  BY <1>6 DEF Max
<1>8. ASSUME NEW y \in S PROVE y <= Max(S)
  <2>1. Max(S) \in Nat /\ y \in Nat
    BY <1>1, <1>7
  <2> QED
    BY <1>7, <2>1
<1> QED
  BY <1>7, <1>8

\* A fact-owner's class is only relaxed by a relaxation in force.
LEMMA ExcludedIsAdvisory ==
  ASSUME NEW c, SoundContext(c), c.versions \in SUBSET Versions,
         NEW reference, SoundReference(reference),
         NEW local, NEW at, Resolved(c, reference, local, at).trust = "excluded"
  PROVE  /\ local # "safety_critical"
         /\ \/ reference.digest = 0
            \/ Criticality[reference.digest] = "advisory"
            \/ \E x \in Range(c.relaxations) : x.until > at /\ x.repository # "other"
<1>1. reference.known \in BOOLEAN
  BY DEF SoundReference
<1>2. reference.known /\ c.versions # {} /\ IsLive(c, reference)
  BY <1>1 DEF Resolved
<1>3. PICK class : class = Class(c, reference, local, at)
  OBVIOUS
<1>4. Projected(c, reference, class, at).trust = "excluded"
  BY <1>1, <1>2, <1>3 DEF Resolved
<1>5. class # "safety_critical"
  <2>1. c.valid \in BOOLEAN /\ c.revocation \in BOOLEAN /\ c.fact \in BOOLEAN
    BY DEF SoundContext
  <2> QED
    BY <1>4, <2>1 DEF Projected
<1>6. local # "safety_critical" /\ EffectiveClass(c, reference, at) # "safety_critical"
  BY <1>3, <1>5 DEF Class
<1> DEFINE holds == {i \in DOMAIN c.relaxations : Applies(c.relaxations[i], c, at)}
<1>7. CASE holds # {}
  <2>1. PICK i \in holds : TRUE
    BY <1>7
  <2>2. c.relaxations[i] \in Range(c.relaxations)
    BY <2>1 DEF Range
  <2>3. c.relaxations[i].until > at /\ c.relaxations[i].repository # "other"
    BY <2>1 DEF Applies, ForRepository
  <2> QED
    BY <1>6, <2>2, <2>3
<1>8. CASE holds = {}
  <2>1. Live(c.versions) = reference.digest
    BY <1>2 DEF IsLive
  <2>2. CASE reference.digest = 0
    BY <1>6, <2>2
  <2>3. CASE reference.digest # 0
    <3>1. EffectiveClass(c, reference, at) = Criticality[reference.digest]
      BY <1>8, <2>1, <2>3 DEF EffectiveClass
    <3>2. reference.digest \in 1..MaxChanges
      <4>1. MaxVersions \in Nat /\ MaxVersions <= MaxChanges /\ MaxChanges \in Nat
        <5>1. MaxVersions \in 0..MaxChanges
          BY ReferencesAssumption
        <5>2. MaxChanges \in Nat
          BY CacheAssumption
        <5> QED
          BY <5>1, <5>2
      <4>2. c.versions \in SUBSET (0..MaxVersions)
        BY DEF Versions
      <4>3. Max(c.versions) \in c.versions
        BY <1>2, <4>1, <4>2, MaxIsGreatest
      <4> QED
        BY <1>2, <2>1, <4>1, <4>3 DEF Live, Versions
    <3>3. Criticality[reference.digest] \in Classes
      <4>1. Criticality \in [1..MaxChanges -> Classes]
        BY ReferencesAssumption
      <4> QED
        BY <3>2, <4>1
    <3> QED
      BY <1>6, <3>1, <3>3 DEF Classes
  <2> QED
    BY <2>2, <2>3
<1> QED
  BY <1>7, <1>8

\* A brief is what a context made of some references.
LEMMA BriefIsMade ==
  ASSUME NEW b \in Briefs
  PROVE  \E c \in Contexts, references \in Seq(References), local \in Locals :
            LET fact == FactOf(c, references, local, Now)
            IN /\ b.context = c /\ b.references = references /\ b.local = local
               /\ b.trust = fact.trust /\ b.owners = fact.owners
<1>1. PICK c \in Contexts, references \in BoundedSeq(References, MaxReferences), local \in Locals :
        b = Brief(c, references, local)
  BY DEF Briefs
<1>2. PICK m \in 0..MaxReferences : references \in [1..m -> References]
  BY DEF BoundedSeq, SeqOf
<1>3. references \in Seq(References)
  <2>1. MaxReferences \in Nat
    BY ReferencesAssumption
  <2>2. m \in Nat
    BY <2>1
  <2> QED
    BY <1>2, <2>2, SeqDef
<1>4. PICK fact : fact = FactOf(c, references, local, Now)
  OBVIOUS
<1>5. /\ b.context = c /\ b.references = references /\ b.local = local
      /\ b.trust = fact.trust /\ b.owners = fact.owners
  BY <1>1, <1>4 DEF Brief
<1> QED
  BY <1>3, <1>4, <1>5

TableIsFollowedBy(b) ==
  /\ b.trust = "trusted" <=> \A i \in DOMAIN b.references : Resolves(b.context, b.references[i], Now)
  /\ b.trust = "excluded" /\ Len(b.references) = 1 =>
        /\ b.local # "safety_critical"
        /\ \A i \in DOMAIN b.references :
              \/ b.references[i].digest = 0
              \/ Criticality[b.references[i].digest] = "advisory"
              \/ \E x \in Range(b.context.relaxations) : x.until > Now /\ x.repository # "other"
  /\ b.trust # "trusted" =>
        b.owners # {"none"} \/ b.context.reachable = "no" \/ ~b.context.present

\* Whatever references a fact holds, and however many, a brief follows the table.
LEMMA BriefsFollowTable ==
  ASSUME NEW b \in Briefs
  PROVE  TableIsFollowedBy(b)
<1>1. PICK c \in Contexts, references \in Seq(References), local \in Locals :
        LET fact == FactOf(c, references, local, Now)
        IN /\ b.context = c /\ b.references = references /\ b.local = local
           /\ b.trust = fact.trust /\ b.owners = fact.owners
  BY BriefIsMade
<1>2. PICK fact : fact = FactOf(c, references, local, Now)
  OBVIOUS
<1>3. /\ b.context = c /\ b.references = references /\ b.local = local
      /\ b.trust = fact.trust /\ b.owners = fact.owners
  BY <1>1, <1>2
<1>4. /\ Len(references) \in Nat /\ DOMAIN references = 1..Len(references)
      /\ \A i \in 1..Len(references) : references[i] \in References
  BY LenProperties, ElementOfSeq
<1>5. SoundContext(c) /\ \A i \in 1..Len(references) : SoundReference(references[i])
  BY <1>4, BriefsAreSound
<1>6. /\ fact.trust = "trusted" <=>
            \A i \in 1..Len(references) : Resolved(c, references[i], local, Now).trust = "trusted"
      /\ \A i \in 1..Len(references) : Resolved(c, references[i], local, Now).owner \in fact.owners
  BY <1>2, <1>4, EveryReferenceCounts
<1>7. \A i \in 1..Len(references) :
        Resolved(c, references[i], local, Now).trust = "trusted" <=> Resolves(c, references[i], Now)
  BY <1>5, ResolvedIsTable
<1>8. b.trust = "trusted" <=> \A i \in DOMAIN b.references : Resolves(b.context, b.references[i], Now)
  BY <1>3, <1>4, <1>6, <1>7
<1>9. ASSUME b.trust = "excluded", Len(b.references) = 1
      PROVE  /\ b.local # "safety_critical"
             /\ \A i \in DOMAIN b.references :
                   \/ b.references[i].digest = 0
                   \/ Criticality[b.references[i].digest] = "advisory"
                   \/ \E x \in Range(b.context.relaxations) : x.until > Now /\ x.repository # "other"
  <2>1. PICK walk : InTurn(walk, c, references, local, Now)
    BY <1>4, FactIsRead
  <2>2. Len(references) = 1 /\ 1 \in 1..Len(references) /\ 1 - 1 = 0
    BY <1>3, <1>9
  <2>3. fact = walk[1] /\ walk[1] = After(Unread(local), references[1], c, local, Now)
    BY <1>2, <2>1, <2>2 DEF InTurn
  <2>4. fact.trust = Kept(Unread(local), Resolved(c, references[1], local, Now))
    BY <2>3, AfterIs
  <2>5. Resolved(c, references[1], local, Now).trust = "excluded"
    BY <1>3, <1>9, <2>4 DEF Kept, Unread
  <2>6. c.versions \in SUBSET Versions
    <3>1. CASE c \in Cached
      BY <3>1 DEF Cached
    <3>2. CASE \E valid \in BOOLEAN, r \in {"no", "unasked"} : c = ColdContext(valid, r)
      BY <3>2 DEF ColdContext
    <3> QED
      BY <3>1, <3>2 DEF Contexts
  <2>7. /\ local # "safety_critical"
        /\ \/ references[1].digest = 0
           \/ Criticality[references[1].digest] = "advisory"
           \/ \E x \in Range(c.relaxations) : x.until > Now /\ x.repository # "other"
    <3>1. PICK reference : reference = references[1] /\ SoundReference(reference)
      BY <1>5, <2>2
    <3>2. Resolved(c, reference, local, Now).trust = "excluded"
      BY <2>5, <3>1
    <3> QED
      BY <1>5, <2>6, <3>1, <3>2, ExcludedIsAdvisory
  <2>8. \A i \in DOMAIN references : i = 1
    BY <1>4, <2>2
  <2> QED
    BY <1>3, <2>7, <2>8
<1>10. ASSUME b.trust # "trusted"
       PROVE  b.owners # {"none"} \/ b.context.reachable = "no" \/ ~b.context.present
  <2>1. PICK i \in 1..Len(references) : Resolved(c, references[i], local, Now).trust # "trusted"
    BY <1>3, <1>6, <1>10
  <2>2. PICK resolved : resolved = Resolved(c, references[i], local, Now)
    OBVIOUS
  <2>3. PICK reference : reference = references[i] /\ SoundReference(reference)
    BY <1>5
  <2>4. resolved.owner # "none" \/ c.reachable = "no" \/ ~c.present
    BY <1>5, <2>1, <2>2, <2>3, UnresolvedIsOwned
  <2>5. resolved.owner \in b.owners
    BY <1>3, <1>6, <2>2
  <2> QED
    BY <1>3, <2>4, <2>5
<1> QED
  BY <1>8, <1>9, <1>10 DEF TableIsFollowedBy

\* TableIsFollowed, for any number of references of a fact, any relaxations and
\* whatever a context holds: a fact is trusted when each reference resolves, a
\* safety-critical one is excluded only under a relaxation in force, and an
\* untrusted one has an owner (repository.rs, resolve_company_references).
THEOREM TableIsFollowedAlways == MachineSpec => []TableIsFollowed
<1> DEFINE Made == brief \in {NotAsked} \cup Briefs
<1>1. MachineInit => Made
  BY DEF MachineInit
<1>2. Made /\ [MachineNext]_<<vars, machine, brief>> => Made'
  BY DEF MachineNext, Caching, Certifying
<1>3. Made => TableIsFollowed
  <2> SUFFICES ASSUME Made PROVE TableIsFollowed
    OBVIOUS
  <2>1. CASE brief = NotAsked
    BY <2>1 DEF NotAsked, TableIsFollowed, TrustedIsResolved, SafetyFailsClosed, UntrustedIsOwned
  <2>2. CASE brief \in Briefs
    <3>1. PICK b \in Briefs : b = brief
      BY <2>2
    <3>2. TableIsFollowedBy(b)
      BY BriefsFollowTable
    <3>3. TrustedIsResolved
      BY <3>1, <3>2 DEF TableIsFollowedBy, TrustedIsResolved, Resolves
    <3>4. SafetyFailsClosed
      BY <3>1, <3>2 DEF TableIsFollowedBy, SafetyFailsClosed, ExcludedIsRelaxed
    <3>5. UntrustedIsOwned
      BY <3>1, <3>2 DEF TableIsFollowedBy, UntrustedIsOwned
    <3> QED
      BY <3>3, <3>4, <3>5 DEF TableIsFollowed
  <2> QED
    BY <2>1, <2>2
<1> HIDE DEF Made
<1> QED
  BY <1>1, <1>2, <1>3, PTL DEF MachineSpec

-----------------------------------------------------------------------------
(* What is relied on *)

\* Later changes are committed at later instants, or the same.
Ordered ==
  \A i, j \in 1..Len(commits) : i <= j => commits[i].at <= commits[j].at

\* A change is committed at the present, which is no earlier than any instant.
LEMMA OrderedStays ==
  ASSUME History, Ordered, [Next]_vars
  PROVE  Ordered'
<1>1. UNCHANGED commits \/ \E scope \in Repos \cup {Everywhere} : Commit(scope)
  BY DEF Next, vars, StartBrief, StartStatus, StartHost, RefreshFails, StoreSnapshot,
         StoreUnchanged, AskInFull, Refuse, ReadFirst, ReadSecond, Finish, Tick
<1>2. CASE UNCHANGED commits
  BY <1>2 DEF Ordered
<1>3. CASE \E scope \in Repos \cup {Everywhere} : Commit(scope)
  <2>1. PICK scope \in Repos \cup {Everywhere} : Commit(scope)
    BY <1>3
  <2>2. PICK c \in Changes : c.at = wall /\ commits' = Append(commits, c)
    <3>1. [governs |-> scope, at |-> wall] \in Changes
      BY DEF History, Changes
    <3> QED
      BY <2>1, <3>1 DEF Commit
  <2>3. /\ Len(commits) \in Nat /\ Len(commits') = Len(commits) + 1
        /\ commits'[Len(commits) + 1] = c
        /\ \A i \in 1..Len(commits) : commits'[i] = commits[i]
    BY <2>2, AppendProperties, LenProperties DEF History
  <2>4. /\ wall \in Nat
        /\ \A i \in 1..Len(commits) : commits[i].at \in Nat /\ commits[i].at <= wall
    BY HistoryIsFinite DEF History
  <2> SUFFICES ASSUME NEW i \in 1..Len(commits'), NEW j \in 1..Len(commits'), i <= j
               PROVE  commits'[i].at <= commits'[j].at
    BY DEF Ordered
  <2>5. CASE j = Len(commits) + 1
    <3>1. commits'[j].at = wall
      BY <2>2, <2>3, <2>5
    <3>2. i \in 1..Len(commits) \/ i = j
      BY <2>3, <2>5
    <3> QED
      BY <2>3, <2>4, <3>1, <3>2
  <2>6. CASE j # Len(commits) + 1
    <3>1. i \in 1..Len(commits) /\ j \in 1..Len(commits)
      BY <2>3, <2>6
    <3> QED
      BY <2>3, <3>1 DEF Ordered
  <2> QED
    BY <2>5, <2>6
<1> QED
  BY <1>1, <1>2, <1>3, SMTT(40)

\* A change of before an instant is counted with all the changes before it.
LEMMA EarlierIsCounted ==
  ASSUME History, Ordered, NEW t \in Nat, NEW i \in 1..Len(commits), commits[i].at < t
  PROVE  i <= CommittedBy(t)
<1> DEFINE S == {j \in 1..Len(commits) : commits[j].at < t}
<1>1. /\ Len(commits) \in Nat /\ IsFiniteSet(1..Len(commits))
      /\ \A j \in 1..Len(commits) : commits[j].at \in Nat
  BY HistoryIsFinite
<1>2. IsFiniteSet(1..i) /\ Cardinality(1..i) = i
  <2>1. i \in Nat /\ i >= 1
    BY <1>1
  <2>2. IsFiniteSet(1..i) /\ Cardinality(1..i) = IF 1 > i THEN 0 ELSE i - 1 + 1
    BY <2>1, FS_Interval
  <2> QED
    BY <2>1, <2>2
<1>3. 1..i \in SUBSET S
  <2> SUFFICES ASSUME NEW j \in 1..i PROVE j \in S
    OBVIOUS
  <2>1. j \in 1..Len(commits) /\ j <= i
    BY <1>1
  <2>2. commits[j].at <= commits[i].at
    BY <2>1 DEF Ordered
  <2> QED
    BY <1>1, <2>1, <2>2
<1>4. S \in SUBSET (1..Len(commits))
  OBVIOUS
<1>5. IsFiniteSet(S)
  BY <1>1, <1>4, FS_Subset
<1>6. Cardinality(1..i) <= Cardinality(S)
  BY <1>3, <1>5, FS_Subset
<1> QED
  BY <1>2, <1>6 DEF CommittedBy

\* A fact with one reference holds that reference.
LEMMA OneReference ==
  ASSUME NEW reference
  PROVE  Len(<<reference>>) = 1 /\ <<reference>>[1] = reference
OBVIOUS

\* A process trusts a fact that refers to the digest of the change d.
ReferenceTo(d) ==
  [known |-> TRUE, digest |-> d, version |-> 0, until |-> MaxChanges + 1,
   class |-> "safety_critical"]
VersionsIn(r) == {j \in r.digest : commits[j].governs = Everywhere}
Relies(q, d) == FactOf(Shown(q), <<ReferenceTo(d)>>, "", q.at).trust = "trusted"

\* It does so when the change is the newest it was shown.
LEMMA ReliesOnNewest ==
  ASSUME NEW q, q.trusted \in BOOLEAN, NEW d \in Nat, Relies(q, d)
  PROVE  /\ q.trusted /\ q.seen # None
         /\ VersionsIn(q.seen) # {} /\ d = Max(VersionsIn(q.seen))
<1>1. PICK c : c = Shown(q)
  OBVIOUS
<1>2. SoundContext(c)
  BY <1>1 DEF SoundContext, Shown
<1>3. PICK reference : reference = ReferenceTo(d)
  OBVIOUS
<1>4. SoundReference(reference) /\ reference.digest = d
  <2>1. /\ reference.known = TRUE /\ reference.digest = d /\ reference.version = 0
        /\ reference.until = MaxChanges + 1
    BY <1>3 DEF ReferenceTo
  <2>2. MaxChanges + 1 \in Nat
    BY CacheAssumption
  <2>3. reference.version \in Nat /\ reference.until \in Nat /\ reference.digest \in Nat
    BY <2>1, <2>2
  <2> QED
    BY <2>1, <2>3 DEF SoundReference
<1>5. PICK references : references = <<reference>>
  OBVIOUS
<1>6. Len(references) = 1 /\ references[1] = reference
  BY <1>5, OneReference
<1>7. PICK at : at = q.at
  OBVIOUS
<1>8. FactOf(c, references, "", at).trust = "trusted"
  BY <1>1, <1>3, <1>5, <1>7 DEF Relies
<1>9. Resolved(c, reference, "", at).trust = "trusted"
  <2>1. \A k \in 1..Len(references) : Resolved(c, references[k], "", at).trust = "trusted"
    <3>1. Len(references) \in Nat
      BY <1>6
    <3> QED
      BY <1>8, <3>1, EveryReferenceCounts
  <2>2. 1 \in 1..Len(references)
    BY <1>6
  <2> QED
    BY <1>6, <2>1, <2>2
<1>10. Resolves(c, reference, at)
  BY <1>2, <1>4, <1>9, ResolvedIsTable
<1> QED
  BY <1>1, <1>4, <1>10 DEF Resolves, Shown, VersionsIn

\* What is trusted by a row that runs is the newest version, but for those
\* committed after the row was issued.
LEMMA NewerIsLater ==
  ASSUME CacheInv, Ordered, NEW p \in Procs, NEW q, q = proc[p], q.pc = "shown", ~q.torn,
         NEW d \in 1..Len(commits), Relies(q, d),
         NEW i \in 1..Len(commits), i > d, commits[i].governs = Everywhere
  PROVE  commits[i].at + RevocationFreshness > q.at
<1>1. History /\ ProcessKnows(q)
  BY DEF CacheInv
<1>2. /\ Len(commits) \in Nat /\ i \in Nat /\ i >= 1 /\ d \in Nat
      /\ commits[i].at \in Nat
  BY <1>1, HistoryIsFinite
<1>3. Vouched(q.seen) /\ q.trusted \in BOOLEAN /\ q.at \in Nat
  BY <1>1 DEF ProcessKnows
<1>4. /\ q.trusted /\ q.seen # None
      /\ VersionsIn(q.seen) # {} /\ d = Max(VersionsIn(q.seen))
  BY <1>2, <1>3, ReliesOnNewest
<1>5. PICK at \in Nat, t \in Nat : at = q.at /\ t = q.seen.issued /\ at < t + RevocationFreshness
  BY <1>1, <1>3, <1>4 DEF ProcessKnows, Vouched, RowType, RevocationFresh
<1>6. PICK m \in Nat : m = CommittedBy(t) /\ m <= Len(commits)
  BY <1>1, CommittedIsCounted
<1>7. PICK n \in m..Len(commits) : q.seen.digest = Content(q.seen.scope, n)
  BY <1>3, <1>4, <1>5, <1>6 DEF Vouched, Covers
<1>8. n \in Nat /\ m <= n
  BY <1>2, <1>6, <1>7
<1>9. \A j \in VersionsIn(q.seen) : j <= d
  <2>1. VersionsIn(q.seen) \in SUBSET (0..n)
    BY <1>7, <1>8 DEF Content, VersionsIn
  <2> QED
    BY <1>4, <1>8, <2>1, MaxIsGreatest
<1>10. PICK a \in Nat : a = commits[i].at
  BY <1>2
<1>11. ASSUME a < t PROVE FALSE
  <2>1. i <= m
    BY <1>1, <1>6, <1>10, <1>11, EarlierIsCounted
  <2>2. i \in 1..n
    BY <1>2, <1>6, <1>8, <2>1
  <2>3. i \in VersionsIn(q.seen)
    BY <1>7, <2>2 DEF Content, VersionsIn
  <2> QED
    BY <1>2, <1>9, <2>3
<1>12. RevocationFreshness \in Nat
  BY CacheAssumption
<1>13. a + RevocationFreshness > at
  <2>1. at \in Nat /\ t \in Nat /\ a \in Nat /\ at < t + RevocationFreshness
    BY <1>5, <1>10
  <2>2. t <= a
    BY <1>11, <2>1
  <2> QED
    BY <1>12, <2>1, <2>2
<1> QED
  BY <1>5, <1>10, <1>13

\* ShownIsCurrent, however refreshes overtake each other: what is shown as trusted
\* covers every change older than the window, and a fact is trusted only while no
\* version newer than the one it refers to is older than the window
\* (repository.rs, build_trust and resolve_company_references).
THEOREM ShownIsCurrentAlways == MachineSpec => []ShownIsCurrent
<1>1. MachineInit => Ordered
  BY DEF MachineInit, Init, Ordered
<1>2. CacheInv /\ Ordered /\ [MachineNext]_<<vars, machine, brief>> => Ordered'
  BY MachineMovesCache, OrderedStays DEF CacheInv
<1>3. CacheInv /\ Ordered => ReliedIsCurrent
  <2> SUFFICES ASSUME CacheInv, Ordered PROVE ReliedIsCurrent
    OBVIOUS
  <2>1. DOMAIN commits = 1..Len(commits)
    BY LenProperties DEF CacheInv, History
  <2>2. ASSUME NEW p \in Procs, proc[p].pc = "shown", ~proc[p].torn,
               NEW d \in 1..Len(commits), Relies(proc[p], d),
               NEW i \in 1..Len(commits), i > d, commits[i].governs = Everywhere
        PROVE  commits[i].at + RevocationFreshness > proc[p].at
    BY <2>2, NewerIsLater
  <2> QED
    BY <2>1, <2>2 DEF ReliedIsCurrent, Relies, ReferenceTo
<1>4. ShownIsCovered /\ ReliedIsCurrent => ShownIsCurrent
  BY DEF ShownIsCurrent
<1> QED
  BY <1>1, <1>2, <1>3, <1>4, CacheIsSound, ShownCovers, PTL DEF MachineSpec

-----------------------------------------------------------------------------
(* The service that answers: its log *)

LogRows ==
    [kind : {"fact"}, fact : Facts] \cup [kind : {"revocation"}, key : Keys]
    \cup [kind : {"registry"}, key : Keys, status : {"active", "revoked"}]

\* The greater log holds the lesser where it did.
LEMMA PrefixStays ==
    ASSUME NEW S, NEW L \in Seq(S), NEW M \in Seq(S), Len(L) <= Len(M),
           \A i \in 1..Len(L) : M[i] = L[i], NEW n \in 0..Len(L)
    PROVE  SubSeq(M, 1, n) = SubSeq(L, 1, n)
<1>1. n \in Nat /\ n <= Len(L) /\ n <= Len(M)
  OBVIOUS
<1>2. SubSeq(M, 1, n) = [i \in 1..n |-> M[i]] /\ SubSeq(L, 1, n) = [i \in 1..n |-> L[i]]
  BY <1>1, SubSeqProperties
<1> QED
  BY <1>1, <1>2

LEMMA PrefixIs ==
    ASSUME NEW S, NEW L \in Seq(S), NEW n \in 0..Len(L)
    PROVE  /\ SubSeq(L, 1, n) \in Seq(S) /\ Len(SubSeq(L, 1, n)) = n
           /\ \A i \in 1..n : SubSeq(L, 1, n)[i] = L[i]
           /\ (n = Len(L) => SubSeq(L, 1, n) = L)
BY SubSeqProperties

\* Facts of the log are facts that may be admitted.
LEMMA FactsOfTheLog ==
    ASSUME NEW L \in Seq(LogRows), NEW i \in RowsOf(L, "fact")
    PROVE  L[i].fact \in Facts /\ L[i].fact.from \in Nat /\ L[i].fact.until \in Nat
<1>1. L[i] \in LogRows /\ L[i].kind = "fact"
  BY DEF RowsOf
<1> QED
  BY <1>1, FactsAssumption DEF LogRows

LEMMA BoundariesAreInstants ==
    ASSUME NEW L \in Seq(LogRows)
    PROVE  Boundaries(L) \in SUBSET Nat
BY FactsOfTheLog DEF Boundaries

LEMMA BoundariesGrow ==
    ASSUME NEW L \in Seq(LogRows), NEW n \in 0..Len(L)
    PROVE  Boundaries(SubSeq(L, 1, n)) \subseteq Boundaries(L)
<1> DEFINE P == SubSeq(L, 1, n)
<1>1. Len(P) = n /\ \A i \in 1..n : P[i] = L[i]
  BY PrefixIs
<1>2. ASSUME NEW i \in RowsOf(P, "fact") PROVE i \in RowsOf(L, "fact") /\ P[i] = L[i]
  BY <1>1 DEF RowsOf
<1> HIDE DEF P
<1>3. Boundaries(P) \subseteq Boundaries(L)
  BY <1>2 DEF Boundaries
<1> QED
  BY <1>3 DEF P

-----------------------------------------------------------------------------
(* The instants at which a reduction holds *)

LEMMA MinMax ==
    ASSUME NEW a \in Nat, NEW b \in Nat
    PROVE  /\ Min({a, b}) = IF a <= b THEN a ELSE b
           /\ Max({a, b}) = IF a <= b THEN b ELSE a
BY DEF Min, Max

\* No boundary lies between two instants at which a reduction holds.
Between(b, s, t) ==
    \/ s < b /\ b <= t
    \/ t < b /\ b <= s

LEMMA HoldsIs ==
    ASSUME NEW v, v.at \in Nat, NEW t \in Nat, v.boundaries \in SUBSET Nat
    PROVE  HoldsAt(v, t) <=> \A b \in v.boundaries : ~Between(b, v.at, t)
<1> DEFINE x == v.at
           low == Min({t, x})
           high == Max({t, x})
<1>1. low = (IF t <= x THEN t ELSE x) /\ high = (IF t <= x THEN x ELSE t) /\ x \in Nat
  BY MinMax
<1>2. HoldsAt(v, t) <=> \A b \in v.boundaries : ~(low < b /\ b <= high)
  BY DEF HoldsAt
<1> HIDE DEF low, high, x
<1>3. ASSUME NEW b \in v.boundaries PROVE (low < b /\ b <= high) <=> Between(b, x, t)
  <2>1. b \in Nat
    OBVIOUS
  <2> QED
    BY <1>1, <2>1 DEF Between
<1> QED
  BY <1>2, <1>3 DEF x

\* Two reductions hold at no common instant.
Apart(v, w) == \A t \in Nat : ~(HoldsAt(v, t) /\ HoldsAt(w, t))

LEMMA MissIsApart ==
    ASSUME NEW v, NEW w, v.at \in Nat, w.at \in Nat,
           w.boundaries \in SUBSET Nat, v.boundaries \subseteq w.boundaries, ~HoldsAt(v, w.at)
    PROVE  Apart(v, w)
<1> SUFFICES ASSUME NEW t \in Nat, HoldsAt(v, t), HoldsAt(w, t) PROVE FALSE
  BY DEF Apart
<1>1. PICK b \in v.boundaries : Between(b, v.at, w.at)
  BY HoldsIs
<1>2. ~Between(b, v.at, t) /\ ~Between(b, w.at, t)
  BY HoldsIs
<1> QED
  <2> DEFINE x == v.at
             y == w.at
  <2>1. x \in Nat /\ y \in Nat /\ b \in Nat
    OBVIOUS
  <2>2. Between(b, x, y) /\ ~Between(b, x, t) /\ ~Between(b, y, t)
    BY <1>1, <1>2
  <2> HIDE DEF x, y
  <2> QED
    BY <2>1, <2>2 DEF Between

\* What holds at an instant is what would be reduced for it.
LEMMA SameReduction ==
    ASSUME NEW L \in Seq(LogRows), NEW v, v.boundaries = Boundaries(L), v.at \in Nat,
           NEW t \in Nat, HoldsAt(v, t), NEW revoked
    PROVE  Current(L, revoked, v.at) = Current(L, revoked, t)
<1>1. v.boundaries \in SUBSET Nat
  BY BoundariesAreInstants
<1>2. ASSUME NEW i \in RowsOf(L, "fact")
      PROVE  IsCurrent(L[i].fact, revoked, v.at) <=> IsCurrent(L[i].fact, revoked, t)
  <2>1. L[i].fact.from \in v.boundaries /\ L[i].fact.until \in v.boundaries
    BY DEF Boundaries
  <2>2. ~Between(L[i].fact.from, v.at, t) /\ ~Between(L[i].fact.until, v.at, t)
    BY <1>1, <2>1, HoldsIs
  <2>3. L[i].fact.from \in Nat /\ L[i].fact.until \in Nat
    BY FactsOfTheLog
  <2> DEFINE a == L[i].fact.from
             b == L[i].fact.until
             x == v.at
  <2>4. a \in Nat /\ b \in Nat /\ x \in Nat /\ ~Between(a, x, t) /\ ~Between(b, x, t)
    BY <2>2, <2>3
  <2>5. (a <= x <=> a <= t) /\ (x < b <=> t < b)
    <3> HIDE DEF a, b, x
    <3> QED
      BY <2>4 DEF Between
  <2> QED
    BY <2>5 DEF IsCurrent
<1> QED
  BY <1>2 DEF Current

LEMMA SameSnapshot ==
    ASSUME NEW L \in Seq(LogRows), NEW v, v.boundaries = Boundaries(L), v.at \in Nat,
           NEW t \in Nat, HoldsAt(v, t), NEW repo, NEW reg, NEW revoked, NEW s
    PROVE  SnapshotOf(L, repo, reg, revoked, s, v.at) = SnapshotOf(L, repo, reg, revoked, s, t)
BY SameReduction DEF SnapshotOf

-----------------------------------------------------------------------------
(* Finite sequences, whatever their elements *)

IsSequence(s) == Len(s) \in Nat /\ s = [i \in 1..Len(s) |-> s[i]]

LEMMA SequenceOf ==
    ASSUME NEW s, IsSequence(s)
    PROVE  s \in Seq({s[i] : i \in 1..Len(s)})
<1> DEFINE n == Len(s)
           S == {s[i] : i \in 1..n}
<1>1. n \in Nat /\ s = [i \in 1..n |-> s[i]] /\ \A i \in 1..n : s[i] \in S
  BY DEF IsSequence
<1> HIDE DEF n, S
<1>2. s \in [1..n -> S]
  BY <1>1
<1>3. s \in Seq(S)
  BY <1>1, <1>2, SeqDef
<1> QED
  BY <1>3 DEF n, S

LEMMA SequenceIs ==
    ASSUME NEW S, NEW s \in Seq(S)
    PROVE  IsSequence(s)
BY DEF IsSequence

LEMMA NothingIs ==
    /\ IsSequence(<<>>)
    /\ Len(<<>>) = 0
BY EmptySeq, SequenceIs

LEMMA AppendedIs ==
    ASSUME NEW s, IsSequence(s), NEW e
    PROVE  /\ IsSequence(Append(s, e))
           /\ Len(Append(s, e)) = Len(s) + 1
           /\ \A i \in 1..Len(s) : Append(s, e)[i] = s[i]
           /\ Append(s, e)[Len(s) + 1] = e
<1> DEFINE S == {s[i] : i \in 1..Len(s)} \cup {e}
<1>1. s \in Seq(S) /\ e \in S
  <2> DEFINE P == {s[i] : i \in 1..Len(s)}
  <2>1. s \in Seq(P) /\ P \subseteq S /\ e \in S
    BY SequenceOf
  <2> HIDE DEF S, P
  <2> QED
    BY <2>1, SeqDef
<1> HIDE DEF S
<1>2. /\ Append(s, e) \in Seq(S) /\ Len(Append(s, e)) = Len(s) + 1
      /\ \A i \in 1..Len(s) : Append(s, e)[i] = s[i]
      /\ Append(s, e)[Len(s) + 1] = e
  BY <1>1, AppendProperties
<1>3. IsSequence(Append(s, e))
  BY <1>2, SequenceIs
<1> QED
  BY <1>2, <1>3

LEMMA TailIs ==
    ASSUME NEW s, IsSequence(s), Len(s) # 0
    PROVE  /\ IsSequence(Tail(s))
           /\ Len(Tail(s)) = Len(s) - 1
           /\ \A i \in 1..Len(s) - 1 : Tail(s)[i] = s[i + 1]
<1> DEFINE S == {s[i] : i \in 1..Len(s)}
<1>1. s \in Seq(S) /\ s # <<>>
  BY SequenceOf, NothingIs
<1> HIDE DEF S
<1>2. /\ Tail(s) \in Seq(S) /\ Len(Tail(s)) = Len(s) - 1
      /\ \A i \in 1..Len(s) - 1 : Tail(s)[i] = s[i + 1]
  BY <1>1, HeadTailProperties
<1>3. IsSequence(Tail(s))
  BY <1>2, SequenceIs
<1> QED
  BY <1>2, <1>3

LEMMA RemovedIs ==
    ASSUME NEW s, IsSequence(s), NEW k \in 1..Len(s)
    PROVE  /\ IsSequence(RemoveAt(s, k))
           /\ Len(RemoveAt(s, k)) = Len(s) - 1
           /\ \A i \in 1..k - 1 : RemoveAt(s, k)[i] = s[i]
           /\ \A i \in k..Len(s) - 1 : RemoveAt(s, k)[i] = s[i + 1]
<1> DEFINE S == {s[i] : i \in 1..Len(s)}
           n == Len(s)
           a == SubSeq(s, 1, k - 1)
           b == SubSeq(s, k + 1, n)
<1>1. s \in Seq(S)
  BY SequenceOf
<1> HIDE DEF S
<1>2. n \in Nat /\ k \in Nat /\ 1 <= k /\ k <= n
  BY <1>1
<1>3. /\ a \in Seq(S) /\ Len(a) = k - 1 /\ \A i \in 1..k - 1 : a[i] = s[i]
      /\ b \in Seq(S) /\ Len(b) = n - k /\ \A i \in 1..n - k : b[i] = s[k + i]
  <2>1. \A i \in 1..k - 1 : s[i] \in S
    BY <1>1, <1>2
  <2>2. \A i \in k + 1..n : s[i] \in S
    BY <1>1, <1>2
  <2> QED
    BY <1>1, <1>2, <2>1, <2>2, SubSeqProperties, SMTT(40)
<1>4. RemoveAt(s, k) = a \o b
  BY DEF RemoveAt
<1> HIDE DEF a, b
<1>5. a \o b \in Seq(S) /\ Len(a \o b) = n - 1
  <2>1. a \o b \in Seq(S) /\ Len(a \o b) = Len(a) + Len(b)
    BY <1>3, ConcatProperties
  <2> QED
    BY <1>2, <1>3, <2>1
<1>6. \A i \in 1..k - 1 : (a \o b)[i] = s[i]
  <2>1. ASSUME NEW i \in 1..k - 1 PROVE (a \o b)[i] = a[i]
    BY <1>2, <1>3, <2>1, ConcatProperties
  <2> QED
    BY <1>3, <2>1
<1>7. ASSUME NEW i \in k..n - 1 PROVE (a \o b)[i] = s[i + 1]
  <2>1. i - (k - 1) \in 1..n - k /\ k + (i - (k - 1)) = i + 1
    BY <1>2
  <2>2. (a \o b)[i] = b[i - (k - 1)]
    BY <1>2, <1>3, <2>1
  <2> QED
    BY <1>3, <2>1, <2>2
<1> QED
  BY <1>4, <1>5, <1>6, <1>7, SequenceIs

LEMMA KeptGrows ==
    ASSUME NEW s, IsSequence(s)
    PROVE  /\ SubSeq(s, 1, 0) = <<>> /\ SubSeq(s, 1, Len(s)) = s
           /\ \A k \in 1..Len(s) : SubSeq(s, 1, k) = Append(SubSeq(s, 1, k - 1), s[k])
<1> DEFINE S == {s[i] : i \in 1..Len(s)}
           n == Len(s)
<1>1. s \in Seq(S) /\ n \in Nat
  BY SequenceOf DEF IsSequence
<1> HIDE DEF S
<1>2. SubSeq(s, 1, 0) = <<>> /\ SubSeq(s, 1, n) = s
  BY <1>1, SubSeqEmpty, SubSeqFull
<1>3. ASSUME NEW k \in 1..n PROVE SubSeq(s, 1, k) = Append(SubSeq(s, 1, k - 1), s[k])
  <2> DEFINE a == SubSeq(s, 1, k - 1)
             b == SubSeq(s, 1, k)
  <2>1. k \in Nat /\ k - 1 \in 0..n /\ k \in 0..n /\ s[k] \in S
    BY <1>1
  <2>2. /\ a \in Seq(S) /\ Len(a) = k - 1 /\ \A i \in 1..k - 1 : a[i] = s[i]
        /\ b \in Seq(S) /\ Len(b) = k /\ \A i \in 1..k : b[i] = s[i]
    BY <1>1, <2>1, PrefixIs
  <2> HIDE DEF a, b
  <2>3. /\ Append(a, s[k]) \in Seq(S) /\ Len(Append(a, s[k])) = k
        /\ \A i \in 1..k - 1 : Append(a, s[k])[i] = s[i]
        /\ Append(a, s[k])[k] = s[k]
    <3>1. (k - 1) + 1 = k
      BY <2>1
    <3> QED
      BY <2>1, <2>2, <3>1, AppendProperties
  <2>4. \A i \in 1..k : b[i] = Append(a, s[k])[i]
    <3>1. ASSUME NEW i \in 1..k PROVE i = k \/ i \in 1..k - 1
      BY <2>1
    <3> QED
      BY <2>2, <2>3, <3>1
  <2>5. b = Append(a, s[k])
    BY <2>2, <2>3, <2>4, SeqEqual
  <2> QED
    BY <2>5 DEF a, b
<1> QED
  BY <1>2, <1>3

-----------------------------------------------------------------------------
(* The entries of a key: all of the cache or none *)

LEMMA KeptIsAll ==
    ASSUME IsSequence(views), NEW key, \A j \in 1..Len(views) : views[j].key = key
    PROVE  OfKey(key) = views
<1> DEFINE n == Len(views)
           Def(f) == f = [k \in 0..n |->
                           IF k = 0 THEN <<>>
                           ELSE IF views[k].key = key THEN Append(f[k - 1], views[k])
                                ELSE f[k - 1]]
           w == [k \in 0..n |-> SubSeq(views, 1, k)]
<1>1. n \in Nat /\ \A j \in 1..n : views[j].key = key
  BY DEF IsSequence
<1>2. OfKey(key) = (CHOOSE f : Def(f))[n]
  BY DEF OfKey
<1>3. ASSUME NEW k \in 1..n PROVE SubSeq(views, 1, k) = Append(SubSeq(views, 1, k - 1), views[k])
  BY <1>1, <1>3, KeptGrows
<1>4. SubSeq(views, 1, 0) = <<>> /\ SubSeq(views, 1, n) = views
  BY KeptGrows
<1> HIDE DEF n
<1>5. Def(w)
  <2>1. ASSUME NEW k \in 0..n, k # 0
        PROVE  w[k] = IF views[k].key = key THEN Append(w[k - 1], views[k]) ELSE w[k - 1]
    <3>1. k \in 1..n /\ k - 1 \in 0..n
      BY <1>1, <2>1
    <3> QED
      BY <1>1, <1>3, <3>1
  <2>2. w[0] = <<>>
    BY <1>1, <1>4
  <2>3. w = [k \in 0..n |-> IF k = 0 THEN <<>>
                            ELSE IF views[k].key = key THEN Append(w[k - 1], views[k])
                                 ELSE w[k - 1]]
    BY <2>1, <2>2
  <2> QED
    BY <2>3
<1>6. ASSUME NEW f, Def(f) PROVE f[n] = SubSeq(views, 1, n)
  <2> DEFINE S == {k \in Nat : k <= n => f[k] = SubSeq(views, 1, k)}
  <2>1. 0 \in S
    BY <1>1, <1>4, <1>6
  <2>2. ASSUME NEW k \in S PROVE k + 1 \in S
    <3>1. CASE k + 1 <= n
      <4>1. k \in 0..n /\ k + 1 \in 1..n /\ k + 1 \in 0..n /\ k + 1 # 0 /\ (k + 1) - 1 = k
        BY <1>1, <3>1
      <4>2. f[k + 1] = Append(f[k], views[k + 1])
        BY <1>1, <1>6, <4>1
      <4>3. f[k] = SubSeq(views, 1, k)
        BY <4>1
      <4>4. SubSeq(views, 1, k + 1) = Append(SubSeq(views, 1, (k + 1) - 1), views[k + 1])
        BY <1>3, <4>1
      <4>5. f[k + 1] = SubSeq(views, 1, k + 1)
        BY <4>1, <4>2, <4>3, <4>4
      <4> QED
        BY <4>5
    <3> QED
      BY <3>1
  <2> HIDE DEF S
  <2>3. S = Nat
    <3>1. S \in SUBSET Nat
      BY DEF S
    <3> QED
      BY <2>1, <2>2, <3>1, AllNumbers
  <2> QED
    BY <1>1, <2>3 DEF S
<1> HIDE DEF Def
<1> QED
  BY <1>2, <1>4, <1>5, <1>6

LEMMA KeptIsNone ==
    ASSUME IsSequence(views), NEW key, \A j \in 1..Len(views) : views[j].key # key
    PROVE  OfKey(key) = <<>>
<1> DEFINE n == Len(views)
           Def(f) == f = [k \in 0..n |->
                           IF k = 0 THEN <<>>
                           ELSE IF views[k].key = key THEN Append(f[k - 1], views[k])
                                ELSE f[k - 1]]
           w == [k \in 0..n |-> <<>>]
<1>1. n \in Nat /\ \A j \in 1..n : views[j].key # key
  BY DEF IsSequence
<1>2. OfKey(key) = (CHOOSE f : Def(f))[n]
  BY DEF OfKey
<1> HIDE DEF n
<1>3. Def(w)
  <2>1. ASSUME NEW k \in 0..n, k # 0
        PROVE  w[k] = IF views[k].key = key THEN Append(w[k - 1], views[k]) ELSE w[k - 1]
    <3>1. k \in 1..n /\ k - 1 \in 0..n
      BY <1>1, <2>1
    <3> QED
      BY <1>1, <3>1
  <2>2. w = [k \in 0..n |-> IF k = 0 THEN <<>>
                            ELSE IF views[k].key = key THEN Append(w[k - 1], views[k])
                                 ELSE w[k - 1]]
    BY <2>1
  <2> QED
    BY <2>2
<1>4. ASSUME NEW f, Def(f) PROVE f[n] = <<>>
  <2> DEFINE S == {k \in Nat : k <= n => f[k] = <<>>}
  <2>1. 0 \in S
    BY <1>1, <1>4
  <2>2. ASSUME NEW k \in S PROVE k + 1 \in S
    <3>1. CASE k + 1 <= n
      <4>1. k \in 0..n /\ k + 1 \in 1..n /\ k + 1 \in 0..n /\ k + 1 # 0 /\ (k + 1) - 1 = k
        BY <1>1, <3>1
      <4>2. f[k + 1] = f[k]
        BY <1>1, <1>4, <4>1
      <4> QED
        BY <4>1, <4>2
    <3> QED
      BY <3>1
  <2> HIDE DEF S
  <2>3. S = Nat
    <3>1. S \in SUBSET Nat
      BY DEF S
    <3> QED
      BY <2>1, <2>2, <3>1, AllNumbers
  <2> QED
    BY <1>1, <2>3 DEF S
<1> HIDE DEF Def
<1> QED
  BY <1>2, <1>3, <1>4

-----------------------------------------------------------------------------
(* What the view cache holds *)

\* A reduction of the log L as it was when it had as many rows.
IsView(v, L) ==
    /\ v.at \in Nat /\ v.rows \in 0..Len(L) /\ v.key.cursor \in 0..v.rows
    /\ v.boundaries = Boundaries(SubSeq(L, 1, v.rows))
    /\ v.revoked = v.key.revoked

\* A remembered content is a snapshot of that log with the side tables as they
\* were at some time since the content key was made.
Tells(v, pair, L, s) ==
    \E n \in pair.key.side..s :
        pair.content = SnapshotOf(SubSeq(L, 1, v.rows), pair.key.repo, v.key.registry,
                                  v.revoked, n, v.at)

IsEntry(v, L, s) ==
    /\ IsView(v, L)
    /\ v = [key |-> v.key, revoked |-> v.revoked, at |-> v.at, rows |-> v.rows,
            boundaries |-> v.boundaries, memo |-> v.memo]
    /\ IsSequence(v.memo)
    /\ \A j \in 1..Len(v.memo) : v.memo[j].key.side \in Nat /\ Tells(v, v.memo[j], L, s)

\* The entries are of one key and no two of them hold at one instant.
EntriesHold(V, L, s) ==
    /\ IsSequence(V)
    /\ \A j \in 1..Len(V) : IsEntry(V[j], L, s)
    /\ \A i, j \in 1..Len(V) : V[i].key = V[j].key
    /\ \A i, j \in 1..Len(V) : i # j => Apart(V[i], V[j])

CacheHolds(V, L, s) == EntriesHold(V, L, s) /\ Len(V) <= ViewSlots

LEMMA MinIsLeast ==
    ASSUME NEW S \in SUBSET Nat, S # {}
    PROVE  Min(S) \in S /\ \A y \in S : Min(S) <= y
BY LeastNumber DEF Min

LEMMA VictimIs ==
    ASSUME NEW K, IsSequence(K), Len(K) # 0, NEW t
    PROVE  /\ Victim(K, t) \in 1..Len(K)
           /\ \/ ~HoldsAt(K[Victim(K, t)], t)
              \/ \A j \in 1..Len(K) : HoldsAt(K[j], t)
<1> DEFINE away == {j \in 1..Len(K) : ~HoldsAt(K[j], t)}
<1>1. Victim(K, t) = IF away = {} THEN 1 ELSE Min(away)
  BY DEF Victim
<1>2. Len(K) \in Nat /\ 1 \in 1..Len(K)
  BY DEF IsSequence
<1>3. away \in SUBSET Nat /\ away \in SUBSET (1..Len(K))
  OBVIOUS
<1>4. CASE away = {}
  BY <1>1, <1>2, <1>4
<1>5. CASE away # {}
  <2>1. Min(away) \in away
    <3> HIDE DEF away
    <3> QED
      BY <1>3, <1>5, MinIsLeast
  <2> QED
    BY <1>1, <1>5, <2>1
<1> QED
  BY <1>4, <1>5

\* An entry can go without harm to the others.
LEMMA EntriesWithout ==
    ASSUME NEW K, NEW L, NEW s, EntriesHold(K, L, s), NEW k \in 1..Len(K)
    PROVE  /\ EntriesHold(RemoveAt(K, k), L, s) /\ Len(RemoveAt(K, k)) = Len(K) - 1
           /\ \A i \in 1..Len(RemoveAt(K, k)) : \E j \in 1..Len(K) : RemoveAt(K, k)[i] = K[j]
           /\ \A j \in 1..Len(K) : j # k =>
                \E i \in 1..Len(RemoveAt(K, k)) : RemoveAt(K, k)[i] = K[j]
<1> DEFINE R == RemoveAt(K, k)
           n == Len(K)
           From(i) == IF i < k THEN i ELSE i + 1
<1>1. /\ IsSequence(R) /\ Len(R) = n - 1
      /\ \A i \in 1..k - 1 : R[i] = K[i]
      /\ \A i \in k..n - 1 : R[i] = K[i + 1]
  BY RemovedIs DEF EntriesHold
<1>2. n \in Nat /\ k \in 1..n
  BY DEF EntriesHold, IsSequence
<1> HIDE DEF R, n
<1>3. ASSUME NEW i \in 1..n - 1 PROVE From(i) \in 1..n /\ R[i] = K[From(i)]
  <2>1. CASE i < k
    <3>1. i \in 1..k - 1 /\ i \in 1..n
      BY <1>2, <2>1
    <3> QED
      BY <1>1, <2>1, <3>1
  <2>2. CASE ~(i < k)
    <3>1. i \in k..n - 1 /\ i + 1 \in 1..n
      BY <1>2, <2>2
    <3> QED
      BY <1>1, <2>2, <3>1
  <2> QED
    BY <2>1, <2>2
<1>4. ASSUME NEW i \in 1..n - 1, NEW j \in 1..n - 1, i # j PROVE From(i) # From(j)
  BY <1>2, <1>4
<1>5. ASSUME NEW j \in 1..n, j # k PROVE \E i \in 1..n - 1 : From(i) = j
  <2>1. CASE j < k
    <3>1. j \in 1..n - 1 /\ From(j) = j
      BY <1>2, <2>1
    <3> QED
      BY <3>1
  <2>2. CASE ~(j < k)
    <3>1. j - 1 \in 1..n - 1 /\ From(j - 1) = j
      BY <1>2, <1>5, <2>2
    <3> QED
      BY <3>1
  <2> QED
    BY <2>1, <2>2
<1> HIDE DEF From
<1>6. EntriesHold(R, L, s)
  <2>1. \A i \in 1..n : IsEntry(K[i], L, s)
    BY DEF EntriesHold, n
  <2>2. \A i, j \in 1..n : K[i].key = K[j].key
    BY DEF EntriesHold, n
  <2>3. \A i, j \in 1..n : i # j => Apart(K[i], K[j])
    BY DEF EntriesHold, n
  <2>4. \A i \in 1..n - 1 : IsEntry(R[i], L, s)
    BY <1>3, <2>1
  <2>5. \A i, j \in 1..n - 1 : R[i].key = R[j].key
    BY <1>3, <2>2
  <2>6. \A i, j \in 1..n - 1 : i # j => Apart(R[i], R[j])
    BY <1>3, <1>4, <2>3
  <2> QED
    BY <1>1, <2>4, <2>5, <2>6 DEF EntriesHold
<1>7. \A i \in 1..n - 1 : \E j \in 1..n : R[i] = K[j]
  BY <1>3
<1>8. \A j \in 1..n : j # k => \E i \in 1..n - 1 : R[i] = K[j]
  BY <1>3, <1>5
<1> QED
  BY <1>1, <1>6, <1>7, <1>8 DEF R, n

\* An entry of the same key joins that holds where none of the others does.
LEMMA EntriesWith ==
    ASSUME NEW K, NEW L, NEW s, EntriesHold(K, L, s), NEW v, IsEntry(v, L, s),
           \A j \in 1..Len(K) : K[j].key = v.key /\ Apart(K[j], v)
    PROVE  /\ EntriesHold(Append(K, v), L, s) /\ Len(Append(K, v)) = Len(K) + 1
           /\ \A j \in 1..Len(K) : Append(K, v)[j] = K[j]
<1> DEFINE A == Append(K, v)
           n == Len(K)
<1>1. IsSequence(A) /\ Len(A) = n + 1 /\ A[n + 1] = v /\ \A j \in 1..n : A[j] = K[j]
  BY AppendedIs DEF EntriesHold
<1>2. n \in Nat
  BY DEF EntriesHold, IsSequence
<1>3. /\ \A j \in 1..n : IsEntry(K[j], L, s) /\ K[j].key = v.key /\ Apart(K[j], v) /\ Apart(v, K[j])
      /\ \A i, j \in 1..n : i # j => Apart(K[i], K[j])
  BY DEF EntriesHold, Apart
<1> HIDE DEF A, n
<1>4. ASSUME NEW j \in 1..n + 1 PROVE j \in 1..n \/ j = n + 1
  BY <1>2
<1>5. \A j \in 1..n + 1 : IsEntry(A[j], L, s) /\ A[j].key = v.key
  BY <1>1, <1>3, <1>4
<1>6. \A i, j \in 1..n + 1 : i # j => Apart(A[i], A[j])
  BY <1>1, <1>3, <1>4
<1>7. EntriesHold(A, L, s)
  BY <1>1, <1>5, <1>6 DEF EntriesHold
<1> QED
  BY <1>1, <1>7 DEF A, n

\* The entries a new one of a key keeps company with.
LEMMA KeptIs ==
    ASSUME NEW L, NEW s, CacheHolds(views, L, s), NEW key
    PROVE  /\ CacheHolds(OfKey(key), L, s)
           /\ \A i \in 1..Len(OfKey(key)) : \E j \in 1..Len(views) :
                OfKey(key)[i] = views[j] /\ views[j].key = key
           /\ \A j \in 1..Len(views) : views[j].key = key =>
                OfKey(key) = views
<1>1. /\ IsSequence(views) /\ \A i, j \in 1..Len(views) : views[i].key = views[j].key
  BY DEF CacheHolds, EntriesHold
<1>2. CASE \A j \in 1..Len(views) : views[j].key = key
  <2>1. OfKey(key) = views
    BY <1>1, <1>2, KeptIsAll
  <2> QED
    BY <1>2, <2>1
<1>3. CASE \A j \in 1..Len(views) : views[j].key # key
  <2>1. OfKey(key) = <<>>
    BY <1>1, <1>3, KeptIsNone
  <2>2. IsSequence(<<>>) /\ Len(<<>>) = 0 /\ 0 <= ViewSlots /\ 1..0 = {}
    BY NothingIs, LimitsAssumption
  <2>3. CacheHolds(<<>>, L, s)
    BY <2>2 DEF CacheHolds, EntriesHold
  <2> QED
    BY <1>3, <2>1, <2>2, <2>3
<1> QED
  BY <1>1, <1>2, <1>3

LEMMA RememberHolds ==
    ASSUME NEW L, NEW s, CacheHolds(views, L, s), NEW v, IsEntry(v, L, s), NEW t \in Nat,
           \A j \in 1..Len(views) : views[j].key = v.key => Apart(views[j], v)
    PROVE  /\ CacheHolds(Remember(v, t), L, s)
           /\ \A j \in 1..Len(views) :
                views[j].key = v.key /\ HoldsAt(views[j], t) =>
                  \E i \in 1..Len(Remember(v, t)) : Remember(v, t)[i] = views[j]
<1> DEFINE K == OfKey(v.key)
           full == Len(K) >= ViewSlots
           R == RemoveAt(K, Victim(K, t))
           T == IF full THEN R ELSE K
<1>1. Remember(v, t) = Append(T, v)
  BY DEF Remember
<1>2. /\ EntriesHold(K, L, s) /\ Len(K) <= ViewSlots
      /\ \A i \in 1..Len(K) : K[i].key = v.key /\ Apart(K[i], v)
      /\ \A j \in 1..Len(views) : views[j].key = v.key => K = views
  <2>1. /\ CacheHolds(K, L, s)
        /\ \A i \in 1..Len(K) : \E j \in 1..Len(views) : K[i] = views[j] /\ views[j].key = v.key
        /\ \A j \in 1..Len(views) : views[j].key = v.key => K = views
    BY KeptIs
  <2> HIDE DEF K
  <2> QED
    BY <2>1 DEF CacheHolds
<1>3. Len(K) \in Nat /\ IsSequence(K) /\ ViewSlots \in Nat /\ ViewSlots >= 2
  BY <1>2, LimitsAssumption DEF EntriesHold, IsSequence
<1> HIDE DEF K
<1>4. /\ EntriesHold(T, L, s) /\ Len(T) + 1 <= ViewSlots
      /\ \A i \in 1..Len(T) : T[i].key = v.key /\ Apart(T[i], v)
      /\ \A j \in 1..Len(K) : HoldsAt(K[j], t) => \E i \in 1..Len(T) : T[i] = K[j]
  <2>1. CASE ~full
    BY <1>2, <1>3, <2>1
  <2>2. CASE full
    <3>1. Len(K) # 0 /\ Len(K) >= 2 /\ 1 \in 1..Len(K) /\ 2 \in 1..Len(K)
      BY <1>3, <2>2
    <3>2. /\ Victim(K, t) \in 1..Len(K)
          /\ \/ ~HoldsAt(K[Victim(K, t)], t)
             \/ \A j \in 1..Len(K) : HoldsAt(K[j], t)
      BY <1>3, <3>1, VictimIs
    <3>3. ~HoldsAt(K[Victim(K, t)], t)
      <4>1. Apart(K[1], K[2])
        BY <1>2, <3>1 DEF EntriesHold
      <4> QED
        BY <3>1, <3>2, <4>1 DEF Apart
    <3>4. /\ EntriesHold(R, L, s) /\ Len(R) = Len(K) - 1
          /\ \A i \in 1..Len(R) : \E j \in 1..Len(K) : R[i] = K[j]
          /\ \A j \in 1..Len(K) : j # Victim(K, t) => \E i \in 1..Len(R) : R[i] = K[j]
      BY <1>2, <3>2, EntriesWithout
    <3> HIDE DEF R
    <3>5. Len(R) + 1 <= ViewSlots
      BY <1>2, <1>3, <3>4
    <3>6. \A i \in 1..Len(R) : R[i].key = v.key /\ Apart(R[i], v)
      BY <1>2, <3>4, ZenonT(60)
    <3>7. \A j \in 1..Len(K) : HoldsAt(K[j], t) => \E i \in 1..Len(R) : R[i] = K[j]
      BY <3>3, <3>4
    <3>8. T = R
      BY <2>2
    <3> QED
      BY <3>4, <3>5, <3>6, <3>7, <3>8
  <2> QED
    BY <2>1, <2>2
<1> HIDE DEF T
<1>5. /\ EntriesHold(Append(T, v), L, s) /\ Len(Append(T, v)) = Len(T) + 1
      /\ \A j \in 1..Len(T) : Append(T, v)[j] = T[j]
  BY <1>4, EntriesWith
<1>6. CacheHolds(Append(T, v), L, s)
  BY <1>4, <1>5 DEF CacheHolds
<1>7. ASSUME NEW j \in 1..Len(views), views[j].key = v.key, HoldsAt(views[j], t)
      PROVE  \E i \in 1..Len(Append(T, v)) : Append(T, v)[i] = views[j]
  <2>1. K = views
    BY <1>2, <1>7
  <2>2. PICK i \in 1..Len(T) : T[i] = views[j]
    BY <1>4, <1>7, <2>1
  <2>3. Len(T) \in Nat
    BY <1>4 DEF EntriesHold, IsSequence
  <2>4. i \in 1..Len(Append(T, v))
    BY <1>5, <2>3
  <2> QED
    BY <1>5, <2>2, <2>4
<1> QED
  BY <1>1, <1>6, <1>7

-----------------------------------------------------------------------------
(* What the digest memo remembers *)

\* A remembered pair joins or takes the place of the one with its key.
LEMMA MemoHolds ==
    ASSUME NEW v, NEW L, NEW s, IsEntry(v, L, s), NEW key, NEW content,
           key.side \in Nat, Tells(v, [key |-> key, content |-> content], L, s)
    PROVE  /\ IsEntry(RememberDigest(v, key, content), L, s)
           /\ Bare(RememberDigest(v, key, content)) = Bare(v)
<1> DEFINE pair == [key |-> key, content |-> content]
           w == RememberDigest(v, key, content)
           m == v.memo
           Told(p) == p.key.side \in Nat /\ Tells(v, p, L, s)
           AllTold(p) == IsSequence(p) /\ \A j \in 1..Len(p) : Told(p[j])
<1>1. Told(pair)
  OBVIOUS
<1>2. AllTold(m)
  BY DEF IsEntry
<1>3. \E p : AllTold(p) /\ w = [v EXCEPT !.memo = p]
  <2>1. CASE Recalled(v, key) # {}
    <3> DEFINE p == [j \in 1..Len(m) |-> IF m[j].key = key THEN pair ELSE m[j]]
    <3>1. w = [v EXCEPT !.memo = p]
      BY <2>1 DEF RememberDigest
    <3>2. Len(m) \in Nat
      BY <1>2 DEF IsSequence
    <3> HIDE DEF pair, Told, m
    <3>3. \A j \in 1..Len(m) : Told(p[j])
      BY <1>1, <1>2
    <3>4. Len(p) = Len(m) /\ IsSequence(p)
      <4> DEFINE S == {p[j] : j \in 1..Len(m)}
      <4>1. p \in [1..Len(m) -> S]
        OBVIOUS
      <4> HIDE DEF p, S
      <4>2. p \in Seq(S) /\ Len(p) = Len(m)
        BY <3>2, <4>1, SeqDef, LenProperties
      <4> QED
        BY <4>2, SequenceIs
    <3> QED
      BY <3>1, <3>3, <3>4
  <2>2. CASE Recalled(v, key) = {}
    <3> DEFINE q == IF Len(m) >= MemoCap THEN Tail(m) ELSE m
    <3>1. w = [v EXCEPT !.memo = Append(q, pair)]
      BY <2>2 DEF RememberDigest
    <3> HIDE DEF pair, Told, m
    <3>2. AllTold(q)
      <4>1. CASE Len(m) >= MemoCap
        <5>1. Len(m) \in Nat /\ Len(m) # 0
          BY <1>2, <4>1, LimitsAssumption DEF IsSequence
        <5>2. /\ IsSequence(Tail(m)) /\ Len(Tail(m)) = Len(m) - 1
              /\ \A i \in 1..Len(m) - 1 : Tail(m)[i] = m[i + 1]
          BY <1>2, <5>1, TailIs
        <5>3. ASSUME NEW i \in 1..Len(m) - 1 PROVE i + 1 \in 1..Len(m)
          BY <5>1
        <5>4. AllTold(Tail(m))
          BY <1>2, <5>2, <5>3
        <5> QED
          BY <4>1, <5>4
      <4>2. CASE ~(Len(m) >= MemoCap)
        BY <1>2, <4>2
      <4> QED
        BY <4>1, <4>2
    <3> HIDE DEF q
    <3>3. /\ IsSequence(Append(q, pair)) /\ Len(Append(q, pair)) = Len(q) + 1
          /\ \A i \in 1..Len(q) : Append(q, pair)[i] = q[i]
          /\ Append(q, pair)[Len(q) + 1] = pair
      BY <3>2, AppendedIs
    <3>4. ASSUME NEW i \in 1..Len(q) + 1 PROVE i \in 1..Len(q) \/ i = Len(q) + 1
      BY <3>2 DEF IsSequence
    <3>5. AllTold(Append(q, pair))
      BY <1>1, <3>2, <3>3, <3>4
    <3> QED
      BY <3>1, <3>5
  <2> QED
    BY <2>1, <2>2
<1>4. PICK p : AllTold(p) /\ w = [v EXCEPT !.memo = p]
  BY <1>3
<1> HIDE DEF w
<1>5. /\ w.memo = p /\ w.key = v.key /\ w.revoked = v.revoked /\ w.at = v.at
      /\ w.rows = v.rows /\ w.boundaries = v.boundaries
      /\ w = [key |-> w.key, revoked |-> w.revoked, at |-> w.at, rows |-> w.rows,
              boundaries |-> w.boundaries, memo |-> w.memo]
  <2>1. v = [key |-> v.key, revoked |-> v.revoked, at |-> v.at, rows |-> v.rows,
             boundaries |-> v.boundaries, memo |-> v.memo]
    BY DEF IsEntry
  <2> QED
    BY <1>4, <2>1
<1>6. IsView(w, L)
  BY <1>5 DEF IsEntry, IsView
<1>7. \A j \in 1..Len(p) : p[j].key.side \in Nat /\ Tells(w, p[j], L, s)
  BY <1>4, <1>5 DEF Tells
<1>8. IsSequence(w.memo) /\ \A j \in 1..Len(w.memo) : w.memo[j].key.side \in Nat /\ Tells(w, w.memo[j], L, s)
  BY <1>4, <1>5, <1>7
<1>9. IsEntry(w, L, s)
  BY <1>5, <1>6, <1>8 DEF IsEntry
<1>10. Bare(w) = Bare(v)
  BY <1>5 DEF Bare
<1> QED
  BY <1>9, <1>10 DEF w

-----------------------------------------------------------------------------
(* What a request knows *)

Fields == {"pc", "route", "repo", "known", "at", "now", "baseRows", "baseSide", "registry",
           "revoked", "cursor", "view", "key", "kind", "content", "revocationCursor"}

\* The trust it loaded is the trust as the log had it.
LoadedTrust(q, L, s) ==
    /\ DOMAIN q = Fields
    /\ q.baseRows \in 0..Len(L) /\ q.baseSide \in 0..s /\ q.now \in Nat /\ q.at \in Nat
    /\ q.route \in {"snapshot", "facts"}
    /\ q.route = "snapshot" => q.at = q.now
    /\ q.registry = RegistryOf(SubSeq(L, 1, q.baseRows))
    /\ q.revoked = Revoked(SubSeq(L, 1, q.baseRows), q.registry)

HasCursor(q, L) == q.cursor \in q.baseRows..Len(L)

HasView(q, L) ==
    /\ q.route = "snapshot"
    /\ q.view.key = ViewKey(q) /\ IsView(q.view, L) /\ HoldsAt(q.view, q.at)

HasKey(q, s) == \E n \in q.baseSide..s : q.key = [repo |-> q.repo, side |-> n]

\* An answer is of the log and the side tables as they were since it was asked.
FactsAnswer(q, L) ==
    \E n \in q.baseRows..Len(L) : q.content = Current(SubSeq(L, 1, n), q.revoked, q.at)

SnapshotAnswer(q, L, s) ==
    \E n \in q.baseRows..Len(L) : \E m \in q.baseSide..s :
        q.content = SnapshotOf(SubSeq(L, 1, n), q.repo, q.registry, q.revoked, m, q.now)

HasAnswer(q, L, s) ==
    \/ q.kind = "refused"
    \/ q.kind = "facts" /\ FactsAnswer(q, L)
    \/ q.kind \in {"snapshot", "receipt"} /\ SnapshotAnswer(q, L, s)

KnowsTrust(q, L, s) ==
    \/ q = Idle
    \/ /\ LoadedTrust(q, L, s)
       /\ \/ q.pc = "cursor"
          \/ q.pc = "view" /\ HasCursor(q, L)
          \/ q.pc = "key" /\ HasCursor(q, L) /\ HasView(q, L)
          \/ q.pc = "assemble" /\ HasCursor(q, L) /\ HasView(q, L) /\ HasKey(q, s)
          \/ q.pc = "answered" /\ HasAnswer(q, L, s)

ServiceInv ==
    /\ log \in Seq(LogRows) /\ now \in Nat /\ side \in Nat
    /\ CacheHolds(views, log, side)
    /\ DOMAIN req = Readers
    /\ \A r \in Readers : KnowsTrust(req[r], log, side)

-----------------------------------------------------------------------------
(* The log and the side tables only grow *)

Grown(L, s, M, t) ==
    /\ L \in Seq(LogRows) /\ M \in Seq(LogRows) /\ Len(L) <= Len(M)
    /\ \A i \in 1..Len(L) : M[i] = L[i]
    /\ s \in Nat /\ t \in Nat /\ s <= t

LEMMA PrefixGrown ==
    ASSUME NEW L, NEW s, NEW M, NEW t, Grown(L, s, M, t)
    PROVE  /\ \A n \in 0..Len(L) : SubSeq(M, 1, n) = SubSeq(L, 1, n) /\ n \in 0..Len(M)
           /\ \A n \in Nat : \A k \in n..Len(L) : k \in n..Len(M) /\ k \in 0..Len(L)
           /\ \A n \in Nat : \A k \in n..s : k \in n..t
<1>1. ASSUME NEW n \in 0..Len(L) PROVE SubSeq(M, 1, n) = SubSeq(L, 1, n) /\ n \in 0..Len(M)
  BY PrefixStays DEF Grown
<1>2. Len(L) \in Nat /\ Len(M) \in Nat /\ Len(L) <= Len(M) /\ s \in Nat /\ t \in Nat /\ s <= t
  BY DEF Grown
<1> QED
  BY <1>1, <1>2

LEMMA ViewGrown ==
    ASSUME NEW L, NEW s, NEW M, NEW t, Grown(L, s, M, t), NEW v, IsView(v, L)
    PROVE  IsView(v, M)
<1> DEFINE n == v.rows
<1>1. n \in 0..Len(L)
  BY DEF IsView
<1> HIDE DEF n
<1>2. SubSeq(M, 1, n) = SubSeq(L, 1, n) /\ n \in 0..Len(M)
  BY <1>1, PrefixGrown
<1> QED
  BY <1>2 DEF IsView, n

LEMMA EntryGrown ==
    ASSUME NEW L, NEW s, NEW M, NEW t, Grown(L, s, M, t), NEW v, IsEntry(v, L, s)
    PROVE  IsEntry(v, M, t)
<1>1. IsView(v, L) /\ IsView(v, M)
  BY ViewGrown DEF IsEntry
<1>2. ASSUME NEW p, p.key.side \in Nat, Tells(v, p, L, s) PROVE Tells(v, p, M, t)
  <2>1. SubSeq(M, 1, v.rows) = SubSeq(L, 1, v.rows)
    BY <1>1, PrefixGrown DEF IsView
  <2>2. PICK n \in p.key.side..s :
          p.content = SnapshotOf(SubSeq(L, 1, v.rows), p.key.repo, v.key.registry, v.revoked, n, v.at)
    BY <1>2 DEF Tells
  <2>3. n \in p.key.side..t
    BY <1>2, PrefixGrown
  <2> QED
    BY <2>1, <2>2, <2>3 DEF Tells
<1>3. IsSequence(v.memo) /\ \A j \in 1..Len(v.memo) : v.memo[j].key.side \in Nat /\ Tells(v, v.memo[j], L, s)
  BY DEF IsEntry
<1>4. \A j \in 1..Len(v.memo) : v.memo[j].key.side \in Nat /\ Tells(v, v.memo[j], M, t)
  BY <1>2, <1>3
<1>5. v = [key |-> v.key, revoked |-> v.revoked, at |-> v.at, rows |-> v.rows,
           boundaries |-> v.boundaries, memo |-> v.memo]
  BY DEF IsEntry
<1> QED
  BY <1>1, <1>3, <1>4, <1>5 DEF IsEntry

LEMMA CacheGrown ==
    ASSUME NEW L, NEW s, NEW M, NEW t, Grown(L, s, M, t), NEW V, CacheHolds(V, L, s)
    PROVE  CacheHolds(V, M, t)
BY EntryGrown DEF CacheHolds, EntriesHold

LEMMA TrustGrown ==
    ASSUME NEW L, NEW s, NEW M, NEW t, Grown(L, s, M, t), NEW q, KnowsTrust(q, L, s)
    PROVE  KnowsTrust(q, M, t)
<1> SUFFICES ASSUME q # Idle PROVE KnowsTrust(q, M, t)
  BY DEF KnowsTrust
<1>1. LoadedTrust(q, L, s)
  BY DEF KnowsTrust
<1> DEFINE b == q.baseRows
           d == q.baseSide
<1>2. b \in 0..Len(L) /\ d \in 0..s /\ b \in Nat /\ d \in Nat
  BY <1>1, PrefixGrown DEF LoadedTrust, Grown
<1>3. b \in 0..Len(M) /\ d \in 0..t /\ SubSeq(M, 1, b) = SubSeq(L, 1, b)
  <2> HIDE DEF b, d
  <2>1. b \in 0..Len(M) /\ SubSeq(M, 1, b) = SubSeq(L, 1, b)
    BY <1>2, PrefixGrown
  <2>2. d \in 0..t
    BY <1>2 DEF Grown
  <2> QED
    BY <2>1, <2>2
<1>4. LoadedTrust(q, M, t)
  BY <1>1, <1>3 DEF LoadedTrust
<1>5. ASSUME NEW n \in b..Len(L) PROVE n \in b..Len(M) /\ SubSeq(M, 1, n) = SubSeq(L, 1, n)
  <2> HIDE DEF b
  <2>1. n \in 0..Len(L) /\ n \in b..Len(M)
    BY <1>2, PrefixGrown
  <2> QED
    BY <2>1, PrefixGrown
<1>6. ASSUME NEW m \in d..s PROVE m \in d..t
  <2> HIDE DEF d
  <2> QED
    BY <1>2, PrefixGrown
<1>7. HasCursor(q, L) => HasCursor(q, M)
  BY <1>5 DEF HasCursor
<1>8. HasView(q, L) => HasView(q, M)
  BY ViewGrown DEF HasView
<1>9. HasKey(q, s) => HasKey(q, t)
  BY <1>6 DEF HasKey
<1>10. FactsAnswer(q, L) => FactsAnswer(q, M)
  BY <1>5 DEF FactsAnswer
<1>11. SnapshotAnswer(q, L, s) => SnapshotAnswer(q, M, t)
  <2> SUFFICES ASSUME NEW n \in b..Len(L), NEW m \in d..s,
                      q.content = SnapshotOf(SubSeq(L, 1, n), q.repo, q.registry, q.revoked, m, q.now)
               PROVE  SnapshotAnswer(q, M, t)
    BY DEF SnapshotAnswer
  <2>1. n \in b..Len(M) /\ m \in d..t /\ SubSeq(M, 1, n) = SubSeq(L, 1, n)
    BY <1>5, <1>6
  <2> QED
    BY <2>1 DEF SnapshotAnswer
<1>12. HasAnswer(q, L, s) => HasAnswer(q, M, t)
  BY <1>10, <1>11 DEF HasAnswer
<1> QED
  BY <1>4, <1>7, <1>8, <1>9, <1>12 DEF KnowsTrust

-----------------------------------------------------------------------------
(* The steps of a request *)

LEMMA ServiceStarts ==
    ASSUME ServiceInit
    PROVE  ServiceInv
<1>1. IsSequence(<<>>) /\ Len(<<>>) = 0 /\ 0 <= ViewSlots /\ 1..0 = {}
  BY NothingIs, LimitsAssumption
<1>2. CacheHolds(<<>>, log, side)
  BY <1>1 DEF CacheHolds, EntriesHold
<1>3. log \in Seq(LogRows)
  BY DEF ServiceInit
<1> QED
  BY <1>2, <1>3 DEF ServiceInit, ServiceInv, KnowsTrust

\* One request moves, the log and the tables stay.
LEMMA OneRequestMoves ==
    ASSUME ServiceInv, NEW r \in Readers, UNCHANGED <<now, log, side>>,
           DOMAIN req' = Readers, \A o \in Readers : o # r => req'[o] = req[o],
           KnowsTrust(req'[r], log, side), CacheHolds(views', log, side)
    PROVE  ServiceInv'
<1>1. \A o \in Readers : KnowsTrust(req'[o], log, side)
  BY DEF ServiceInv
<1> QED
  BY <1>1 DEF ServiceInv

LEMMA AskHolds ==
    ASSUME ServiceInv, NEW r \in Readers, NEW route \in {"snapshot", "facts"}, NEW repo, NEW known,
           NEW at \in Nat, route = "snapshot" => at = now, Ask(r, route, repo, known, at)
    PROVE  ServiceInv'
<1> DEFINE q == [pc |-> "cursor", route |-> route, repo |-> repo, known |-> known, at |-> at,
                now |-> now, baseRows |-> Len(log), baseSide |-> side,
                registry |-> RegistryOf(log), revoked |-> Revoked(log, RegistryOf(log)),
                cursor |-> 0, view |-> NotYet, key |-> NotYet,
                kind |-> "none", content |-> NoContent, revocationCursor |-> 0]
<1>1. /\ req' = [req EXCEPT ![r] = q] /\ UNCHANGED <<now, log, side, views>>
  BY DEF Ask, Goes
<1>2. Len(log) \in Nat /\ SubSeq(log, 1, Len(log)) = log /\ side \in Nat /\ now \in Nat
  BY SubSeqFull DEF ServiceInv
<1>3. LoadedTrust(q, log, side) /\ q.pc = "cursor"
  <2> DEFINE g == RegistryOf(log)
             v == Revoked(log, g)
             P == SubSeq(log, 1, Len(log))
  <2>1. P = log
    BY <1>2
  <2>2. DOMAIN q = Fields
    BY DEF Fields
  <2>3. RegistryOf(P) = g /\ Revoked(P, g) = v
    <3> HIDE DEF P
    <3> QED
      BY <2>1
  <2>4. q.registry = g /\ q.revoked = v /\ q.baseRows = Len(log)
    OBVIOUS
  <2>5. q.registry = RegistryOf(P) /\ q.revoked = Revoked(P, q.registry)
    BY <2>3, <2>4, Zenon
  <2>6. /\ q.baseRows \in 0..Len(log) /\ q.baseSide \in 0..side /\ q.now \in Nat /\ q.at \in Nat
        /\ q.route \in {"snapshot", "facts"} /\ (q.route = "snapshot" => q.at = q.now)
        /\ q.pc = "cursor"
    BY <1>2
  <2>7. q.registry = RegistryOf(SubSeq(log, 1, q.baseRows))
        /\ q.revoked = Revoked(SubSeq(log, 1, q.baseRows), q.registry)
    <3> HIDE DEF g, v, q
    <3> QED
      BY <2>4, <2>5
  <2> HIDE DEF q, g, v, P
  <2> QED
    BY <2>2, <2>6, <2>7 DEF LoadedTrust
<1> HIDE DEF q
<1>4. DOMAIN req' = Readers /\ req'[r] = q /\ \A o \in Readers : o # r => req'[o] = req[o]
  BY <1>1 DEF ServiceInv
<1>5. KnowsTrust(req'[r], log, side) /\ CacheHolds(views', log, side)
  BY <1>1, <1>3, <1>4 DEF KnowsTrust, ServiceInv
<1> QED
  BY <1>1, <1>4, <1>5, OneRequestMoves

LEMMA AskSnapshotHolds ==
    ASSUME ServiceInv, NEW r \in Readers, AskSnapshot(r)
    PROVE  ServiceInv'
<1>1. PICK repo \in Repositories : \E known \in {NoContent, taken[repo]} :
        Ask(r, "snapshot", repo, known, now)
  BY DEF AskSnapshot
<1>2. now \in Nat
  BY DEF ServiceInv
<1>3. PICK known : Ask(r, "snapshot", repo, known, now)
  BY <1>1
<1>4. \E at \in Nat : at = now /\ Ask(r, "snapshot", repo, known, at)
  BY <1>2, <1>3
<1> QED
  BY <1>4, AskHolds

LEMMA AskFactsHolds ==
    ASSUME ServiceInv, NEW r \in Readers, AskFacts(r)
    PROVE  ServiceInv'
<1>1. PICK at \in 0..now : Ask(r, "facts", Anywhere, NoContent, at)
  BY DEF AskFacts
<1>2. at \in Nat
  BY DEF ServiceInv
<1> QED
  BY <1>1, <1>2, AskHolds

\* What a request knows stays when the fields it was loaded into do.
LEMMA TrustStays ==
    ASSUME NEW q, NEW p, NEW L, NEW s, LoadedTrust(q, L, s), DOMAIN p = Fields,
           p.baseRows = q.baseRows, p.baseSide = q.baseSide, p.now = q.now, p.at = q.at,
           p.route = q.route, p.registry = q.registry, p.revoked = q.revoked
    PROVE  LoadedTrust(p, L, s)
BY DEF LoadedTrust

LEMMA LoadCursorHolds ==
    ASSUME ServiceInv, NEW r \in Readers, LoadCursor(r)
    PROVE  ServiceInv'
<1> DEFINE q == req[r]
           p == [q EXCEPT !.pc = "view", !.cursor = Len(log)]
<1>1. q.pc = "cursor" /\ req' = [req EXCEPT ![r] = p] /\ UNCHANGED <<now, log, side, views>>
  BY DEF LoadCursor, Goes
<1>2. LoadedTrust(q, log, side)
  BY <1>1 DEF ServiceInv, KnowsTrust, Idle
<1>3. DOMAIN req' = Readers /\ req'[r] = p /\ \A o \in Readers : o # r => req'[o] = req[o]
  BY <1>1 DEF ServiceInv
<1> HIDE DEF q
<1>4. /\ DOMAIN p = Fields /\ p.pc = "view" /\ p.cursor = Len(log)
      /\ p.baseRows = q.baseRows /\ p.baseSide = q.baseSide /\ p.now = q.now /\ p.at = q.at
      /\ p.route = q.route /\ p.registry = q.registry /\ p.revoked = q.revoked
  BY <1>2 DEF LoadedTrust, Fields
<1> HIDE DEF p
<1>5. LoadedTrust(p, log, side)
  BY <1>2, <1>4, TrustStays
<1>6. HasCursor(p, log)
  <2>1. q.baseRows \in 0..Len(log) /\ Len(log) \in Nat
    BY <1>2 DEF LoadedTrust, ServiceInv
  <2> DEFINE b == q.baseRows
             n == Len(log)
  <2>2. n \in b..n
    <3> HIDE DEF b, n
    <3> QED
      BY <2>1 DEF b, n
  <2> QED
    BY <1>4, <2>2 DEF HasCursor
<1>7. KnowsTrust(req'[r], log, side) /\ CacheHolds(views', log, side)
  BY <1>1, <1>3, <1>4, <1>5, <1>6 DEF KnowsTrust, ServiceInv
<1> QED
  BY <1>1, <1>3, <1>7, OneRequestMoves

LEMMA BareIs ==
    ASSUME NEW v, NEW L, IsView(v, L)
    PROVE  /\ IsView(Bare(v), L) /\ Bare(v).key = v.key
           /\ \A t : HoldsAt(Bare(v), t) <=> HoldsAt(v, t)
BY DEF Bare, IsView, HoldsAt

LEMMA PrefixLog ==
    ASSUME NEW L \in Seq(LogRows), NEW v, IsView(v, L)
    PROVE  /\ SubSeq(L, 1, v.rows) \in Seq(LogRows) /\ v.boundaries = Boundaries(SubSeq(L, 1, v.rows))
           /\ v.at \in Nat
<1> DEFINE n == v.rows
<1>1. n \in 0..Len(L)
  BY DEF IsView
<1> HIDE DEF n
<1>2. SubSeq(L, 1, n) \in Seq(LogRows)
  BY <1>1, PrefixIs
<1> QED
  BY <1>2 DEF IsView, n

\* The rows of a view are rows the request may answer from.
LEMMA RowsReach ==
    ASSUME NEW q, NEW L \in Seq(LogRows), NEW s, LoadedTrust(q, L, s), HasCursor(q, L),
           NEW v, IsView(v, L), v.key = ViewKey(q)
    PROVE  v.rows \in q.baseRows..Len(L) /\ v.revoked = q.revoked /\ v.key.registry = q.registry
<1> DEFINE b == q.baseRows
           c == q.cursor
           n == v.rows
           m == Len(L)
<1>1. b \in 0..m /\ c \in b..m /\ m \in Nat
  BY DEF LoadedTrust, HasCursor
<1>2. v.key.cursor = c /\ v.key.revoked = q.revoked /\ v.key.registry = q.registry
  BY DEF ViewKey
<1>3. n \in 0..m /\ c \in 0..n /\ v.revoked = q.revoked
  BY <1>2 DEF IsView
<1> HIDE DEF b, c, n, m
<1>4. n \in b..m
  BY <1>1, <1>3
<1> QED
  BY <1>2, <1>3, <1>4 DEF b, n, m

LEMMA WithViewHolds ==
    ASSUME ServiceInv, NEW r \in Readers, req[r].pc = "view", NEW v, IsView(v, log),
           v.key = ViewKey(req[r]), HoldsAt(v, req[r].at), WithView(r, v)
    PROVE  /\ KnowsTrust(req'[r], log, side)
           /\ DOMAIN req' = Readers /\ \A o \in Readers : o # r => req'[o] = req[o]
<1> DEFINE q == req[r]
<1>1. LoadedTrust(q, log, side) /\ HasCursor(q, log)
  BY DEF ServiceInv, KnowsTrust, Idle
<1>2. v.rows \in q.baseRows..Len(log) /\ v.revoked = q.revoked
  BY <1>1, RowsReach DEF ServiceInv
<1>3. CASE q.route = "facts"
  <2> DEFINE content == Current(LogTo(v.rows), v.revoked, v.at)
             p == [q EXCEPT !.pc = "answered", !.kind = "facts", !.content = content]
  <2>1. req' = [req EXCEPT ![r] = p]
    BY <1>3 DEF WithView, Goes
  <2>2. DOMAIN req' = Readers /\ req'[r] = p /\ \A o \in Readers : o # r => req'[o] = req[o]
    BY <2>1 DEF ServiceInv
  <2>3. content = Current(SubSeq(log, 1, v.rows), q.revoked, q.at)
    <3>1. /\ SubSeq(log, 1, v.rows) \in Seq(LogRows) /\ v.at \in Nat
          /\ v.boundaries = Boundaries(SubSeq(log, 1, v.rows))
      BY PrefixLog DEF ServiceInv
    <3>2. q.at \in Nat
      BY <1>1 DEF LoadedTrust
    <3> DEFINE P == SubSeq(log, 1, v.rows)
               t == q.at
    <3>3. P \in Seq(LogRows) /\ v.at \in Nat /\ v.boundaries = Boundaries(P) /\ t \in Nat
          /\ HoldsAt(v, t)
      BY <3>1, <3>2
    <3>4. Current(P, v.revoked, v.at) = Current(P, v.revoked, t)
      <4> HIDE DEF P, t
      <4> QED
        BY <3>3, SameReduction
    <3> QED
      BY <1>2, <3>4 DEF LogTo
  <2> HIDE DEF q, content
  <2>4. /\ DOMAIN p = Fields /\ p.pc = "answered" /\ p.kind = "facts" /\ p.content = content
        /\ p.baseRows = q.baseRows /\ p.baseSide = q.baseSide /\ p.now = q.now /\ p.at = q.at
        /\ p.route = q.route /\ p.registry = q.registry /\ p.revoked = q.revoked
    BY <1>1 DEF LoadedTrust, Fields
  <2> HIDE DEF p
  <2>5. LoadedTrust(p, log, side)
    BY <1>1, <2>4, TrustStays
  <2>6. FactsAnswer(p, log)
    BY <1>2, <2>3, <2>4 DEF FactsAnswer
  <2>7. KnowsTrust(p, log, side)
    BY <2>4, <2>5, <2>6 DEF KnowsTrust, HasAnswer
  <2> QED
    BY <2>2, <2>7
<1>4. CASE q.route # "facts"
  <2> DEFINE p == [q EXCEPT !.pc = "key", !.view = Bare(v)]
  <2>1. req' = [req EXCEPT ![r] = p]
    BY <1>4 DEF WithView, Goes
  <2>2. DOMAIN req' = Readers /\ req'[r] = p /\ \A o \in Readers : o # r => req'[o] = req[o]
    BY <2>1 DEF ServiceInv
  <2>3. v.key = ViewKey(q) /\ HoldsAt(v, q.at)
    OBVIOUS
  <2> HIDE DEF q
  <2>4. /\ DOMAIN p = Fields /\ p.pc = "key" /\ p.view = Bare(v) /\ p.cursor = q.cursor
        /\ p.baseRows = q.baseRows /\ p.baseSide = q.baseSide /\ p.now = q.now /\ p.at = q.at
        /\ p.route = q.route /\ p.registry = q.registry /\ p.revoked = q.revoked
    BY <1>1 DEF LoadedTrust, Fields
  <2> HIDE DEF p
  <2>5. LoadedTrust(p, log, side)
    BY <1>1, <2>4, TrustStays
  <2>6. HasCursor(p, log)
    BY <1>1, <2>4 DEF HasCursor
  <2>7. HasView(p, log)
    <3>1. p.route = "snapshot"
      BY <1>1, <1>4, <2>4 DEF LoadedTrust
    <3>2. IsView(p.view, log) /\ p.view.key = ViewKey(q) /\ HoldsAt(p.view, q.at)
      BY <2>3, <2>4, BareIs
    <3>3. ViewKey(p) = ViewKey(q)
      BY <2>4 DEF ViewKey
    <3> QED
      BY <2>4, <3>1, <3>2, <3>3 DEF HasView
  <2>8. KnowsTrust(p, log, side)
    BY <2>4, <2>5, <2>6, <2>7 DEF KnowsTrust
  <2> QED
    BY <2>2, <2>8
<1> QED
  BY <1>3, <1>4

\* A reduction of the log as it is.
LEMMA BuiltIs ==
    ASSUME ServiceInv, NEW q, LoadedTrust(q, log, side), HasCursor(q, log)
    PROVE  /\ IsEntry(Built(q), log, side) /\ Built(q).key = ViewKey(q)
           /\ Built(q).at = q.at /\ Built(q).boundaries = Boundaries(log) /\ HoldsAt(Built(q), q.at)
<1> DEFINE v == Built(q)
<1>1. /\ v.key = ViewKey(q) /\ v.revoked = q.revoked /\ v.at = q.at /\ v.rows = Len(log)
      /\ v.boundaries = Boundaries(log) /\ v.memo = <<>>
      /\ v = [key |-> v.key, revoked |-> v.revoked, at |-> v.at, rows |-> v.rows,
              boundaries |-> v.boundaries, memo |-> v.memo]
      /\ v.key.cursor = q.cursor /\ v.key.revoked = q.revoked
  BY DEF Built, ViewKey
<1> HIDE DEF v
<1>2. Len(log) \in Nat /\ SubSeq(log, 1, Len(log)) = log /\ log \in Seq(LogRows)
  BY SubSeqFull DEF ServiceInv
<1>3. q.cursor \in 0..Len(log)
  <2> DEFINE b == q.baseRows
             c == q.cursor
             n == Len(log)
  <2>1. b \in 0..n /\ c \in b..n /\ n \in Nat
    BY <1>2 DEF LoadedTrust, HasCursor
  <2> HIDE DEF b, c, n
  <2>2. c \in 0..n
    BY <2>1
  <2> QED
    BY <2>2 DEF c, n
<1>4. q.at \in Nat
  BY DEF LoadedTrust
<1>5. IsView(v, log)
  <2>1. SubSeq(log, 1, v.rows) = log
    BY <1>1, <1>2
  <2>2. v.boundaries = Boundaries(SubSeq(log, 1, v.rows))
    BY <1>1, <2>1, Zenon
  <2>3. v.rows \in 0..Len(log)
    BY <1>1, <1>2
  <2> QED
    BY <1>1, <1>3, <1>4, <2>2, <2>3 DEF IsView
<1>6. IsEntry(v, log, side)
  <2>1. IsSequence(v.memo) /\ Len(v.memo) = 0 /\ 1..0 = {}
    BY <1>1, NothingIs
  <2> QED
    BY <1>1, <1>5, <2>1 DEF IsEntry
<1>7. HoldsAt(v, q.at)
  <2>1. v.boundaries \in SUBSET Nat /\ v.at \in Nat
    BY <1>1, <1>2, <1>4, BoundariesAreInstants
  <2> DEFINE x == v.at
  <2>2. x \in Nat
    BY <2>1
  <2>3. \A b \in v.boundaries : ~Between(b, x, x)
    <3> HIDE DEF x
    <3> QED
      BY <2>1, <2>2 DEF Between
  <2> QED
    BY <1>1, <2>1, <2>3, HoldsIs
<1> QED
  BY <1>1, <1>6, <1>7 DEF v

LEMMA ReadViewHolds ==
    ASSUME ServiceInv, NEW r \in Readers, ReadView(r)
    PROVE  /\ ServiceInv'
           /\ \A j \in 1..Len(views) :
                views[j].key = ViewKey(req[r]) /\ HoldsAt(views[j], req[r].now) =>
                  \E i \in 1..Len(views') : views'[i] = views[j]
<1> DEFINE q == req[r]
           hits == Hits(ViewKey(q), q.at)
<1>1. q.pc = "view" /\ UNCHANGED <<now, log, side>>
  BY DEF ReadView
<1>2. LoadedTrust(q, log, side) /\ HasCursor(q, log)
  BY <1>1 DEF ServiceInv, KnowsTrust, Idle
<1>3. CacheHolds(views, log, side) /\ Len(views) \in Nat
  BY DEF ServiceInv, CacheHolds, EntriesHold, IsSequence
<1>4. CASE hits # {} /\ WithView(r, views[Min(hits)]) /\ UNCHANGED views
  <2>1. Min(hits) \in hits
    <3>1. hits \in SUBSET Nat
      BY DEF Hits
    <3> HIDE DEF hits
    <3> QED
      BY <1>4, <3>1, MinIsLeast
  <2>2. PICK j \in 1..Len(views) : j = Min(hits) /\ views[j].key = ViewKey(q) /\ HoldsAt(views[j], q.at)
    BY <2>1 DEF Hits
  <2>3. IsView(views[j], log)
    BY <1>3 DEF CacheHolds, EntriesHold, IsEntry
  <2>4. \E v : IsView(v, log) /\ v.key = ViewKey(q) /\ HoldsAt(v, q.at) /\ WithView(r, v)
    BY <1>4, <2>2, <2>3
  <2>5. /\ KnowsTrust(req'[r], log, side)
        /\ DOMAIN req' = Readers /\ \A o \in Readers : o # r => req'[o] = req[o]
    BY <1>1, <2>4, WithViewHolds
  <2>6. ServiceInv'
    BY <1>1, <1>3, <1>4, <2>5, OneRequestMoves
  <2> QED
    BY <1>4, <2>6
<1>5. CASE hits = {} /\ views' = Remember(Built(q), q.now) /\ WithView(r, Built(q))
  <2>1. /\ IsEntry(Built(q), log, side) /\ Built(q).key = ViewKey(q)
        /\ Built(q).at = q.at /\ Built(q).boundaries = Boundaries(log) /\ HoldsAt(Built(q), q.at)
    BY <1>2, BuiltIs
  <2>2. PICK v : v = Built(q)
    OBVIOUS
  <2>3. ASSUME NEW j \in 1..Len(views), views[j].key = v.key PROVE Apart(views[j], v)
    <3>1. PICK u : u = views[j]
      OBVIOUS
    <3>2. ~HoldsAt(u, v.at)
      BY <1>5, <2>1, <2>2, <2>3, <3>1 DEF Hits
    <3>3. IsView(u, log)
      BY <1>3, <3>1 DEF CacheHolds, EntriesHold, IsEntry
    <3>4. u.boundaries \subseteq v.boundaries
      <4> DEFINE n == u.rows
      <4>1. n \in 0..Len(log) /\ log \in Seq(LogRows) /\ u.boundaries = Boundaries(SubSeq(log, 1, n))
        BY <3>3 DEF IsView, ServiceInv
      <4> HIDE DEF n
      <4>2. Boundaries(SubSeq(log, 1, n)) \subseteq Boundaries(log)
        BY <4>1, BoundariesGrow
      <4> QED
        BY <2>1, <2>2, <4>1, <4>2
    <3>5. u.at \in Nat /\ v.at \in Nat /\ v.boundaries \in SUBSET Nat
      BY <1>2, <2>1, <2>2, <3>3, BoundariesAreInstants DEF IsView, LoadedTrust, ServiceInv
    <3>6. Apart(u, v)
      BY <3>2, <3>4, <3>5, MissIsApart
    <3> QED
      BY <3>1, <3>6
  <2>4. PICK t \in Nat : t = q.now
    BY <1>2 DEF LoadedTrust
  <2>5. /\ CacheHolds(Remember(v, t), log, side)
        /\ \A j \in 1..Len(views) :
             views[j].key = v.key /\ HoldsAt(views[j], t) =>
               \E i \in 1..Len(Remember(v, t)) : Remember(v, t)[i] = views[j]
    BY <1>3, <2>1, <2>2, <2>3, RememberHolds
  <2>6. views' = Remember(v, t)
    BY <1>5, <2>2, <2>4
  <2>7. /\ KnowsTrust(req'[r], log, side)
        /\ DOMAIN req' = Readers /\ \A o \in Readers : o # r => req'[o] = req[o]
    <3>1. IsView(v, log) /\ v.key = ViewKey(q) /\ HoldsAt(v, q.at) /\ WithView(r, v)
      BY <1>5, <2>1, <2>2 DEF IsEntry
    <3> QED
      BY <1>1, <3>1, WithViewHolds
  <2>8. ServiceInv'
    BY <1>1, <2>5, <2>6, <2>7, OneRequestMoves
  <2> QED
    BY <2>1, <2>2, <2>4, <2>5, <2>6, <2>8
<1> QED
  BY <1>4, <1>5 DEF ReadView

\* What a snapshot of the request's view says, at any state of the side tables.
LEMMA ViewAnswers ==
    ASSUME NEW q, NEW L \in Seq(LogRows), NEW s, LoadedTrust(q, L, s), HasCursor(q, L),
           HasView(q, L), NEW n
    PROVE  /\ q.view.rows \in q.baseRows..Len(L)
           /\ q.view.revoked = q.revoked /\ q.view.key.registry = q.registry
           /\ SnapshotOf(SubSeq(L, 1, q.view.rows), q.repo, q.registry, q.view.revoked, n, q.view.at)
                = SnapshotOf(SubSeq(L, 1, q.view.rows), q.repo, q.registry, q.revoked, n, q.now)
<1>1. PICK v : v = q.view
  OBVIOUS
<1>2. IsView(v, L) /\ v.key = ViewKey(q) /\ HoldsAt(v, q.at) /\ q.at = q.now
  BY <1>1 DEF HasView, LoadedTrust
<1>3. v.rows \in q.baseRows..Len(L) /\ v.revoked = q.revoked /\ v.key.registry = q.registry
  BY <1>2, RowsReach
<1> DEFINE P == SubSeq(L, 1, v.rows)
           t == q.at
<1>4. /\ P \in Seq(LogRows) /\ v.boundaries = Boundaries(P) /\ v.at \in Nat
      /\ t \in Nat /\ HoldsAt(v, t)
  BY <1>2, PrefixLog DEF LoadedTrust
<1>5. SnapshotOf(P, q.repo, q.registry, v.revoked, n, v.at)
        = SnapshotOf(P, q.repo, q.registry, v.revoked, n, t)
  <2> HIDE DEF P, t
  <2> QED
    BY <1>4, SameSnapshot
<1> QED
  BY <1>1, <1>2, <1>3, <1>5

LEMMA SignHolds ==
    ASSUME ServiceInv, NEW r \in Readers, req[r].pc \in {"key", "assemble"},
           NEW kind \in {"snapshot", "receipt"}, NEW content, Sign(r, kind, content),
           NEW n \in req[r].baseSide..side,
           content = SnapshotOf(SubSeq(log, 1, req[r].view.rows), req[r].repo, req[r].registry,
                                req[r].view.revoked, n, req[r].view.at)
    PROVE  /\ KnowsTrust(req'[r], log, side)
           /\ DOMAIN req' = Readers /\ \A o \in Readers : o # r => req'[o] = req[o]
<1> DEFINE q == req[r]
           c == RevocationCursor
           p == [q EXCEPT !.pc = "answered", !.kind = kind, !.content = content,
                          !.revocationCursor = c]
<1>1. req' = [req EXCEPT ![r] = p]
  BY DEF Sign, Goes
<1>2. DOMAIN req' = Readers /\ req'[r] = p /\ \A o \in Readers : o # r => req'[o] = req[o]
  BY <1>1 DEF ServiceInv
<1>3. LoadedTrust(q, log, side) /\ HasCursor(q, log) /\ HasView(q, log) /\ log \in Seq(LogRows)
  BY DEF ServiceInv, KnowsTrust, Idle
<1>4. /\ n \in q.baseSide..side
      /\ content = SnapshotOf(SubSeq(log, 1, q.view.rows), q.repo, q.registry,
                              q.view.revoked, n, q.view.at)
  OBVIOUS
<1> HIDE DEF q, c
<1>5. /\ q.view.rows \in q.baseRows..Len(log)
      /\ content = SnapshotOf(SubSeq(log, 1, q.view.rows), q.repo, q.registry, q.revoked, n, q.now)
  BY <1>3, <1>4, ViewAnswers
<1>6. /\ DOMAIN p = Fields /\ p.pc = "answered" /\ p.kind = kind /\ p.content = content
      /\ p.baseRows = q.baseRows /\ p.baseSide = q.baseSide /\ p.now = q.now /\ p.at = q.at
      /\ p.route = q.route /\ p.registry = q.registry /\ p.revoked = q.revoked /\ p.repo = q.repo
  BY <1>3 DEF LoadedTrust, Fields
<1> HIDE DEF p
<1>7. LoadedTrust(p, log, side)
  BY <1>3, <1>6, TrustStays
<1>8. SnapshotAnswer(p, log, side)
  BY <1>4, <1>5, <1>6 DEF SnapshotAnswer
<1>9. KnowsTrust(p, log, side)
  BY <1>6, <1>7, <1>8 DEF KnowsTrust, HasAnswer
<1> QED
  BY <1>2, <1>9

LEMMA AnswerUnchangedHolds ==
    ASSUME ServiceInv, NEW r \in Readers, AnswerUnchanged(r)
    PROVE  ServiceInv'
<1> DEFINE q == req[r]
<1>1. /\ q.pc = "key" /\ IsRemembered(q) /\ Sign(r, "receipt", q.known)
      /\ UNCHANGED <<now, log, side, views>>
  BY DEF AnswerUnchanged
<1>2. LoadedTrust(q, log, side) /\ HasCursor(q, log) /\ HasView(q, log)
      /\ log \in Seq(LogRows) /\ side \in Nat /\ CacheHolds(views, log, side)
  BY <1>1 DEF ServiceInv, KnowsTrust, Idle
<1>3. PICK j \in 1..Len(views) : Bare(views[j]) = q.view /\ q.known \in Recalled(views[j], ContentKey(q))
  BY <1>1 DEF IsRemembered, Shared
<1>4. PICK v : v = views[j]
  OBVIOUS
<1>5. IsEntry(v, log, side) /\ Bare(v) = q.view
  BY <1>2, <1>3, <1>4 DEF CacheHolds, EntriesHold
<1>6. PICK i \in 1..Len(v.memo) : v.memo[i].key = ContentKey(q) /\ v.memo[i].content = q.known
  BY <1>3, <1>4 DEF Recalled
<1>7. PICK pair : pair = v.memo[i]
  OBVIOUS
<1>8. pair.key.side = side /\ pair.key.repo = q.repo /\ pair.content = q.known /\ Tells(v, pair, log, side)
  BY <1>5, <1>6, <1>7 DEF ContentKey, IsEntry
<1>9. PICK n \in side..side :
        q.known = SnapshotOf(SubSeq(log, 1, v.rows), q.repo, v.key.registry, v.revoked, n, v.at)
  BY <1>8 DEF Tells
<1>10. n = side /\ n \in q.baseSide..side
  <2> DEFINE d == q.baseSide
  <2>1. d \in 0..side
    BY <1>2 DEF LoadedTrust
  <2> HIDE DEF d
  <2>2. n = side /\ n \in d..side
    BY <1>2, <2>1
  <2> QED
    BY <2>2 DEF d
<1>11. /\ q.view.rows = v.rows /\ q.view.revoked = v.revoked /\ q.view.at = v.at
       /\ q.view.key.registry = v.key.registry /\ q.view.key.registry = q.registry
  BY <1>2, <1>5, ViewAnswers, SMTT(40) DEF Bare
<1>12. q.known = SnapshotOf(SubSeq(log, 1, q.view.rows), q.repo, q.registry, q.view.revoked, n, q.view.at)
  BY <1>9, <1>11
<1>13. PICK content : content = q.known
  OBVIOUS
<1>14. /\ KnowsTrust(req'[r], log, side)
       /\ DOMAIN req' = Readers /\ \A o \in Readers : o # r => req'[o] = req[o]
  <2>1. /\ Sign(r, "receipt", content)
        /\ content = SnapshotOf(SubSeq(log, 1, q.view.rows), q.repo, q.registry, q.view.revoked, n, q.view.at)
    BY <1>1, <1>12, <1>13
  <2> QED
    BY <1>1, <1>10, <2>1, SignHolds
<1> QED
  BY <1>1, <1>2, <1>14, OneRequestMoves

LEMMA StartAssemblyHolds ==
    ASSUME ServiceInv, NEW r \in Readers, StartAssembly(r)
    PROVE  ServiceInv'
<1> DEFINE q == req[r]
           k == ContentKey(q)
           started == [q EXCEPT !.pc = "assemble", !.key = k]
           refused == [q EXCEPT !.pc = "answered", !.kind = "refused"]
<1>1. /\ q.pc = "key" /\ UNCHANGED <<now, log, side, views>>
      /\ \/ req' = [req EXCEPT ![r] = started]
         \/ req' = [req EXCEPT ![r] = refused]
  BY DEF StartAssembly, Goes
<1>2. LoadedTrust(q, log, side) /\ HasCursor(q, log) /\ HasView(q, log)
      /\ side \in Nat /\ CacheHolds(views, log, side)
  BY <1>1 DEF ServiceInv, KnowsTrust, Idle
<1>3. DOMAIN req' = Readers /\ req'[r] \in {started, refused} /\ \A o \in Readers : o # r => req'[o] = req[o]
  BY <1>1 DEF ServiceInv
<1>4. k = [repo |-> q.repo, side |-> side]
  BY DEF ContentKey
<1> HIDE DEF q, k
<1>5. KnowsTrust(refused, log, side)
  <2> DEFINE p == refused
  <2>1. /\ DOMAIN p = Fields /\ p.pc = "answered" /\ p.kind = "refused"
        /\ p.baseRows = q.baseRows /\ p.baseSide = q.baseSide /\ p.now = q.now /\ p.at = q.at
        /\ p.route = q.route /\ p.registry = q.registry /\ p.revoked = q.revoked
    BY <1>2 DEF LoadedTrust, Fields
  <2> HIDE DEF p
  <2>2. LoadedTrust(p, log, side)
    BY <1>2, <2>1, TrustStays
  <2>3. KnowsTrust(p, log, side)
    BY <2>1, <2>2 DEF KnowsTrust, HasAnswer
  <2> QED
    BY <2>3 DEF p
<1>6. KnowsTrust(started, log, side)
  <2> DEFINE p == started
  <2>1. /\ DOMAIN p = Fields /\ p.pc = "assemble" /\ p.key = k /\ p.repo = q.repo
        /\ p.view = q.view /\ p.cursor = q.cursor
        /\ p.baseRows = q.baseRows /\ p.baseSide = q.baseSide /\ p.now = q.now /\ p.at = q.at
        /\ p.route = q.route /\ p.registry = q.registry /\ p.revoked = q.revoked
    BY <1>2 DEF LoadedTrust, Fields
  <2> HIDE DEF p
  <2>2. LoadedTrust(p, log, side)
    BY <1>2, <2>1, TrustStays
  <2>3. HasCursor(p, log)
    BY <1>2, <2>1 DEF HasCursor
  <2>4. HasView(p, log)
    BY <1>2, <2>1 DEF HasView, ViewKey
  <2>5. HasKey(p, side)
    <3> DEFINE d == q.baseSide
    <3>1. d \in 0..side
      BY <1>2 DEF LoadedTrust
    <3> HIDE DEF d
    <3>2. side \in d..side
      BY <1>2, <3>1
    <3>3. side \in p.baseSide..side /\ p.key = [repo |-> p.repo, side |-> side]
      BY <1>4, <2>1, <3>2 DEF d
    <3> QED
      BY <3>3 DEF HasKey
  <2>6. KnowsTrust(p, log, side)
    BY <2>1, <2>2, <2>3, <2>4, <2>5 DEF KnowsTrust
  <2> QED
    BY <2>6 DEF p
<1>7. KnowsTrust(req'[r], log, side)
  <2> HIDE DEF started, refused
  <2> QED
    BY <1>3, <1>5, <1>6
<1> QED
  BY <1>1, <1>2, <1>3, <1>7, OneRequestMoves

LEMMA AssembleHolds ==
    ASSUME ServiceInv, NEW r \in Readers, Assemble(r)
    PROVE  ServiceInv'
<1> DEFINE q == req[r]
           n == Len(views)
           told == SnapshotOf(LogTo(q.view.rows), q.repo, q.registry, q.view.revoked, side, q.view.at)
           kind == IF q.known = told THEN "receipt" ELSE "snapshot"
<1>1. PICK content : content = told
  OBVIOUS
<1>2. /\ q.pc = "assemble" /\ UNCHANGED <<now, log, side>>
      /\ views' = [j \in 1..n |-> IF j \in Shared(q) THEN RememberDigest(views[j], q.key, content)
                                  ELSE views[j]]
      /\ Sign(r, kind, content) /\ kind \in {"snapshot", "receipt"}
  BY <1>1 DEF Assemble
<1>3. /\ LoadedTrust(q, log, side) /\ HasCursor(q, log) /\ HasView(q, log) /\ HasKey(q, side)
      /\ log \in Seq(LogRows) /\ side \in Nat /\ CacheHolds(views, log, side)
  BY <1>2 DEF ServiceInv, KnowsTrust, Idle
<1>4. content = SnapshotOf(SubSeq(log, 1, q.view.rows), q.repo, q.registry, q.view.revoked,
                           side, q.view.at)
  BY <1>1 DEF LogTo
<1>5. PICK k \in q.baseSide..side : q.key = [repo |-> q.repo, side |-> k]
  BY <1>3 DEF HasKey
<1>6. side \in q.baseSide..side /\ side \in k..side /\ k \in Nat
  <2> DEFINE d == q.baseSide
  <2>1. d \in 0..side /\ k \in d..side
    BY <1>3 DEF LoadedTrust
  <2> HIDE DEF d
  <2>2. side \in d..side /\ side \in k..side /\ k \in Nat
    BY <1>3, <2>1
  <2> QED
    BY <2>2 DEF d
<1>7. q.view.key.registry = q.registry
  BY <1>3, ViewAnswers
<1>8. /\ KnowsTrust(req'[r], log, side)
      /\ DOMAIN req' = Readers /\ \A o \in Readers : o # r => req'[o] = req[o]
  <2> HIDE DEF kind
  <2>1. req[r].pc \in {"key", "assemble"} /\ side \in req[r].baseSide..side
    BY <1>2, <1>6
  <2> QED
    BY <1>2, <1>4, <2>1, SignHolds
<1> HIDE DEF q, told, kind
<1>9. ASSUME NEW j \in 1..n
      PROVE  IsEntry(views'[j], log, side) /\ Bare(views'[j]) = Bare(views[j])
  <2>1. PICK v : v = views[j]
    OBVIOUS
  <2>2. IsEntry(v, log, side)
    BY <1>3, <2>1 DEF CacheHolds, EntriesHold
  <2>3. CASE j \notin Shared(q)
    BY <1>2, <2>1, <2>2, <2>3
  <2>4. CASE j \in Shared(q)
    <3>1. views'[j] = RememberDigest(v, q.key, content)
      BY <1>2, <2>1, <2>4
    <3>2. Bare(v) = q.view
      BY <2>1, <2>4 DEF Shared
    <3>3. /\ q.view.rows = v.rows /\ q.view.revoked = v.revoked /\ q.view.at = v.at
          /\ q.registry = v.key.registry
      BY <1>7, <3>2 DEF Bare
    <3>4. content = SnapshotOf(SubSeq(log, 1, v.rows), q.repo, v.key.registry, v.revoked, side, v.at)
      BY <1>4, <3>3
    <3>5. PICK key : key = q.key
      OBVIOUS
    <3>6. key.side = k /\ key.repo = q.repo
      BY <1>5, <3>5
    <3>7. Tells(v, [key |-> key, content |-> content], log, side)
      BY <1>6, <3>4, <3>6 DEF Tells
    <3>8. /\ IsEntry(RememberDigest(v, key, content), log, side)
          /\ Bare(RememberDigest(v, key, content)) = Bare(v)
      BY <1>6, <2>2, <3>6, <3>7, MemoHolds
    <3> QED
      BY <2>1, <3>1, <3>5, <3>8
  <2> QED
    BY <2>3, <2>4
<1>10. n \in Nat /\ n <= ViewSlots
  BY <1>3 DEF CacheHolds, EntriesHold, IsSequence
<1>11. Len(views') = n /\ IsSequence(views')
  <2>1. PICK V : V = views'
    OBVIOUS
  <2>2. DOMAIN V = 1..n /\ V = [j \in DOMAIN V |-> V[j]]
    BY <1>2, <2>1
  <2> DEFINE S == {V[j] : j \in 1..n}
  <2>3. V \in [1..n -> S]
    BY <2>2
  <2> HIDE DEF S
  <2>4. V \in Seq(S) /\ Len(V) = n
    <3> HIDE DEF n
    <3> QED
      BY <1>10, <2>3, SeqDef, LenProperties
  <2> QED
    BY <2>1, <2>4, SequenceIs
<1>12. /\ \A i, j \in 1..n : views[i].key = views[j].key
       /\ \A i, j \in 1..n : i # j => Apart(views[i], views[j])
  BY <1>3 DEF CacheHolds, EntriesHold
<1>13. ASSUME NEW v, NEW w, Bare(v) = Bare(w)
       PROVE  v.key = w.key /\ \A t : HoldsAt(v, t) <=> HoldsAt(w, t)
  <2>1. v.key = w.key /\ v.at = w.at /\ v.boundaries = w.boundaries
    BY <1>13 DEF Bare
  <2> QED
    BY <2>1 DEF HoldsAt
<1>14. ASSUME NEW j \in 1..n
       PROVE  views'[j].key = views[j].key /\ \A t : HoldsAt(views'[j], t) <=> HoldsAt(views[j], t)
  BY <1>9, <1>13
<1>15. ASSUME NEW i \in 1..n, NEW j \in 1..n
       PROVE  views'[i].key = views'[j].key /\ (i # j => Apart(views'[i], views'[j]))
  <2>1. views'[i].key = views'[j].key
    BY <1>12, <1>14
  <2>2. ASSUME i # j PROVE Apart(views'[i], views'[j])
    <3>1. Apart(views[i], views[j])
      BY <1>12, <2>2
    <3> QED
      BY <1>14, <3>1 DEF Apart
  <2> QED
    BY <2>1, <2>2
<1>16. CacheHolds(views', log, side)
  <2> HIDE DEF n
  <2> QED
    BY <1>9, <1>10, <1>11, <1>15 DEF CacheHolds, EntriesHold
<1> QED
  BY <1>2, <1>8, <1>16, OneRequestMoves

LEMMA DeliverHolds ==
    ASSUME ServiceInv, NEW r \in Readers, Deliver(r)
    PROVE  ServiceInv'
<1>1. req' = [req EXCEPT ![r] = Idle] /\ UNCHANGED <<now, log, side, views>>
  BY DEF Deliver, Goes
<1>2. DOMAIN req' = Readers /\ req'[r] = Idle /\ \A o \in Readers : o # r => req'[o] = req[o]
  BY <1>1 DEF ServiceInv
<1>3. KnowsTrust(req'[r], log, side)
  BY <1>2 DEF KnowsTrust
<1>4. CacheHolds(views', log, side)
  BY <1>1 DEF ServiceInv
<1> QED
  BY <1>1, <1>2, <1>3, <1>4, OneRequestMoves

-----------------------------------------------------------------------------
(* What other requests commit *)

LEMMA TrafficHolds ==
    ASSUME ServiceInv, UNCHANGED <<views, req>>, now' \in Nat,
           \E M, t : M = log' /\ t = side' /\ Grown(log, side, M, t)
    PROVE  ServiceInv'
<1>1. PICK M, t : M = log' /\ t = side' /\ Grown(log, side, M, t)
  OBVIOUS
<1>2. CacheHolds(views, M, t) /\ \A r \in Readers : KnowsTrust(req[r], M, t)
  BY <1>1, CacheGrown, TrustGrown DEF ServiceInv
<1>3. M \in Seq(LogRows) /\ t \in Nat
  BY <1>1 DEF Grown
<1> QED
  BY <1>1, <1>2, <1>3 DEF ServiceInv

LEMMA CommitHolds ==
    ASSUME ServiceInv, NEW rows \in Seq(LogRows), CommitRows(rows)
    PROVE  ServiceInv'
<1>1. log' = log \o rows /\ UNCHANGED <<now, side, views, req>>
  BY DEF CommitRows
<1>2. PICK M : M = log \o rows
  OBVIOUS
<1>3. /\ M \in Seq(LogRows) /\ Len(M) = Len(log) + Len(rows)
      /\ \A i \in 1..Len(log) + Len(rows) : M[i] = IF i <= Len(log) THEN log[i] ELSE rows[i - Len(log)]
  BY <1>2, ConcatProperties DEF ServiceInv
<1>4. Len(log) \in Nat /\ Len(rows) \in Nat /\ side \in Nat /\ log \in Seq(LogRows) /\ now \in Nat
  BY DEF ServiceInv
<1>5. Len(log) <= Len(M) /\ \A i \in 1..Len(log) : M[i] = log[i]
  BY <1>3, <1>4
<1>6. Grown(log, side, M, side)
  BY <1>3, <1>4, <1>5 DEF Grown
<1>7. \E N, t : N = log' /\ t = side' /\ Grown(log, side, N, t)
  BY <1>1, <1>2, <1>6
<1> QED
  BY <1>1, <1>4, <1>7, TrafficHolds

LEMMA AdmitHolds ==
    ASSUME ServiceInv, NEW f \in Facts, Admit(f)
    PROVE  ServiceInv'
<1>1. [kind |-> "fact", fact |-> f] \in LogRows
  BY DEF LogRows
<1>2. <<[kind |-> "fact", fact |-> f]>> \in Seq(LogRows)
  BY <1>1
<1>3. \E rows \in Seq(LogRows) : CommitRows(rows)
  BY <1>2 DEF Admit
<1> QED
  BY <1>3, CommitHolds

LEMMA KeyStepsHold ==
    ASSUME ServiceInv, NEW k \in Keys, Revoke(k) \/ Delist(k) \/ Relist(k)
    PROVE  ServiceInv'
<1> DEFINE a == [kind |-> "revocation", key |-> k]
           b == [kind |-> "registry", key |-> k, status |-> "revoked"]
           c == [kind |-> "registry", key |-> k, status |-> "active"]
<1>1. a \in LogRows /\ b \in LogRows /\ c \in LogRows
  BY DEF LogRows
<1>2. CommitRows(<<a>>) \/ CommitRows(<<b, a>>) \/ CommitRows(<<c>>)
  BY DEF Revoke, Delist, Relist
<1> HIDE DEF a, b, c
<1>3. <<a>> \in Seq(LogRows) /\ <<b, a>> \in Seq(LogRows) /\ <<c>> \in Seq(LogRows)
  BY <1>1
<1>4. \E rows \in Seq(LogRows) : CommitRows(rows)
  BY <1>2, <1>3
<1> QED
  BY <1>4, CommitHolds

LEMMA TickHolds ==
    ASSUME ServiceInv, TouchSide \/ ClockMoves
    PROVE  ServiceInv'
<1>1. /\ log' = log /\ side' \in {side, side + 1} /\ now' \in {now, now + 1}
      /\ UNCHANGED <<views, req>>
  BY DEF TouchSide, ClockMoves
<1>2. log \in Seq(LogRows) /\ Len(log) \in Nat /\ side \in Nat /\ now \in Nat
  BY DEF ServiceInv
<1>3. now' \in Nat
  BY <1>1, <1>2
<1>4. Grown(log, side, log, side) /\ Grown(log, side, log, side + 1)
  BY <1>2 DEF Grown
<1>5. \E M, t : M = log' /\ t = side' /\ Grown(log, side, M, t)
  BY <1>1, <1>4
<1> QED
  BY <1>1, <1>3, <1>5, TrafficHolds

LEMMA ServiceStep ==
    ASSUME ServiceInv, [ServiceNext]_serviceVars
    PROVE  ServiceInv'
<1>1. CASE UNCHANGED serviceVars
  BY <1>1 DEF ServiceInv, serviceVars
<1>2. ASSUME NEW r \in Readers,
             \/ AskSnapshot(r) \/ AskFacts(r) \/ LoadCursor(r)
             \/ ReadView(r) \/ AnswerUnchanged(r) \/ StartAssembly(r) \/ Assemble(r) \/ Deliver(r)
      PROVE  ServiceInv'
  BY <1>2, AskSnapshotHolds, AskFactsHolds, LoadCursorHolds, ReadViewHolds, AnswerUnchangedHolds,
     StartAssemblyHolds, AssembleHolds, DeliverHolds
<1>3. ASSUME NEW f \in Facts, Admit(f) PROVE ServiceInv'
  BY <1>3, AdmitHolds
<1>4. ASSUME NEW k \in Keys, Revoke(k) \/ Delist(k) \/ Relist(k) PROVE ServiceInv'
  BY <1>4, KeyStepsHold
<1>5. CASE TouchSide \/ ClockMoves
  BY <1>5, TickHolds
<1> QED
  BY <1>1, <1>2, <1>3, <1>4, <1>5 DEF ServiceNext

-----------------------------------------------------------------------------
(* What a client is told *)

LEMMA RowsOfPrefix ==
    ASSUME NEW L \in Seq(LogRows), NEW n \in 0..Len(L), NEW kind
    PROVE  /\ RowsOf(SubSeq(L, 1, n), kind) \in SUBSET (1..n)
           /\ \A i \in RowsOf(SubSeq(L, 1, n), kind) : SubSeq(L, 1, n)[i] = L[i]
<1> DEFINE P == SubSeq(L, 1, n)
<1>1. Len(P) = n /\ \A i \in 1..n : P[i] = L[i]
  BY PrefixIs
<1> HIDE DEF P
<1>2. RowsOf(P, kind) \in SUBSET (1..n) /\ \A i \in RowsOf(P, kind) : P[i] = L[i]
  BY <1>1 DEF RowsOf
<1> QED
  BY <1>2 DEF P

\* The events are left out of a snapshot or all there.
LEMMA WindowIs ==
    ASSUME NEW P, IsFiniteSet(RowsOf(P, "fact")), EventWindow(P).omitted = 0
    PROVE  EventWindow(P).rows = RowsOf(P, "fact")
<1> DEFINE n == Cardinality(RowsOf(P, "fact"))
<1>1. n \in Nat /\ EventLimit \in Nat
  BY FS_CardinalityType, LimitsAssumption
<1>2. CASE n > EventLimit
  <2>1. EventWindow(P).omitted = n - EventLimit
    BY <1>2 DEF EventWindow
  <2> HIDE DEF n
  <2> QED
    BY <1>1, <1>2, <2>1
<1>3. CASE ~(n > EventLimit)
  BY <1>3 DEF EventWindow
<1> QED
  BY <1>2, <1>3

LEMMA ReadsWhole ==
    ASSUME NEW q, log \in Seq(LogRows), LoadedTrust(q, log, side), SnapshotAnswer(q, log, side)
    PROVE  GovernedBy(log, ClientReading(q.content, q.now), q.repo) = q.content.facts
<1>1. PICK n \in q.baseRows..Len(log) : \E m \in q.baseSide..side :
        q.content = SnapshotOf(SubSeq(log, 1, n), q.repo, q.registry, q.revoked, m, q.now)
  BY DEF SnapshotAnswer
<1> DEFINE P == SubSeq(log, 1, n)
           facts == GovernedBy(P, Current(P, q.revoked, q.now), q.repo)
<1>2. /\ q.content.facts = facts /\ q.content.events = EventWindow(P)
      /\ q.content.revoked = q.revoked
  BY <1>1 DEF SnapshotOf
<1>3. n \in 0..Len(log)
  <2> DEFINE b == q.baseRows
  <2>1. b \in 0..Len(log) /\ n \in b..Len(log)
    BY DEF LoadedTrust
  <2> HIDE DEF b
  <2> QED
    BY <2>1
<1>4. /\ RowsOf(P, "fact") \in SUBSET (1..n)
      /\ \A i \in RowsOf(P, "fact") : P[i] = log[i]
  BY <1>3, RowsOfPrefix
<1>5. IsFiniteSet(RowsOf(P, "fact"))
  BY <1>3, <1>4, FS_Interval, FS_Subset
<1> HIDE DEF P
<1>6. Current(P, q.revoked, q.now)
        = {i \in RowsOf(P, "fact") : IsCurrent(log[i].fact, q.revoked, q.now)}
  BY <1>4 DEF Current
<1>7. /\ Current(P, q.revoked, q.now) \subseteq RowsOf(P, "fact")
      /\ facts \subseteq RowsOf(P, "fact")
      /\ facts = GovernedBy(log, Current(P, q.revoked, q.now), q.repo)
  BY <1>4 DEF Current, GovernedBy
<1>8. CASE EventWindow(P).omitted = 0
  <2>1. EventWindow(P).rows = RowsOf(P, "fact")
    BY <1>5, <1>8, WindowIs
  <2>2. ClientReading(q.content, q.now) = Current(P, q.revoked, q.now)
    BY <1>2, <1>6, <1>8, <2>1 DEF ClientReading
  <2> QED
    BY <1>2, <1>7, <2>2
<1>9. CASE EventWindow(P).omitted # 0
  <2>1. ClientReading(q.content, q.now) = facts
    BY <1>2, <1>9 DEF ClientReading
  <2>2. GovernedBy(log, facts, q.repo) = facts
    BY <1>7 DEF GovernedBy
  <2> QED
    BY <1>2, <2>1, <2>2
<1> QED
  BY <1>8, <1>9

LEMMA AnswersFollow ==
    ASSUME ServiceInv
    PROVE  AnswersAreTrue
<1>1. log \in Seq(LogRows) /\ Len(log) \in Nat
  BY DEF ServiceInv
<1>2. ASSUME NEW r \in Answered({"snapshot", "receipt", "facts"})
      PROVE  LoadedTrust(req[r], log, side) /\ HasAnswer(req[r], log, side)
             /\ req[r].kind \in {"snapshot", "receipt", "facts"}
  BY <1>2 DEF Answered, ServiceInv, KnowsTrust, Idle
<1>3. ASSUME NEW r \in Answered({"snapshot", "receipt", "facts"})
      PROVE  \E t \in req[r].baseRows..Len(log) : \E n \in t..Len(log) :
               LET registry == RegistryOf(LogTo(t))
                   revoked == Revoked(LogTo(t), registry)
               IN IF req[r].kind = "facts"
                  THEN req[r].content = Current(LogTo(n), revoked, req[r].at)
                  ELSE \E s \in req[r].baseSide..side :
                         req[r].content = SnapshotOf(LogTo(n), req[r].repo, registry, revoked, s, req[r].now)
  <2> DEFINE q == req[r]
             b == q.baseRows
  <2>1. /\ LoadedTrust(q, log, side) /\ HasAnswer(q, log, side)
        /\ q.kind \in {"snapshot", "receipt", "facts"}
    BY <1>2
  <2> HIDE DEF q
  <2>2. b \in b..Len(log)
    <3>1. b \in 0..Len(log)
      BY <2>1 DEF LoadedTrust
    <3> HIDE DEF b
    <3> QED
      BY <1>1, <3>1
  <2>3. q.registry = RegistryOf(LogTo(b)) /\ q.revoked = Revoked(LogTo(b), RegistryOf(LogTo(b)))
    BY <2>1 DEF LoadedTrust, LogTo
  <2>4. CASE q.kind = "facts"
    <3>1. PICK n \in b..Len(log) : q.content = Current(LogTo(n), q.revoked, q.at)
      BY <2>1, <2>4 DEF HasAnswer, FactsAnswer, LogTo
    <3> QED
      BY <2>2, <2>3, <2>4, <3>1 DEF q
  <2>5. CASE q.kind # "facts"
    <3>1. PICK n \in b..Len(log) : \E m \in q.baseSide..side :
            q.content = SnapshotOf(LogTo(n), q.repo, q.registry, q.revoked, m, q.now)
      BY <2>1, <2>5 DEF HasAnswer, SnapshotAnswer, LogTo
    <3> QED
      BY <2>2, <2>3, <2>5, <3>1 DEF q
  <2> QED
    BY <2>4, <2>5
<1>4. AnswersAreFresh
  BY <1>3 DEF AnswersAreFresh
<1>5. ASSUME NEW r \in Answered({"snapshot"})
      PROVE  GovernedBy(log, ClientReading(req[r].content, req[r].now), req[r].repo)
               = req[r].content.facts
  <2>1. r \in Answered({"snapshot", "receipt", "facts"}) /\ req[r].kind = "snapshot"
    BY DEF Answered
  <2>2. LoadedTrust(req[r], log, side) /\ SnapshotAnswer(req[r], log, side)
    BY <1>2, <2>1 DEF HasAnswer
  <2> QED
    BY <1>1, <2>2, ReadsWhole
<1> QED
  BY <1>4, <1>5 DEF ReadingIsWhole, AnswersAreTrue

\* Every answer of the service, and what its client reduces from it, is true of
\* Company's state at a moment since it was asked (view_cache.rs, server.rs
\* handle, reduced_view, snapshot): whatever the view cache and the digest memo
\* hold, and whatever other requests commit meanwhile.
THEOREM AnswersAreTrueAlways == ServiceSpec => []AnswersAreTrue
<1>1. ServiceInit => ServiceInv
  BY ServiceStarts
<1>2. ServiceInv /\ [ServiceNext]_serviceVars => ServiceInv'
  BY ServiceStep
<1>3. ServiceInv => AnswersAreTrue
  BY AnswersFollow
<1> QED
  BY <1>1, <1>2, <1>3, PTL DEF ServiceSpec

LEMMA ViewStays ==
    ASSUME ServiceInv, [ServiceNext]_serviceVars, NEW r \in Readers,
           req[r].pc = "view", req'[r].pc # "view"
    PROVE  \A j \in 1..Len(views) :
             views[j].key = ViewKey(req[r]) /\ HoldsAt(views[j], req[r].now)
             => views[j] \in Range(views')
<1>1. ReadView(r)
  <2>1. ASSUME NEW o \in Readers, o # r,
               \/ AskSnapshot(o) \/ AskFacts(o) \/ LoadCursor(o)
               \/ ReadView(o) \/ AnswerUnchanged(o) \/ StartAssembly(o) \/ Assemble(o) \/ Deliver(o)
        PROVE  req'[r] = req[r]
    <3>1. \E q : req' = [req EXCEPT ![o] = q]
      BY <2>1 DEF AskSnapshot, AskFacts, Ask, LoadCursor, ReadView, WithView, AnswerUnchanged, Sign,
                  StartAssembly, Assemble, Deliver, Goes
    <3> QED
      BY <2>1, <3>1 DEF ServiceInv
  <2>2. CASE \/ AskSnapshot(r) \/ AskFacts(r) \/ LoadCursor(r)
             \/ AnswerUnchanged(r) \/ StartAssembly(r) \/ Assemble(r) \/ Deliver(r)
    <3>0. req[r] # Idle
      BY DEF Idle
    <3>1. ~AskSnapshot(r) /\ ~AskFacts(r)
      BY <3>0, Zenon DEF AskSnapshot, AskFacts, Ask
    <3>2. ~LoadCursor(r) /\ ~AnswerUnchanged(r) /\ ~StartAssembly(r) /\ ~Deliver(r)
      BY DEF LoadCursor, AnswerUnchanged, StartAssembly, Deliver
    <3>3. ~Assemble(r)
      BY DEF Assemble
    <3> QED
      BY <2>2, <3>1, <3>2, <3>3
  <2>3. ASSUME NEW f \in Facts, Admit(f) PROVE req' = req
    BY <2>3 DEF Admit, CommitRows
  <2>4. ASSUME NEW k \in Keys, Revoke(k) \/ Delist(k) \/ Relist(k) PROVE req' = req
    BY <2>4 DEF Revoke, Delist, Relist, CommitRows
  <2>5. CASE TouchSide \/ ClockMoves \/ UNCHANGED serviceVars
    BY <2>5 DEF TouchSide, ClockMoves, serviceVars
  <2> QED
    BY <2>1, <2>2, <2>3, <2>4, <2>5 DEF ServiceNext
<1>2. ServiceInv' /\ \A j \in 1..Len(views) :
        views[j].key = ViewKey(req[r]) /\ HoldsAt(views[j], req[r].now) =>
          \E i \in 1..Len(views') : views'[i] = views[j]
  BY <1>1, ReadViewHolds
<1>3. DOMAIN views' = 1..Len(views')
  BY <1>2 DEF ServiceInv, CacheHolds, EntriesHold, IsSequence
<1> QED
  BY <1>2, <1>3 DEF Range

\* A reader of another instant never makes the cache forget the reduction that
\* holds at the service's clock (view_cache.rs remember, SLOTS).
THEOREM CurrentViewIsKeptAlways == ServiceSpec => CurrentViewIsKept
<1> DEFINE ViewIsKept ==
             \A r \in Readers :
               req[r].pc = "view" /\ req'[r].pc # "view" =>
                 \A j \in 1..Len(views) :
                    views[j].key = ViewKey(req[r]) /\ HoldsAt(views[j], req[r].now)
                    => views[j] \in Range(views')
<1>1. ServiceInit => ServiceInv
  BY ServiceStarts
<1>2. ServiceInv /\ [ServiceNext]_serviceVars => ServiceInv'
  BY ServiceStep
<1>3. ServiceInv /\ [ServiceNext]_serviceVars => ViewIsKept
  BY ViewStays
<1>4. ServiceInv /\ [ServiceNext]_serviceVars => [ViewIsKept]_serviceVars
  BY <1>3
<1>5. CurrentViewIsKept <=> [][ViewIsKept]_serviceVars
  BY DEF CurrentViewIsKept
<1> HIDE DEF ViewIsKept
<1> QED
  BY <1>1, <1>2, <1>4, <1>5, PTL DEF ServiceSpec
=============================================================================
