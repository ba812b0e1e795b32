----------------------- MODULE CompanyAdmissionProofs -----------------------
(***************************************************************************)
(* What holds of Company admission for any number of connections, clients, *)
(* events and steward documents.                                           *)
(*                                                                         *)
(* The argument: cursors only grow, so a new fact row differs from every   *)
(* old one in its cursor, and the look-up inside the transaction makes it  *)
(* differ in its event id; a receipt is stored in the transaction that     *)
(* appends, or finds, the row it names; and the only action that appends a *)
(* fact settles the queue row of its id.                                   *)
(***************************************************************************)
EXTENDS CompanyAdmission, TLAPS

\* A connection that carries a fact carries a well-formed fact request.
LEMMA FactRequestType ==
  ASSUME TypeOK, NEW c \in Connections, IsFact(c)
  PROVE  conns[c] \in FactRequests
BY ConstantsAssumption DEF TypeOK, IsFact, Requests, Idle, StewardRequests, FactRequests

\* The same for a steward document.
LEMMA StewardRequestType ==
  ASSUME TypeOK, NEW c \in Connections, IsStewardRequest(c)
  PROVE  conns[c] \in StewardRequests
BY ConstantsAssumption DEF TypeOK, IsStewardRequest, Requests, Idle, StewardRequests, FactRequests

\* Answering a fact request leaves every connection with a well-formed request.
LEMMA FactAnswerType ==
  ASSUME TypeOK, NEW c \in Connections, IsFact(c), NEW text \in FactAnswers, Answer(c, text)
  PROVE  conns' \in [Connections -> Requests]
<1>1. conns[c] \in FactRequests
  BY FactRequestType
<1>2. [conns[c] EXCEPT !.pc = "done", !.answer = text] \in FactRequests
  BY <1>1 DEF FactRequests
<1> QED BY <1>2 DEF TypeOK, Answer, Requests

\* The same for a steward request.
LEMMA StewardAnswerType ==
  ASSUME TypeOK, NEW c \in Connections, IsStewardRequest(c),
         NEW text \in StewardAnswers, Answer(c, text)
  PROVE  conns' \in [Connections -> Requests]
<1>1. conns[c] \in StewardRequests
  BY StewardRequestType
<1>2. [conns[c] EXCEPT !.pc = "done", !.answer = text] \in StewardRequests
  BY <1>1 DEF StewardRequests
<1> QED BY <1>2 DEF TypeOK, Answer, Requests

\* The trust state a request keeps is one of the views requests are typed with.
LEMMA TrustInType ==
  ASSUME NEW k
  PROVE  TrustIn(k) \in TrustViews
<1>1. IsRevoked(k) \in BOOLEAN /\ IsSteward(k) \in BOOLEAN
  BY DEF IsRevoked, IsSteward
<1>2. {ScopeOf[i] : i \in {j \in Identities : Active(j) /\ registry[j].key = k}} \in SUBSET Scopes
  BY ConstantsAssumption
<1> QED BY <1>1, <1>2 DEF TrustIn, TrustViews

\* An active registry entry names a key.
LEMMA ActiveEntryType ==
  ASSUME TypeOK, NEW i \in Identities, Active(i)
  PROVE  registry[i] \in HeldEntries
<1>1. registry[i] \in RegistryEntries
  BY DEF TypeOK
<1>2. CASE registry[i] \in AbsentEntries
  <2>1. registry[i].status = "absent"
    BY <1>2 DEF AbsentEntries
  <2> QED BY <2>1 DEF Active
<1>3. CASE registry[i] \in HeldEntries
  BY <1>3
<1> QED BY <1>1, <1>2, <1>3 DEF RegistryEntries

\* Storing a receipt keeps the nonces table well formed.
LEMMA StoreReceiptType ==
  ASSUME TypeOK, NEW c \in Connections, IsFact(c),
         NEW status \in {"committed", "pending-steward-review"}, NEW row \in Nat,
         StoreReceipt(c, status, row)
  PROVE  DOMAIN nonces' \subseteq Nonces /\ nonces' \in [DOMAIN nonces' -> NonceRecords]
<1>1. conns[c] \in FactRequests
  BY FactRequestType
<1>2. /\ conns[c].doc \in Events /\ conns[c].client \in Clients
      /\ conns[c].nonce \in Nonces /\ conns[c].at \in Nat
  BY <1>1, ConstantsAssumption DEF FactRequests
<1> DEFINE n == conns[c].nonce
           expires == IF n \in DOMAIN nonces THEN nonces[n].expires ELSE conns[c].at + NonceRetention
           record == [doc |-> conns[c].doc, client |-> conns[c].client, expires |-> expires,
                      status |-> status, row |-> row]
<1>3. \A m \in DOMAIN nonces : nonces[m] \in NonceRecords
  BY DEF TypeOK
<1>4. expires \in Nat
  BY <1>2, <1>3, ConstantsAssumption DEF NonceRecords
<1>5. record \in NonceRecords
  BY <1>2, <1>4 DEF NonceRecords
<1>6. nonces' = [m \in DOMAIN nonces \cup {n} |-> IF m = n THEN record ELSE nonces[m]]
  BY DEF StoreReceipt
<1> HIDE DEF record
<1>7. DOMAIN nonces' = DOMAIN nonces \cup {n}
  BY <1>6
<1>8. DOMAIN nonces' \subseteq Nonces
  BY <1>7, <1>2 DEF TypeOK
<1>9. nonces' \in [DOMAIN nonces' -> NonceRecords]
  BY <1>3, <1>5, <1>6, <1>7
<1> QED BY <1>8, <1>9

\* The initial tables are well formed.
LEMMA TypeInit == Init => TypeOK
BY ConstantsAssumption
   DEF Init, TypeOK, Requests, RegistryEntries, AbsentEntries, FactRows, StewardRows, RevocationRows

\* Every action of a request, and the clock, keep the tables well formed.
LEMMA TypeNext == TypeOK /\ [Next]_vars => TypeOK'
<1> SUFFICES ASSUME TypeOK, [Next]_vars PROVE TypeOK'
  OBVIOUS
<1> USE DEF TypeOK
<1>1. CASE Tick
  BY <1>1, ConstantsAssumption DEF Tick, tables
<1>2. ASSUME NEW c \in Connections, ArriveFact(c) PROVE TypeOK'
  <2>1. nonces' \in [DOMAIN nonces' -> NonceRecords] /\ DOMAIN nonces' \subseteq Nonces
    BY <1>2 DEF ArriveFact, PruneNonces
  <2>2. conns' \in [Connections -> Requests]
    <3>1. PICK s \in Submissions :
            conns' = [conns EXCEPT ![c] =
              [pc |-> "loaded", doc |-> s.doc, client |-> s.client, nonce |-> s.nonce,
               approved |-> s.approved, trust |-> TrustIn(Header[s.doc].signer),
               at |-> clock, seen |-> cursor, admission |-> "undecided", answer |-> "none"]]
      BY <1>2 DEF ArriveFact
    <3>2. TrustIn(Header[s.doc].signer) \in TrustViews
      BY TrustInType
    <3>3. s \in [doc : Events, client : Clients, nonce : Nonces, approved : BOOLEAN]
      BY ConstantsAssumption DEF Posts
    <3> QED BY <3>1, <3>2, <3>3 DEF Requests, FactRequests, FactAnswers
  <2> QED BY <1>2, <2>1, <2>2 DEF ArriveFact
<1>3. ASSUME NEW c \in Connections, ArriveSteward(c) PROVE TypeOK'
  <2>1. nonces' \in [DOMAIN nonces' -> NonceRecords] /\ DOMAIN nonces' \subseteq Nonces
    BY <1>3 DEF ArriveSteward, PruneNonces
  <2>2. \A k : IsSteward(k) \in BOOLEAN
    BY DEF IsSteward
  <2>3. conns' \in [Connections -> Requests]
    BY <1>3, <2>2 DEF ArriveSteward, Requests, StewardRequests, StewardAnswers
  <2> QED BY <1>3, <2>1, <2>3 DEF ArriveSteward
<1>4. ASSUME NEW c \in Connections, CheckFact(c) PROVE TypeOK'
  <2>1. IsFact(c) /\ conns[c] \in FactRequests
    BY <1>4, FactRequestType DEF CheckFact
  <2>2. CASE FastPath(c)
    <3>1. conns' \in [Connections -> Requests]
      BY <2>1, <2>2, FactAnswerType DEF FastPath, FactAnswers
    <3> QED BY <1>4, <3>1 DEF CheckFact, tables
  <2>3. CASE Judge(c)
    <3>1. CASE Decision(c) \in Admissible
      <4>1. [conns[c] EXCEPT !.pc = "checked", !.admission = Decision(c)] \in FactRequests
        BY <2>1, <3>1 DEF FactRequests, Admissible
      <4>2. conns' \in [Connections -> Requests]
        BY <2>3, <3>1, <4>1 DEF Judge, Requests
      <4> QED BY <1>4, <4>2 DEF CheckFact, tables
    <3>2. CASE Decision(c) \notin Admissible
      <4>1. Decision(c) \in FactAnswers
        BY DEF Decision, VerifySigner, FactAnswers
      <4>2. conns' \in [Connections -> Requests]
        BY <2>1, <2>3, <3>2, <4>1, FactAnswerType DEF Judge
      <4> QED BY <1>4, <4>2 DEF CheckFact, tables
    <3> QED BY <3>1, <3>2
  <2> QED BY <1>4, <2>2, <2>3 DEF CheckFact
<1>5. ASSUME NEW c \in Connections, CommitFact(c) PROVE TypeOK'
  <2>1. IsFact(c) /\ conns[c] \in FactRequests
    BY <1>5, FactRequestType DEF CommitFact
  <2>2. CASE ReplayNonce(c)
    <3>1. conns' \in [Connections -> Requests]
      BY <2>1, <2>2, FactAnswerType DEF ReplayNonce, FactAnswers
    <3> QED BY <1>5, <2>2, <3>1 DEF CommitFact, ReplayNonce, tables
  <2>3. CASE AdmitExisting(c)
    <3>1. conns' \in [Connections -> Requests]
      BY <2>1, <2>3, FactAnswerType DEF AdmitExisting, FactAnswers
    <3>2. CASE Logged(conns[c].doc)
      <4>1. RowOf(conns[c].doc).cursor \in Nat
        BY <3>2 DEF Logged, RowOf, FactRows
      <4>2. DOMAIN nonces' \subseteq Nonces /\ nonces' \in [DOMAIN nonces' -> NonceRecords]
        BY <2>1, <2>3, <3>2, <4>1, StoreReceiptType DEF AdmitExisting
      <4> QED BY <1>5, <2>3, <3>1, <4>2 DEF CommitFact, AdmitExisting
    <3>3. CASE ~Logged(conns[c].doc)
      BY <1>5, <2>3, <3>1, <3>3 DEF CommitFact, AdmitExisting
    <3> QED BY <3>2, <3>3
  <2>4. CASE AdmitCommitted(c)
    <3>1. conns' \in [Connections -> Requests]
      BY <2>1, <2>4, FactAnswerType DEF AdmitCommitted, FactAnswers
    <3>2. DOMAIN nonces' \subseteq Nonces /\ nonces' \in [DOMAIN nonces' -> NonceRecords]
      BY <2>1, <2>4, StoreReceiptType DEF AdmitCommitted
    <3>3. facts' \subseteq FactRows /\ cursor' \in Nat
      BY <2>1, <2>4 DEF AdmitCommitted, FactRows, FactRequests
    <3>4. DOMAIN queue' \subseteq EventIds /\ queue' \in [DOMAIN queue' -> QueueRows]
      BY <2>4 DEF AdmitCommitted, Resolved, QueueRows
    <3> QED BY <1>5, <2>4, <3>1, <3>2, <3>3, <3>4 DEF CommitFact, AdmitCommitted
  <2>5. CASE AdmitPending(c)
    <3>1. conns' \in [Connections -> Requests]
      BY <2>1, <2>5, FactAnswerType DEF AdmitPending, FactAnswers
    <3>2. DOMAIN nonces' \subseteq Nonces /\ nonces' \in [DOMAIN nonces' -> NonceRecords]
      BY <2>1, <2>5, StoreReceiptType DEF AdmitPending
    <3>3. Header[conns[c].doc].id \in EventIds /\ conns[c].doc \in Events
      BY <2>1, ConstantsAssumption DEF FactRequests, Headers
    <3>4. DOMAIN queue' \subseteq EventIds /\ queue' \in [DOMAIN queue' -> QueueRows]
      BY <2>5, <3>3 DEF AdmitPending, QueueRows
    <3> QED BY <1>5, <2>5, <3>1, <3>2, <3>4 DEF CommitFact, AdmitPending
  <2> QED BY <1>5, <2>2, <2>3, <2>4, <2>5 DEF CommitFact
<1>6. ASSUME NEW c \in Connections, ServeSteward(c) PROVE TypeOK'
  <2>1. IsStewardRequest(c) /\ conns[c] \in StewardRequests
    BY <1>6, StewardRequestType DEF ServeSteward
  <2>2. \A text \in StewardAnswers : Answer(c, text) => conns' \in [Connections -> Requests]
    BY <2>1, StewardAnswerType
  <2>3. conns[c].doc \in StewardDocs /\ conns[c].seen \in Nat
    BY <2>1 DEF StewardRequests
  <2>4. \A k, scope : Warranted(k, scope) \subseteq [key : {k}, fact : FactIds]
    BY ConstantsAssumption DEF Warranted, FactRows, Headers
  <2>5. CASE Answer(c, "AUTHORITY_WRONG_SCOPE") /\ UNCHANGED tables
    BY <1>6, <2>2, <2>5 DEF ServeSteward, tables, StewardAnswers
  <2>6. CASE conns[c].doc.kind = "registry" /\ PublishNew(c)
    <3> DEFINE d == conns[c].doc
               lost == {<<k, Everywhere>> : k \in LostKeys(d)} \cup LostScopes(d)
    <3>1. /\ d.cursor \in Nat
          /\ \A i \in DOMAIN d.entries : d.entries[i] \in Keys
      BY <2>3, <2>6, ConstantsAssumption
    <3>2. conns' \in [Connections -> Requests]
      BY <2>2, <2>6 DEF PublishNew, StewardAnswers
    <3>3. cursor' \in Nat /\ publications' \subseteq [cursor : Nat, doc : RegistryDocs]
      BY <2>3, <2>6 DEF PublishNew, RegistryDocs
    <3>4. registry' \in [Identities -> RegistryEntries]
      <4>1. \A i \in OmittedEntries(d) : registry[i] \in HeldEntries
        BY ActiveEntryType DEF OmittedEntries
      <4>2. registry' = Republished(d)
        BY <2>6 DEF PublishNew
      <4>3. \A i \in OmittedEntries(d) : registry[i].key \in Keys
        BY <4>1 DEF HeldEntries
      <4>4. \A i \in Identities : Republished(d)[i] \in RegistryEntries
        BY <3>1, <4>3 DEF Republished, RegistryEntries, HeldEntries
      <4> QED BY <4>2, <4>4 DEF Republished
    <3>5. \A l \in lost : l[1] \in Keys /\ l[2] \in Scopes \cup {Everywhere}
      <4>1. \A i \in Identities : Active(i) => registry[i].key \in Keys
        BY ActiveEntryType DEF HeldEntries
      <4>2. \A k \in LostKeys(d) : k \in Keys
        BY <4>1 DEF LostKeys
      <4>3. \A i \in Identities : ScopeOf[i] \in Scopes
        BY ConstantsAssumption
      <4>4. \A l \in LostScopes(d) : l[1] \in Keys /\ l[2] \in Scopes
        BY <4>1, <4>3 DEF LostScopes
      <4> QED BY <4>2, <4>4
    <3>6. revocations' \subseteq RevocationRows
      BY <2>3, <2>6, <3>1, <3>5 DEF PublishNew, Revocation, RevocationRows
    <3>7. apologies' \subseteq [key : Keys, fact : FactIds]
      BY <2>4, <2>6, <3>5 DEF PublishNew
    <3>8. revocationCursor' \in Nat
      BY <2>6, <3>3 DEF PublishNew
    <3> QED BY <1>6, <2>6, <3>2, <3>3, <3>4, <3>6, <3>7, <3>8 DEF ServeSteward, PublishNew
  <2>7. CASE conns[c].doc.kind = "registry" /\ PublishOld(c)
    <3>1. conns' \in [Connections -> Requests]
      BY <2>2, <2>7 DEF PublishOld, StewardAnswers
    <3> QED BY <1>6, <2>7, <3>1 DEF ServeSteward, PublishOld, tables
  <2>8. CASE Revoke(c)
    <3>1. conns' \in [Connections -> Requests]
      BY <2>2, <2>8 DEF Revoke, StewardAnswers
    <3>2. conns[c].doc.key \in Keys
      BY <2>3, <2>8, ConstantsAssumption DEF Revoke
    <3>3. revocations' \subseteq RevocationRows /\ cursor' \in Nat /\ revocationCursor' \in Nat
      BY <2>3, <2>8, <3>2 DEF Revoke, Revocation, RevocationRows
    <3>4. apologies' \subseteq [key : Keys, fact : FactIds]
      BY <2>4, <2>8, <3>2 DEF Revoke
    <3> QED BY <1>6, <2>8, <3>1, <3>3, <3>4 DEF ServeSteward, Revoke
  <2>9. CASE Rotate(c)
    <3>1. conns' \in [Connections -> Requests]
      BY <2>2, <2>9 DEF Rotate, StewardAnswers
    <3>2. rotations' \subseteq StewardRows /\ cursor' \in Nat
      BY <2>3, <2>9 DEF Rotate, StewardRows
    <3> QED BY <1>6, <2>9, <3>1, <3>2 DEF ServeSteward, Rotate
  <2> QED BY <1>6, <2>5, <2>6, <2>7, <2>8, <2>9 DEF ServeSteward
<1>7. ASSUME NEW c \in Connections, Release(c) PROVE TypeOK'
  BY <1>7 DEF Release, tables, Requests
<1>8. CASE UNCHANGED vars
  BY <1>8 DEF vars, tables
<1> QED BY <1>1, <1>2, <1>3, <1>4, <1>5, <1>6, <1>7, <1>8 DEF Next

\* Whatever requests race, every table of the service keeps its shape.
THEOREM TypeCorrect == Spec => []TypeOK
<1>1. Init => TypeOK
  BY TypeInit
<1>2. TypeOK /\ [Next]_vars => TypeOK'
  BY TypeNext
<1> QED BY <1>1, <1>2, PTL DEF Spec

-----------------------------------------------------------------------------
(* The log, the nonces table and the steward queue agree *)

CursorIsNewest == \A f \in facts : f.cursor <= cursor

AdmissionInv ==
  /\ TypeOK /\ CursorIsNewest
  /\ AdmittedOnce /\ ReceiptsAreBacked /\ QueueIsSettled /\ PendingIsQueuedOrLogged

\* Steps that append no fact, store no receipt and queue nothing change none of
\* the four; pruning takes rows away.
LEMMA AdmissionFrame ==
  ASSUME AdmissionInv, TypeOK', facts' = facts, queue' = queue, cursor' \in Nat, cursor' >= cursor,
         DOMAIN nonces' \subseteq DOMAIN nonces, \A n \in DOMAIN nonces' : nonces'[n] = nonces[n]
  PROVE  AdmissionInv'
<1>1. CursorIsNewest'
  BY DEF AdmissionInv, CursorIsNewest, TypeOK, FactRows
<1>2. AdmittedOnce' /\ QueueIsSettled'
  BY DEF AdmissionInv, AdmittedOnce, QueueIsSettled
<1>3. ReceiptsAreBacked'
  BY DEF AdmissionInv, ReceiptsAreBacked
<1>4. PendingIsQueuedOrLogged'
  BY DEF AdmissionInv, PendingIsQueuedOrLogged, Awaiting, IdLogged
<1> QED BY <1>1, <1>2, <1>3, <1>4 DEF AdmissionInv

\* What StoreReceipt leaves in the table.
LEMMA StoredReceipts ==
  ASSUME NEW c, NEW status, NEW row, StoreReceipt(c, status, row)
  PROVE  /\ DOMAIN nonces' = DOMAIN nonces \cup {conns[c].nonce}
         /\ \A n \in DOMAIN nonces : n # conns[c].nonce => nonces'[n] = nonces[n]
         /\ nonces'[conns[c].nonce].doc = conns[c].doc
         /\ nonces'[conns[c].nonce].client = conns[c].client
         /\ nonces'[conns[c].nonce].status = status
         /\ nonces'[conns[c].nonce].row = row
BY DEF StoreReceipt

\* The transaction of a fact keeps the tables in agreement.
LEMMA CommitKeepsAdmission ==
  ASSUME AdmissionInv, TypeOK', NEW c \in Connections, CommitFact(c)
  PROVE  AdmissionInv'
<1> DEFINE n == conns[c].nonce
           e == conns[c].doc
<1>1. /\ IsFact(c) /\ conns[c] \in FactRequests
      /\ e \in Events
  BY FactRequestType DEF CommitFact, AdmissionInv, FactRequests
<1>2. cursor \in Nat /\ facts \subseteq FactRows /\ \A f \in facts : f.cursor \in Nat
  BY DEF AdmissionInv, TypeOK, FactRows
<1>3. CASE ReplayNonce(c)
  BY <1>2, <1>3, AdmissionFrame DEF ReplayNonce, tables
<1>4. CASE AdmitExisting(c)
  <2>1. CASE Logged(e)
    <3>1. StoreReceipt(c, "committed", RowOf(e).cursor)
      BY <1>4, <2>1 DEF AdmitExisting
    <3>2. RowOf(e) \in facts /\ RowOf(e).event = e
      BY <2>1 DEF Logged, RowOf
    <3>3. facts' = facts /\ queue' = queue /\ cursor' = cursor
      BY <1>4 DEF AdmitExisting
    <3>4. CursorIsNewest' /\ AdmittedOnce' /\ QueueIsSettled'
      BY <3>3 DEF AdmissionInv, CursorIsNewest, AdmittedOnce, QueueIsSettled
    <3>5. /\ DOMAIN nonces' = DOMAIN nonces \cup {n}
          /\ \A m \in DOMAIN nonces : m # n => nonces'[m] = nonces[m]
          /\ nonces'[n].doc = e /\ nonces'[n].status = "committed"
          /\ nonces'[n].row = RowOf(e).cursor
      BY <3>1, StoredReceipts, SMTT(40)
    <3>6. ReceiptsAreBacked'
      BY <3>2, <3>3, <3>5 DEF AdmissionInv, ReceiptsAreBacked
    <3>7. PendingIsQueuedOrLogged'
      BY <3>3, <3>5 DEF AdmissionInv, PendingIsQueuedOrLogged, Awaiting, IdLogged
    <3> QED BY <3>4, <3>6, <3>7 DEF AdmissionInv
  <2>2. CASE ~Logged(e)
    BY <1>2, <1>4, <2>2, AdmissionFrame DEF AdmitExisting
  <2> QED BY <2>1, <2>2
<1>5. CASE AdmitCommitted(c)
  <2> DEFINE row == [cursor |-> cursor + 1, event |-> e, client |-> conns[c].client,
                     nonce |-> n, seen |-> conns[c].seen]
  <2>1. /\ facts' = facts \cup {row} /\ cursor' = cursor + 1
        /\ queue' = Resolved(Header[e].id)
        /\ StoreReceipt(c, "committed", cursor + 1)
        /\ ~IdLogged(e)
    BY <1>5 DEF AdmitCommitted
  <2>8. /\ DOMAIN nonces' = DOMAIN nonces \cup {n}
        /\ \A m \in DOMAIN nonces : m # n => nonces'[m] = nonces[m]
        /\ nonces'[n].doc = e /\ nonces'[n].status = "committed"
        /\ nonces'[n].row = cursor + 1
    BY <2>1, StoredReceipts, ZenonT(60)
  <2>2. CursorIsNewest'
    BY <1>2, <2>1 DEF AdmissionInv, CursorIsNewest
  <2>3. AdmittedOnce'
    BY <1>2, <2>1 DEF AdmissionInv, AdmittedOnce, CursorIsNewest, IdLogged
  <2>4. ReceiptsAreBacked'
    <3>1. \A m \in DOMAIN nonces : nonces[m].status = "committed" =>
            \E f \in facts' : f.event = nonces[m].doc /\ f.cursor = nonces[m].row
      BY <2>1 DEF AdmissionInv, ReceiptsAreBacked
    <3>2. row \in facts' /\ row.event = e /\ row.cursor = cursor + 1
      BY <2>1
    <3> QED BY <2>8, <3>1, <3>2 DEF ReceiptsAreBacked
  <2>5. DOMAIN queue' = DOMAIN queue
    BY <2>1 DEF Resolved
  <2>6. QueueIsSettled'
    <3> SUFFICES ASSUME NEW q \in DOMAIN queue', queue'[q].status = "pending-steward-review",
                        NEW f \in facts'
                 PROVE  Header[f.event].id # q
      BY DEF QueueIsSettled
    <3>1. q # Header[e].id /\ queue'[q] = queue[q]
      BY <2>1, <2>5 DEF Resolved, AdmissionInv, TypeOK, QueueRows
    <3> QED BY <2>1, <2>5, <3>1 DEF AdmissionInv, QueueIsSettled
  <2>7. PendingIsQueuedOrLogged'
    BY <2>1, <2>5, <2>8 DEF AdmissionInv, PendingIsQueuedOrLogged, Awaiting, IdLogged
  <2> QED BY <2>2, <2>3, <2>4, <2>6, <2>7 DEF AdmissionInv
<1>6. CASE AdmitPending(c)
  <2> DEFINE id == Header[e].id
  <2>1. /\ facts' = facts /\ cursor' = cursor
        /\ StoreReceipt(c, "pending-steward-review", 0)
        /\ ~IdLogged(e)
    BY <1>6 DEF AdmitPending
  <2>7. /\ DOMAIN nonces' = DOMAIN nonces \cup {n}
        /\ \A m \in DOMAIN nonces : m # n => nonces'[m] = nonces[m]
        /\ nonces'[n].doc = e /\ nonces'[n].status = "pending-steward-review"
    BY <2>1, StoredReceipts
  <2>2. DOMAIN queue' = DOMAIN queue \cup {id} /\ \A q \in DOMAIN queue : queue'[q] = queue[q]
    BY <1>6 DEF AdmitPending
  <2>3. CursorIsNewest' /\ AdmittedOnce'
    BY <2>1 DEF AdmissionInv, CursorIsNewest, AdmittedOnce
  <2>4. ReceiptsAreBacked'
    BY <2>1, <2>7 DEF AdmissionInv, ReceiptsAreBacked
  <2>5. QueueIsSettled'
    BY <2>1, <2>2 DEF AdmissionInv, QueueIsSettled, IdLogged
  <2>6. PendingIsQueuedOrLogged'
    BY <2>1, <2>2, <2>7 DEF AdmissionInv, PendingIsQueuedOrLogged, Awaiting, IdLogged
  <2> QED BY <2>3, <2>4, <2>5, <2>6 DEF AdmissionInv
<1> QED BY <1>3, <1>4, <1>5, <1>6 DEF CommitFact

\* The four agreements hold at the start and every action keeps them.
LEMMA AdmissionInvNext == AdmissionInv /\ [Next]_vars => AdmissionInv'
<1> SUFFICES ASSUME AdmissionInv, [Next]_vars PROVE AdmissionInv'
  OBVIOUS
<1>1. TypeOK' /\ cursor \in Nat
  BY TypeNext DEF AdmissionInv, TypeOK
<1>2. CASE Tick \/ UNCHANGED vars
  BY <1>1, <1>2, AdmissionFrame DEF Tick, vars, tables
<1>3. ASSUME NEW c \in Connections, ArriveFact(c) \/ ArriveSteward(c) PROVE AdmissionInv'
  <2>1. DOMAIN nonces' \subseteq DOMAIN nonces /\ \A n \in DOMAIN nonces' : nonces'[n] = nonces[n]
    BY <1>3 DEF ArriveFact, ArriveSteward, PruneNonces
  <2> QED BY <1>1, <1>3, <2>1, AdmissionFrame DEF ArriveFact, ArriveSteward
<1>4. ASSUME NEW c \in Connections, CheckFact(c) \/ Release(c) PROVE AdmissionInv'
  BY <1>1, <1>4, AdmissionFrame DEF CheckFact, Release, tables
<1>5. ASSUME NEW c \in Connections, CommitFact(c) PROVE AdmissionInv'
  BY <1>1, <1>5, CommitKeepsAdmission
<1>6. ASSUME NEW c \in Connections, ServeSteward(c) PROVE AdmissionInv'
  <2>1. facts' = facts /\ queue' = queue /\ nonces' = nonces /\ cursor' \in Nat /\ cursor' >= cursor
    BY <1>1, <1>6 DEF ServeSteward, PublishNew, PublishOld, Revoke, Rotate, tables
  <2> QED BY <1>1, <2>1, AdmissionFrame
<1> QED BY <1>2, <1>3, <1>4, <1>5, <1>6 DEF Next

\* Concurrent submissions of one event, or of several under one event id, leave
\* one log row; every stored committed receipt names a row with its own bytes;
\* no logged event awaits review and no pending receipt is forgotten.
THEOREM AdmissionSafe ==
  Spec => [](AdmittedOnce /\ ReceiptsAreBacked /\ QueueIsSettled /\ PendingIsQueuedOrLogged)
<1>1. Init => AdmissionInv
  BY TypeInit DEF Init, AdmissionInv, CursorIsNewest, AdmittedOnce, ReceiptsAreBacked,
                  QueueIsSettled, PendingIsQueuedOrLogged
<1>2. AdmissionInv /\ [Next]_vars => AdmissionInv'
  BY AdmissionInvNext
<1>3. AdmissionInv => AdmittedOnce /\ ReceiptsAreBacked /\ QueueIsSettled /\ PendingIsQueuedOrLogged
  BY DEF AdmissionInv
<1> QED BY <1>1, <1>2, <1>3, PTL DEF Spec

\* The log has one row to an event id and one behind every committed receipt,
\* for any number of connections.
THEOREM LogSafe == Spec => []LogIsSound
BY AdmissionSafe, PTL DEF LogIsSound

\* The steward's queue holds all that still waits and nothing that was logged.
THEOREM QueueSafe == Spec => []NothingIsForgotten
BY AdmissionSafe, PTL DEF NothingIsForgotten

-----------------------------------------------------------------------------
(* The registry, its publications and the revocations *)

RowsAreOld ==
  /\ \A p \in publications : p.cursor <= cursor
  /\ \A r \in revocations : r.cursor <= cursor
  /\ \A f \in facts : f.cursor <= cursor

OnePerRow == \A p, q \in publications : p.cursor = q.cursor => p = q

SomeIsCurrent == publications # {} => \E p \in publications : IsCurrent(p)

RegistryInv ==
  /\ TypeOK /\ RowsAreOld /\ OnePerRow /\ SomeIsCurrent
  /\ RegistryMovesForward /\ RegistryIsCurrentDocument /\ CascadeIsComplete

\* Steps that publish, revoke and admit nothing keep it.
LEMMA RegistryFrame ==
  ASSUME RegistryInv, TypeOK', publications' = publications, revocations' = revocations,
         registry' = registry, apologies' = apologies, facts' = facts, cursor' = cursor
  PROVE  RegistryInv'
BY DEF RegistryInv, RowsAreOld, OnePerRow, SomeIsCurrent, IsCurrent, RegistryMovesForward,
       RegistryIsCurrentDocument, Active, CascadeIsComplete

\* A fact admitted now was not yet warranted at any revocation in the log.
LEMMA AdmissionKeepsRegistry ==
  ASSUME RegistryInv, TypeOK', NEW c \in Connections, AdmitCommitted(c)
  PROVE  RegistryInv'
<1> DEFINE row == [cursor |-> cursor + 1, event |-> conns[c].doc, client |-> conns[c].client,
                   nonce |-> conns[c].nonce, seen |-> conns[c].seen]
<1>1. /\ facts' = facts \cup {row} /\ row.cursor = cursor + 1 /\ cursor' = cursor + 1
      /\ publications' = publications /\ revocations' = revocations /\ registry' = registry
      /\ apologies' = apologies
  BY DEF AdmitCommitted
<1>2. /\ cursor \in Nat
      /\ \A p \in publications : p.cursor \in Nat /\ p.cursor <= cursor
      /\ \A r \in revocations : r.cursor \in Nat /\ r.cursor <= cursor
      /\ \A f \in facts : f.cursor \in Nat /\ f.cursor <= cursor
  BY DEF RegistryInv, RowsAreOld, TypeOK, FactRows, RevocationRows
<1>3. RowsAreOld'
  BY <1>1, <1>2 DEF RowsAreOld
<1>4. OnePerRow' /\ SomeIsCurrent' /\ RegistryMovesForward' /\ RegistryIsCurrentDocument'
  BY <1>1 DEF RegistryInv, OnePerRow, SomeIsCurrent, IsCurrent, RegistryMovesForward,
              RegistryIsCurrentDocument, Active
<1>5. CascadeIsComplete'
  <2> SUFFICES ASSUME NEW r \in revocations, NEW f \in facts',
                      Header[f.event].signer = r.key, f.cursor < r.cursor,
                      r.scope \in {Everywhere, Header[f.event].scope}
               PROVE  [key |-> r.key, fact |-> Header[f.event].fact] \in apologies
    BY <1>1 DEF CascadeIsComplete
  <2>1. f \in facts
    BY <1>1, <1>2
  <2> QED BY <2>1 DEF RegistryInv, CascadeIsComplete
<1> QED BY <1>3, <1>4, <1>5 DEF RegistryInv

\* What the cascade of the dropped keys and scopes covers, at the new row.
LEMMA WarrantedCovers ==
  ASSUME NEW k, NEW scope, NEW f \in facts, Header[f.event].signer = k,
         scope \in {Everywhere, Header[f.event].scope}
  PROVE  [key |-> k, fact |-> Header[f.event].fact] \in Warranted(k, scope)
BY DEF Warranted

\* A publication becomes the newest row and the table is rewritten from it.
LEMMA PublicationKeepsRegistry ==
  ASSUME RegistryInv, TypeOK', NEW c \in Connections, conns[c].doc \in RegistryDocs, PublishNew(c)
  PROVE  RegistryInv'
<1> DEFINE d == conns[c].doc
           lost == {<<k, Everywhere>> : k \in LostKeys(d)} \cup LostScopes(d)
           row == [cursor |-> cursor + 1, doc |-> d]
<1>1. /\ facts' = facts /\ cursor' = cursor + 1
      /\ publications' = publications \cup {row}
      /\ registry' = Republished(d)
      /\ revocations' = revocations \cup {Revocation(l[1], l[2], d.cursor, d) : l \in lost}
      /\ apologies' = apologies \cup UNION {Warranted(l[1], l[2]) : l \in lost}
      /\ Advances(d)
  BY DEF PublishNew
<1>2. /\ cursor \in Nat
      /\ \A p \in publications : p.cursor \in Nat /\ p.cursor <= cursor
      /\ \A r \in revocations : r.cursor \in Nat /\ r.cursor <= cursor
      /\ \A f \in facts : f.cursor \in Nat /\ f.cursor <= cursor
  BY DEF RegistryInv, RowsAreOld, TypeOK, FactRows, RevocationRows
<1>3. \A r \in revocations' \ revocations : r.cursor = cursor + 1
  BY <1>1 DEF Revocation
<1>4. RowsAreOld'
  BY <1>1, <1>2, <1>3 DEF RowsAreOld
<1>5. OnePerRow' /\ SomeIsCurrent'
  <2>1. OnePerRow'
    BY <1>1, <1>2 DEF RegistryInv, OnePerRow
  <2>2. row \in publications' /\ \A q \in publications' : q.cursor <= row.cursor
    BY <1>1, <1>2
  <2> QED BY <2>1, <2>2 DEF SomeIsCurrent, IsCurrent
<1>6. RegistryMovesForward'
  <2>1. \A p \in publications : p.doc.cursor < d.cursor
    <3> SUFFICES ASSUME NEW p \in publications PROVE p.doc.cursor < d.cursor
      OBVIOUS
    <3>1. PICK top \in publications : IsCurrent(top)
      BY DEF RegistryInv, SomeIsCurrent
    <3>2. top.doc.cursor < d.cursor
      BY <1>1, <3>1 DEF Advances
    <3>3. CASE p.cursor = top.cursor
      BY <3>2, <3>3 DEF RegistryInv, OnePerRow
    <3>4. CASE p.cursor < top.cursor
      <4>1. p.doc.cursor < top.doc.cursor
        BY <3>4 DEF RegistryInv, RegistryMovesForward
      <4>2. p.doc.cursor \in Nat /\ top.doc.cursor \in Nat /\ d.cursor \in Nat
        BY ConstantsAssumption DEF RegistryInv, TypeOK, RegistryDocs
      <4> QED BY <3>2, <4>1, <4>2
    <3> QED BY <1>2, <3>1, <3>3, <3>4 DEF IsCurrent
  <2> QED BY <1>1, <1>2, <2>1 DEF RegistryInv, RegistryMovesForward
<1>7. RegistryIsCurrentDocument'
  <2> SUFFICES ASSUME NEW p \in publications', IsCurrent(p)', NEW i \in Identities
               PROVE  IF i \in DOMAIN p.doc.entries
                      THEN Active(i)' /\ registry'[i].key = p.doc.entries[i]
                      ELSE ~Active(i)'
    BY DEF RegistryIsCurrentDocument
  <2>1. p = row
    <3>1. row \in publications' /\ row.cursor = cursor + 1
      BY <1>1
    <3>2. row.cursor <= p.cursor
      BY <3>1 DEF IsCurrent
    <3>3. CASE p \in publications
      BY <1>2, <3>1, <3>2, <3>3
    <3> QED BY <1>1, <3>3
  <2> QED BY <1>1, <2>1 DEF Republished, Active, OmittedEntries
<1>8. CascadeIsComplete'
  <2> SUFFICES ASSUME NEW r \in revocations', NEW f \in facts,
                      Header[f.event].signer = r.key, f.cursor < r.cursor,
                      r.scope \in {Everywhere, Header[f.event].scope}
               PROVE  [key |-> r.key, fact |-> Header[f.event].fact] \in apologies'
    BY <1>1 DEF CascadeIsComplete
  <2>1. CASE r \in revocations
    BY <1>1, <2>1 DEF RegistryInv, CascadeIsComplete
  <2>2. CASE r \notin revocations
    <3>1. PICK l \in lost : r = Revocation(l[1], l[2], d.cursor, d)
      BY <1>1, <2>2
    <3>2. [key |-> r.key, fact |-> Header[f.event].fact] \in Warranted(l[1], l[2])
      BY <3>1, WarrantedCovers DEF Revocation
    <3> QED BY <1>1, <3>1, <3>2
  <2> QED BY <2>1, <2>2
<1> QED BY <1>4, <1>5, <1>6, <1>7, <1>8 DEF RegistryInv

\* An explicit revocation takes a new row, and its cascade covers every fact.
LEMMA RevocationKeepsRegistry ==
  ASSUME RegistryInv, TypeOK', NEW c \in Connections, Revoke(c)
  PROVE  RegistryInv'
<1> DEFINE d == conns[c].doc
<1>1. /\ cursor \in Nat
      /\ \A p \in publications : p.cursor \in Nat /\ p.cursor <= cursor
      /\ \A r \in revocations : r.cursor \in Nat /\ r.cursor <= cursor
      /\ \A f \in facts : f.cursor \in Nat /\ f.cursor <= cursor
  BY DEF RegistryInv, RowsAreOld, TypeOK, FactRows, RevocationRows
<1>2. /\ facts' = facts /\ publications' = publications /\ registry' = registry
      /\ apologies' = apologies \cup Warranted(d.key, Everywhere)
      /\ cursor' \in {cursor, cursor + 1}
      /\ \/ revocations' = revocations
         \/ /\ revocations' = revocations \cup {Revocation(d.key, Everywhere, cursor + 1, d)}
            /\ cursor' = cursor + 1
  BY DEF Revoke
<1>3. RowsAreOld'
  BY <1>1, <1>2 DEF RowsAreOld, Revocation
<1>4. OnePerRow' /\ SomeIsCurrent' /\ RegistryMovesForward' /\ RegistryIsCurrentDocument'
  BY <1>2 DEF RegistryInv, OnePerRow, SomeIsCurrent, IsCurrent, RegistryMovesForward,
              RegistryIsCurrentDocument, Active
<1>5. CascadeIsComplete'
  <2> SUFFICES ASSUME NEW r \in revocations', NEW f \in facts,
                      Header[f.event].signer = r.key, f.cursor < r.cursor,
                      r.scope \in {Everywhere, Header[f.event].scope}
               PROVE  [key |-> r.key, fact |-> Header[f.event].fact] \in apologies'
    BY <1>2 DEF CascadeIsComplete
  <2>1. CASE r \in revocations
    BY <1>2, <2>1 DEF RegistryInv, CascadeIsComplete
  <2>2. CASE r \notin revocations
    <3>1. r.key = d.key
      BY <1>2, <2>2 DEF Revocation
    <3>2. [key |-> r.key, fact |-> Header[f.event].fact] \in Warranted(d.key, Everywhere)
      BY <3>1, WarrantedCovers
    <3> QED BY <1>2, <3>2
  <2> QED BY <2>1, <2>2
<1> QED BY <1>3, <1>4, <1>5 DEF RegistryInv

\* Every action keeps the registry invariant.
LEMMA RegistryInvNext == RegistryInv /\ [Next]_vars => RegistryInv'
<1> SUFFICES ASSUME RegistryInv, [Next]_vars PROVE RegistryInv'
  OBVIOUS
<1>1. TypeOK'
  BY TypeNext DEF RegistryInv
<1>2. CASE Tick \/ UNCHANGED vars
  BY <1>1, <1>2, RegistryFrame DEF Tick, vars, tables
<1>3. ASSUME NEW c \in Connections,
             ArriveFact(c) \/ ArriveSteward(c) \/ CheckFact(c) \/ Release(c)
      PROVE  RegistryInv'
  BY <1>1, <1>3, RegistryFrame DEF ArriveFact, ArriveSteward, CheckFact, Release, tables
<1>4. ASSUME NEW c \in Connections, CommitFact(c) PROVE RegistryInv'
  <2>1. CASE AdmitCommitted(c)
    BY <1>1, <2>1, AdmissionKeepsRegistry
  <2>2. CASE ReplayNonce(c) \/ AdmitExisting(c) \/ AdmitPending(c)
    BY <1>1, <2>2, RegistryFrame DEF ReplayNonce, AdmitExisting, AdmitPending, tables
  <2> QED BY <1>4, <2>1, <2>2 DEF CommitFact
<1>5. ASSUME NEW c \in Connections, ServeSteward(c) PROVE RegistryInv'
  <2>1. CASE conns[c].doc.kind = "registry" /\ PublishNew(c)
    <3>1. conns[c].doc \in RegistryDocs
      BY <1>5, <2>1 DEF ServeSteward, IsStewardRequest, RegistryDocs
    <3> QED BY <1>1, <2>1, <3>1, PublicationKeepsRegistry
  <2>2. CASE Revoke(c)
    BY <1>1, <2>2, RevocationKeepsRegistry
  <2>3. CASE Rotate(c)
    <3>1. /\ facts' = facts /\ publications' = publications /\ revocations' = revocations
          /\ registry' = registry /\ apologies' = apologies
          /\ cursor \in Nat /\ cursor' \in Nat /\ cursor <= cursor'
      BY <1>1, <2>3 DEF Rotate, RegistryInv, TypeOK
    <3>2. RowsAreOld'
      BY <3>1 DEF RegistryInv, RowsAreOld, TypeOK, FactRows, RevocationRows
    <3> QED BY <1>1, <3>1, <3>2
            DEF RegistryInv, OnePerRow, SomeIsCurrent, IsCurrent, RegistryMovesForward,
                RegistryIsCurrentDocument, Active, CascadeIsComplete
  <2>4. CASE UNCHANGED tables \/ (conns[c].doc.kind = "registry" /\ PublishOld(c))
    BY <1>1, <2>4, RegistryFrame DEF PublishOld, tables
  <2> QED BY <1>5, <2>1, <2>2, <2>3, <2>4 DEF ServeSteward
<1> QED BY <1>2, <1>3, <1>4, <1>5 DEF Next

\* Registry documents take effect in the order of their authority cursors,
\* whichever are raced or replayed; the active entries are those of the newest;
\* and every fact a key had warranted by its revocation has its apology.
THEOREM RegistrySafe ==
  Spec => [](RegistryMovesForward /\ RegistryIsCurrentDocument /\ CascadeIsComplete)
<1>1. Init => RegistryInv
  BY TypeInit DEF Init, RegistryInv, RowsAreOld, OnePerRow, SomeIsCurrent, RegistryMovesForward,
                  RegistryIsCurrentDocument, CascadeIsComplete
<1>2. RegistryInv /\ [Next]_vars => RegistryInv'
  BY RegistryInvNext
<1>3. RegistryInv => RegistryMovesForward /\ RegistryIsCurrentDocument /\ CascadeIsComplete
  BY DEF RegistryInv
<1> QED BY <1>1, <1>2, <1>3, PTL DEF Spec

-----------------------------------------------------------------------------
(* Consumed nonces *)

BindingKept ==
  \A n \in DOMAIN nonces \cap DOMAIN nonces' :
     /\ nonces'[n].doc = nonces[n].doc /\ nonces'[n].client = nonces[n].client
     /\ nonces[n].status = "committed" => nonces'[n].status = "committed"

\* A receipt is stored under a live nonce only for the pending retry of the very
\* bytes and client it is bound to.
LEMMA StoringKeepsBinding ==
  ASSUME NEW c, Proceeds(c), NEW status, NEW row, StoreReceipt(c, status, row)
  PROVE  BindingKept
<1> SUFFICES ASSUME NEW n \in DOMAIN nonces
             PROVE  /\ nonces'[n].doc = nonces[n].doc /\ nonces'[n].client = nonces[n].client
                    /\ nonces[n].status = "committed" => nonces'[n].status = "committed"
  BY DEF BindingKept
<1>1. CASE n = conns[c].nonce
  <2>1. AdmitNow(c)
    BY <1>1 DEF Proceeds
  <2>2. /\ nonces[n].doc = conns[c].doc /\ nonces[n].client = conns[c].client
        /\ nonces[n].status = "pending-steward-review"
    BY <1>1, <2>1 DEF AdmitNow, SameBinding, Awaiting
  <2>3. nonces'[n].doc = conns[c].doc /\ nonces'[n].client = conns[c].client
    BY <1>1, StoredReceipts
  <2> QED BY <2>2, <2>3
<1>2. CASE n # conns[c].nonce
  <2>1. nonces'[n] = nonces[n]
    BY <1>2, StoredReceipts
  <2> QED BY <2>1
<1> QED BY <1>1, <1>2

\* While its row lives a consumed nonce is never bound to other bytes or to
\* another client, and its committed receipt is never taken back.
THEOREM NonceBindingKept == Spec => NonceKeepsItsBinding
<1>1. [Next]_vars => [BindingKept]_vars
  <2> SUFFICES ASSUME Next PROVE BindingKept
    OBVIOUS
  <2>1. CASE nonces' = nonces
    BY <2>1 DEF BindingKept
  <2>2. ASSUME NEW c \in Connections, ArriveFact(c) \/ ArriveSteward(c) PROVE BindingKept
    BY <2>2 DEF ArriveFact, ArriveSteward, PruneNonces, BindingKept
  <2>3. ASSUME NEW c \in Connections, CommitFact(c) PROVE BindingKept
    <3>1. CASE \E status, row : Proceeds(c) /\ StoreReceipt(c, status, row)
      BY <3>1, StoringKeepsBinding
    <3>2. CASE nonces' = nonces
      BY <3>2 DEF BindingKept
    <3> QED BY <2>3, <3>1, <3>2
            DEF CommitFact, ReplayNonce, AdmitExisting, AdmitCommitted, AdmitPending, tables
  <2>4. ASSUME NEW c \in Connections, CheckFact(c) \/ ServeSteward(c) \/ Release(c)
        PROVE  nonces' = nonces
    BY <2>4 DEF CheckFact, ServeSteward, Release, PublishNew, PublishOld, Revoke, Rotate, tables
  <2>5. CASE Tick
    BY <2>1, <2>5 DEF Tick, tables
  <2> QED BY <2>1, <2>2, <2>3, <2>4, <2>5 DEF Next
<1>2. Spec => [][BindingKept]_vars
  BY <1>1, PTL DEF Spec
<1> QED BY <1>2 DEF NonceKeepsItsBinding, BindingKept

----------------------------------------------------------------------------
(***************************************************************************)
(* Who may sign, for any number of connections, keys and documents: that   *)
(* the trust state follows the newest registry document and the            *)
(* revocations after it, and that no fact is admitted for a request that   *)
(* arrived after its signer was revoked.                                   *)
(*                                                                         *)
(* The argument: the active rows of the registry carry the row cursor of   *)
(* the newest publication, and a publication revokes, at its own row, the  *)
(* keys it drops and none that it lists.  So a revocation counts exactly   *)
(* when no later document lists its key, whichever of the two cursor       *)
(* spaces it is numbered in.  A request keeps the verdict of the moment it *)
(* arrived; rows appended later do not change what was revoked then.       *)
(***************************************************************************)

\* Active rows of the registry were written by the newest publication.
ActiveIsCurrent ==
  \A i \in Identities : Active(i) =>
     \E p \in publications : IsCurrent(p) /\ registry[i].cursor = p.cursor

\* A publication revokes no key that it lists.
ListedIsKept ==
  \A r \in revocations, p \in publications :
     r.scope = Everywhere /\ r.cursor = p.cursor => ~ListsKey(p, r.key)

\* A revocation is numbered by its own row, unless a publication made it.
OrderIsRow ==
  \A r \in revocations : r.order = r.cursor \/ \E p \in publications : p.cursor = r.cursor

\* A key that was listed once and is not any more was revoked.
DroppedIsRevoked ==
  \A p, q \in publications, k \in Keys :
     IsCurrent(p) /\ ~ListsKey(p, k) /\ ListsKey(q, k) =>
        \E r \in revocations : r.key = k /\ r.scope = Everywhere

TablesInv == RegistryInv /\ ActiveIsCurrent /\ ListedIsKept /\ OrderIsRow /\ DroppedIsRevoked

\* A request's trust state says who was revoked at the row it was loaded with,
\* and only requests of signers who were not go on to be committed.
RequestsKnow ==
  \A c \in Connections :
     IsFact(c) /\ conns[c].pc \in {"loaded", "checked"} =>
        /\ conns[c].seen <= cursor
        /\ ~conns[c].trust.revoked => ~RevokedAt(Header[conns[c].doc].signer, conns[c].seen)
        /\ conns[c].pc = "checked" /\ conns[c].admission = "committed" =>
              ~conns[c].trust.revoked

SeenIsOld == \A f \in facts : f.seen <= cursor

TrustInv == TablesInv /\ RequestsKnow /\ SeenIsOld /\ ArrivedBeforeRevocation

-----------------------------------------------------------------------------
(* Steps that leave the tables alone, and steps that only append to them *)

\* What TablesInv reads.
Tables == <<publications, revocations, registry>>

\* A step that changes neither the tables nor the cursor changes nothing of it.
LEMMA TablesFrame ==
  ASSUME TablesInv, RegistryInv', UNCHANGED Tables
  PROVE  TablesInv'
BY DEF TablesInv, Tables, ActiveIsCurrent, ListedIsKept, OrderIsRow, DroppedIsRevoked, IsCurrent,
       Active, ListsKey

\* Cursors are numbers, and no row is newer than the cursor.
LEMMA RowsAreNumbers ==
  ASSUME RegistryInv
  PROVE  /\ cursor \in Nat
         /\ \A p \in publications : p.cursor \in Nat /\ p.cursor <= cursor
         /\ \A r \in revocations : r.cursor \in Nat /\ r.order \in Nat /\ r.cursor <= cursor
BY DEF RegistryInv, RowsAreOld, TypeOK, RevocationRows

\* Rows appended later do not change what was revoked at an earlier row.
LEMMA PastIsSettled ==
  ASSUME NEW k, NEW row \in Nat, row <= cursor, cursor \in Nat, ~RevokedAt(k, row),
         \A r \in revocations' : r \in revocations \/ (r.cursor \in Nat /\ r.cursor > cursor),
         publications \subseteq publications'
  PROVE  ~RevokedAt(k, row)'
<1> SUFFICES ASSUME RevokedAt(k, row)' PROVE FALSE
  OBVIOUS
<1>1. PICK r \in revocations' :
         /\ r.key = k /\ r.scope = Everywhere /\ r.cursor <= row
         /\ \A p \in publications' : ListsKey(p, k) => ~(r.cursor < p.cursor /\ p.cursor <= row)
  BY DEF RevokedAt, ListsKey
<1>2. r \in revocations
  BY <1>1
<1> QED BY <1>1, <1>2 DEF RevokedAt

-----------------------------------------------------------------------------
(* The tables *)

\* A publication revokes what it drops, and nothing it lists.
LEMMA PublicationKeepsTables ==
  ASSUME TablesInv, RegistryInv', NEW c \in Connections, conns[c].doc \in RegistryDocs,
         PublishNew(c)
  PROVE  TablesInv'
<1> DEFINE d == conns[c].doc
           lost == {<<k, Everywhere>> : k \in LostKeys(d)} \cup LostScopes(d)
           row == [cursor |-> cursor + 1, doc |-> d]
<1>1. /\ publications' = publications \cup {row}
      /\ registry' = Republished(d)
      /\ revocations' = revocations \cup {Revocation(l[1], l[2], d.cursor, d) : l \in lost}
  BY DEF PublishNew
<1>2. /\ cursor \in Nat
      /\ \A p \in publications : p.cursor \in Nat /\ p.cursor <= cursor
      /\ \A r \in revocations : r.cursor \in Nat /\ r.cursor <= cursor
  BY RowsAreNumbers DEF TablesInv
<1>3. row.cursor = cursor + 1 /\ row.doc = d /\ row \in publications'
  BY <1>1
<1>4. \A p \in publications' : p.cursor <= row.cursor
  BY <1>1, <1>2, <1>3
<1>5. \A p \in publications' : IsCurrent(p)' => p = row
  <2> SUFFICES ASSUME NEW p \in publications', IsCurrent(p)' PROVE p = row
    OBVIOUS
  <2>1. row.cursor <= p.cursor
    BY <1>3 DEF IsCurrent
  <2> QED BY <1>1, <1>2, <1>3, <2>1
<1>6. PICK new \in publications' : new.cursor = row.cursor /\ IsCurrent(new)'
  BY <1>3, <1>4 DEF IsCurrent
<1>7. \A r \in revocations' \ revocations :
         /\ r.cursor = cursor + 1
         /\ r.scope = Everywhere => r.key \in LostKeys(d)
  <2> SUFFICES ASSUME NEW r \in revocations' \ revocations
               PROVE  /\ r.cursor = cursor + 1
                      /\ r.scope = Everywhere => r.key \in LostKeys(d)
    OBVIOUS
  <2>1. PICK l \in lost : r = Revocation(l[1], l[2], d.cursor, d)
    BY <1>1
  <2>2. r.cursor = cursor + 1 /\ r.key = l[1] /\ r.scope = l[2]
    BY <2>1 DEF Revocation
  <2>3. CASE l \in LostScopes(d)
    <3>1. \A i \in Identities : ScopeOf[i] # Everywhere
      BY ConstantsAssumption DEF Everywhere
    <3>2. l[2] # Everywhere
      BY <2>3, <3>1 DEF LostScopes
    <3> QED BY <2>2, <3>2
  <2>4. CASE l \notin LostScopes(d)
    BY <2>1, <2>2, <2>4
  <2> QED BY <2>3, <2>4
<1>8. ActiveIsCurrent'
  <2> SUFFICES ASSUME NEW i \in Identities, Active(i)'
               PROVE  registry'[i].cursor = row.cursor
    BY <1>6 DEF ActiveIsCurrent
  <2> QED BY <1>1, <1>3 DEF Republished, Active, OmittedEntries
<1>9. ListedIsKept'
  <2> SUFFICES ASSUME NEW r \in revocations', NEW p \in publications',
                      r.scope = Everywhere, r.cursor = p.cursor
               PROVE  ~ListsKey(p, r.key)
    BY DEF ListedIsKept, ListsKey
  <2>1. CASE p \in publications
    <3>1. r \in revocations
      BY <1>2, <1>7, <2>1
    <3> QED BY <2>1, <3>1 DEF TablesInv, ListedIsKept
  <2>2. CASE p \notin publications
    <3>1. p = row
      BY <1>1, <2>2
    <3>2. r \notin revocations
      BY <1>2, <1>3, <3>1
    <3>3. r.key \notin ListedKeys(d)
      BY <1>7, <3>2 DEF LostKeys
    <3> QED BY <1>3, <3>1, <3>3 DEF ListsKey
  <2> QED BY <2>1, <2>2
<1>10. OrderIsRow'
  <2> SUFFICES ASSUME NEW r \in revocations', r \notin revocations
               PROVE  \E p \in publications' : p.cursor = r.cursor
    BY <1>1 DEF TablesInv, OrderIsRow
  <2> QED BY <1>3, <1>7
<1>11. DroppedIsRevoked'
  <2> SUFFICES ASSUME NEW q \in publications', NEW k \in Keys,
                      ~ListsKey(row, k), ListsKey(q, k)
               PROVE  \E r \in revocations' : r.key = k /\ r.scope = Everywhere
    BY <1>5 DEF DroppedIsRevoked, ListsKey
  <2>1. q \in publications
    BY <1>1
  <2>2. PICK top \in publications : IsCurrent(top)
    BY <2>1 DEF TablesInv, RegistryInv, SomeIsCurrent
  <2>3. CASE ListsKey(top, k)
    <3>1. PICK i \in DOMAIN top.doc.entries : top.doc.entries[i] = k
      BY <2>3 DEF ListsKey, ListedKeys
    <3>2. i \in Identities
      BY <2>2, ConstantsAssumption DEF TablesInv, RegistryInv, TypeOK, RegistryDocs
    <3>3. Active(i) /\ registry[i].key = k
      BY <2>2, <3>1, <3>2 DEF TablesInv, RegistryInv, RegistryIsCurrentDocument
    <3>4. k \notin ListedKeys(d)
      BY <1>3 DEF ListsKey
    <3>5. <<k, Everywhere>> \in lost
      BY <3>2, <3>3, <3>4 DEF LostKeys
    <3>6. Revocation(k, Everywhere, d.cursor, d) \in revocations'
      BY <1>1, <3>5
    <3> QED BY <3>6 DEF Revocation
  <2>4. CASE ~ListsKey(top, k)
    BY <1>1, <2>1, <2>2, <2>4 DEF TablesInv, DroppedIsRevoked
  <2> QED BY <2>3, <2>4
<1> QED BY <1>8, <1>9, <1>10, <1>11 DEF TablesInv

\* An explicit revocation is numbered by the row it takes.
LEMMA RevocationKeepsTables ==
  ASSUME TablesInv, RegistryInv', NEW c \in Connections, Revoke(c)
  PROVE  TablesInv'
<1> DEFINE row == Revocation(conns[c].doc.key, Everywhere, cursor + 1, conns[c].doc)
<1>1. /\ publications' = publications /\ registry' = registry
      /\ revocations' = revocations \/ revocations' = revocations \cup {row}
  BY DEF Revoke
<1>2. row.cursor = cursor + 1 /\ row.order = cursor + 1
  BY DEF Revocation
<1>3. cursor \in Nat /\ \A p \in publications : p.cursor \in Nat /\ p.cursor <= cursor
  BY RowsAreNumbers DEF TablesInv
<1>4. ActiveIsCurrent'
  BY <1>1 DEF TablesInv, ActiveIsCurrent, IsCurrent, Active
<1>5. ListedIsKept'
  BY <1>1, <1>2, <1>3 DEF TablesInv, ListedIsKept, ListsKey
<1>6. OrderIsRow'
  BY <1>1, <1>2 DEF TablesInv, OrderIsRow
<1>7. DroppedIsRevoked'
  BY <1>1 DEF TablesInv, DroppedIsRevoked, IsCurrent, ListsKey
<1> QED BY <1>4, <1>5, <1>6, <1>7 DEF TablesInv

\* Every action keeps the tables consistent.
LEMMA TablesInvNext == TablesInv /\ [Next]_vars => TablesInv'
<1> SUFFICES ASSUME TablesInv, [Next]_vars PROVE TablesInv'
  OBVIOUS
<1>1. RegistryInv'
  BY RegistryInvNext DEF TablesInv
<1>2. CASE UNCHANGED Tables
  BY <1>1, <1>2, TablesFrame
<1>3. CASE Tick \/ UNCHANGED vars
  BY <1>2, <1>3 DEF Tick, vars, tables, Tables
<1>4. ASSUME NEW c \in Connections,
             ArriveFact(c) \/ ArriveSteward(c) \/ CheckFact(c) \/ CommitFact(c) \/ Release(c)
      PROVE  TablesInv'
  BY <1>2, <1>4 DEF ArriveFact, ArriveSteward, CheckFact, CommitFact, Release, ReplayNonce,
                    AdmitExisting, AdmitCommitted, AdmitPending, tables, Tables
<1>5. ASSUME NEW c \in Connections, ServeSteward(c) PROVE TablesInv'
  <2>1. CASE conns[c].doc.kind = "registry" /\ PublishNew(c)
    <3>1. conns[c].doc \in RegistryDocs
      BY <1>5, <2>1 DEF ServeSteward, IsStewardRequest, RegistryDocs
    <3> QED BY <1>1, <2>1, <3>1, PublicationKeepsTables
  <2>2. CASE Revoke(c)
    BY <1>1, <2>2, RevocationKeepsTables
  <2>3. CASE Rotate(c) \/ PublishOld(c) \/ UNCHANGED tables
    BY <1>2, <2>3 DEF Rotate, PublishOld, tables, Tables
  <2> QED BY <1>5, <2>1, <2>2, <2>3 DEF ServeSteward
<1> QED BY <1>3, <1>4, <1>5 DEF Next

-----------------------------------------------------------------------------
(* Who is revoked *)

\* A key that is listed by the newest document has active rows of that document.
LEMMA ListedIsActive ==
  ASSUME TablesInv, NEW p \in publications, IsCurrent(p), NEW k, ListsKey(p, k)
  PROVE  \E i \in Identities : Active(i) /\ registry[i].key = k /\ registry[i].cursor = p.cursor
<1>1. PICK i \in DOMAIN p.doc.entries : p.doc.entries[i] = k
  BY DEF ListsKey, ListedKeys
<1>2. i \in Identities
  BY ConstantsAssumption DEF TablesInv, RegistryInv, TypeOK, RegistryDocs
<1>3. Active(i) /\ registry[i].key = k
  BY <1>1, <1>2 DEF TablesInv, RegistryInv, RegistryIsCurrentDocument
<1>4. PICK q \in publications : IsCurrent(q) /\ registry[i].cursor = q.cursor
  BY <1>2, <1>3 DEF TablesInv, ActiveIsCurrent
<1>5. q.cursor = p.cursor
  <2>1. p.cursor \in Nat /\ q.cursor \in Nat
    BY RowsAreNumbers DEF TablesInv
  <2> QED BY <1>4, <2>1 DEF IsCurrent
<1> QED BY <1>2, <1>3, <1>4, <1>5

\* The active rows of a key are those of the newest document, which lists it.
LEMMA ActiveIsListed ==
  ASSUME TablesInv, NEW i \in Identities, Active(i)
  PROVE  \E p \in publications :
            IsCurrent(p) /\ registry[i].cursor = p.cursor /\ ListsKey(p, registry[i].key)
<1>1. PICK p \in publications : IsCurrent(p) /\ registry[i].cursor = p.cursor
  BY DEF TablesInv, ActiveIsCurrent
<1>2. i \in DOMAIN p.doc.entries /\ registry[i].key = p.doc.entries[i]
  BY <1>1 DEF TablesInv, RegistryInv, RegistryIsCurrentDocument
<1> QED BY <1>1, <1>2 DEF ListsKey, ListedKeys

\* A revocation after which no document listed its key counts, however it and
\* the rows of the registry are numbered.
LEMMA RevocationCounts ==
  ASSUME TablesInv, NEW k, NEW r \in revocations, r.key = k, r.scope = Everywhere,
         \A p \in publications : ListsKey(p, k) => p.cursor <= r.cursor
  PROVE  IsRevoked(k)
<1>0. /\ \A p \in publications : p.cursor \in Nat
      /\ r.cursor \in Nat /\ r.order \in Nat
  BY RowsAreNumbers DEF TablesInv
<1>1. ASSUME NEW i \in Identities, Active(i), registry[i].key = k
      PROVE  registry[i].cursor \in Nat /\ registry[i].cursor <= r.cursor
                /\ registry[i].cursor <= r.order
  <2>1. PICK p \in publications :
           IsCurrent(p) /\ registry[i].cursor = p.cursor /\ ListsKey(p, k)
    BY <1>1, ActiveIsListed
  <2>2. p.cursor <= r.cursor
    BY <2>1
  <2>3. CASE r.order = r.cursor
    BY <1>0, <2>1, <2>2, <2>3
  <2>4. CASE r.order # r.cursor
    <3>1. PICK q \in publications : q.cursor = r.cursor
      BY <2>4 DEF TablesInv, OrderIsRow
    <3>2. q.cursor = p.cursor
      BY <1>0, <2>1, <2>2, <3>1 DEF IsCurrent
    <3>3. q = p
      BY <3>2 DEF TablesInv, RegistryInv, OnePerRow
    <3> QED BY <2>1, <3>1, <3>3 DEF TablesInv, ListedIsKept
  <2> QED BY <2>3, <2>4
<1>2. ~Relisted(r)
  <2> SUFFICES ASSUME Relisted(r) PROVE FALSE
    OBVIOUS
  <2>1. PICK i \in Identities :
           Active(i) /\ registry[i].key = k /\ registry[i].cursor > r.cursor
    BY DEF Relisted
  <2>2. registry[i].cursor \in Nat /\ registry[i].cursor <= r.cursor
    BY <1>1, <2>1
  <2> QED BY <1>0, <2>1, <2>2
<1>3. r \in StandingRevocations(k)
  BY <1>2 DEF StandingRevocations
<1> QED BY <1>1, <1>3 DEF IsRevoked

\* A key is revoked by what the newest document drops, and one that it lists
\* only by what came after it.
LEMMA DroppedFollows == TablesInv => DroppedKeysAreRevoked
<1> SUFFICES ASSUME TablesInv, NEW p \in publications, IsCurrent(p), NEW k \in Keys
             PROVE  /\ ListsKey(p, k) /\ IsRevoked(k) =>
                          \E r \in revocations : r.key = k /\ r.cursor > p.cursor
                    /\ ~ListsKey(p, k) /\ (\E q \in publications : ListsKey(q, k)) =>
                          IsRevoked(k)
  BY DEF DroppedKeysAreRevoked
<1>0. /\ \A q \in publications : q.cursor \in Nat
      /\ \A r \in revocations : r.cursor \in Nat
  BY RowsAreNumbers DEF TablesInv
<1>1. ASSUME ListsKey(p, k), IsRevoked(k)
      PROVE  \E r \in revocations : r.key = k /\ r.cursor > p.cursor
  <2>1. PICK r \in revocations : r.key = k /\ r.scope = Everywhere /\ ~Relisted(r)
    BY <1>1 DEF IsRevoked, StandingRevocations
  <2>2. PICK i \in Identities :
           Active(i) /\ registry[i].key = k /\ registry[i].cursor = p.cursor
    BY <1>1, ListedIsActive
  <2>3. ~(p.cursor > r.cursor)
    BY <2>1, <2>2 DEF Relisted
  <2>4. r.cursor # p.cursor
    BY <1>1, <2>1 DEF TablesInv, ListedIsKept
  <2> QED BY <1>0, <2>1, <2>3, <2>4
<1>2. ASSUME ~ListsKey(p, k), NEW q \in publications, ListsKey(q, k)
      PROVE  IsRevoked(k)
  <2>1. PICK r \in revocations : r.key = k /\ r.scope = Everywhere
    BY <1>2 DEF TablesInv, DroppedIsRevoked
  <2>2. \A i \in Identities : Active(i) => registry[i].key # k
    <3> SUFFICES ASSUME NEW i \in Identities, Active(i), registry[i].key = k PROVE FALSE
      OBVIOUS
    <3>1. PICK t \in publications : IsCurrent(t) /\ ListsKey(t, k)
      BY ActiveIsListed
    <3>2. t.cursor = p.cursor
      BY <1>0, <3>1 DEF IsCurrent
    <3>3. t = p
      BY <3>2 DEF TablesInv, RegistryInv, OnePerRow
    <3> QED BY <1>2, <3>1, <3>3
  <2> QED BY <2>1, <2>2 DEF IsRevoked, StandingRevocations, Relisted
<1> QED BY <1>1, <1>2

\* Who may sign is what the newest document and the revocations after it say.
THEOREM TrustFollowsRegistry == Spec => []RegistryIsFollowed
<1>1. Init => TablesInv
  <2>1. Init => RegistryInv
    BY TypeInit DEF Init, RegistryInv, RowsAreOld, OnePerRow, SomeIsCurrent,
                    RegistryMovesForward, RegistryIsCurrentDocument, CascadeIsComplete
  <2> QED BY <2>1 DEF Init, TablesInv, ActiveIsCurrent, ListedIsKept, OrderIsRow,
                      DroppedIsRevoked, Active
<1>2. TablesInv /\ [Next]_vars => TablesInv'
  BY TablesInvNext
<1>3. TablesInv => RegistryIsFollowed
  BY DroppedFollows DEF RegistryIsFollowed, TablesInv, RegistryInv
<1> QED BY <1>1, <1>2, <1>3, PTL DEF Spec

-----------------------------------------------------------------------------
(* Requests, and the facts they commit *)

\* Rows only come with a new cursor, and no publication goes.
LEMMA TablesOnlyGrow ==
  ASSUME TablesInv, [Next]_vars
  PROVE  /\ cursor' \in Nat /\ cursor <= cursor'
         /\ publications \subseteq publications'
         /\ \A r \in revocations' : r \in revocations \/ (r.cursor \in Nat /\ r.cursor > cursor)
<1>1. cursor \in Nat
  BY RowsAreNumbers DEF TablesInv
<1>2. CASE Tick \/ UNCHANGED vars
  BY <1>1, <1>2 DEF Tick, vars, tables
<1>3. ASSUME NEW c \in Connections,
             ArriveFact(c) \/ ArriveSteward(c) \/ CheckFact(c) \/ CommitFact(c) \/ Release(c)
      PROVE  cursor' \in {cursor, cursor + 1} /\ UNCHANGED <<publications, revocations>>
  BY <1>3 DEF ArriveFact, ArriveSteward, CheckFact, CommitFact, Release, ReplayNonce,
              AdmitExisting, AdmitCommitted, AdmitPending, tables
<1>4. ASSUME NEW c \in Connections, ServeSteward(c)
      PROVE  /\ cursor' \in {cursor, cursor + 1}
             /\ publications \subseteq publications'
             /\ \A r \in revocations' : r \in revocations \/ r.cursor = cursor + 1
  <2>1. CASE PublishNew(c)
    BY <2>1 DEF PublishNew, Revocation
  <2>2. CASE Revoke(c)
    BY <2>2 DEF Revoke, Revocation
  <2>3. CASE Rotate(c) \/ PublishOld(c) \/ UNCHANGED tables
    BY <2>3 DEF Rotate, PublishOld, tables
  <2> QED BY <1>4, <2>1, <2>2, <2>3 DEF ServeSteward
<1> QED BY <1>1, <1>2, <1>3, <1>4 DEF Next

\* Whoever was revoked by the newest row is revoked now.
LEMMA RevokedNow ==
  ASSUME TablesInv, NEW k, RevokedAt(k, cursor)
  PROVE  IsRevoked(k)
<1>1. PICK r \in revocations :
         /\ r.key = k /\ r.scope = Everywhere
         /\ \A p \in publications : ListsKey(p, k) => ~(r.cursor < p.cursor /\ p.cursor <= cursor)
  BY DEF RevokedAt
<1>2. \A p \in publications : ListsKey(p, k) => p.cursor <= r.cursor
  BY <1>1, RowsAreNumbers DEF TablesInv
<1> QED BY <1>1, <1>2, RevocationCounts

\* What a request is known to carry, once its trust state is loaded.
Knows(c) ==
  IsFact(c) /\ conns[c].pc \in {"loaded", "checked"} =>
     /\ conns[c].seen <= cursor
     /\ ~conns[c].trust.revoked => ~RevokedAt(Header[conns[c].doc].signer, conns[c].seen)
     /\ conns[c].pc = "checked" /\ conns[c].admission = "committed" => ~conns[c].trust.revoked

\* A request that is not served now goes on knowing what it knew.
LEMMA WaitingKnows ==
  ASSUME TrustInv, TypeOK', [Next]_vars, NEW c \in Connections, conns'[c] = conns[c]
  PROVE  Knows(c)'
<1> SUFFICES ASSUME IsFact(c)', conns[c].pc \in {"loaded", "checked"} PROVE Knows(c)'
  BY DEF Knows
<1>1. IsFact(c) /\ conns[c] \in FactRequests
  BY FactRequestType DEF IsFact, TrustInv, TablesInv, RegistryInv
<1>2. Knows(c) /\ conns[c].seen \in Nat
  BY <1>1 DEF TrustInv, RequestsKnow, Knows, FactRequests
<1>3. /\ cursor \in Nat /\ cursor' \in Nat /\ cursor <= cursor'
      /\ publications \subseteq publications'
      /\ \A r \in revocations' : r \in revocations \/ (r.cursor \in Nat /\ r.cursor > cursor)
  BY TablesOnlyGrow, RowsAreNumbers DEF TrustInv, TablesInv
<1> DEFINE k == Header[conns[c].doc].signer
           seen == conns[c].seen
<1>4. k' = k /\ seen' = seen
  OBVIOUS
<1>5. ASSUME ~RevokedAt(k, seen) PROVE ~RevokedAt(k, seen)'
  <2>1. PICK key, row : key = k /\ row = seen
    OBVIOUS
  <2>2. row \in Nat /\ row <= cursor /\ ~RevokedAt(key, row)
    BY <1>1, <1>2, <1>5, <2>1 DEF Knows
  <2>3. ~RevokedAt(key, row)'
    BY <1>3, <2>2, PastIsSettled
  <2> QED BY <1>4, <2>1, <2>3
<1>6. conns[c].seen <= cursor'
  BY <1>1, <1>2, <1>3 DEF Knows
<1> QED BY <1>1, <1>2, <1>5, <1>6 DEF Knows

\* A request learns who is revoked when it arrives, and is checked against it.
LEMMA RequestsGoOnKnowing ==
  ASSUME TrustInv, TypeOK', [Next]_vars
  PROVE  RequestsKnow'
<1> SUFFICES ASSUME NEW c \in Connections PROVE Knows(c)'
  BY DEF RequestsKnow, Knows
<1>1. CASE conns'[c] = conns[c]
  BY <1>1, WaitingKnows
<1>2. CASE Tick \/ UNCHANGED vars
  BY <1>1, <1>2 DEF Tick, vars
<1>3. ASSUME NEW b \in Connections, b # c,
             \/ ArriveFact(b) \/ CheckFact(b) \/ CommitFact(b)
             \/ ArriveSteward(b) \/ ServeSteward(b) \/ Release(b)
      PROVE  Knows(c)'
  <2>1. conns'[c] = conns[c]
    BY <1>3 DEF ArriveFact, CheckFact, CommitFact, ArriveSteward, ServeSteward, Release,
                FastPath, Judge, ReplayNonce, AdmitExisting, AdmitCommitted, AdmitPending,
                PublishNew, PublishOld, Revoke, Rotate, Answer, TrustInv, TablesInv, RegistryInv,
                TypeOK
  <2> QED BY <2>1, <1>1
<1>4. CASE ArriveFact(c)
  <2>1. PICK s \in Submissions :
          conns'[c] = [pc |-> "loaded", doc |-> s.doc, client |-> s.client, nonce |-> s.nonce,
                       approved |-> s.approved, trust |-> TrustIn(Header[s.doc].signer),
                       at |-> clock, seen |-> cursor, admission |-> "undecided",
                       answer |-> "none"]
    BY <1>4 DEF ArriveFact, TrustInv, TablesInv, RegistryInv, TypeOK
  <2>2. UNCHANGED <<cursor, publications, revocations>>
    BY <1>4 DEF ArriveFact
  <2>3. cursor \in Nat
    BY RowsAreNumbers DEF TrustInv, TablesInv
  <2>4. PICK k : k = Header[s.doc].signer
    OBVIOUS
  <2>5. TrustIn(k).revoked = IsRevoked(k)
    BY DEF TrustIn
  <2>6. ~IsRevoked(k) => ~RevokedAt(k, cursor)
    BY RevokedNow DEF TrustInv
  <2>7. RevokedAt(k, cursor)' <=> RevokedAt(k, cursor)
    BY <2>2 DEF RevokedAt, ListsKey
  <2>8. /\ conns'[c].pc = "loaded" /\ conns'[c].seen = cursor' /\ conns'[c].doc = s.doc
        /\ conns'[c].trust.revoked = IsRevoked(k)
    BY <2>1, <2>2, <2>4, <2>5
  <2>9. Header[conns'[c].doc].signer = k
    BY <2>4, <2>8
  <2>10. (Knows(c) /\ TRUE)'
    BY <2>2, <2>3, <2>6, <2>7, <2>8, <2>9 DEF Knows
  <2> QED BY <2>10
<1>5. CASE CheckFact(c)
  <2>1. IsFact(c) /\ conns[c].pc = "loaded" /\ UNCHANGED tables /\ Knows(c)
    BY <1>5 DEF CheckFact, TrustInv, RequestsKnow, Knows
  <2>2. conns \in [Connections -> Requests] /\ conns[c] \in FactRequests
    BY <2>1, FactRequestType DEF TrustInv, TablesInv, RegistryInv, TypeOK
  <2>3. CASE conns'[c].pc = "done"
    BY <2>3 DEF Knows
  <2>4. CASE conns'[c].pc # "done"
    <3>1. /\ Decision(c) \in Admissible
          /\ conns'[c] = [conns[c] EXCEPT !.pc = "checked", !.admission = Decision(c)]
      <4>1. \A text : ~Answer(c, text)
        BY <2>2, <2>4 DEF Answer, FactRequests
      <4>2. Judge(c)
        BY <1>5, <4>1 DEF CheckFact, FastPath
      <4> QED BY <2>2, <4>1, <4>2 DEF Judge
    <3>2. /\ conns'[c].pc = "checked" /\ conns'[c].seen = conns[c].seen
          /\ conns'[c].doc = conns[c].doc /\ conns'[c].trust = conns[c].trust
          /\ conns'[c].admission = Decision(c)
      BY <2>2, <3>1 DEF FactRequests
    <3>3. Decision(c) = "committed" => ~conns[c].trust.revoked
      BY DEF Decision, VerifySigner
    <3>4. RevokedAt(Header[conns[c].doc].signer, conns[c].seen)'
             <=> RevokedAt(Header[conns[c].doc].signer, conns[c].seen)
      BY <2>1, <3>2 DEF RevokedAt, ListsKey, tables
    <3> QED BY <2>1, <3>2, <3>3, <3>4 DEF Knows, tables
  <2> QED BY <2>3, <2>4
<1>6. CASE CommitFact(c) \/ ServeSteward(c) \/ ArriveSteward(c) \/ Release(c)
  <2>1. conns \in [Connections -> Requests]
    BY DEF TrustInv, TablesInv, RegistryInv, TypeOK
  <2>2. CASE CommitFact(c) \/ ServeSteward(c)
    <3>1. conns'[c].pc = "done"
      <4>1. \A text : Answer(c, text) => conns'[c].pc = "done"
        BY <2>1, FactRequestType, StewardRequestType
           DEF Answer, Requests, Idle, FactRequests, StewardRequests
      <4> QED BY <2>2, <4>1
              DEF CommitFact, ReplayNonce, AdmitExisting, AdmitCommitted, AdmitPending,
                  ServeSteward, PublishNew, PublishOld, Revoke, Rotate
    <3> QED BY <3>1 DEF Knows
  <2>3. CASE ArriveSteward(c)
    <3>1. conns'[c].doc \in StewardDocs
      BY <2>1, <2>3 DEF ArriveSteward
    <3> QED BY <3>1, ConstantsAssumption DEF Knows, IsFact
  <2>4. CASE Release(c)
    BY <2>1, <2>4 DEF Release, Idle, Knows, IsFact
  <2> QED BY <1>6, <2>2, <2>3, <2>4
<1> QED BY <1>2, <1>3, <1>4, <1>5, <1>6 DEF Next

\* Only the commit of a checked request adds a fact, and it holds what the
\* request was loaded with.
LEMMA NewFactWasKnown ==
  ASSUME TrustInv, [Next]_vars, NEW f \in facts', f \notin facts
  PROVE  \E c \in Connections :
            /\ IsFact(c) /\ conns[c].pc = "checked" /\ conns[c].admission = "committed"
            /\ f.event = conns[c].doc /\ f.seen = conns[c].seen
<1>1. CASE Tick \/ UNCHANGED vars
  BY <1>1 DEF Tick, vars, tables
<1>2. ASSUME NEW c \in Connections,
             ArriveFact(c) \/ ArriveSteward(c) \/ CheckFact(c) \/ ServeSteward(c) \/ Release(c)
      PROVE  facts' = facts
  BY <1>2 DEF ArriveFact, ArriveSteward, CheckFact, ServeSteward, Release, PublishNew, PublishOld,
              Revoke, Rotate, tables
<1>3. ASSUME NEW c \in Connections, CommitFact(c)
      PROVE  /\ IsFact(c) /\ conns[c].pc = "checked" /\ conns[c].admission = "committed"
             /\ f.event = conns[c].doc /\ f.seen = conns[c].seen
  <2>1. AdmitCommitted(c)
    BY <1>3 DEF CommitFact, ReplayNonce, AdmitExisting, AdmitPending, tables
  <2> QED BY <1>3, <2>1 DEF CommitFact, AdmitCommitted
<1> QED BY <1>1, <1>2, <1>3 DEF Next

\* Every step keeps what facts and requests know of revocations.
LEMMA TrustInvNext == TrustInv /\ [Next]_vars => TrustInv'
<1> SUFFICES ASSUME TrustInv, [Next]_vars PROVE TrustInv'
  OBVIOUS
<1>1. TablesInv'
  BY TablesInvNext DEF TrustInv
<1>2. RequestsKnow'
  BY <1>1, RequestsGoOnKnowing DEF TablesInv, RegistryInv
<1>3. /\ cursor \in Nat /\ cursor' \in Nat /\ cursor <= cursor'
      /\ publications \subseteq publications'
      /\ \A r \in revocations' : r \in revocations \/ (r.cursor \in Nat /\ r.cursor > cursor)
  BY TablesOnlyGrow, RowsAreNumbers DEF TrustInv, TablesInv
<1>4. ASSUME NEW f \in facts'
      PROVE  f.seen \in Nat /\ f.seen <= cursor /\ ~RevokedAt(Header[f.event].signer, f.seen)
  <2>1. CASE f \in facts
    BY <2>1 DEF TrustInv, SeenIsOld, ArrivedBeforeRevocation, TablesInv, RegistryInv, TypeOK,
                FactRows
  <2>2. CASE f \notin facts
    <3>1. PICK c \in Connections :
            /\ IsFact(c) /\ conns[c].pc = "checked" /\ conns[c].admission = "committed"
            /\ f.event = conns[c].doc /\ f.seen = conns[c].seen
      BY <2>2, NewFactWasKnown
    <3>2. conns[c].seen \in Nat
      BY <3>1, FactRequestType DEF TrustInv, TablesInv, RegistryInv, FactRequests
    <3> QED BY <3>1, <3>2 DEF TrustInv, RequestsKnow
  <2> QED BY <2>1, <2>2
<1>5. SeenIsOld'
  BY <1>3, <1>4 DEF SeenIsOld
<1>6. ArrivedBeforeRevocation'
  <2> SUFFICES ASSUME NEW f \in facts' PROVE ~RevokedAt(Header[f.event].signer, f.seen)'
    BY DEF ArrivedBeforeRevocation
  <2> QED BY <1>3, <1>4, PastIsSettled
<1> QED BY <1>1, <1>2, <1>5, <1>6 DEF TrustInv

\* No fact is admitted for a request that arrived after its signer was revoked,
\* and every fact a key had warranted by its revocation has its apology.
THEOREM RevocationSafe == Spec => []RevocationReaches
<1>1. Init => TrustInv
  <2>1. Init => RegistryInv
    BY TypeInit DEF Init, RegistryInv, RowsAreOld, OnePerRow, SomeIsCurrent,
                    RegistryMovesForward, RegistryIsCurrentDocument, CascadeIsComplete
  <2>2. Init => TablesInv
    BY <2>1 DEF Init, TablesInv, ActiveIsCurrent, ListedIsKept, OrderIsRow,
                DroppedIsRevoked, Active
  <2> QED BY <2>2 DEF Init, TrustInv, RequestsKnow, SeenIsOld, ArrivedBeforeRevocation, IsFact,
                      Idle
<1>2. TrustInv /\ [Next]_vars => TrustInv'
  BY TrustInvNext
<1>3. TrustInv => RevocationReaches
  BY DEF RevocationReaches, TrustInv, TablesInv, RegistryInv
<1> QED BY <1>1, <1>2, <1>3, PTL DEF Spec

-----------------------------------------------------------------------------
(* Retries *)

\* The bare retry of a committed post is answered with its receipt.
BareRetryAnswered(c) ==
  /\ IsFact(c) /\ conns'[c].pc = "done" /\ conns[c].pc # "done"
  /\ conns[c].nonce = conns[c].doc
  /\ conns[c].doc \in DOMAIN nonces
  /\ SameBinding(c) /\ nonces[conns[c].doc].status = "committed"
  => conns'[c].answer = "committed"

\* Only the step that answers a request sets its answer, and it finds the receipt.
LEMMA RetryIsAnswered ==
  ASSUME AdmissionInv, [Next]_vars, NEW c \in Connections
  PROVE  BareRetryAnswered(c)
<1> SUFFICES ASSUME IsFact(c), conns'[c].pc = "done", conns[c].pc # "done",
                    conns[c].nonce = conns[c].doc, conns[c].doc \in DOMAIN nonces,
                    SameBinding(c), nonces[conns[c].doc].status = "committed"
             PROVE  conns'[c].answer = "committed"
  BY DEF BareRetryAnswered
<1>1. conns \in [Connections -> Requests] /\ conns[c] \in FactRequests
  BY FactRequestType DEF AdmissionInv, TypeOK
<1>2. \A text : Answer(c, text) => conns'[c].answer = text
  BY <1>1 DEF Answer, FactRequests
<1>3. Logged(conns[c].doc)
  <2>1. nonces[conns[c].doc].doc = conns[c].doc
    BY DEF SameBinding
  <2> QED BY <2>1 DEF AdmissionInv, ReceiptsAreBacked, Logged
<1>4. CASE CheckFact(c)
  <2>1. FastPath(c)
    BY <1>3, <1>4 DEF CheckFact, Judge
  <2>2. ToOriginalClient(c)
    BY DEF ToOriginalClient, SameBinding
  <2> QED BY <1>2, <2>1, <2>2 DEF FastPath
<1>5. CASE CommitFact(c)
  <2>1. ~AdmitNow(c) /\ ~Awaiting(conns[c].nonce)
    BY DEF AdmitNow, Awaiting
  <2>2. ReplayNonce(c)
    BY <1>5, <2>1 DEF CommitFact, AdmitExisting, AdmitCommitted, AdmitPending, Proceeds
  <2> QED BY <1>2, <2>1, <2>2 DEF ReplayNonce
<1>6. conns'[c] # conns[c]
  OBVIOUS
<1>7. ASSUME NEW b \in Connections, b # c,
             \/ ArriveFact(b) \/ CheckFact(b) \/ CommitFact(b)
             \/ ArriveSteward(b) \/ ServeSteward(b) \/ Release(b)
      PROVE  conns'[c] = conns[c]
  BY <1>1, <1>7 DEF ArriveFact, CheckFact, CommitFact, ArriveSteward, ServeSteward, Release,
                    FastPath, Judge, ReplayNonce, AdmitExisting, AdmitCommitted, AdmitPending,
                    PublishNew, PublishOld, Revoke, Rotate, Answer
<1>8. CASE Tick \/ UNCHANGED vars
  BY <1>6, <1>8 DEF Tick, vars
<1>9. ~ArriveFact(c) /\ ~ArriveSteward(c) /\ ~ServeSteward(c)
  BY ConstantsAssumption DEF IsFact, ArriveFact, ArriveSteward, ServeSteward, IsStewardRequest, Idle
<1>10. ~Release(c)
  BY <1>1 DEF Release, Idle
<1> QED BY <1>4, <1>5, <1>6, <1>7, <1>8, <1>9, <1>10 DEF Next

\* A retry finds what its first attempt was told: the nonce keeps its binding,
\* and a bare retry of a committed post gets its receipt.
THEOREM RetriesSafe == Spec => RetriesAreAnswered
<1>1. Init => AdmissionInv
  BY TypeInit DEF Init, AdmissionInv, CursorIsNewest, AdmittedOnce, ReceiptsAreBacked,
                  QueueIsSettled, PendingIsQueuedOrLogged
<1>2. AdmissionInv /\ [Next]_vars => AdmissionInv'
  BY AdmissionInvNext
<1>3. AdmissionInv /\ [Next]_vars => [\A c \in Connections : BareRetryAnswered(c)]_vars
  BY RetryIsAnswered
<1>4. Spec => [][\A c \in Connections : BareRetryAnswered(c)]_vars
  BY <1>1, <1>2, <1>3, PTL DEF Spec
<1>5. Spec => BareRetryIsAnswered
  BY <1>4 DEF BareRetryIsAnswered, BareRetryAnswered
<1> QED BY <1>5, NonceBindingKept DEF RetriesAreAnswered
=============================================================================
