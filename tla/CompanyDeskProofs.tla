--------------------------- MODULE CompanyDeskProofs ---------------------------
(* Tables, log and lineage of the desk agree for any number of requests,      *)
(* questions, answers, Unknowns and revisions, whichever request fails where. *)
(*                                                                            *)
(* A request that dies leaves a prefix of its statements, so what the proof   *)
(* needs is what a request has already put into the log by the time it will   *)
(* write a row (Promised), and that the observations it retires had run out   *)
(* by its own, older reading of the clock (Timely).                           *)
EXTENDS CompanyDesk, TLAPS

Now == 0..MaxClock

UnknownRow == [status : {"absent", "open", "closed", "abandoned"},
               due : 0..(MaxClock + 1), evidence : SUBSET Answers]

QuestionRow == [status : {"queued", "answered", "conflict"}, about : Unknowns]

AnswerRow == [id : Answers, supersedes : SUBSET Answers]

Observation == [revision : Revisions, count : 0..MaxCount, rewrite : BOOLEAN,
                status : {"current", "historical"}, until : 0..(MaxClock + 1), stored : Now]

Orphan == [id : Apologies, row : UnknownRow]

\* What a request holds at each of its steps.
Retiring == [pc : {"retiring", "lapsing"}, now : Now, done : SUBSET Nat, todo : SUBSET Nat]
Listing == [pc : {"orphans"}, now : Now, todo : SUBSET Orphan]
Abandoning == [pc : {"abandoning"}, now : Now, todo : SUBSET Orphan, orphan : Orphan]
Loaded == [pc : {"loaded"}, now : Now, trust : SUBSET Keys]
Recording == [pc : {"recording"}, unknown : Clients]
Issuing == [pc : {"issuing"}, uuid : Uuids]

Holds(r) ==
    /\ r.pc \in {"idle", "retiring", "lapsing", "orphans", "abandoning", "loaded",
                 "recording", "issuing"}
    /\ r.pc \in {"retiring", "lapsing"} => r \in Retiring
    /\ r.pc = "orphans" => r \in Listing
    /\ r.pc = "abandoning" => r \in Abandoning
    /\ r.pc = "loaded" => r \in Loaded
    /\ r.pc = "recording" => r \in Recording
    /\ r.pc = "issuing" => r \in Issuing

\* The tables hold rows of their types, and so do the requests.
TablesTyped ==
    /\ clock \in Now /\ upsets \in 0..MaxUpsets /\ registry \subseteq Keys
    /\ questions \in [Questions -> QuestionRow \cup {Unposted}]
    /\ unknowns \in [Unknowns -> UnknownRow]
    /\ answers \in Seq(AnswerRow) /\ observations \in Seq(Observation)
    /\ certificates \subseteq Uuids

ReqsTyped == DOMAIN req = Workers /\ \A w \in Workers : Holds(req[w])

\* A row is written once: answers and observations have ids.
RowsAreSingle ==
    /\ \A i, j \in DOMAIN answers : answers[i].id = answers[j].id => i = j
    /\ \A i, j \in DOMAIN observations :
         observations[i].revision = observations[j].revision => i = j

\* What a request is about to write is in the log.
Promises(r) ==
    /\ r.pc = "lapsing" => \E i \in DOMAIN observations : <<"lapse", i>> \in log
    /\ r.pc = "abandoning" => <<"orphan", r.orphan.id>> \in log
    /\ r.pc = "recording" => <<"unknown", r.unknown>> \in log
    /\ r.pc = "issuing" => <<"certificate", r.uuid>> \in log

Promised == \A w \in Workers : Promises(req[w])

\* The clock of a request is not ahead, and what it retires had run out by it.
IsTimely(r) ==
    /\ r.pc \in {"retiring", "lapsing", "orphans", "abandoning", "loaded"} => r.now <= clock
    /\ r.pc \in {"retiring", "lapsing"} =>
        /\ r.done \subseteq DOMAIN observations
        /\ r.todo \subseteq {i \in DOMAIN observations : observations[i].until <= clock}

Timely == \A w \in Workers : IsTimely(req[w])

\* What is retired had run out.
HistoryIsOver ==
    \A i \in DOMAIN observations :
        observations[i].status = "historical" => observations[i].until <= clock

Requests == ReqsTyped /\ Promised /\ Timely
Tables == TablesTyped /\ RowsAreSingle /\ HistoryIsOver /\ TablesFollowLog /\ LineageHolds

DeskInv == Requests /\ Tables

\* Empty tables need no explanation.
LEMMA DeskInit == Init => DeskInv
<1> SUFFICES ASSUME Init PROVE DeskInv
  OBVIOUS
<1>1. /\ answers = <<>> /\ observations = <<>> /\ certificates = {}
      /\ \A q \in Questions : questions[q] = Unposted
      /\ \A u \in Unknowns : unknowns[u] = NoRow
      /\ questions \in [Questions -> {Unposted}] /\ unknowns \in [Unknowns -> {NoRow}]
  BY DEF Init
<1>2. NoRow \in UnknownRow /\ NoRow.status = "absent"
  BY DeskAssumption DEF NoRow, UnknownRow
<1>3. TablesTyped
  BY <1>1, <1>2, DeskAssumption DEF Init, TablesTyped, Now
<1>4. RowsAreSingle /\ HistoryIsOver
  BY <1>1 DEF RowsAreSingle, HistoryIsOver
<1>5. StandsLogged
  BY <1>1, <1>2, DeskAssumption DEF StandsLogged, Unknowns
<1>6. AnswersPointBack /\ ClosedOnEvidence /\ LineageHolds
  BY <1>1, <1>2 DEF AnswersPointBack, ClosedOnEvidence, LineageHolds
<1>7. Requests
  BY DEF Init, Idle, Requests, ReqsTyped, Promised, Timely, Holds, Promises, IsTimely
<1> QED
  BY <1>3, <1>4, <1>5, <1>6, <1>7 DEF DeskInv, Tables, TablesFollowLog

\* What the typed tables say of their rows.
LEMMA RowTypes ==
    ASSUME DeskInv
    PROVE  /\ Len(observations) \in Nat /\ DOMAIN observations = 1..Len(observations)
           /\ \A i \in DOMAIN observations : observations[i] \in Observation
           /\ \A i \in DOMAIN observations : observations[i].until \in Nat
           /\ Len(answers) \in Nat /\ DOMAIN answers = 1..Len(answers)
           /\ \A i \in DOMAIN answers : answers[i] \in AnswerRow
           /\ clock \in Nat /\ clock \in Now /\ MaxClock \in Nat
<1>1. observations \in Seq(Observation) /\ answers \in Seq(AnswerRow) /\ clock \in Now
  BY DEF DeskInv, Tables, TablesTyped
<1>2. \A o \in Observation : o.until \in Nat
  BY DeskAssumption DEF Observation
<1>3. /\ Len(observations) \in Nat /\ DOMAIN observations = 1..Len(observations)
      /\ \A i \in DOMAIN observations : observations[i] \in Observation
  BY <1>1
<1>4. /\ Len(answers) \in Nat /\ DOMAIN answers = 1..Len(answers)
      /\ \A i \in DOMAIN answers : answers[i] \in AnswerRow
  BY <1>1
<1> QED
  BY <1>1, <1>2, <1>3, <1>4, DeskAssumption DEF Now

-----------------------------------------------------------------------------
(* Requests *)

\* What other requests rely on is only added to: the log, the observations and
\* their periods, and the clock.
Advances ==
    /\ log \subseteq log' /\ clock <= clock' /\ clock' \in Now
    /\ DOMAIN observations \subseteq DOMAIN observations'
    /\ \A i \in DOMAIN observations : observations'[i].until = observations[i].until

\* A request that does not move relies on nothing that is taken back.
LEMMA OthersRely ==
    ASSUME DeskInv, Advances, NEW w \in Workers, req'[w] = req[w]
    PROVE  Promises(req[w])' /\ IsTimely(req[w])'
<1>1. Holds(req[w]) /\ Promises(req[w]) /\ IsTimely(req[w]) /\ clock \in Now
  BY DEF DeskInv, Requests, Tables, TablesTyped, ReqsTyped, Promised, Timely
<1>2. Promises(req[w])'
  BY <1>1 DEF Promises, Advances
<1>3. PICK r : r = req[w]
  OBVIOUS
<1>4. r.pc \in {"retiring", "lapsing"} => r.todo \subseteq {i \in DOMAIN observations' : observations'[i].until <= clock'}
  <2> SUFFICES ASSUME r.pc \in {"retiring", "lapsing"}, NEW i \in r.todo
               PROVE  i \in DOMAIN observations' /\ observations'[i].until <= clock'
    OBVIOUS
  <2>1. i \in DOMAIN observations /\ observations[i].until <= clock
    BY <1>1, <1>3 DEF IsTimely
  <2>2. observations[i].until \in Nat
    BY <2>1, RowTypes
  <2> QED
    BY <1>1, <2>1, <2>2, DeskAssumption DEF Advances, Now
<1>5. r.pc \in {"retiring", "lapsing", "orphans", "abandoning", "loaded"} => r.now <= clock'
  <2> SUFFICES ASSUME r.pc \in {"retiring", "lapsing", "orphans", "abandoning", "loaded"}
               PROVE  r.now <= clock'
    OBVIOUS
  <2>1. r.now \in Now /\ r.now <= clock
    BY <1>1, <1>3 DEF Holds, IsTimely, Retiring, Listing, Abandoning, Loaded
  <2> QED
    BY <1>1, <2>1, DeskAssumption DEF Advances, Now
<1>6. r.pc \in {"retiring", "lapsing"} => r.done \subseteq DOMAIN observations'
  BY <1>1, <1>3 DEF IsTimely, Advances
<1>7. req'[w] = r
  BY <1>3
<1>8. IsTimely(req[w])'
  BY <1>4, <1>5, <1>6, <1>7 DEF IsTimely
<1> QED
  BY <1>2, <1>8

\* A request that becomes `r` keeps the requests sound.
LEMMA RequestMoves ==
    ASSUME DeskInv, Advances, NEW w \in Workers, NEW r, Become(w, r),
           Holds(r), Promises(r)', IsTimely(r)'
    PROVE  Requests'
<1>1. /\ DOMAIN req' = Workers /\ req'[w] = r
      /\ \A v \in Workers : v # w => req'[v] = req[v]
  BY DEF Become, DeskInv, Requests, ReqsTyped
<1>2. \A v \in Workers : v # w => Holds(req'[v]) /\ Promises(req[v])' /\ IsTimely(req[v])'
  <2> SUFFICES ASSUME NEW v \in Workers, v # w
               PROVE  Holds(req'[v]) /\ Promises(req[v])' /\ IsTimely(req[v])'
    OBVIOUS
  <2>1. Holds(req[v]) /\ req'[v] = req[v]
    BY <1>1 DEF DeskInv, Requests, ReqsTyped
  <2> QED
    BY <2>1, OthersRely
<1>3. ReqsTyped'
  BY <1>1, <1>2 DEF ReqsTyped
<1>4. Promised'
  BY <1>1, <1>2 DEF Promised, Promises
<1>5. Timely'
  BY <1>1, <1>2 DEF Timely, IsTimely
<1> QED
  BY <1>3, <1>4, <1>5 DEF Requests

\* A step of the world leaves every request where it is.
LEMMA RequestsStay ==
    ASSUME DeskInv, Advances, req' = req
    PROVE  Requests'
<1>1. \A v \in Workers : Promises(req[v])' /\ IsTimely(req[v])'
  BY OthersRely
<1> QED
  BY <1>1 DEF DeskInv, Requests, ReqsTyped, Promised, Timely

-----------------------------------------------------------------------------
(* Tables *)

\* A longer log explains the same rows.
LEMMA LogGrows ==
    ASSUME DeskInv, log \subseteq log', UNCHANGED rows, clock <= clock', clock' \in Now,
           upsets' \in 0..MaxUpsets, registry' \subseteq Keys
    PROVE  Tables'
<1>1. /\ questions' = questions /\ answers' = answers /\ unknowns' = unknowns
      /\ observations' = observations /\ certificates' = certificates
  BY DEF rows
<1>2. TablesTyped' /\ RowsAreSingle'
  BY <1>1 DEF DeskInv, Tables, TablesTyped, RowsAreSingle
<1>3. HistoryIsOver'
  <2> SUFFICES ASSUME NEW i \in DOMAIN observations, observations[i].status = "historical"
               PROVE  observations[i].until <= clock'
    BY <1>1 DEF HistoryIsOver
  <2>1. observations[i].until <= clock /\ observations[i].until \in Nat /\ clock \in Nat
    BY RowTypes DEF DeskInv, Tables, HistoryIsOver
  <2> QED
    BY <2>1, DeskAssumption DEF Now
<1>4. StandsLogged'
  BY <1>1 DEF DeskInv, Tables, TablesFollowLog, StandsLogged
<1>5. AnswersPointBack' /\ ClosedOnEvidence' /\ LineageHolds'
  BY <1>1 DEF DeskInv, Tables, TablesFollowLog, AnswersPointBack, ClosedOnEvidence, LineageHolds
<1> QED
  BY <1>2, <1>3, <1>4, <1>5 DEF Tables, TablesFollowLog

\* An Unknown's row may be overwritten with one that does not close it, if the
\* log holds what explains the row.
LEMMA UnknownWritten ==
    ASSUME DeskInv, NEW u \in Unknowns, NEW row \in UnknownRow, Upsert(u, row),
           UNCHANGED <<world, log, questions, answers, observations, certificates>>,
           row.status # "closed",
           u \in Clients => <<"unknown", u>> \in log,
           u \in Apologies /\ row.status = "abandoned" => <<"orphan", u>> \in log,
           u = Lapse => \E i \in DOMAIN observations : <<"lapse", i>> \in log
    PROVE  Tables'
<1>1. /\ unknowns' \in [Unknowns -> UnknownRow] /\ unknowns'[u] = row
      /\ \A v \in Unknowns : v # u => unknowns'[v] = unknowns[v]
      /\ clock' = clock /\ upsets' = upsets /\ registry' = registry
  BY DEF Upsert, DeskInv, Tables, TablesTyped, world
<1>2. TablesTyped' /\ RowsAreSingle' /\ HistoryIsOver'
  BY <1>1 DEF DeskInv, Tables, TablesTyped, RowsAreSingle, HistoryIsOver
<1>3. StandsLogged'
  <2>1. \A v \in Clients : unknowns'[v] # NoRow => <<"unknown", v>> \in log
    BY <1>1 DEF DeskInv, Tables, TablesFollowLog, StandsLogged, Unknowns
  <2>2. \A v \in Apologies : unknowns'[v].status = "abandoned" => <<"orphan", v>> \in log
    BY <1>1 DEF DeskInv, Tables, TablesFollowLog, StandsLogged, Unknowns
  <2>3. unknowns'[Lapse] # NoRow => \E i \in DOMAIN observations : <<"lapse", i>> \in log
    BY <1>1 DEF DeskInv, Tables, TablesFollowLog, StandsLogged, Unknowns
  <2> QED
    BY <2>1, <2>2, <2>3 DEF DeskInv, Tables, TablesFollowLog, StandsLogged
<1>4. AnswersPointBack' /\ LineageHolds'
  BY DEF DeskInv, Tables, TablesFollowLog, AnswersPointBack, LineageHolds
<1>5. ClosedOnEvidence'
  BY <1>1 DEF DeskInv, Tables, TablesFollowLog, ClosedOnEvidence
<1> QED
  BY <1>2, <1>3, <1>4, <1>5 DEF Tables, TablesFollowLog

-----------------------------------------------------------------------------
(* The steps of a request *)

\* A step that leaves clock and observations alone takes nothing back.
LEMMA Quiet ==
    ASSUME DeskInv, UNCHANGED <<clock, observations>>, log \subseteq log'
    PROVE  Advances
BY RowTypes DEF Advances

\* Who logs, reads or ends leaves the tables explained.
LEMMA OnlyLogs ==
    ASSUME DeskInv, UNCHANGED <<world, rows>>, log \subseteq log'
    PROVE  Advances /\ Tables'
<1>1. /\ clock' = clock /\ observations' = observations /\ upsets' = upsets /\ registry' = registry
      /\ UNCHANGED rows
  BY DEF world, rows
<1>2. Advances
  BY <1>1, Quiet
<1>3. clock <= clock' /\ clock' \in Now /\ upsets' \in 0..MaxUpsets /\ registry' \subseteq Keys
  BY <1>1, RowTypes DEF DeskInv, Tables, TablesTyped
<1> QED
  BY <1>1, <1>2, <1>3, LogGrows

\* What a request lists to retire has run out.
LEMMA ArriveKeeps ==
    ASSUME DeskInv, NEW w \in Workers, Arrive(w)
    PROVE  DeskInv'
<1>1. Advances /\ Tables'
  BY OnlyLogs DEF Arrive
<1>2. PICK lapsed : lapsed = {i \in DOMAIN observations : Lapsed(observations[i], clock)}
  OBVIOUS
<1>3. PICK r : r = [pc |-> "retiring", now |-> clock, done |-> {}, todo |-> lapsed]
  OBVIOUS
<1>4. /\ r.pc = "retiring" /\ r.now = clock /\ r.done = {} /\ r.todo = lapsed
  BY <1>3
<1>5. lapsed \subseteq Nat /\ lapsed \subseteq {i \in DOMAIN observations : observations[i].until <= clock}
  BY <1>2, RowTypes DEF Lapsed
<1>6. Holds(r)
  BY <1>3, <1>4, <1>5, RowTypes DEF Holds, Retiring
<1>7. clock' = clock /\ observations' = observations /\ Become(w, r)
  BY <1>2, <1>3 DEF Arrive, world, rows
<1>8. Promises(r)' /\ IsTimely(r)'
  BY <1>4, <1>5, <1>7, RowTypes DEF Promises, IsTimely
<1> QED
  BY <1>1, <1>6, <1>7, <1>8, RequestMoves DEF DeskInv

\* What a request that retires observations holds.
LEMMA RetiringHolds ==
    ASSUME DeskInv, NEW w \in Workers, req[w].pc \in {"retiring", "lapsing"}
    PROVE  /\ req[w] \in Retiring
           /\ req[w].now <= clock
           /\ req[w].done \subseteq DOMAIN observations
           /\ req[w].todo \subseteq {i \in DOMAIN observations : observations[i].until <= clock}
BY DEF DeskInv, Requests, ReqsTyped, Timely, Holds, IsTimely

\* A retired observation keeps all but its status.
LEMMA RetireKeeps ==
    ASSUME DeskInv, NEW w \in Workers, NEW i, Retire(w, i)
    PROVE  DeskInv'
<1>1. req[w] \in Retiring /\ req[w].pc = "retiring" /\ i \in req[w].todo
  BY RetiringHolds DEF Retire
<1>2. i \in DOMAIN observations /\ observations[i].until <= clock
  BY <1>1, RetiringHolds
<1>3. PICK o : o = [observations[i] EXCEPT !.status = "historical"]
  OBVIOUS
<1>4. /\ o \in Observation /\ o.status = "historical" /\ o.until = observations[i].until
      /\ o.revision = observations[i].revision /\ o.count = observations[i].count
      /\ o.rewrite = observations[i].rewrite /\ o.stored = observations[i].stored
  BY <1>2, <1>3, RowTypes DEF Observation
<1>5. observations' = [observations EXCEPT ![i] = o]
  BY <1>3 DEF Retire
<1>6. /\ observations' \in Seq(Observation) /\ DOMAIN observations' = DOMAIN observations
      /\ observations'[i] = o /\ Len(observations') = Len(observations)
      /\ \A j \in DOMAIN observations : j # i => observations'[j] = observations[j]
  BY <1>2, <1>4, <1>5 DEF DeskInv, Tables, TablesTyped
<1>7. /\ log' = log /\ questions' = questions /\ answers' = answers /\ unknowns' = unknowns
      /\ certificates' = certificates /\ clock' = clock /\ upsets' = upsets /\ registry' = registry
  BY DEF Retire, world
<1>8. /\ \A j \in DOMAIN observations : /\ observations'[j].until = observations[j].until
                                      /\ observations'[j].revision = observations[j].revision
                                      /\ observations'[j].count = observations[j].count
                                      /\ observations'[j].rewrite = observations[j].rewrite
                                      /\ observations'[j].stored = observations[j].stored
  BY <1>4, <1>6
<1>9. Advances
  BY <1>6, <1>7, <1>8, RowTypes DEF Advances
<1>10. TablesTyped'
  BY <1>6, <1>7 DEF DeskInv, Tables, TablesTyped
<1>11. RowsAreSingle'
  BY <1>6, <1>7, <1>8 DEF DeskInv, Tables, RowsAreSingle
<1>12. HistoryIsOver'
  BY <1>2, <1>4, <1>6, <1>7 DEF DeskInv, Tables, HistoryIsOver
<1>13. StandsLogged' /\ AnswersPointBack' /\ ClosedOnEvidence'
  <2>1. StandsLogged'
    BY <1>6, <1>7, <1>8 DEF DeskInv, Tables, TablesFollowLog, StandsLogged
  <2>2. AnswersPointBack' /\ ClosedOnEvidence'
    BY <1>7 DEF DeskInv, Tables, TablesFollowLog, AnswersPointBack, ClosedOnEvidence
  <2> QED
    BY <2>1, <2>2
<1>14. LineageHolds'
  <2> SUFFICES ASSUME NEW j \in 2..Len(observations),
                      observations'[j].count < observations'[j - 1].count
               PROVE  observations'[j].rewrite \/ observations'[j - 1].until <= observations'[j].stored
    BY <1>6 DEF LineageHolds
  <2>1. j \in DOMAIN observations /\ j - 1 \in DOMAIN observations
    BY RowTypes
  <2>2. observations[j].count < observations[j - 1].count
    BY <1>8, <2>1
  <2>3. observations[j].rewrite \/ observations[j - 1].until <= observations[j].stored
    BY <2>2 DEF DeskInv, Tables, LineageHolds
  <2> QED
    BY <1>8, <2>1, <2>3
<1>15. PICK r : r = [req[w] EXCEPT !.todo = @ \ {i}, !.done = @ \cup {i}]
  OBVIOUS
<1>16. /\ r \in Retiring /\ r.pc = "retiring" /\ r.now = req[w].now
       /\ r.todo = req[w].todo \ {i} /\ r.done = req[w].done \cup {i}
  BY <1>1, <1>2, <1>15, RowTypes DEF Retiring
<1>17. Holds(r)
  BY <1>16 DEF Holds
<1>18. Promises(r)' /\ IsTimely(r)'
  BY <1>2, <1>6, <1>7, <1>8, <1>16, RetiringHolds, <1>1 DEF Promises, IsTimely
<1>19. Become(w, r)
  BY <1>15 DEF Retire
<1>20. Requests'
  BY <1>9, <1>17, <1>18, <1>19, RequestMoves
<1> QED
  BY <1>10, <1>11, <1>12, <1>13, <1>14, <1>20 DEF DeskInv, Tables, TablesFollowLog

\* The lapse is in the log before its Unknown is opened.
LEMMA AnnounceLapseKeeps ==
    ASSUME DeskInv, NEW w \in Workers, NEW i, AnnounceLapse(w, i)
    PROVE  DeskInv'
<1>1. req[w] \in Retiring /\ req[w].pc = "retiring" /\ i \in req[w].done /\ i \in DOMAIN observations
  BY RetiringHolds DEF AnnounceLapse
<1>2. Advances /\ Tables'
  BY OnlyLogs DEF AnnounceLapse, AppendEvent
<1>3. PICK r : r = [req[w] EXCEPT !.pc = "lapsing", !.done = @ \ {i}]
  OBVIOUS
<1>4. /\ r \in Retiring /\ r.pc = "lapsing" /\ r.now = req[w].now
      /\ r.todo = req[w].todo /\ r.done = req[w].done \ {i}
  BY <1>1, <1>3 DEF Retiring
<1>5. /\ clock' = clock /\ observations' = observations /\ Become(w, r) /\ <<"lapse", i>> \in log'
  BY <1>3 DEF AnnounceLapse, AppendEvent, world, rows
<1>6. Holds(r)
  BY <1>4 DEF Holds
<1>7. Promises(r)' /\ IsTimely(r)'
  BY <1>1, <1>4, <1>5, RetiringHolds DEF Promises, IsTimely
<1> QED
  BY <1>2, <1>5, <1>6, <1>7, RequestMoves DEF DeskInv

\* The row of an opened Unknown.
LEMMA OpenRow ==
    ASSUME DeskInv, NEW now \in Now
    PROVE  OpenUntil(now + 1) \in UnknownRow /\ OpenUntil(now + 1).status = "open"
BY RowTypes DEF OpenUntil, UnknownRow, Now

\* The publication Unknown has its lapse in the log.
LEMMA OpenLapseKeeps ==
    ASSUME DeskInv, NEW w \in Workers, OpenLapse(w)
    PROVE  DeskInv'
<1>1. req[w] \in Retiring /\ req[w].pc = "lapsing"
  BY RetiringHolds DEF OpenLapse
<1>2. \E i \in DOMAIN observations : <<"lapse", i>> \in log
  BY <1>1 DEF DeskInv, Requests, Promised, Promises
<1>3. PICK row : row = OpenUntil(req[w].now + 1)
  OBVIOUS
<1>4. row \in UnknownRow /\ row.status = "open"
  BY <1>1, <1>3, OpenRow DEF Retiring
<1>5. Tables'
  BY <1>2, <1>3, <1>4, UnknownWritten, DeskAssumption DEF OpenLapse, Unknowns
<1>6. PICK r : r = [req[w] EXCEPT !.pc = "retiring"]
  OBVIOUS
<1>7. /\ r \in Retiring /\ r.pc = "retiring" /\ r.now = req[w].now
      /\ r.todo = req[w].todo /\ r.done = req[w].done
  BY <1>1, <1>6 DEF Retiring
<1>8. Advances /\ clock' = clock /\ observations' = observations /\ Become(w, r)
  BY <1>6, Quiet DEF OpenLapse, world
<1>9. Holds(r)
  BY <1>7 DEF Holds
<1>10. Promises(r)' /\ IsTimely(r)'
  BY <1>1, <1>7, <1>8, RetiringHolds DEF Promises, IsTimely
<1> QED
  BY <1>5, <1>8, <1>9, <1>10, RequestMoves DEF DeskInv

\* What a request lists to abandon are rows as they were.
LEMMA ListOrphansKeeps ==
    ASSUME DeskInv, NEW w \in Workers, ListOrphans(w)
    PROVE  DeskInv'
<1>1. req[w] \in Retiring /\ req[w].pc = "retiring" /\ req[w].now <= clock
  BY RetiringHolds DEF ListOrphans
<1>2. Advances /\ Tables'
  BY OnlyLogs DEF ListOrphans
<1>3. PICK todo : todo = {[id |-> u, row |-> unknowns[u]] : u \in Orphans(req[w].now)}
  OBVIOUS
<1>4. todo \in SUBSET Orphan
  BY <1>3 DEF Orphans, Orphan, DeskInv, Tables, TablesTyped, Unknowns
<1>5. PICK r : r = [pc |-> "orphans", now |-> req[w].now, todo |-> todo]
  OBVIOUS
<1>6. r \in Listing /\ r.pc = "orphans" /\ r.now = req[w].now
  BY <1>1, <1>4, <1>5 DEF Listing, Retiring
<1>7. Become(w, r) /\ clock' = clock
  BY <1>3, <1>5 DEF ListOrphans, world
<1>8. Holds(r)
  BY <1>6 DEF Holds
<1>9. Promises(r)' /\ IsTimely(r)'
  BY <1>1, <1>6, <1>7 DEF Promises, IsTimely
<1> QED
  BY <1>2, <1>7, <1>8, <1>9, RequestMoves DEF DeskInv

\* The abandonment is in the log before the row is written.
LEMMA AnnounceOrphanKeeps ==
    ASSUME DeskInv, NEW w \in Workers, NEW o, AnnounceOrphan(w, o)
    PROVE  DeskInv'
<1>1. req[w] \in Listing /\ req[w].pc = "orphans" /\ req[w].now <= clock /\ o \in req[w].todo
  BY DEF AnnounceOrphan, DeskInv, Requests, ReqsTyped, Timely, Holds, IsTimely
<1>2. Advances /\ Tables'
  BY OnlyLogs DEF AnnounceOrphan, AppendEvent
<1>3. PICK r : r = [pc |-> "abandoning", now |-> req[w].now, todo |-> req[w].todo \ {o}, orphan |-> o]
  OBVIOUS
<1>4. r \in Abandoning /\ r.pc = "abandoning" /\ r.now = req[w].now /\ r.orphan = o
  BY <1>1, <1>3 DEF Listing, Abandoning
<1>5. Become(w, r) /\ clock' = clock /\ <<"orphan", o.id>> \in log'
  BY <1>3 DEF AnnounceOrphan, AppendEvent, world
<1>6. Holds(r)
  BY <1>4 DEF Holds
<1>7. Promises(r)' /\ IsTimely(r)'
  BY <1>1, <1>4, <1>5 DEF Promises, IsTimely
<1> QED
  BY <1>2, <1>5, <1>6, <1>7, RequestMoves DEF DeskInv

\* The row is abandoned, whatever it says by now: it is never closed by this.
LEMMA AbandonKeeps ==
    ASSUME DeskInv, NEW w \in Workers, Abandon(w)
    PROVE  DeskInv'
<1>1. /\ req[w] \in Abandoning /\ req[w].pc = "abandoning" /\ req[w].now <= clock
      /\ <<"orphan", req[w].orphan.id>> \in log
  BY DEF Abandon, DeskInv, Requests, ReqsTyped, Timely, Promised, Holds, IsTimely, Promises
<1>2. PICK o \in Orphan : o = req[w].orphan
  BY <1>1 DEF Abandoning
<1>3. o.id \in Apologies /\ o.row \in UnknownRow
  BY <1>2 DEF Orphan
<1>4. PICK row : row = [o.row EXCEPT !.status = "abandoned"]
  OBVIOUS
<1>5. row \in UnknownRow /\ row.status = "abandoned"
  BY <1>3, <1>4 DEF UnknownRow
<1>6. Upsert(o.id, row)
  BY <1>2, <1>4 DEF Abandon
<1>7. o.id \in Unknowns /\ o.id \notin Clients /\ o.id # Lapse
  BY <1>3, DeskAssumption DEF Unknowns
<1>8. Tables'
  BY <1>1, <1>2, <1>5, <1>6, <1>7, UnknownWritten DEF Abandon
<1>9. PICK r : r = [pc |-> "orphans", now |-> req[w].now, todo |-> req[w].todo]
  OBVIOUS
<1>10. r \in Listing /\ r.pc = "orphans" /\ r.now = req[w].now
  BY <1>1, <1>9 DEF Listing, Abandoning
<1>11. Advances /\ clock' = clock /\ Become(w, r)
  BY <1>9, Quiet DEF Abandon, world
<1>12. Holds(r)
  BY <1>10 DEF Holds
<1>13. Promises(r)' /\ IsTimely(r)'
  BY <1>1, <1>10, <1>11 DEF Promises, IsTimely
<1> QED
  BY <1>8, <1>11, <1>12, <1>13, RequestMoves DEF DeskInv

\* The request goes on with the registry as it is now.
LEMMA LoadTrustKeeps ==
    ASSUME DeskInv, NEW w \in Workers, LoadTrust(w)
    PROVE  DeskInv'
<1>1. req[w] \in Listing /\ req[w].now <= clock
  BY DEF LoadTrust, DeskInv, Requests, ReqsTyped, Timely, Holds, IsTimely
<1>2. Advances /\ Tables'
  BY OnlyLogs DEF LoadTrust
<1>3. PICK r : r = [pc |-> "loaded", now |-> req[w].now, trust |-> registry]
  OBVIOUS
<1>4. r \in Loaded /\ r.pc = "loaded" /\ r.now = req[w].now
  BY <1>1, <1>3 DEF Listing, Loaded, DeskInv, Tables, TablesTyped
<1>5. Become(w, r) /\ clock' = clock
  BY <1>3 DEF LoadTrust, world
<1>6. Holds(r)
  BY <1>4 DEF Holds
<1>7. Promises(r)' /\ IsTimely(r)'
  BY <1>1, <1>4, <1>5 DEF Promises, IsTimely
<1> QED
  BY <1>2, <1>5, <1>6, <1>7, RequestMoves DEF DeskInv

\* A request that ended holds nothing and promises nothing.
LEMMA Ends ==
    ASSUME DeskInv, Advances, NEW w \in Workers, Become(w, Idle)
    PROVE  Requests'
<1>1. PICK r : r = Idle
  OBVIOUS
<1>2. Holds(r) /\ Promises(r)' /\ IsTimely(r)'
  BY <1>1 DEF Idle, Holds, Promises, IsTimely
<1> QED
  BY <1>1, <1>2, RequestMoves

\* What a request holds when its handler runs.
LEMMA LoadedHolds ==
    ASSUME DeskInv, NEW w \in Workers, req[w].pc = "loaded"
    PROVE  req[w] \in Loaded /\ req[w].now <= clock /\ req[w].now \in Now
BY DEF DeskInv, Requests, ReqsTyped, Timely, Holds, IsTimely, Loaded

\* A read or a refused request changes nothing.
LEMMA AnsweredKeeps ==
    ASSUME DeskInv, NEW w \in Workers, Answered(w)
    PROVE  DeskInv'
<1>1. Advances /\ Tables'
  BY OnlyLogs DEF Answered
<1> QED
  BY <1>1, Ends DEF Answered, DeskInv

\* A scope without owner opens its Unknown.
LEMMA OpenGapKeeps ==
    ASSUME DeskInv, NEW w \in Workers, OpenGap(w)
    PROVE  DeskInv'
<1>1. req[w].now \in Now
  BY LoadedHolds DEF OpenGap, Handles
<1>2. PICK row : row = OpenUntil(req[w].now + 1)
  OBVIOUS
<1>3. row \in UnknownRow /\ row.status = "open"
  BY <1>1, <1>2, OpenRow
<1>4. Tables'
  BY <1>2, <1>3, UnknownWritten, DeskAssumption DEF OpenGap, Unknowns
<1>5. Advances
  BY Quiet DEF OpenGap, world
<1> QED
  BY <1>4, <1>5, Ends DEF OpenGap, DeskInv

\* An apology is opened, even one that was closed.
LEMMA RaiseApologyKeeps ==
    ASSUME DeskInv, NEW w \in Workers, NEW u \in Apologies, RaiseApology(w, u)
    PROVE  DeskInv'
<1>1. req[w].now \in Now
  BY LoadedHolds DEF RaiseApology, Handles
<1>2. PICK row : row = OpenUntil(req[w].now + 1)
  OBVIOUS
<1>3. row \in UnknownRow /\ row.status = "open"
  BY <1>1, <1>2, OpenRow
<1>4. Tables'
  BY <1>2, <1>3, UnknownWritten, DeskAssumption DEF RaiseApology, Unknowns
<1>5. Advances
  BY Quiet DEF RaiseApology, world
<1> QED
  BY <1>4, <1>5, Ends DEF RaiseApology, DeskInv

\* A client's Unknown is in the log before its row is written.
LEMMA LogUnknownKeeps ==
    ASSUME DeskInv, NEW w \in Workers, NEW u \in Clients, LogUnknown(w, u)
    PROVE  DeskInv'
<1>1. Advances /\ Tables'
  BY OnlyLogs DEF LogUnknown, AppendEvent
<1>2. PICK r : r = [pc |-> "recording", unknown |-> u]
  OBVIOUS
<1>3. r \in Recording /\ r.pc = "recording" /\ r.unknown = u
  BY <1>2 DEF Recording
<1>4. Become(w, r) /\ <<"unknown", u>> \in log'
  BY <1>2 DEF LogUnknown, AppendEvent
<1>5. Holds(r)
  BY <1>3 DEF Holds
<1>6. Promises(r)' /\ IsTimely(r)'
  BY <1>3, <1>4 DEF Promises, IsTimely
<1> QED
  BY <1>1, <1>4, <1>5, <1>6, RequestMoves DEF DeskInv

\* The row is what the log promised.
LEMMA RecordUnknownKeeps ==
    ASSUME DeskInv, NEW w \in Workers, RecordUnknown(w)
    PROVE  DeskInv'
<1>1. /\ req[w] \in Recording /\ <<"unknown", req[w].unknown>> \in log
  BY DEF RecordUnknown, DeskInv, Requests, ReqsTyped, Promised, Holds, Promises
<1>2. PICK u \in Clients : u = req[w].unknown
  BY <1>1 DEF Recording
<1>3. PICK row : row = OpenUntil(0 + 1)
  OBVIOUS
<1>4. 0 \in Now
  BY DeskAssumption DEF Now
<1>5. row \in UnknownRow /\ row.status = "open"
  BY <1>3, <1>4, OpenRow
<1>6. Upsert(u, row)
  BY <1>2, <1>3 DEF RecordUnknown, OpenUntil
<1>7. Tables'
  BY <1>1, <1>2, <1>5, <1>6, UnknownWritten, DeskAssumption DEF RecordUnknown, Unknowns
<1>8. Advances
  BY Quiet DEF RecordUnknown, world
<1> QED
  BY <1>7, <1>8, Ends DEF RecordUnknown, DeskInv

\* A certificate is in the log before it is stored.
LEMMA LogCertificateKeeps ==
    ASSUME DeskInv, NEW w \in Workers, NEW uuid \in Uuids, LogCertificate(w, uuid)
    PROVE  DeskInv'
<1>1. Advances /\ Tables'
  BY OnlyLogs DEF LogCertificate, AppendEvent
<1>2. PICK r : r = [pc |-> "issuing", uuid |-> uuid]
  OBVIOUS
<1>3. r \in Issuing /\ r.pc = "issuing" /\ r.uuid = uuid
  BY <1>2 DEF Issuing
<1>4. Become(w, r) /\ <<"certificate", uuid>> \in log'
  BY <1>2 DEF LogCertificate, AppendEvent
<1>5. Holds(r)
  BY <1>3 DEF Holds
<1>6. Promises(r)' /\ IsTimely(r)'
  BY <1>3, <1>4 DEF Promises, IsTimely
<1> QED
  BY <1>1, <1>4, <1>5, <1>6, RequestMoves DEF DeskInv

\* The certificate stored is one of the log.
LEMMA StoreCertificateKeeps ==
    ASSUME DeskInv, NEW w \in Workers, StoreCertificate(w)
    PROVE  DeskInv'
<1>1. req[w] \in Issuing /\ <<"certificate", req[w].uuid>> \in log
  BY DEF StoreCertificate, DeskInv, Requests, ReqsTyped, Promised, Holds, Promises
<1>2. PICK uuid \in Uuids : uuid = req[w].uuid
  BY <1>1 DEF Issuing
<1>3. /\ log' = log /\ questions' = questions /\ answers' = answers /\ unknowns' = unknowns
      /\ observations' = observations /\ clock' = clock /\ upsets' = upsets /\ registry' = registry
      /\ certificates' = certificates \cup {uuid}
  BY <1>2 DEF StoreCertificate, world
<1>4. TablesTyped' /\ RowsAreSingle' /\ HistoryIsOver'
  BY <1>2, <1>3 DEF DeskInv, Tables, TablesTyped, RowsAreSingle, HistoryIsOver
<1>5. StandsLogged'
  BY <1>1, <1>2, <1>3 DEF DeskInv, Tables, TablesFollowLog, StandsLogged
<1>6. AnswersPointBack' /\ ClosedOnEvidence' /\ LineageHolds'
  BY <1>3 DEF DeskInv, Tables, TablesFollowLog, AnswersPointBack, ClosedOnEvidence, LineageHolds
<1>7. Advances
  BY <1>3, Quiet
<1> QED
  BY <1>4, <1>5, <1>6, <1>7, Ends DEF StoreCertificate, DeskInv, Tables, TablesFollowLog

\* Time, the registry and failures change no row.
LEMMA WorldKeeps ==
    ASSUME DeskInv,
           Tick \/ (\E keys \in SUBSET Keys : Register(keys)) \/ (\E w \in Workers : Abort(w))
    PROVE  DeskInv'
<1>1. /\ clock' \in Now /\ clock <= clock' /\ upsets' \in 0..MaxUpsets /\ registry' \subseteq Keys
      /\ log' = log /\ UNCHANGED rows
  <2>1. clock \in Now /\ upsets \in 0..MaxUpsets /\ registry \subseteq Keys
    BY DEF DeskInv, Tables, TablesTyped
  <2>2. CASE Tick
    BY <2>1, <2>2, RowTypes DEF Tick, Now
  <2>3. CASE \E keys \in SUBSET Keys : Register(keys)
    BY <2>1, <2>3, RowTypes, DeskAssumption DEF Register, Now
  <2>4. CASE \E w \in Workers : Abort(w)
    BY <2>1, <2>4, RowTypes, DeskAssumption DEF Abort, Now
  <2> QED
    BY <2>2, <2>3, <2>4
<1>2. Tables'
  BY <1>1, LogGrows
<1>3. Advances
  BY <1>1 DEF Advances, rows
<1>4. Requests'
  <2>1. CASE req' = req
    BY <1>3, <2>1, RequestsStay
  <2>2. CASE \E w \in Workers : Abort(w)
    BY <1>3, <2>2, Ends DEF Abort
  <2> QED
    BY <2>1, <2>2 DEF Tick, Register
<1> QED
  BY <1>2, <1>4 DEF DeskInv

\* A question is stored once, with its event; what answers rely on stays.
LEMMA PostQuestionKeeps ==
    ASSUME DeskInv, NEW w \in Workers, NEW q \in Questions, NEW about \in Apologies \cup Clients,
           PostQuestion(w, q, about)
    PROVE  DeskInv'
<1>1. /\ answers' = answers /\ unknowns' = unknowns /\ observations' = observations
      /\ certificates' = certificates /\ clock' = clock /\ upsets' = upsets /\ registry' = registry
      /\ UNCHANGED world
  BY DEF PostQuestion, world
<1>2. CASE questions[q] # Unposted
  <2>1. Advances /\ Tables'
    BY <1>1, <1>2, OnlyLogs DEF PostQuestion, rows
  <2> QED
    BY <2>1, Ends DEF PostQuestion, DeskInv
<1>3. CASE questions[q] = Unposted
  <2>1. PICK row : row = [status |-> "queued", about |-> about]
    OBVIOUS
  <2>2. row \in QuestionRow
    BY <2>1 DEF QuestionRow, Unknowns
  <2>3. /\ questions' = [questions EXCEPT ![q] = row] /\ log' = log \cup {<<"question", q>>}
    BY <1>3, <2>1 DEF PostQuestion, AppendEvent
  <2>4. /\ questions' \in [Questions -> QuestionRow \cup {Unposted}]
        /\ \A p \in Questions : p # q => questions'[p] = questions[p]
    BY <2>2, <2>3 DEF DeskInv, Tables, TablesTyped
  <2>5. TablesTyped' /\ RowsAreSingle' /\ HistoryIsOver'
    BY <1>1, <2>4 DEF DeskInv, Tables, TablesTyped, RowsAreSingle, HistoryIsOver
  <2>6. StandsLogged'
    BY <1>1, <2>3, <2>4 DEF DeskInv, Tables, TablesFollowLog, StandsLogged
  <2>7. AnswersPointBack' /\ LineageHolds'
    BY <1>1 DEF DeskInv, Tables, TablesFollowLog, AnswersPointBack, LineageHolds
  <2>8. ClosedOnEvidence'
    <3>1. \A i \in DOMAIN answers : QuestionOf[answers[i].id] \in Questions
      BY RowTypes, DeskAssumption DEF AnswerRow
    <3>2. questions[q].status = "absent"
      BY <1>3 DEF Unposted
    <3>3. \A i \in DOMAIN answers :
            questions[QuestionOf[answers[i].id]].status \in {"answered", "conflict"} =>
              questions'[QuestionOf[answers[i].id]] = questions[QuestionOf[answers[i].id]]
      BY <2>4, <3>1, <3>2
    <3> QED
      BY <1>1, <3>3 DEF DeskInv, Tables, TablesFollowLog, ClosedOnEvidence
  <2>9. Advances
    BY <1>1, <2>3, Quiet
  <2> QED
    BY <2>5, <2>6, <2>7, <2>8, <2>9, Ends DEF PostQuestion, DeskInv, Tables, TablesFollowLog
<1> QED
  BY <1>2, <1>3

\* What an answer supersedes stands before it and answers the same question.
LEMMA SupersededIsPrior ==
    ASSUME DeskInv, NEW a \in Answers, NEW superseded \in Superseded(a, QuestionOf[a])
    PROVE  /\ superseded \in SUBSET Answers
           /\ \A p \in superseded : \E j \in DOMAIN answers :
                answers[j].id = p /\ QuestionOf[p] = QuestionOf[a]
<1>1. \A p \in Ids(Prior(QuestionOf[a])) :
        p \in Answers /\ \E j \in DOMAIN answers : answers[j].id = p /\ QuestionOf[p] = QuestionOf[a]
  BY RowTypes DEF Ids, Prior, AnswerRow
<1>2. Ids(First(QuestionOf[a])) \subseteq Ids(Prior(QuestionOf[a]))
  BY DEF Ids, First
<1>3. superseded \subseteq Ids(Prior(QuestionOf[a]))
  BY <1>2 DEF Superseded
<1> QED
  BY <1>1, <1>3

\* An answer admitted is in the table once, after those that were there.
LEMMA AdmitKeeps ==
    ASSUME DeskInv, NEW a \in Answers, NEW superseded \in SUBSET Answers,
           \A p \in superseded : \E j \in DOMAIN answers :
               answers[j].id = p /\ QuestionOf[p] = QuestionOf[a],
           answers' = Admit(a, superseded)
    PROVE  /\ answers' \in Seq(AnswerRow)
           /\ DOMAIN answers \subseteq DOMAIN answers'
           /\ \A i \in DOMAIN answers : answers'[i] = answers[i]
           /\ \E i \in DOMAIN answers' : answers'[i].id = a
           /\ \A i \in DOMAIN answers' : i \in DOMAIN answers \/ answers'[i].id = a
           /\ \A i, j \in DOMAIN answers' : answers'[i].id = answers'[j].id => i = j
           /\ AnswersPointBack'
<1>1. answers \in Seq(AnswerRow)
  BY DEF DeskInv, Tables, TablesTyped
<1>2. /\ \A i, j \in DOMAIN answers : answers[i].id = answers[j].id => i = j
      /\ AnswersPointBack
  BY DEF DeskInv, Tables, TablesFollowLog, RowsAreSingle
<1>3. CASE \E i \in DOMAIN answers : answers[i].id = a
  <2>1. answers' = answers
    BY <1>3 DEF Admit
  <2> QED
    BY <1>1, <1>2, <1>3, <2>1 DEF AnswersPointBack
<1>4. CASE ~\E i \in DOMAIN answers : answers[i].id = a
  <2>1. PICK row : row = [id |-> a, supersedes |-> superseded]
    OBVIOUS
  <2>2. row \in AnswerRow /\ row.id = a /\ row.supersedes = superseded
    BY <2>1 DEF AnswerRow
  <2>3. answers' = Append(answers, row)
    BY <1>4, <2>1 DEF Admit
  <2>4. /\ answers' \in Seq(AnswerRow) /\ DOMAIN answers' = 1..(Len(answers) + 1)
        /\ DOMAIN answers = 1..Len(answers) /\ Len(answers) \in Nat
        /\ \A i \in DOMAIN answers : answers'[i] = answers[i]
        /\ answers'[Len(answers) + 1] = row
    BY <1>1, <2>2, <2>3
  <2>5. \A i \in DOMAIN answers' : i \in DOMAIN answers \/ i = Len(answers) + 1
    BY <2>4
  <2>6. \A i, j \in DOMAIN answers' : answers'[i].id = answers'[j].id => i = j
    <3> SUFFICES ASSUME NEW i \in DOMAIN answers', NEW j \in DOMAIN answers',
                        answers'[i].id = answers'[j].id
                 PROVE  i = j
      OBVIOUS
    <3>1. CASE i \in DOMAIN answers /\ j \in DOMAIN answers
      BY <1>2, <2>4, <3>1
    <3>2. CASE i = Len(answers) + 1 /\ j = Len(answers) + 1
      BY <3>2
    <3>3. CASE i \in DOMAIN answers /\ j = Len(answers) + 1
      BY <1>4, <2>2, <2>4, <3>3
    <3>4. CASE i = Len(answers) + 1 /\ j \in DOMAIN answers
      BY <1>4, <2>2, <2>4, <3>4
    <3> QED
      BY <2>5, <3>1, <3>2, <3>3, <3>4
  <2>7. AnswersPointBack'
    <3> SUFFICES ASSUME NEW i \in DOMAIN answers', NEW p \in answers'[i].supersedes
                 PROVE  \E j \in 1..(i - 1) :
                          answers'[j].id = p /\ QuestionOf[p] = QuestionOf[answers'[i].id]
      BY DEF AnswersPointBack
    <3>1. CASE i \in DOMAIN answers
      <4>1. PICK j \in 1..(i - 1) : answers[j].id = p /\ QuestionOf[p] = QuestionOf[answers[i].id]
        BY <1>2, <2>4, <3>1 DEF AnswersPointBack
      <4>2. j \in DOMAIN answers
        BY <2>4, <3>1, <4>1
      <4> QED
        BY <2>4, <3>1, <4>1, <4>2
    <3>2. CASE i = Len(answers) + 1
      <4>1. PICK j \in DOMAIN answers : answers[j].id = p /\ QuestionOf[p] = QuestionOf[a]
        BY <2>2, <2>4, <3>2
      <4> QED
        BY <2>2, <2>4, <3>2, <4>1
    <3> QED
      BY <2>5, <3>1, <3>2
  <2>8. Len(answers) + 1 \in DOMAIN answers'
    BY <2>4
  <2>9. DOMAIN answers \subseteq DOMAIN answers'
    BY <2>4
  <2>10. \A i \in DOMAIN answers' : i \in DOMAIN answers \/ answers'[i].id = a
    BY <2>2, <2>4, <2>5
  <2> QED
    BY <2>2, <2>4, <2>6, <2>7, <2>8, <2>9, <2>10
<1> QED
  BY <1>3, <1>4

\* An answer brings its events, its row, the status of its question and the
\* evidence of the Unknown in one transaction.
LEMMA PostAnswerKeeps ==
    ASSUME DeskInv, NEW w \in Workers, NEW a \in Answers, PostAnswer(w, a)
    PROVE  DeskInv'
<1>1. PICK q : q = QuestionOf[a]
  OBVIOUS
<1>2. q \in Questions /\ questions[q] # Unposted /\ questions[q] \in QuestionRow
  BY <1>1, DeskAssumption DEF PostAnswer, DeskInv, Tables, TablesTyped
<1>3. PICK about \in Unknowns : about = questions[q].about
  BY <1>2 DEF QuestionRow
<1>4. PICK superseded \in Superseded(a, q) :
        /\ answers' = Admit(a, superseded)
        /\ questions' = [questions EXCEPT ![q].status =
                            IF Conflicts(q, superseded) THEN "conflict" ELSE "answered"]
        /\ unknowns' = IF unknowns[about] = NoRow THEN unknowns
                       ELSE [unknowns EXCEPT ![about] =
                               [status |-> IF Conflicts(q, superseded) THEN "open" ELSE "closed",
                                due |-> @.due, evidence |-> {a}]]
  BY <1>1, <1>3 DEF PostAnswer
<1>5. /\ log' = log \cup {<<"answer", a>>, <<"fact", a>>} /\ observations' = observations
      /\ certificates' = certificates /\ clock' = clock /\ upsets' = upsets /\ registry' = registry
  BY DEF PostAnswer, world
<1>6. /\ superseded \in SUBSET Answers
      /\ \A p \in superseded : \E j \in DOMAIN answers :
           answers[j].id = p /\ QuestionOf[p] = QuestionOf[a]
  BY <1>1, <1>4, SupersededIsPrior
<1>7. /\ answers' \in Seq(AnswerRow)
      /\ DOMAIN answers \subseteq DOMAIN answers'
      /\ \A i \in DOMAIN answers : answers'[i] = answers[i]
      /\ \E i \in DOMAIN answers' : answers'[i].id = a
      /\ \A i \in DOMAIN answers' : i \in DOMAIN answers \/ answers'[i].id = a
      /\ \A i, j \in DOMAIN answers' : answers'[i].id = answers'[j].id => i = j
      /\ AnswersPointBack'
  BY <1>4, <1>6, AdmitKeeps
<1>8. PICK status \in {"answered", "conflict"} :
        questions' = [questions EXCEPT ![q].status = status]
  BY <1>4
<1>9. PICK row : row = [questions[q] EXCEPT !.status = status]
  OBVIOUS
<1>10. row \in QuestionRow /\ row.status = status /\ row.about = about /\ row # Unposted
  <2>1. row \in QuestionRow /\ row.status = status /\ row.about = about
    BY <1>2, <1>3, <1>8, <1>9 DEF QuestionRow
  <2> QED
    BY <1>8, <2>1 DEF Unposted
<1>11. /\ questions' \in [Questions -> QuestionRow \cup {Unposted}] /\ questions'[q] = row
       /\ \A p \in Questions : p # q => questions'[p] = questions[p]
  <2>1. questions' = [questions EXCEPT ![q] = row]
    BY <1>8, <1>9
  <2> QED
    BY <1>2, <1>10, <2>1 DEF DeskInv, Tables, TablesTyped
<1>12. PICK entry \in UnknownRow :
         /\ entry.status \in {"open", "closed"} /\ entry.evidence = {a}
         /\ unknowns' = IF unknowns[about] = NoRow THEN unknowns
                        ELSE [unknowns EXCEPT ![about] = entry]
  <2>1. unknowns[about].due \in 0..(MaxClock + 1)
    BY <1>3 DEF DeskInv, Tables, TablesTyped, UnknownRow
  <2>2. PICK entry : entry = [status |-> IF Conflicts(q, superseded) THEN "open" ELSE "closed",
                              due |-> unknowns[about].due, evidence |-> {a}]
    OBVIOUS
  <2>3. entry \in UnknownRow /\ entry.status \in {"open", "closed"} /\ entry.evidence = {a}
    BY <2>1, <2>2 DEF UnknownRow
  <2>4. unknowns' = IF unknowns[about] = NoRow THEN unknowns ELSE [unknowns EXCEPT ![about] = entry]
    BY <1>4, <2>2
  <2> QED
    BY <2>3, <2>4
<1>13. /\ unknowns' \in [Unknowns -> UnknownRow]
       /\ \A u \in Unknowns : u # about \/ unknowns[u] = NoRow => unknowns'[u] = unknowns[u]
       /\ unknowns[about] # NoRow => unknowns'[about] = entry
  BY <1>3, <1>12 DEF DeskInv, Tables, TablesTyped
<1>14. TablesTyped'
  BY <1>5, <1>7, <1>11, <1>13 DEF DeskInv, Tables, TablesTyped
<1>15. RowsAreSingle' /\ HistoryIsOver' /\ LineageHolds'
  BY <1>5, <1>7 DEF DeskInv, Tables, RowsAreSingle, HistoryIsOver, LineageHolds
<1>16. StandsLogged'
  <2>1. \A p \in Questions : questions'[p] # Unposted => <<"question", p>> \in log'
    BY <1>2, <1>5, <1>11 DEF DeskInv, Tables, TablesFollowLog, StandsLogged
  <2>2. \A i \in DOMAIN answers' :
          {<<"answer", answers'[i].id>>, <<"fact", answers'[i].id>>} \subseteq log'
    BY <1>5, <1>7 DEF DeskInv, Tables, TablesFollowLog, StandsLogged
  <2>3. \A u \in Clients : unknowns'[u] # NoRow => <<"unknown", u>> \in log'
    BY <1>5, <1>13 DEF DeskInv, Tables, TablesFollowLog, StandsLogged, Unknowns
  <2>4. \A u \in Apologies : unknowns'[u].status = "abandoned" => <<"orphan", u>> \in log'
    <3> SUFFICES ASSUME NEW u \in Apologies, unknowns'[u].status = "abandoned"
                 PROVE  <<"orphan", u>> \in log'
      OBVIOUS
    <3>1. u \in Unknowns
      BY DEF Unknowns
    <3>2. unknowns'[u] = unknowns[u]
      BY <1>12, <1>13, <3>1
    <3> QED
      BY <1>5, <3>2 DEF DeskInv, Tables, TablesFollowLog, StandsLogged
  <2>5. unknowns'[Lapse] # NoRow => \E i \in DOMAIN observations' : <<"lapse", i>> \in log'
    BY <1>5, <1>13 DEF DeskInv, Tables, TablesFollowLog, StandsLogged, Unknowns
  <2>6. /\ \A i \in DOMAIN observations' : <<"manifest", observations'[i].revision>> \in log'
        /\ \A uuid \in certificates' : <<"certificate", uuid>> \in log'
    BY <1>5 DEF DeskInv, Tables, TablesFollowLog, StandsLogged
  <2> QED
    BY <2>1, <2>2, <2>3, <2>4, <2>5, <2>6 DEF StandsLogged
<1>17. ClosedOnEvidence'
  <2> SUFFICES ASSUME NEW u \in Unknowns, unknowns'[u].status = "closed"
               PROVE  \E i \in DOMAIN answers' :
                        /\ unknowns'[u].evidence = {answers'[i].id}
                        /\ questions'[QuestionOf[answers'[i].id]].about = u
                        /\ questions'[QuestionOf[answers'[i].id]].status \in {"answered", "conflict"}
    BY DEF ClosedOnEvidence
  <2>1. CASE unknowns'[u] = unknowns[u]
    <3>1. PICK i \in DOMAIN answers :
            /\ unknowns[u].evidence = {answers[i].id}
            /\ questions[QuestionOf[answers[i].id]].about = u
            /\ questions[QuestionOf[answers[i].id]].status \in {"answered", "conflict"}
      BY <2>1 DEF DeskInv, Tables, TablesFollowLog, ClosedOnEvidence
    <3>2. i \in DOMAIN answers' /\ answers'[i] = answers[i]
      BY <1>7
    <3>3. QuestionOf[answers[i].id] \in Questions
      BY RowTypes, DeskAssumption DEF AnswerRow
    <3>4. /\ questions'[QuestionOf[answers[i].id]].about = u
          /\ questions'[QuestionOf[answers[i].id]].status \in {"answered", "conflict"}
      BY <1>3, <1>8, <1>10, <1>11, <3>1, <3>3
    <3> QED
      BY <2>1, <3>1, <3>2, <3>4
  <2>2. CASE u = about /\ unknowns'[u] = entry
    <3>1. PICK i \in DOMAIN answers' : answers'[i].id = a
      BY <1>7
    <3>2. QuestionOf[answers'[i].id] = q
      BY <1>1, <3>1
    <3> QED
      BY <1>8, <1>10, <1>11, <1>12, <2>2, <3>1, <3>2
  <2> QED
    BY <1>13, <2>1, <2>2
<1>18. Advances
  BY <1>5, Quiet
<1>19. Requests'
  BY <1>18, Ends DEF PostAnswer
<1> QED
  BY <1>7, <1>14, <1>15, <1>16, <1>17, <1>19 DEF DeskInv, Tables, TablesFollowLog

\* An observation counts fewer than the last one only as the handler allows.
LEMMA PostManifestKeeps ==
    ASSUME DeskInv, NEW w \in Workers, NEW m \in Manifests, PostManifest(w, m)
    PROVE  DeskInv'
<1>1. /\ req[w].now \in Now /\ req[w].now <= clock
  BY LoadedHolds DEF PostManifest, Handles
<1>2. PICK o : o = [revision |-> m.revision, count |-> m.count, rewrite |-> m.rewrite,
                    status |-> "current", until |-> req[w].now + 1, stored |-> clock]
  OBVIOUS
<1>3. /\ o \in Observation /\ o.revision = m.revision /\ o.count = m.count
      /\ o.rewrite = m.rewrite /\ o.status = "current" /\ o.stored = clock
  BY <1>1, <1>2, RowTypes DEF Observation, Manifests, Now
<1>4. observations \in Seq(Observation)
  BY DEF DeskInv, Tables, TablesTyped
<1>5. PICK n \in Nat : n = Len(observations)
  BY <1>4
<1>6. /\ observations' = Append(observations, o) /\ log' = log \cup {<<"manifest", m.revision>>}
      /\ questions' = questions /\ answers' = answers /\ unknowns' = unknowns
      /\ certificates' = certificates /\ clock' = clock /\ upsets' = upsets /\ registry' = registry
  BY <1>2 DEF PostManifest, AppendEvent, world
<1>7. /\ observations' \in Seq(Observation) /\ DOMAIN observations' = 1..(n + 1)
      /\ DOMAIN observations = 1..n /\ Len(observations') = n + 1
      /\ \A i \in 1..n : observations'[i] = observations[i]
      /\ observations'[n + 1] = o
  BY <1>3, <1>4, <1>5, <1>6
<1>8. \A i \in 1..(n + 1) : i \in 1..n \/ i = n + 1
  OBVIOUS
<1>9. \A i \in 1..n : observations[i].revision # m.revision
  BY <1>7 DEF PostManifest
<1>10. TablesTyped'
  BY <1>6, <1>7 DEF DeskInv, Tables, TablesTyped
<1>11. RowsAreSingle'
  <2>1. \A i, j \in 1..n : observations[i].revision = observations[j].revision => i = j
    BY <1>7 DEF DeskInv, Tables, RowsAreSingle
  <2>2. ASSUME NEW i \in 1..(n + 1), NEW j \in 1..(n + 1),
               observations'[i].revision = observations'[j].revision
        PROVE  i = j
    BY <1>3, <1>7, <1>8, <1>9, <2>1, <2>2
  <2>3. \A i, j \in DOMAIN answers' : answers'[i].id = answers'[j].id => i = j
    BY <1>6 DEF DeskInv, Tables, RowsAreSingle
  <2> QED
    BY <1>7, <2>2, <2>3 DEF RowsAreSingle
<1>12. HistoryIsOver'
  BY <1>3, <1>6, <1>7, <1>8 DEF DeskInv, Tables, HistoryIsOver
<1>13. StandsLogged'
  <2>1. \A i \in DOMAIN observations' : <<"manifest", observations'[i].revision>> \in log'
    <3>1. \A i \in 1..n : <<"manifest", observations[i].revision>> \in log
      BY <1>7 DEF DeskInv, Tables, TablesFollowLog, StandsLogged
    <3> QED
      BY <1>3, <1>6, <1>7, <1>8, <3>1
  <2>2. unknowns'[Lapse] # NoRow => \E i \in DOMAIN observations' : <<"lapse", i>> \in log'
    <3>1. 1..n \subseteq 1..(n + 1)
      OBVIOUS
    <3> QED
      BY <1>6, <1>7, <3>1 DEF DeskInv, Tables, TablesFollowLog, StandsLogged
  <2> QED
    BY <1>6, <2>1, <2>2 DEF DeskInv, Tables, TablesFollowLog, StandsLogged
<1>14. AnswersPointBack' /\ ClosedOnEvidence'
  BY <1>6 DEF DeskInv, Tables, TablesFollowLog, AnswersPointBack, ClosedOnEvidence
<1>15. LineageHolds'
  <2> SUFFICES ASSUME NEW i \in 2..(n + 1), observations'[i].count < observations'[i - 1].count
               PROVE  observations'[i].rewrite \/ observations'[i - 1].until <= observations'[i].stored
    BY <1>7 DEF LineageHolds
  <2>1. i - 1 \in 1..n
    OBVIOUS
  <2>2. CASE i \in 1..n
    <3>1. i \in 2..Len(observations)
      BY <1>5, <2>2
    <3>2. /\ observations'[i] = observations[i] /\ observations'[i - 1] = observations[i - 1]
      BY <1>7, <2>1, <2>2
    <3> QED
      BY <3>1, <3>2 DEF DeskInv, Tables, LineageHolds
  <2>3. CASE i = n + 1
    <3>1. n \in 1..n /\ observations # <<>> /\ Last(observations) = observations[n]
      BY <1>5, <2>1, <2>3, <1>7 DEF Last
    <3>2. ~Regresses(m, observations[n])
      BY <3>1 DEF PostManifest
    <3>3. observations'[i] = o /\ observations'[i - 1] = observations[n]
      BY <1>7, <2>3, <3>1
    <3>4. observations[n] \in Observation
      BY <1>7, <3>1, RowTypes
    <3>5. m.rewrite \/ observations[n].status = "historical"
      BY <1>3, <3>2, <3>3, <3>4 DEF Regresses, Observation
    <3>6. m.rewrite \/ observations[n].until <= clock
      BY <1>7, <3>1, <3>5 DEF DeskInv, Tables, HistoryIsOver
    <3> QED
      BY <1>3, <3>3, <3>6
  <2> QED
    BY <1>8, <2>2, <2>3
<1>16. Advances
  <2>1. 1..n \subseteq 1..(n + 1)
    OBVIOUS
  <2> QED
    BY <1>6, <1>7, <2>1, RowTypes DEF Advances
<1>17. Requests'
  BY <1>16, Ends DEF PostManifest
<1> QED
  BY <1>10, <1>11, <1>12, <1>13, <1>14, <1>15, <1>17 DEF DeskInv, Tables, TablesFollowLog

-----------------------------------------------------------------------------

\* Every statement of a request keeps the invariant.
LEMMA ServeKeeps ==
    ASSUME DeskInv, NEW w \in Workers, Serve(w)
    PROVE  DeskInv'
<1>1. CASE Arrive(w) \/ OpenLapse(w) \/ ListOrphans(w) \/ Abandon(w) \/ LoadTrust(w)
  BY <1>1, ArriveKeeps, OpenLapseKeeps, ListOrphansKeeps, AbandonKeeps, LoadTrustKeeps
<1>2. CASE \E i \in 1..Cardinality(Revisions) : Retire(w, i) \/ AnnounceLapse(w, i)
  BY <1>2, RetireKeeps, AnnounceLapseKeeps
<1>3. CASE \E o \in IF req[w].pc = "orphans" THEN req[w].todo ELSE {} : AnnounceOrphan(w, o)
  BY <1>3, AnnounceOrphanKeeps
<1>4. CASE Answered(w) \/ OpenGap(w) \/ RecordUnknown(w) \/ StoreCertificate(w)
  BY <1>4, AnsweredKeeps, OpenGapKeeps, RecordUnknownKeeps, StoreCertificateKeeps
<1>5. CASE \E q \in Questions, u \in Apologies \cup Clients : PostQuestion(w, q, u)
  BY <1>5, PostQuestionKeeps
<1>6. CASE \E a \in Answers : PostAnswer(w, a)
  BY <1>6, PostAnswerKeeps
<1>7. CASE \E u \in Clients : LogUnknown(w, u)
  BY <1>7, LogUnknownKeeps
<1>8. CASE \E u \in Apologies : RaiseApology(w, u)
  BY <1>8, RaiseApologyKeeps
<1>9. CASE \E m \in Manifests : PostManifest(w, m)
  BY <1>9, PostManifestKeeps
<1>10. CASE \E uuid \in Uuids : LogCertificate(w, uuid)
  BY <1>10, LogCertificateKeeps
<1> QED
  BY <1>1, <1>2, <1>3, <1>4, <1>5, <1>6, <1>7, <1>8, <1>9, <1>10 DEF Serve

\* So does every step.
LEMMA DeskNext == DeskInv /\ [Next]_vars => DeskInv'
<1> SUFFICES ASSUME DeskInv, [Next]_vars PROVE DeskInv'
  OBVIOUS
<1>1. CASE UNCHANGED vars
  <2>1. log' = log /\ UNCHANGED rows /\ clock' = clock /\ upsets' = upsets /\ registry' = registry
        /\ req' = req
    BY <1>1 DEF vars, rows
  <2>2. clock <= clock' /\ clock' \in Now /\ upsets' \in 0..MaxUpsets /\ registry' \subseteq Keys
    BY <2>1, RowTypes DEF DeskInv, Tables, TablesTyped
  <2>3. Tables'
    BY <2>1, <2>2, LogGrows
  <2>4. Advances
    BY <2>1, Quiet DEF rows
  <2> QED
    BY <2>1, <2>3, <2>4, RequestsStay DEF DeskInv
<1> QED
  BY <1>1, ServeKeeps, WorldKeeps DEF Next

-----------------------------------------------------------------------------

\* Tables and requests are sound at every instant.
THEOREM DeskIsSound == Spec => []DeskInv
BY DeskInit, DeskNext, PTL DEF Spec

\* Whatever stands in a table is in the signed log, answers supersede what stood
\* before them, and an Unknown is closed only on an admitted answer's evidence.
THEOREM TablesAreExplained == Spec => []TablesFollowLog
<1>1. DeskInv => TablesFollowLog
  BY DEF DeskInv, Tables
<1> QED
  BY <1>1, DeskIsSound, PTL

\* The published lineage loses events only by a signed rewrite or after the
\* observation before it had lapsed.
THEOREM LineageIsKept == Spec => []LineageHolds
<1>1. DeskInv => LineageHolds
  BY DEF DeskInv, Tables
<1> QED
  BY <1>1, DeskIsSound, PTL

\* The types of the run's own type invariant follow.
THEOREM DeskTypes == Spec => []TypeOK
<1>1. DeskInv => TypeOK
  <2> SUFFICES ASSUME DeskInv PROVE TypeOK
    OBVIOUS
  <2>1. /\ clock \in 0..MaxClock /\ upsets \in 0..MaxUpsets /\ registry \subseteq Keys
        /\ certificates \subseteq Uuids
        /\ unknowns \in [Unknowns -> [status : {"absent", "open", "closed", "abandoned"},
                                      due : 0..MaxClock + 1, evidence : SUBSET Answers]]
    BY DEF DeskInv, Tables, TablesTyped, UnknownRow, Now
  <2>2. \A q \in Questions : questions[q] = Unposted \/ questions[q] \in QuestionRow
    BY DEF DeskInv, Tables, TablesTyped
  <2>3. \A i \in DOMAIN observations : observations[i].status \in {"current", "historical"}
    BY RowTypes DEF Observation
  <2>4. \A i \in DOMAIN answers : answers[i] \in AnswerRow
    BY RowTypes
  <2> QED
    BY <2>1, <2>2, <2>3, <2>4 DEF TypeOK, QuestionRow, AnswerRow, DeskInv, Tables, RowsAreSingle
<1> QED
  BY <1>1, DeskIsSound, PTL

=============================================================================
