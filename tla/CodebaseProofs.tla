-------------------------- MODULE CodebaseProofs --------------------------
(***************************************************************************)
(* What holds of the Codebase store and of what is read from it.           *)
(*                                                                         *)
(* Of the store, for any number of events, admitting processes, worktrees  *)
(* and publishers, with Git and fsck beside them and whoever dies where:   *)
(* a process at work holds the lock, so at most one is; it knows of its    *)
(* marker that it is the one open marker and of its event how far it has   *)
(* come.  Git only ever moves an event into `moved`, so that an event that *)
(* was in the tree is in the tree or moved from then on.                   *)
(*                                                                         *)
(* Of the readers (module CurrentView), for any events, keys, scopes and   *)
(* stewards and any order of what happens to them: a head stands on events *)
(* that are eligible and that no observed revocation covers, and taking a  *)
(* key away makes no other event eligible or retired.                      *)
(***************************************************************************)
EXTENDS ManifestLineage, CurrentView, SequenceTheorems, FiniteSetTheorems,
        WellFoundedInduction, TLAPS

\* What a process has at hand: an event to admit, or a marker to replay.
Recovering == {"r-rename", "r-unstage", "r-index", "r-receipt", "r-close"}
Admitting  == {"rename", "unstage", "renamed", "index", "indexed", "receipt", "receipted", "done"}

\* The event was in the tree at some time.
Known(e) == e \in events \cup moved

\* The lock is held by whoever is at work.
LockHeld ==
  /\ \A p \in Procs : proc[p].pc # "idle" => lock = p
  /\ \A q \in Publishers : pub[q].pc \in {"sign", "register"} => lock = q

\* What a process that replays the marker of the event e knows.
ReplayKnows(pc, e) ==
  /\ pc \in {"r-unstage", "r-index", "r-receipt"} => Known(e)
  /\ pc = "r-receipt" /\ checks = 0 => e \in index \cup moved
  /\ pc = "r-close" => receipts[e] # 0 \/ e \notin events \/ e \in moved

\* What a process that admits the event e knows.
AdmissionKnows(pc, e) ==
  /\ pc # "rename" => Known(e)
  /\ pc \in {"indexed", "receipt"} /\ checks = 0 => e \in index \cup moved
  /\ pc \in {"receipted", "done"} => receipts[e] # 0
  /\ pc \notin {"receipted", "done"} => receipts[e] = 0

\* The one open marker is the one a process works on.
Knows(p) ==
  LET pc == proc[p].pc
      g  == proc[p].gen
      e  == proc[p].event
  IN  /\ pc # "idle" => e \in Events
      /\ pc = "mark" => Open = {} /\ g = Len(journal) + 1 /\ receipts[e] = 0
      /\ pc \in Recovering => g \in Open /\ ReplayKnows(pc, journal[g].event)
      /\ pc \in Admitting  => g \in Open /\ journal[g].event = e /\ AdmissionKnows(pc, e)

WorkIsMarked == \A p \in Procs : Knows(p)

ChecksAreCounted == \A q \in Publishers : pub[q].pc = "repair" => checks > 0

Markers   == [event : Events, state : States]
Processes == [pc : Pcs, event : Events \cup {Nobody}, gen : Nat]
PubPcs    == {"idle", "lock", "sign", "register", "post", "record", "repair"}
Documents == [parents : SUBSET Nat, events : SUBSET Events, branch : Trees]
Work      == [pc : PubPcs, events : SUBSET Events, rewrite : BOOLEAN,
              parents : SUBSET Nat, id : Nat]

\* A manifest is stored under its digest.
DistinctManifests == \A i, j \in Ids : manifests[i] = manifests[j] => i = j

\* The types of what is not the journal's.
LineageTypeOK ==
  /\ commit \in [Trees -> SUBSET Events]
  /\ past \in [Trees -> SUBSET SUBSET Events]
  /\ manifests \in Seq(Documents)
  /\ kept \in [Trees -> SUBSET Nat] /\ register \subseteq Nat
  /\ records \in [Trees -> SUBSET Nat]
  /\ pub \in [Publishers -> Work]
  /\ checks \in Nat
  /\ DistinctManifests

JournalInv ==
  /\ JournalTypeOK /\ LineageTypeOK
  /\ LockHeld /\ WorkIsMarked /\ ChecksAreCounted
  /\ OneOpenMarker /\ ReceiptIsBacked /\ EventIsAccounted /\ IndexUnlessChecked

-----------------------------------------------------------------------------
(* Lemmas about the operators *)

\* The minimum of one number.
LEMMA MinOfOne ==
  ASSUME NEW n \in Nat, NEW S, n \in S, \A m \in S : m = n
  PROVE  Min(S) = n
<1>1. \E x \in S : \A y \in S : x =< y
  OBVIOUS
<1>2. Min(S) \in S
  BY <1>1 DEF Min
<1> QED
  BY <1>2

\* Marking changes the state of one marker and nothing else of the journal.
LEMMA Marking ==
  ASSUME NEW j \in Seq(Markers), NEW g \in DOMAIN j, NEW s \in States,
         NEW k, k = [j EXCEPT ![g].state = s]
  PROVE  /\ k \in Seq(Markers)
         /\ DOMAIN k = DOMAIN j /\ Len(k) = Len(j)
         /\ \A i \in DOMAIN j : k[i].event = j[i].event
         /\ \A i \in DOMAIN j : k[i].state = (IF i = g THEN s ELSE j[i].state)
<1>1. g \in 1..Len(j) /\ j[g] \in Markers
  BY ElementOfSeq, LenProperties
<1> DEFINE m == [j[g] EXCEPT !.state = s]
<1>2. m \in Markers /\ m.event = j[g].event /\ m.state = s
  BY <1>1 DEF Markers
<1>3. k = [j EXCEPT ![g] = m]
  OBVIOUS
<1> HIDE DEF m
<1>4. /\ k \in Seq(Markers) /\ Len(k) = Len(j)
      /\ \A i \in 1..Len(j) : k[i] = IF i = g THEN m ELSE j[i]
  BY <1>1, <1>2, <1>3, ExceptSeq
<1> QED
  BY <1>1, <1>2, <1>4, LenProperties

\* A new marker is the last of the journal.
LEMMA Appending ==
  ASSUME NEW j \in Seq(Markers), NEW m \in Markers, NEW k, k = Append(j, m)
  PROVE  /\ k \in Seq(Markers)
         /\ Len(k) = Len(j) + 1 /\ Len(j) \in Nat
         /\ DOMAIN j = 1..Len(j) /\ DOMAIN k = DOMAIN j \cup {Len(j) + 1}
         /\ k[Len(j) + 1] = m
         /\ \A i \in DOMAIN j : k[i] = j[i]
  BY AppendProperties, LenProperties

\* Whoever is at work is at work alone.
LEMMA Alone ==
  ASSUME JournalInv, NEW p \in Procs, ~AtPc(p, "idle")
  PROVE  /\ lock = p
         /\ \A o \in Procs \ {p} : proc[o].pc = "idle"
         /\ \A q \in Publishers : pub[q].pc \notin {"sign", "register"}
  BY LineageAssumption DEF JournalInv, LockHeld, AtPc

-----------------------------------------------------------------------------
(* The steps of a process *)

\* A step of the journal leaves the lineage alone.
Beside == UNCHANGED <<git, lineage, pub, checks, mix>>

JournalCore ==
  JournalTypeOK /\ OneOpenMarker /\ ReceiptIsBacked /\ EventIsAccounted /\ IndexUnlessChecked

\* What the proof of a step starts from.
LEMMA Facts ==
  ASSUME JournalInv, NEW p \in Procs
  PROVE  /\ proc \in [Procs -> Processes] /\ proc[p] \in Processes
         /\ journal \in Seq(Markers)
         /\ Len(journal) \in Nat /\ Generations = 1..Len(journal)
         /\ \A g \in Generations : journal[g] \in Markers /\ g \in Nat /\ g > 0
         /\ \A g \in Open : Open = {g} /\ Min(Open) = g
         /\ receipts \in [Events -> Nat]
<1>1. journal \in Seq(Markers) /\ proc \in [Procs -> Processes] /\ receipts \in [Events -> Nat]
  BY DEF JournalInv, JournalTypeOK, Markers, Processes
<1>2. Len(journal) \in Nat /\ Generations = 1..Len(journal)
  BY <1>1, LenProperties DEF Generations
<1>3. \A g \in Generations : journal[g] \in Markers /\ g \in Nat /\ g > 0
  BY <1>1, <1>2, ElementOfSeq
<1>4. ASSUME NEW g \in Open PROVE Open = {g} /\ Min(Open) = g
  <2>1. \A h \in Open : h = g
    BY DEF JournalInv, OneOpenMarker
  <2> QED
    BY <2>1, <1>3, MinOfOne DEF Open
<1> QED
  BY <1>1, <1>2, <1>3, <1>4

\* A process that gives up leaves everything to the next one.
LEMMA GivingUp ==
  ASSUME JournalInv, NEW p \in Procs, Return(p), UNCHANGED <<files, moved, checks>>,
         torn' \in SUBSET Directories, crashes' \in 0..MaxCrashes
  PROVE  JournalCore' /\ Knows(p)'
<1>1. proc' = [proc EXCEPT ![p] = Idle] /\ UNCHANGED <<files, moved, checks>>
  BY DEF Return
<1>2. JournalTypeOK'
  BY <1>1 DEF JournalInv, JournalTypeOK, Idle, Pcs, files
<1>3. Knows(p)'
  BY <1>1, Facts DEF Knows, Idle, Recovering, Admitting
<1> QED
  BY <1>1, <1>2, <1>3 DEF JournalInv, JournalCore, OneOpenMarker, ReceiptIsBacked,
     EventIsAccounted, IndexUnlessChecked, CommittedIsIndexed, Open, Generations, files

\* The marker that recovery reads is the one that is open.
LEMMA ReadingAMarker ==
  ASSUME JournalInv, NEW p \in Procs, RecoverNext(p), Beside
  PROVE  JournalCore' /\ Knows(p)'
<1>1. PICK g \in Open : Min(Open) = g /\ Open = {g} /\ g \in Nat /\ journal[g] \in Markers
  BY Facts DEF RecoverNext, Open
<1>2. PICK pc : /\ pc = IF RolledBack(g) THEN "r-close"
                        ELSE IF journal[g].state = "staged" /\ journal[g].event \in staged
                             THEN "r-rename" ELSE "r-index"
                /\ proc' = [proc EXCEPT ![p].gen = g, ![p].pc = pc]
  BY <1>1 DEF RecoverNext
<1>3. UNCHANGED <<events, staged, journal, receipts, index, moved, torn, crashes, checks>>
  BY DEF RecoverNext, Beside, files
<1>4. JournalTypeOK'
  <2>1. pc \in Pcs
    BY <1>2 DEF Pcs
  <2>2. proc' \in [Procs -> Processes]
    <3>1. /\ proc \in [Procs -> Processes]
          /\ [proc[p] EXCEPT !.gen = g, !.pc = pc] \in Processes
      BY <1>1, <2>1, Facts DEF Processes
    <3>2. proc' = [proc EXCEPT ![p] = [proc[p] EXCEPT !.gen = g, !.pc = pc]]
      BY <1>2, <3>1
    <3> QED
      BY <3>1, <3>2
  <2> QED
    BY <1>3, <2>2 DEF JournalInv, JournalTypeOK, Processes
<1>5. proc'[p].pc = pc /\ proc'[p].gen = g /\ proc'[p].event = proc[p].event
  BY <1>2, Facts DEF Processes
<1>6. pc \in Recovering /\ ReplayKnows(pc, journal[g].event)
  BY <1>1, <1>2 DEF RecoverNext, Contradicted, RolledBack, Recovering, ReplayKnows, Known
<1>7. proc[p].event \in Events
  BY DEF JournalInv, WorkIsMarked, Knows, RecoverNext, AtPc
<1>8. Knows(p)'
  BY <1>1, <1>3, <1>5, <1>6, <1>7
     DEF Knows, Recovering, Admitting, ReplayKnows, Known, Open, Generations
<1> QED
  BY <1>3, <1>4, <1>8 DEF JournalInv, JournalCore, OneOpenMarker, ReceiptIsBacked,
     EventIsAccounted, IndexUnlessChecked, CommittedIsIndexed, Open, Generations

\* A process that goes on to the next step, its event and its marker in hand.
LEMMA GoingOn ==
  ASSUME JournalInv, NEW p \in Procs, NEW pc \in Pcs, Goto(p, pc)
  PROVE  /\ proc' \in [Procs -> Processes]
         /\ proc'[p].pc = pc /\ proc'[p].gen = proc[p].gen /\ proc'[p].event = proc[p].event
  BY Facts DEF Goto, Processes

\* What a process at work has in hand.
LEMMA InHand ==
  ASSUME JournalInv, NEW p \in Procs
  PROVE  /\ Knows(p)
         /\ proc[p].pc \in Recovering \cup Admitting =>
              /\ proc[p].gen \in Open /\ Open = {proc[p].gen}
              /\ proc[p].gen \in Generations
              /\ journal[proc[p].gen].event \in Events
              /\ proc[p].event \in Events
  BY Facts DEF JournalInv, WorkIsMarked, Knows, Recovering, Admitting, Open, Markers

\* Replaying: the event is renamed, unstaged, listed and receipted.
LEMMA Replaying ==
  ASSUME JournalInv, NEW p \in Procs, Beside,
         RecoverRename(p) \/ RecoverUnstage(p) \/ RecoverIndex(p) \/ RecoverReceipt(p)
  PROVE  JournalCore' /\ Knows(p)'
<1> DEFINE g == proc[p].gen
           e == journal[g].event
<1>1. proc[p].pc \in Recovering
  BY DEF RecoverRename, RecoverUnstage, RecoverIndex, RecoverReceipt, AtPc, Recovering
<1>2. g \in Open /\ g \in Generations /\ e \in Events /\ proc[p].event \in Events
  BY <1>1, InHand
<1>3. UNCHANGED <<journal, moved, torn, crashes, checks>>
  BY DEF RecoverRename, RecoverUnstage, RecoverIndex, RecoverReceipt, Beside
<1>4. CASE RecoverRename(p)
  <2>1. events' = events \cup {e} /\ UNCHANGED <<staged, receipts, index>>
    BY <1>4 DEF RecoverRename
  <2>2. /\ proc' \in [Procs -> Processes]
        /\ proc'[p].pc = "r-unstage" /\ proc'[p].gen = g /\ proc'[p].event = proc[p].event
    BY <1>4, GoingOn DEF RecoverRename, Pcs
  <2>3. JournalTypeOK'
    BY <1>2, <1>3, <2>1, <2>2 DEF JournalInv, JournalTypeOK, Processes
  <2>4. Knows(p)'
    BY <1>2, <1>3, <2>1, <2>2 DEF Knows, Recovering, Admitting, ReplayKnows, Known, Open, Generations
  <2> QED
    BY <1>2, <1>3, <2>1, <2>3, <2>4 DEF JournalInv, JournalCore, OneOpenMarker, ReceiptIsBacked,
       EventIsAccounted, IndexUnlessChecked, CommittedIsIndexed, Open, Generations
<1>5. CASE RecoverUnstage(p)
  <2>1. staged' = staged \ {e} /\ UNCHANGED <<events, receipts, index>>
    BY <1>5 DEF RecoverUnstage
  <2>2. /\ proc' \in [Procs -> Processes]
        /\ proc'[p].pc = "r-index" /\ proc'[p].gen = g /\ proc'[p].event = proc[p].event
    BY <1>5, GoingOn DEF RecoverUnstage, Pcs
  <2>3. JournalTypeOK'
    BY <1>2, <1>3, <2>1, <2>2 DEF JournalInv, JournalTypeOK, Processes
  <2>4. Known(e)
    BY <1>5, InHand DEF Knows, RecoverUnstage, AtPc, Recovering, ReplayKnows
  <2>5. Knows(p)'
    BY <1>2, <1>3, <2>1, <2>2, <2>4 DEF Knows, Recovering, Admitting, ReplayKnows, Known, Open, Generations
  <2> QED
    BY <1>3, <2>1, <2>3, <2>5 DEF JournalInv, JournalCore, OneOpenMarker, ReceiptIsBacked,
       EventIsAccounted, IndexUnlessChecked, CommittedIsIndexed, Open, Generations
<1>6. CASE RecoverIndex(p)
  <2>1. index' = events /\ UNCHANGED <<events, staged, receipts>>
    BY <1>6 DEF RecoverIndex
  <2>2. /\ proc' \in [Procs -> Processes]
        /\ proc'[p].pc = "r-receipt" /\ proc'[p].gen = g /\ proc'[p].event = proc[p].event
    BY <1>6, GoingOn DEF RecoverIndex, Pcs
  <2>3. JournalTypeOK'
    BY <1>2, <1>3, <2>1, <2>2 DEF JournalInv, JournalTypeOK, Processes
  <2>4. Known(e)
    BY <1>6, InHand DEF Knows, RecoverIndex, AtPc, Recovering, ReplayKnows
  <2>5. Knows(p)'
    BY <1>2, <1>3, <2>1, <2>2, <2>4 DEF Knows, Recovering, Admitting, ReplayKnows, Known, Open, Generations
  <2> QED
    BY <1>3, <2>1, <2>3, <2>5 DEF JournalInv, JournalCore, OneOpenMarker, ReceiptIsBacked,
       EventIsAccounted, IndexUnlessChecked, CommittedIsIndexed, Open, Generations
<1>7. CASE RecoverReceipt(p)
  <2>1. UNCHANGED <<events, staged, index>>
    BY <1>7 DEF RecoverReceipt
  <2>2. /\ proc' \in [Procs -> Processes]
        /\ proc'[p].pc = "r-close" /\ proc'[p].gen = g /\ proc'[p].event = proc[p].event
    BY <1>7, GoingOn DEF RecoverReceipt, Pcs
  <2>3. g \in Nat /\ g > 0 /\ receipts \in [Events -> Nat]
    BY <1>2, Facts
  <2>4. /\ receipts' \in [Events -> Nat]
        /\ receipts'[e] = IF receipts[e] = 0 THEN g ELSE receipts[e]
        /\ \A o \in Events \ {e} : receipts'[o] = receipts[o]
    BY <1>2, <1>7, <2>3 DEF RecoverReceipt, ReceiptWritten
  <2>5. JournalTypeOK'
    BY <1>2, <1>3, <2>1, <2>2, <2>4 DEF JournalInv, JournalTypeOK, Processes
  <2>6. Known(e) /\ (checks = 0 => e \in index \cup moved)
    BY <1>7, InHand DEF Knows, RecoverReceipt, AtPc, Recovering, ReplayKnows
  <2>7. Knows(p)'
    BY <1>2, <1>3, <2>1, <2>2, <2>3, <2>4 DEF Knows, Recovering, Admitting, ReplayKnows, Known, Open, Generations
  <2>8. OneOpenMarker' /\ EventIsAccounted'
    <3>1. OneOpenMarker' /\ Open' = Open
      BY <1>3 DEF JournalInv, OneOpenMarker, Open, Generations
    <3>2. \A o \in Events : receipts[o] # 0 => receipts'[o] # 0
      BY <2>4
    <3> QED
      BY <1>3, <2>1, <3>1, <3>2 DEF JournalInv, JournalTypeOK, EventIsAccounted
  <2>9. ReceiptIsBacked'
    BY <1>2, <1>3, <2>1, <2>4, <2>6 DEF JournalInv, ReceiptIsBacked, Generations, Known
  <2>10. IndexUnlessChecked'
    BY <1>2, <1>3, <2>1, <2>4, <2>6 DEF JournalInv, IndexUnlessChecked, CommittedIsIndexed
  <2> QED
    BY <2>5, <2>7, <2>8, <2>9, <2>10 DEF JournalCore
<1> QED
  BY <1>4, <1>5, <1>6, <1>7

\* The marker a process closes is the only one that was open.
LEMMA Closing ==
  ASSUME JournalInv, NEW p \in Procs, proc[p].pc \in Recovering \cup Admitting,
         NEW s \in States, Marked(proc[p].gen, s)
  PROVE  /\ journal' \in Seq(Markers)
         /\ Generations' = Generations /\ Len(journal') = Len(journal)
         /\ \A g \in Generations : journal'[g].event = journal[g].event
         /\ Open' = IF s = "done" THEN {} ELSE {proc[p].gen}
<1> DEFINE g == proc[p].gen
<1>1. g \in Generations /\ Open = {g} /\ journal \in Seq(Markers)
  BY InHand, Facts
<1>2. journal' = [journal EXCEPT ![g].state = s]
  BY DEF Marked
<1>3. /\ journal' \in Seq(Markers)
      /\ DOMAIN journal' = DOMAIN journal /\ Len(journal') = Len(journal)
      /\ \A i \in DOMAIN journal : journal'[i].event = journal[i].event
      /\ \A i \in DOMAIN journal : journal'[i].state = (IF i = g THEN s ELSE journal[i].state)
  BY <1>1, <1>2, Marking DEF Generations
<1> QED
  BY <1>1, <1>3 DEF Open, Generations

\* Recovery closes the marker, whose event has its receipt or was lost.
LEMMA ReplayCloses ==
  ASSUME JournalInv, NEW p \in Procs, RecoverClose(p), Beside
  PROVE  JournalCore' /\ Knows(p)'
<1> DEFINE g == proc[p].gen
           e == journal[g].event
<1>1. UNCHANGED <<events, staged, receipts, index, moved, torn, crashes, checks>>
  BY DEF RecoverClose, Beside
<1>2. proc[p].pc = "r-close" /\ g \in Open /\ Open = {g} /\ g \in Generations /\ e \in Events
      /\ proc[p].event \in Events
  BY InHand DEF RecoverClose, AtPc, Recovering
<1>3. receipts[e] # 0 \/ e \notin events \/ e \in moved
  BY <1>2, InHand DEF Knows, ReplayKnows, Recovering
<1>4. /\ journal' \in Seq(Markers) /\ Open' = {} /\ Generations' = Generations
      /\ \A i \in Generations : journal'[i].event = journal[i].event
  BY <1>2, Closing DEF RecoverClose, Recovering, States
<1>5. /\ proc' \in [Procs -> Processes]
      /\ proc'[p].pc = "recover" /\ proc'[p].event = proc[p].event
  BY GoingOn DEF RecoverClose, Pcs
<1>6. JournalTypeOK'
  BY <1>1, <1>4, <1>5 DEF JournalInv, JournalTypeOK, Processes, Markers
<1>7. Knows(p)'
  BY <1>2, <1>5 DEF Knows, Recovering, Admitting
<1>8. EventIsAccounted'
  BY <1>1, <1>2, <1>3, <1>4 DEF JournalInv, EventIsAccounted
<1>9. OneOpenMarker' /\ ReceiptIsBacked' /\ IndexUnlessChecked'
  BY <1>1, <1>4 DEF JournalInv, OneOpenMarker, ReceiptIsBacked, IndexUnlessChecked, CommittedIsIndexed
<1> QED
  BY <1>6, <1>7, <1>8, <1>9 DEF JournalCore

\* A new event is staged, and gets the next generation once no marker is open.
LEMMA Staging ==
  ASSUME JournalInv, NEW p \in Procs, Stage(p) \/ Mark(p), Beside
  PROVE  JournalCore' /\ Knows(p)'
<1>1. UNCHANGED <<events, receipts, index, moved, torn, crashes, checks>>
  BY DEF Stage, Mark, Beside
<1>2. proc[p].event \in Events
  BY InHand DEF Knows, Stage, Mark, Recovered, AtPc
<1>3. CASE Stage(p)
  <2>1. UNCHANGED journal /\ Open = {} /\ receipts[proc[p].event] = 0
    BY <1>3 DEF Stage, Recovered, Admitted
  <2>2. /\ [proc[p] EXCEPT !.pc = "mark", !.gen = Len(journal) + 1] \in Processes
        /\ proc \in [Procs -> Processes]
    <3>1. "mark" \in Pcs
      BY DEF Pcs
    <3>2. \A n \in Nat : [proc[p] EXCEPT !.pc = "mark", !.gen = n] \in Processes
      BY <3>1, Facts DEF Processes
    <3>3. Len(journal) + 1 \in Nat /\ proc \in [Procs -> Processes]
      BY Facts
    <3> QED
      BY <3>2, <3>3
  <2>3. proc' = [proc EXCEPT ![p] = [proc[p] EXCEPT !.pc = "mark", !.gen = Len(journal) + 1]]
    BY <1>3, <2>2 DEF Stage, NextGeneration
  <2>4. /\ proc' \in [Procs -> Processes]
        /\ proc'[p].pc = "mark" /\ proc'[p].gen = Len(journal) + 1 /\ proc'[p].event = proc[p].event
    BY <2>2, <2>3 DEF Processes
  <2>5. JournalTypeOK'
    BY <1>1, <1>2, <1>3, <2>1, <2>4 DEF JournalInv, JournalTypeOK, Processes, Stage
  <2>6. Knows(p)'
    BY <1>1, <1>2, <2>1, <2>4 DEF Knows, Recovering, Admitting, Open, Generations
  <2> QED
    BY <1>1, <2>1, <2>5, <2>6 DEF JournalInv, JournalCore, OneOpenMarker, ReceiptIsBacked,
       EventIsAccounted, IndexUnlessChecked, CommittedIsIndexed, Open, Generations
<1>4. CASE Mark(p)
  <2> DEFINE n == Len(journal) + 1
             m == [event |-> proc[p].event, state |-> "staged"]
  <2>1. Open = {} /\ proc[p].gen = n /\ receipts[proc[p].event] = 0
    BY <1>4, InHand DEF Knows, Mark, AtPc
  <2>2. /\ journal' \in Seq(Markers)
        /\ Len(journal) \in Nat /\ Generations = 1..Len(journal)
        /\ Generations' = Generations \cup {n}
        /\ journal'[n] = m
        /\ \A i \in Generations : journal'[i] = journal[i]
    <3>1. m \in Markers /\ journal' = Append(journal, m) /\ journal \in Seq(Markers)
      BY <1>2, <1>4, Facts DEF Mark, Markers, States
    <3> HIDE DEF m
    <3> QED
      BY <3>1, Appending DEF Generations
  <2>3. Open' = {n}
    BY <2>1, <2>2 DEF Open
  <2>4. /\ proc' \in [Procs -> Processes]
        /\ proc'[p].pc = "rename" /\ proc'[p].gen = n /\ proc'[p].event = proc[p].event
    BY <1>4, <2>1, GoingOn DEF Mark, Pcs
  <2>5. JournalTypeOK'
    BY <1>1, <1>4, <2>2, <2>4 DEF JournalInv, JournalTypeOK, Processes, Markers, Mark
  <2>6. Knows(p)'
    BY <1>1, <1>2, <2>1, <2>2, <2>3, <2>4 DEF Knows, Recovering, Admitting, AdmissionKnows
  <2>7. OneOpenMarker' /\ EventIsAccounted'
    BY <1>1, <2>1, <2>3 DEF JournalInv, OneOpenMarker, EventIsAccounted
  <2>8. ReceiptIsBacked' /\ IndexUnlessChecked'
    BY <1>1, <2>2 DEF JournalInv, ReceiptIsBacked, IndexUnlessChecked, CommittedIsIndexed
  <2> QED
    BY <2>5, <2>6, <2>7, <2>8 DEF JournalCore
<1> QED
  BY <1>3, <1>4

\* Admitting: the event is renamed, unstaged, listed and receipted.
LEMMA AdmittingAnEvent ==
  ASSUME JournalInv, NEW p \in Procs, Beside,
         Rename(p) \/ Unstage(p) \/ Index(p) \/ Receipt(p)
  PROVE  JournalCore' /\ Knows(p)'
<1> DEFINE g == proc[p].gen
           e == proc[p].event
<1>1. proc[p].pc \in {"rename", "unstage", "index", "receipt"} /\ proc[p].pc \in Admitting
  BY DEF Rename, Unstage, Index, Receipt, AtPc, Admitting
<1>2. g \in Open /\ g \in Generations /\ e \in Events /\ journal[g].event = e
      /\ AdmissionKnows(proc[p].pc, e) /\ g \in Nat /\ g > 0 /\ receipts \in [Events -> Nat]
  BY <1>1, InHand, Facts DEF Knows
<1>3. UNCHANGED <<journal, moved, torn, crashes, checks>>
  BY DEF Rename, Unstage, Index, Receipt, Beside
<1>4. CASE Rename(p)
  <2>1. events' = events \cup {e} /\ UNCHANGED <<staged, receipts, index>>
    BY <1>4 DEF Rename
  <2>2. /\ proc' \in [Procs -> Processes]
        /\ proc'[p].pc = "unstage" /\ proc'[p].gen = g /\ proc'[p].event = e
    BY <1>4, GoingOn DEF Rename, Pcs
  <2>3. JournalTypeOK'
    BY <1>2, <1>3, <2>1, <2>2 DEF JournalInv, JournalTypeOK, Processes
  <2>4. Knows(p)'
    BY <1>1, <1>2, <1>3, <2>1, <2>2
       DEF Knows, Recovering, Admitting, AdmissionKnows, Known, Open, Generations
  <2> QED
    BY <1>2, <1>3, <2>1, <2>3, <2>4 DEF JournalInv, JournalCore, OneOpenMarker, ReceiptIsBacked,
       EventIsAccounted, IndexUnlessChecked, CommittedIsIndexed, Open, Generations
<1>5. CASE Unstage(p)
  <2>1. staged' = staged \ {e} /\ UNCHANGED <<events, receipts, index>>
    BY <1>5 DEF Unstage
  <2>2. /\ proc' \in [Procs -> Processes]
        /\ proc'[p].pc = "renamed" /\ proc'[p].gen = g /\ proc'[p].event = e
    BY <1>5, GoingOn DEF Unstage, Pcs
  <2>3. JournalTypeOK'
    BY <1>2, <1>3, <2>1, <2>2 DEF JournalInv, JournalTypeOK, Processes
  <2>4. proc[p].pc = "unstage"
    BY <1>5 DEF Unstage, AtPc
  <2>5. Knows(p)'
    BY <2>4, <1>2, <1>3, <2>1, <2>2
       DEF Knows, Recovering, Admitting, AdmissionKnows, Known, Open, Generations
  <2> QED
    BY <1>3, <2>1, <2>3, <2>5 DEF JournalInv, JournalCore, OneOpenMarker, ReceiptIsBacked,
       EventIsAccounted, IndexUnlessChecked, CommittedIsIndexed, Open, Generations
<1>6. CASE Index(p)
  <2>1. index' = events /\ UNCHANGED <<events, staged, receipts>>
    BY <1>6 DEF Index
  <2>2. /\ proc' \in [Procs -> Processes]
        /\ proc'[p].pc = "indexed" /\ proc'[p].gen = g /\ proc'[p].event = e
    BY <1>6, GoingOn DEF Index, Pcs
  <2>3. JournalTypeOK'
    BY <1>2, <1>3, <2>1, <2>2 DEF JournalInv, JournalTypeOK, Processes
  <2>4. proc[p].pc = "index"
    BY <1>6 DEF Index, AtPc
  <2>5. Knows(p)'
    BY <2>4, <1>2, <1>3, <2>1, <2>2
       DEF Knows, Recovering, Admitting, AdmissionKnows, Known, Open, Generations
  <2> QED
    BY <1>3, <2>1, <2>3, <2>5 DEF JournalInv, JournalCore, OneOpenMarker, ReceiptIsBacked,
       EventIsAccounted, IndexUnlessChecked, CommittedIsIndexed, Open, Generations
<1>7. CASE Receipt(p)
  <2>1. UNCHANGED <<events, staged, index>>
    BY <1>7 DEF Receipt
  <2>2. /\ proc' \in [Procs -> Processes]
        /\ proc'[p].pc = "receipted" /\ proc'[p].gen = g /\ proc'[p].event = e
    BY <1>7, GoingOn DEF Receipt, Pcs
  <2>3. /\ receipts' \in [Events -> Nat]
        /\ receipts'[e] = g
        /\ \A o \in Events \ {e} : receipts'[o] = receipts[o]
    BY <1>2, <1>7 DEF Receipt
  <2>4. JournalTypeOK'
    BY <1>2, <1>3, <2>1, <2>2, <2>3 DEF JournalInv, JournalTypeOK, Processes
  <2>5. Known(e) /\ (checks = 0 => e \in index \cup moved)
    BY <1>2, <1>7 DEF AdmissionKnows, Receipt, AtPc
  <2>6. Knows(p)'
    BY <1>2, <1>3, <2>1, <2>2, <2>3, <2>5
       DEF Knows, Recovering, Admitting, AdmissionKnows, Known, Open, Generations
  <2>7. OneOpenMarker' /\ EventIsAccounted'
    <3>1. OneOpenMarker' /\ Open' = Open
      BY <1>3 DEF JournalInv, OneOpenMarker, Open, Generations
    <3>2. \A o \in Events : receipts[o] # 0 => receipts'[o] # 0
      BY <1>2, <2>3
    <3> QED
      BY <1>3, <2>1, <3>1, <3>2 DEF JournalInv, JournalTypeOK, EventIsAccounted
  <2>8. ReceiptIsBacked'
    BY <1>2, <1>3, <2>1, <2>3, <2>5 DEF JournalInv, ReceiptIsBacked, Generations, Known
  <2>9. IndexUnlessChecked'
    BY <1>2, <1>3, <2>1, <2>3, <2>5 DEF JournalInv, IndexUnlessChecked, CommittedIsIndexed
  <2> QED
    BY <2>4, <2>6, <2>7, <2>8, <2>9 DEF JournalCore
<1> QED
  BY <1>4, <1>5, <1>6, <1>7

\* The marker moves on after each step.
LEMMA MovingOn ==
  ASSUME JournalInv, NEW p \in Procs, Beside, NEW s \in States, s # "done",
         NEW from \in {"renamed", "indexed", "receipted"},
         NEW to \in {"index", "receipt", "done"},
         <<from, to>> \in {<<"renamed", "index">>, <<"indexed", "receipt">>, <<"receipted", "done">>},
         Transition(p, from, s, to)
  PROVE  JournalCore' /\ Knows(p)'
<1> DEFINE g == proc[p].gen
           e == proc[p].event
<1>1. proc[p].pc = from /\ from \in Admitting /\ to \in Admitting
  BY DEF Transition, AtPc, Admitting
<1>2. g \in Open /\ g \in Generations /\ e \in Events /\ journal[g].event = e
      /\ AdmissionKnows(from, e) /\ Open = {g}
  BY <1>1, InHand DEF Knows
<1>3. UNCHANGED <<events, staged, receipts, index, moved, torn, crashes, checks>>
  BY DEF Transition, Beside
<1>4. /\ journal' \in Seq(Markers) /\ Open' = {g} /\ Generations' = Generations
      /\ \A i \in Generations : journal'[i].event = journal[i].event
  BY <1>1, Closing DEF Transition
<1>5. /\ proc' \in [Procs -> Processes]
      /\ proc'[p].pc = to /\ proc'[p].gen = g /\ proc'[p].event = e
  BY GoingOn DEF Transition, Pcs
<1>6. JournalTypeOK'
  BY <1>3, <1>4, <1>5 DEF JournalInv, JournalTypeOK, Processes, Markers
<1>7. Knows(p)'
  <2>1. AdmissionKnows(from, e) => AdmissionKnows(to, e)
    BY DEF AdmissionKnows
  <2>2. to \notin Recovering /\ to # "mark"
    BY DEF Recovering
  <2> QED
    BY <1>1, <1>2, <1>3, <1>4, <1>5, <2>1, <2>2 DEF Knows, AdmissionKnows, Known
<1>8. EventIsAccounted'
  BY <1>2, <1>3, <1>4 DEF JournalInv, EventIsAccounted
<1>9. OneOpenMarker' /\ ReceiptIsBacked' /\ IndexUnlessChecked'
  BY <1>3, <1>4 DEF JournalInv, OneOpenMarker, ReceiptIsBacked, IndexUnlessChecked, CommittedIsIndexed
<1> QED
  BY <1>6, <1>7, <1>8, <1>9 DEF JournalCore

\* The last step closes the marker and gives up the lock.
LEMMA Finishing ==
  ASSUME JournalInv, NEW p \in Procs, Finish(p), Beside
  PROVE  JournalCore' /\ Knows(p)'
<1> DEFINE g == proc[p].gen
           e == proc[p].event
<1>1. proc[p].pc = "done" /\ proc[p].pc \in Admitting
  BY DEF Finish, AtPc, Admitting
<1>2. g \in Open /\ g \in Generations /\ e \in Events /\ journal[g].event = e
      /\ receipts[e] # 0 /\ Open = {g}
  BY <1>1, InHand DEF Knows, AdmissionKnows
<1>3. UNCHANGED <<events, staged, receipts, index, moved, torn, crashes, checks>>
  BY DEF Finish, Beside
<1>4. /\ journal' \in Seq(Markers) /\ Open' = {} /\ Generations' = Generations
      /\ \A i \in Generations : journal'[i].event = journal[i].event
  BY <1>1, Closing DEF Finish, States
<1>5. proc' = [proc EXCEPT ![p] = Idle] /\ proc' \in [Procs -> Processes]
  BY Facts DEF Finish, Return, Idle, Processes, Pcs
<1>6. JournalTypeOK'
  BY <1>3, <1>4, <1>5 DEF JournalInv, JournalTypeOK, Processes, Markers
<1>7. Knows(p)'
  BY <1>5, Facts DEF Knows, Recovering, Admitting, Idle
<1>8. EventIsAccounted'
  BY <1>2, <1>3, <1>4 DEF JournalInv, EventIsAccounted
<1>9. OneOpenMarker' /\ ReceiptIsBacked' /\ IndexUnlessChecked'
  BY <1>3, <1>4 DEF JournalInv, OneOpenMarker, ReceiptIsBacked, IndexUnlessChecked, CommittedIsIndexed
<1> QED
  BY <1>6, <1>7, <1>8, <1>9 DEF JournalCore

\* Every step of a process at work keeps what the journal promises.
LEMMA StepKeepsCore ==
  ASSUME JournalInv, NEW p \in Procs, JournalStep(p) \/ Crash(p), Beside
  PROVE  JournalCore' /\ Knows(p)'
<1>1. CASE RecoveryRefused(p) \/ Answer(p)
  BY <1>1, GivingUp DEF RecoveryRefused, Answer, Beside, JournalInv, JournalTypeOK
<1>2. CASE Crash(p)
  <2>1. torn' \in SUBSET Directories
    BY <1>2 DEF Crash, Writing, Directories, JournalInv, JournalTypeOK
  <2>2. crashes' \in 0..MaxCrashes
    BY <1>2, JournalAssumption DEF Crash, JournalInv, JournalTypeOK
  <2> QED
    BY <1>2, <2>1, <2>2, GivingUp DEF Crash, Beside
<1>3. CASE Recovery(p) /\ ~RecoveryRefused(p)
  BY <1>3, ReadingAMarker, Replaying, ReplayCloses DEF Recovery
<1>4. CASE Admission(p) /\ ~Answer(p)
  <2>1. CASE Transition(p, "renamed", "renamed", "index")
    BY <2>1, MovingOn DEF States
  <2>2. CASE Transition(p, "indexed", "indexed", "receipt")
    BY <2>2, MovingOn DEF States
  <2>3. CASE Transition(p, "receipted", "receipted", "done")
    BY <2>3, MovingOn DEF States
  <2> QED
    BY <1>4, <2>1, <2>2, <2>3, Staging, AdmittingAnEvent, Finishing DEF Admission
<1> QED
  BY <1>1, <1>2, <1>3, <1>4 DEF JournalStep

\* A process moves itself, and only to let go of the lock.
LEMMA StepIsOwn ==
  ASSUME JournalInv, NEW p \in Procs, JournalStep(p) \/ Crash(p)
  PROVE  /\ ~AtPc(p, "idle")
         /\ \A o \in Procs \ {p} : proc'[o] = proc[o]
         /\ lock' = lock \/ proc'[p].pc = "idle"
<1>1. proc \in [Procs -> Processes]
  BY Facts
<1>2. CASE Return(p) /\ ~AtPc(p, "idle")
  BY <1>1, <1>2 DEF Return, Idle
<1>3. CASE /\ ~AtPc(p, "idle") /\ UNCHANGED lock
           /\ \/ \E pc \in Pcs : Goto(p, pc)
              \/ \E r \in Processes : proc' = [proc EXCEPT ![p] = r]
              \/ \E g, pc : proc' = [proc EXCEPT ![p].gen = g, ![p].pc = pc]
              \/ \E g, pc : proc' = [proc EXCEPT ![p].pc = pc, ![p].gen = g]
  BY <1>1, <1>3 DEF Goto
<1>4. CASE Crash(p) \/ RecoveryRefused(p) \/ Answer(p) \/ Finish(p)
  BY <1>2, <1>4 DEF Crash, RecoveryRefused, Answer, Finish, Recovered, AtPc
<1>5. CASE RecoverNext(p)
  <2>1. ~AtPc(p, "idle") /\ UNCHANGED lock /\ \E g, pc : proc' = [proc EXCEPT ![p].gen = g, ![p].pc = pc]
    BY <1>5 DEF RecoverNext, AtPc
  <2> QED
    BY <1>3, <2>1
<1>6. CASE Stage(p)
  <2>1. ~AtPc(p, "idle") /\ UNCHANGED lock /\ \E g, pc : proc' = [proc EXCEPT ![p].pc = pc, ![p].gen = g]
    BY <1>6 DEF Stage, Recovered, AtPc
  <2> QED
    BY <1>3, <2>1
<1>7. CASE RecoverRename(p) \/ RecoverUnstage(p) \/ RecoverIndex(p) \/ RecoverReceipt(p) \/ RecoverClose(p)
  BY <1>3, <1>7 DEF RecoverRename, RecoverUnstage, RecoverIndex, RecoverReceipt, RecoverClose, AtPc, Pcs
<1>8. CASE Mark(p) \/ Rename(p) \/ Unstage(p) \/ Index(p) \/ Receipt(p)
  BY <1>3, <1>8 DEF Mark, Rename, Unstage, Index, Receipt, AtPc, Pcs
<1>9. CASE \/ Transition(p, "renamed", "renamed", "index")
           \/ Transition(p, "indexed", "indexed", "receipt")
           \/ Transition(p, "receipted", "receipted", "done")
  BY <1>3, <1>9 DEF Transition, AtPc, Pcs
<1> QED
  BY <1>4, <1>5, <1>6, <1>7, <1>8, <1>9 DEF JournalStep, Recovery, Admission

\* Nothing of the lineage moves with the journal.
LEMMA StepKeepsInv ==
  ASSUME JournalInv, NEW p \in Procs, JournalStep(p) \/ Crash(p), Beside
  PROVE  JournalInv'
<1>1. JournalCore' /\ Knows(p)'
  BY StepKeepsCore
<1>2. /\ lock = p /\ \A o \in Procs \ {p} : proc[o].pc = "idle" /\ proc'[o] = proc[o]
      /\ lock' = lock \/ proc'[p].pc = "idle"
      /\ \A q \in Publishers : pub[q].pc \notin {"sign", "register"}
  BY Alone, StepIsOwn
<1>3. LineageTypeOK' /\ ChecksAreCounted'
  BY DEF JournalInv, LineageTypeOK, ChecksAreCounted, Beside, git, lineage, DistinctManifests, Ids
<1>4. LockHeld'
  BY <1>2 DEF LockHeld, Beside
<1>5. WorkIsMarked'
  <2>1. ASSUME NEW o \in Procs PROVE Knows(o)'
    <3>1. CASE o = p
      BY <1>1, <3>1
    <3>2. CASE o # p
      BY <1>2, <3>2 DEF Knows, Recovering, Admitting
    <3> QED
      BY <3>1, <3>2
  <2> QED
    BY <2>1 DEF WorkIsMarked
<1> QED
  BY <1>1, <1>3, <1>4, <1>5 DEF JournalInv, JournalCore

-----------------------------------------------------------------------------
(* The other steps, and the theorem *)

\* An admission starts with the lock in hand.
LEMMA StartKeepsInv ==
  ASSUME JournalInv, NEW p \in Procs, NEW e \in Events, Start(p, e), Beside
  PROVE  JournalInv'
<1> DEFINE r == [pc |-> "recover", event |-> e, gen |-> 0]
<1>1. /\ proc' = [proc EXCEPT ![p] = r] /\ lock = Nobody /\ lock' = p
      /\ UNCHANGED <<events, staged, journal, receipts, index, moved, torn, crashes>>
      /\ UNCHANGED <<git, lineage, pub, checks>>
  BY DEF Start, Beside, files
<1>2. r \in Processes
  BY DEF Processes, Pcs
<1>3. \A o \in Procs : proc[o].pc = "idle"
  BY <1>1, JournalAssumption DEF JournalInv, LockHeld
<1>4. \A q \in Publishers : pub[q].pc \notin {"sign", "register"}
  BY <1>1, LineageAssumption DEF JournalInv, LockHeld
<1>5. proc' \in [Procs -> Processes] /\ proc'[p] = r /\ \A o \in Procs \ {p} : proc'[o] = proc[o]
  BY <1>1, <1>2, Facts
<1>6. JournalTypeOK'
  BY <1>1, <1>5 DEF JournalInv, JournalTypeOK, Processes
<1>7. LineageTypeOK' /\ ChecksAreCounted'
  BY <1>1 DEF JournalInv, LineageTypeOK, ChecksAreCounted, git, lineage, DistinctManifests, Ids
<1>8. LockHeld'
  BY <1>1, <1>3, <1>4, <1>5 DEF LockHeld
<1>9. WorkIsMarked'
  BY <1>3, <1>5 DEF WorkIsMarked, Knows, Recovering, Admitting
<1> QED
  BY <1>1, <1>6, <1>7, <1>8, <1>9 DEF JournalInv, OneOpenMarker, ReceiptIsBacked, EventIsAccounted,
     IndexUnlessChecked, CommittedIsIndexed, Open, Generations

\* What Git takes away or brings back is moved from then on, and nothing else
\* of the journal notices.
LEMMA GitKeepsJournal ==
  ASSUME JournalInv, UNCHANGED <<staged, journal, receipts, index, torn, lock, proc, crashes>>,
         UNCHANGED <<pub, checks>>, LineageTypeOK',
         events' \subseteq Events, moved \subseteq moved', moved' \subseteq Events,
         events \cup moved \subseteq events' \cup moved', events' \subseteq events \cup moved'
  PROVE  JournalInv'
<1>1. JournalTypeOK' /\ LockHeld' /\ ChecksAreCounted' /\ OneOpenMarker'
  BY DEF JournalInv, JournalTypeOK, LockHeld, ChecksAreCounted, OneOpenMarker, Open, Generations
<1>2. \A e : Known(e) => Known(e)'
  BY DEF Known
<1>3. WorkIsMarked'
  <2>1. ASSUME NEW p \in Procs PROVE Knows(p)'
    <3>1. Knows(p)
      BY DEF JournalInv, WorkIsMarked
    <3>2. \A pc, e : ReplayKnows(pc, e) => ReplayKnows(pc, e)'
      BY <1>2 DEF ReplayKnows
    <3>3. \A pc, e : AdmissionKnows(pc, e) => AdmissionKnows(pc, e)'
      BY <1>2 DEF AdmissionKnows
    <3> QED
      BY <3>1, <3>2, <3>3 DEF Knows, Open, Generations
  <2> QED
    BY <2>1 DEF WorkIsMarked
<1>4. ReceiptIsBacked' /\ EventIsAccounted' /\ IndexUnlessChecked'
  BY DEF JournalInv, ReceiptIsBacked, EventIsAccounted, IndexUnlessChecked, CommittedIsIndexed,
     Open, Generations
<1> QED
  BY <1>1, <1>3, <1>4 DEF JournalInv

\* Publishers and processes that die leave the files of the journal alone, and
\* take the lock only when it is free.
LEMMA PublishersKeepJournal ==
  ASSUME JournalInv, UNCHANGED <<files, moved, torn, proc>>, LineageTypeOK',
         crashes' \in 0..MaxCrashes, checks' \in {checks, checks + 1},
         NEW q \in Publishers,
         \A o \in Publishers \ {q} : pub'[o] = pub[o],
         \/ lock' = lock /\ (pub'[q].pc \in {"sign", "register"} => pub[q].pc \in {"sign", "register"})
         \/ lock = Nobody /\ lock' = q
         \/ pub'[q].pc \notin {"sign", "register"} /\ lock = q /\ lock' = Nobody,
         pub'[q].pc = "repair" => checks' > 0
  PROVE  JournalInv'
<1>1. JournalTypeOK' /\ OneOpenMarker' /\ ReceiptIsBacked' /\ EventIsAccounted'
  BY DEF JournalInv, JournalTypeOK, OneOpenMarker, ReceiptIsBacked, EventIsAccounted, Open, Generations, files
<1>2. checks \in Nat /\ (checks' = 0 => checks = 0) /\ checks' >= checks
  BY DEF JournalInv, LineageTypeOK
<1>3. IndexUnlessChecked'
  BY <1>2 DEF JournalInv, IndexUnlessChecked, CommittedIsIndexed, files
<1>4. WorkIsMarked'
  <2>1. ASSUME NEW p \in Procs PROVE Knows(p)'
    <3>1. Knows(p)
      BY DEF JournalInv, WorkIsMarked
    <3>2. \A pc, e : ReplayKnows(pc, e) => ReplayKnows(pc, e)'
      BY <1>2 DEF ReplayKnows, Known, files
    <3>3. \A pc, e : AdmissionKnows(pc, e) => AdmissionKnows(pc, e)'
      BY <1>2 DEF AdmissionKnows, Known, files
    <3> QED
      BY <3>1, <3>2, <3>3 DEF Knows, Open, Generations, files
  <2> QED
    BY <2>1 DEF WorkIsMarked
<1>5. ChecksAreCounted'
  BY <1>2 DEF JournalInv, ChecksAreCounted
<1>6. LockHeld'
  BY LineageAssumption, JournalAssumption DEF JournalInv, LockHeld
<1> QED
  BY <1>1, <1>3, <1>4, <1>5, <1>6 DEF JournalInv

\* What a manifest's author holds, and the manifests there are, have their types.
LEMMA PubFacts ==
  ASSUME JournalInv, NEW q \in Publishers
  PROVE  /\ pub \in [Publishers -> Work] /\ pub[q] \in Work /\ Works[q] \in Trees
         /\ Document(q) \in Documents
         /\ manifests \in Seq(Documents) /\ Len(manifests) \in Nat /\ Ids = 1..Len(manifests)
         /\ Waiting \in Work
<1>1. pub \in [Publishers -> Work] /\ pub[q] \in Work /\ Works[q] \in Trees
  BY LineageAssumption DEF JournalInv, LineageTypeOK
<1>2. Document(q) \in Documents
  BY <1>1 DEF Document, Documents, Work
<1>3. manifests \in Seq(Documents) /\ Len(manifests) \in Nat /\ Ids = 1..Len(manifests)
  BY LenProperties DEF JournalInv, LineageTypeOK, Ids
<1>4. Waiting \in Work
  BY DEF Waiting, Work, PubPcs
<1> QED
  BY <1>1, <1>2, <1>3, <1>4

\* A manifest is new and comes last, or is the one that is there.
LEMMA Signing ==
  ASSUME JournalInv, NEW q \in Publishers, Signed(q)
  PROVE  \E id \in Ids' :
           /\ kept' = [kept EXCEPT ![Works[q]] = @ \cup {id}]
           /\ pub' = [pub EXCEPT ![q] = [Waiting EXCEPT !.pc = "register", !.id = id,
                                                         !.rewrite = pub[q].rewrite]]
           /\ id \in Nat /\ manifests'[id] = Document(q)
           /\ manifests' \in Seq(Documents) /\ DistinctManifests'
           /\ Ids \subseteq Ids' /\ \A i \in Ids : manifests'[i] = manifests[i]
           /\ \/ manifests' = manifests /\ Ids' = Ids
              \/ id = Len(manifests) + 1 /\ Ids' = Ids \cup {id} /\ id \notin Ids
<1> DEFINE same == {i \in Ids : manifests[i] = Document(q)}
<1>0. /\ Document(q) \in Documents /\ manifests \in Seq(Documents)
      /\ Len(manifests) \in Nat /\ Ids = 1..Len(manifests)
  BY PubFacts
<1>d. \A i, j \in Ids : manifests[i] = manifests[j] => i = j
  BY DEF JournalInv, LineageTypeOK, DistinctManifests
<1>1. CASE same = {}
  <2> DEFINE n == Len(manifests) + 1
  <2>1. manifests' = Append(manifests, Document(q)) /\ kept' = [kept EXCEPT ![Works[q]] = @ \cup {n}]
        /\ pub' = [pub EXCEPT ![q] = [Waiting EXCEPT !.pc = "register", !.id = n,
                                                         !.rewrite = pub[q].rewrite]]
    BY <1>1 DEF Signed
  <2>2. /\ manifests' \in Seq(Documents) /\ Len(manifests') = n
        /\ manifests'[n] = Document(q) /\ \A i \in 1..Len(manifests) : manifests'[i] = manifests[i]
    BY <1>0, <2>1, AppendProperties
  <2>3. Ids' = Ids \cup {n} /\ n \notin Ids /\ n \in Nat
    BY <1>0, <2>2, LenProperties DEF Ids
  <2>4. DistinctManifests'
    <3>1. \A i, j \in Ids \cup {n} : manifests'[i] = manifests'[j] => i = j
      BY <1>0, <1>1, <1>d, <2>2
    <3> QED
      BY <2>3, <3>1 DEF DistinctManifests
  <2> QED
    BY <1>0, <2>1, <2>2, <2>3, <2>4
<1>2. CASE same # {}
  <2>1. PICK i \in Ids : manifests[i] = Document(q)
    BY <1>2
  <2>2. Min(same) = i
    <3>1. i \in same /\ i \in Nat /\ \A j \in same : j = i
      BY <1>0, <1>d, <2>1
    <3> HIDE DEF same
    <3> QED
      BY <3>1, MinOfOne
  <2>3. manifests' = manifests /\ kept' = [kept EXCEPT ![Works[q]] = @ \cup {i}]
        /\ pub' = [pub EXCEPT ![q] = [Waiting EXCEPT !.pc = "register", !.id = i,
                                                         !.rewrite = pub[q].rewrite]]
    BY <1>2, <2>2 DEF Signed
  <2>4. Ids' = Ids /\ DistinctManifests'
    BY <1>d, <2>3 DEF Ids, DistinctManifests
  <2> HIDE DEF same
  <2>5. i \in Ids' /\ i \in Nat
    BY <1>0, <2>4
  <2> WITNESS i \in Ids'
  <2> QED
    BY <1>0, <2>1, <2>3, <2>4, <2>5
<1> QED
  BY <1>1, <1>2

\* A publisher's steps.
LEMMA PublishKeepsInv ==
  ASSUME JournalInv, NEW q \in Publishers, Publish(q)
  PROVE  JournalInv'
<1> USE PubFacts
<1>1. UNCHANGED <<files, moved, torn, proc, crashes, git, checks>>
  BY DEF Publish, ReadCommitted, LockLineage, SignManifest, RegisterManifest, PostManifest,
     RecordManifest, journalVars
<1>2. checks' \in {checks, checks + 1} /\ crashes' \in 0..MaxCrashes
  BY <1>1 DEF JournalInv, JournalTypeOK
<1>3. \A w \in Work : pub' = [pub EXCEPT ![q] = w] =>
        pub' \in [Publishers -> Work] /\ pub'[q] = w /\ \A o \in Publishers \ {q} : pub'[o] = pub[o]
  OBVIOUS
<1>4. CASE ReadCommitted(q)
  <2> DEFINE S == commit[Works[q]]
             w == [Waiting EXCEPT !.pc = "lock", !.events = S, !.rewrite = S \cap Rewrites # {}]
  <2>1. UNCHANGED <<lock, lineage>> /\ pub' = [pub EXCEPT ![q] = w]
    BY <1>4 DEF ReadCommitted, CommittedEvents, journalVars
  <2>2. S \subseteq Events
    BY DEF JournalInv, LineageTypeOK
  <2>3. w \in Work /\ w.pc = "lock"
    BY <2>2 DEF Work, Waiting, PubPcs
  <2>4. LineageTypeOK'
    BY <1>1, <1>3, <2>1, <2>3
       DEF JournalInv, LineageTypeOK, git, lineage, DistinctManifests, Ids
  <2> QED
    BY <1>1, <1>2, <1>3, <2>1, <2>3, <2>4, PublishersKeepJournal
<1>5. CASE LockLineage(q)
  <2> DEFINE w == [pub[q] EXCEPT !.pc = "sign", !.parents = Heads(Works[q])]
  <2>1. UNCHANGED lineage /\ lock = Nobody /\ lock' = q /\ pub' = [pub EXCEPT ![q] = w]
    BY <1>5 DEF LockLineage
  <2>2. Heads(Works[q]) \subseteq Nat
    BY DEF JournalInv, LineageTypeOK, Heads, HeadsOf, Lineage
  <2>3. w \in Work /\ w.pc = "sign"
    BY <2>2 DEF Work, PubPcs
  <2>4. LineageTypeOK'
    BY <1>1, <1>3, <2>1, <2>3
       DEF JournalInv, LineageTypeOK, git, lineage, DistinctManifests, Ids
  <2> QED
    BY <1>1, <1>2, <1>3, <2>1, <2>3, <2>4, PublishersKeepJournal
<1>6. CASE SignManifest(q)
  <2>1. UNCHANGED <<lock, register, records>> /\ Signed(q) /\ pub[q].pc = "sign"
    BY <1>6 DEF SignManifest, At, journalVars
  <2>2. PICK id \in Nat :
           /\ kept' = [kept EXCEPT ![Works[q]] = @ \cup {id}]
           /\ pub' = [pub EXCEPT ![q] = [Waiting EXCEPT !.pc = "register", !.id = id,
                                                         !.rewrite = pub[q].rewrite]]
           /\ manifests' \in Seq(Documents) /\ DistinctManifests'
    BY <2>1, Signing
  <2> DEFINE w == [Waiting EXCEPT !.pc = "register", !.id = id, !.rewrite = pub[q].rewrite]
  <2>3. w \in Work /\ w.pc = "register"
    BY DEF Work, Waiting, PubPcs
  <2>4. kept' \in [Trees -> SUBSET Nat]
    BY <2>2 DEF JournalInv, LineageTypeOK
  <2>5. LineageTypeOK'
    BY <1>1, <1>3, <2>1, <2>2, <2>3, <2>4 DEF JournalInv, LineageTypeOK, git
  <2> QED
    BY <1>1, <1>2, <1>3, <2>1, <2>2, <2>3, <2>5, PublishersKeepJournal
<1>7. CASE RegisterManifest(q)
  <2> DEFINE w == [pub[q] EXCEPT !.pc = "post"]
  <2>1. /\ UNCHANGED <<manifests, kept, records>> /\ pub[q].pc = "register" /\ lock' = Nobody
        /\ register' = register \cup {pub[q].id} /\ pub' = [pub EXCEPT ![q] = w]
    BY <1>7 DEF RegisterManifest, At
  <2>2. w \in Work /\ w.pc = "post" /\ pub[q].id \in Nat /\ lock = q
    BY <2>1 DEF Work, PubPcs, JournalInv, LockHeld
  <2>3. LineageTypeOK'
    BY <1>1, <1>3, <2>1, <2>2
       DEF JournalInv, LineageTypeOK, git, DistinctManifests, Ids
  <2> QED
    BY <1>1, <1>2, <1>3, <2>1, <2>2, <2>3, PublishersKeepJournal
<1>8. CASE PostManifest(q)
  <2>1. PICK w : /\ UNCHANGED <<lock, lineage>> /\ pub' = [pub EXCEPT ![q] = w]
                 /\ w \in {[pub[q] EXCEPT !.pc = "record"], Waiting}
    BY <1>8 DEF PostManifest, journalVars
  <2>2. w \in Work /\ w.pc \in {"record", "idle"}
    BY <2>1 DEF Work, PubPcs, Waiting
  <2>3. LineageTypeOK'
    BY <1>1, <1>3, <2>1, <2>2
       DEF JournalInv, LineageTypeOK, git, lineage, DistinctManifests, Ids
  <2> QED
    BY <1>1, <1>2, <1>3, <2>1, <2>2, <2>3, PublishersKeepJournal
<1>9. CASE RecordManifest(q)
  <2>1. /\ UNCHANGED <<lock, manifests, kept, register>> /\ pub' = [pub EXCEPT ![q] = Waiting]
        /\ records' = [records EXCEPT ![Works[q]] = @ \cup {pub[q].id}]
    BY <1>9 DEF RecordManifest, journalVars
  <2>2. Waiting.pc = "idle" /\ pub[q].id \in Nat
    BY DEF Waiting, Work
  <2>3. LineageTypeOK'
    BY <1>1, <1>3, <2>1, <2>2
       DEF JournalInv, LineageTypeOK, git, DistinctManifests, Ids
  <2> QED
    BY <1>1, <1>2, <1>3, <2>1, <2>2, <2>3, PublishersKeepJournal
<1> QED
  BY <1>4, <1>5, <1>6, <1>7, <1>8, <1>9 DEF Publish

\* fsck counts itself before it repairs, and repairs the index only.
LEMMA CheckKeepsInv ==
  ASSUME JournalInv, NEW q \in Publishers, StartCheck(q) \/ RepairIndex(q)
  PROVE  JournalInv'
<1> USE PubFacts
<1>1. CASE StartCheck(q)
  <2> DEFINE w == [pub[q] EXCEPT !.pc = "repair", !.events = events]
  <2>1. /\ UNCHANGED <<journalVars, git, lineage>> /\ checks' = checks + 1
        /\ pub' = [pub EXCEPT ![q] = w]
    BY <1>1 DEF StartCheck
  <2>2. w \in Work /\ w.pc = "repair" /\ checks \in Nat
    BY ZenonT(60) DEF Work, PubPcs, JournalInv, JournalTypeOK, LineageTypeOK
  <2>3. pub' \in [Publishers -> Work] /\ pub'[q] = w /\ \A o \in Publishers \ {q} : pub'[o] = pub[o]
    BY <2>1, <2>2
  <2>4. LineageTypeOK'
    BY <2>1, <2>2, <2>3 DEF JournalInv, LineageTypeOK, git, lineage, DistinctManifests, Ids
  <2>5. UNCHANGED <<files, moved, torn, proc>> /\ lock' = lock /\ crashes' \in 0..MaxCrashes
    BY <2>1 DEF journalVars, JournalInv, JournalTypeOK
  <2> QED
    BY <2>1, <2>2, <2>3, <2>4, <2>5, PublishersKeepJournal
<1>2. CASE RepairIndex(q)
  <2>1. /\ UNCHANGED <<events, staged, journal, receipts, moved, torn, lock, proc, crashes, git,
                       lineage, checks>>
        /\ index' = pub[q].events /\ pub' = [pub EXCEPT ![q] = Waiting] /\ pub[q].pc = "repair"
    BY <1>2 DEF RepairIndex, At
  <2>2. checks > 0 /\ checks \in Nat /\ pub[q].events \subseteq Events
    BY <2>1 DEF JournalInv, ChecksAreCounted, LineageTypeOK, Work
  <2>3. pub' \in [Publishers -> Work] /\ pub'[q] = Waiting /\ \A o \in Publishers \ {q} : pub'[o] = pub[o]
    BY <2>1
  <2>4. LineageTypeOK' /\ JournalTypeOK' /\ OneOpenMarker' /\ ReceiptIsBacked' /\ EventIsAccounted'
    BY <2>1, <2>2, <2>3 DEF JournalInv, LineageTypeOK, JournalTypeOK, git, lineage, DistinctManifests,
       Ids, OneOpenMarker, ReceiptIsBacked, EventIsAccounted, Open, Generations
  <2>5. LockHeld' /\ ChecksAreCounted' /\ IndexUnlessChecked'
    BY <2>1, <2>2, <2>3 DEF JournalInv, LockHeld, ChecksAreCounted, IndexUnlessChecked, Waiting
  <2>6. WorkIsMarked'
    <3>1. ASSUME NEW p \in Procs PROVE Knows(p)'
      <4>1. Knows(p) /\ checks # 0
        BY <2>2 DEF JournalInv, WorkIsMarked
      <4>2. \A pc, e : ReplayKnows(pc, e) => ReplayKnows(pc, e)'
        BY <2>1, <4>1 DEF ReplayKnows, Known
      <4>3. \A pc, e : AdmissionKnows(pc, e) => AdmissionKnows(pc, e)'
        BY <2>1, <4>1 DEF AdmissionKnows, Known
      <4> QED
        BY <2>1, <4>1, <4>2, <4>3 DEF Knows, Open, Generations
    <3> QED
      BY <3>1 DEF WorkIsMarked
  <2> QED
    BY <2>4, <2>5, <2>6 DEF JournalInv
<1> QED
  BY <1>1, <1>2

\* A publisher that dies gives the lock up with the rest.
LEMMA DeathKeepsInv ==
  ASSUME JournalInv, NEW q \in Publishers, Die(q)
  PROVE  JournalInv'
<1>1. /\ UNCHANGED <<files, moved, torn, proc, git, lineage, checks>> /\ pub' = [pub EXCEPT ![q] = Waiting]
      /\ lock' = IF lock = q THEN Nobody ELSE lock
  BY DEF Die
<1>2. crashes' \in 0..MaxCrashes
  BY JournalAssumption DEF Die, JournalInv, JournalTypeOK
<1>3. pub' \in [Publishers -> Work] /\ pub'[q] = Waiting /\ \A o \in Publishers \ {q} : pub'[o] = pub[o]
  BY <1>1, PubFacts
<1>4. LineageTypeOK'
  BY <1>1, <1>3 DEF JournalInv, LineageTypeOK, git, lineage, DistinctManifests, Ids
<1>5. Waiting.pc = "idle"
  BY DEF Waiting
<1>6. CASE lock = q
  BY <1>1, <1>2, <1>3, <1>4, <1>5, <1>6, PublishersKeepJournal
<1>7. CASE lock # q
  BY <1>1, <1>2, <1>3, <1>4, <1>5, <1>7, PublishersKeepJournal
<1> QED
  BY <1>6, <1>7

\* Branches move, and the worktree of the journal with them.
LEMMA BranchesKeepInv ==
  ASSUME JournalInv,
         \/ \E S \in SUBSET Events : \E C \in SUBSET S : Pull(S, C)
         \/ \E t, u \in Trees : t # u /\ Merge(t, u)
         \/ \E t \in Trees : \E S \in past[t] : Rewind(t, S)
  PROVE  JournalInv'
<1> USE DEF JournalInv, JournalTypeOK
<1>0. commit \in [Trees -> SUBSET Events] /\ past \in [Trees -> SUBSET SUBSET Events]
      /\ kept \in [Trees -> SUBSET Nat]
  BY DEF LineageTypeOK
<1>f. ASSUME NEW t \in Trees, NEW S \in SUBSET Events, Branch(t, S),
             kept' \in [Trees -> SUBSET Nat], UNCHANGED <<manifests, register, records, pub, checks>>
      PROVE  LineageTypeOK'
  <2>1. commit' \in [Trees -> SUBSET Events] /\ past' \in [Trees -> SUBSET SUBSET Events]
    BY <1>0, <1>f DEF Branch
  <2> QED
    BY <1>f, <2>1 DEF LineageTypeOK, DistinctManifests, Ids
<1>1. ASSUME NEW S \in SUBSET Events, NEW C \in SUBSET S, Pull(S, C) PROVE JournalInv'
  <2>1. /\ UNCHANGED <<staged, journal, receipts, index, torn, lock, proc, crashes, lineage, pub, checks>>
        /\ events' = S /\ moved' = moved \cup (events \ S) \cup (S \ events) /\ Branch(Home, C)
    BY <1>1 DEF Pull
  <2>2. LineageTypeOK'
    BY <1>0, <1>f, <2>1, LineageAssumption DEF lineage
  <2> QED
    BY <2>1, <2>2, GitKeepsJournal
<1>2. ASSUME NEW t \in Trees, NEW u \in Trees, Merge(t, u) PROVE JournalInv'
  <2>1. /\ UNCHANGED <<staged, journal, receipts, index, torn, lock, proc, crashes,
                       manifests, register, records, pub, checks>>
        /\ Branch(t, commit[t] \cup commit[u]) /\ kept' = [kept EXCEPT ![t] = @ \cup kept[u]]
        /\ events' = IF t = Home THEN events \cup commit[u] ELSE events
        /\ moved'  = IF t = Home THEN moved \cup (commit[u] \ events) ELSE moved
    BY <1>2 DEF Merge
  <2>2. commit[t] \cup commit[u] \in SUBSET Events /\ commit[u] \subseteq Events
        /\ kept' \in [Trees -> SUBSET Nat]
    BY <1>0, <2>1
  <2>3. LineageTypeOK'
    BY <1>f, <2>1, <2>2
  <2>4. events' \subseteq Events /\ moved \subseteq moved' /\ moved' \subseteq Events
        /\ events \cup moved \subseteq events' \cup moved' /\ events' \subseteq events \cup moved'
    BY <2>1, <2>2
  <2> QED
    BY <2>1, <2>3, <2>4, GitKeepsJournal
<1>3. ASSUME NEW t \in Trees, NEW S \in past[t], Rewind(t, S) PROVE JournalInv'
  <2>1. /\ UNCHANGED <<journalVars, manifests, register, records, pub, checks>>
        /\ Branch(t, S) /\ kept' = [kept EXCEPT ![t] = {}]
    BY <1>3 DEF Rewind
  <2>2. S \in SUBSET Events /\ kept' \in [Trees -> SUBSET Nat]
    BY <1>0, <2>1
  <2>3. LineageTypeOK'
    BY <1>f, <2>1, <2>2
  <2> QED
    BY <2>1, <2>3, GitKeepsJournal DEF journalVars, files
<1> QED
  BY <1>1, <1>2, <1>3

\* Every step keeps the invariant.
LEMMA JournalInvNext == JournalInv /\ [Next]_vars => JournalInv'
<1> SUFFICES ASSUME JournalInv, [Next]_vars PROVE JournalInv'
  OBVIOUS
<1>1. CASE UNCHANGED vars
  <2>1. UNCHANGED <<events, staged, journal, receipts, index, moved, torn, lock, proc, crashes,
                    commit, past, manifests, kept, register, records, pub, checks>>
    BY <1>1 DEF vars, journalVars, files, git, lineage
  <2>2. LineageTypeOK'
    BY <2>1 DEF JournalInv, LineageTypeOK, DistinctManifests, Ids
  <2> QED
    BY <2>1, <2>2, GitKeepsJournal DEF JournalInv, JournalTypeOK
<1>2. CASE Journaled
  <2>1. Beside
    BY <1>2 DEF Journaled, Beside
  <2>2. CASE \E e \in Events : GitMoves(e)
    <3>1. PICK e \in Events : GitMoves(e)
      BY <2>2
    <3>2. LineageTypeOK'
      BY <2>1 DEF JournalInv, LineageTypeOK, DistinctManifests, Ids, Beside, git, lineage
    <3> QED
      BY <2>1, <3>1, <3>2, GitKeepsJournal DEF GitMoves, JournalInv, JournalTypeOK, Beside
  <2> QED
    BY <1>2, <2>1, <2>2, StartKeepsInv, StepKeepsInv DEF Journaled
<1>3. CASE Published
  BY <1>3, PublishKeepsInv, CheckKeepsInv, DeathKeepsInv DEF Published
<1> QED
  BY <1>1, <1>2, <1>3, BranchesKeepInv DEF Next

\* Nothing is under way at first.
LEMMA JournalInvInit == Init => JournalInv
<1> SUFFICES ASSUME Init PROVE JournalInv
  OBVIOUS
<1> USE DEF Init, JournalInit
<1>1. \A g \in Generations : FALSE
  BY DEF Generations
<1>2. JournalTypeOK
  <2>1. journal \in Seq([event : Events, state : States])
    BY EmptySeq
  <2>2. proc \in [Procs -> [pc : Pcs, event : Events \cup {Nobody}, gen : Nat]]
    BY DEF Idle, Pcs
  <2>3. crashes \in 0..MaxCrashes
    BY JournalAssumption
  <2> QED
    BY <2>1, <2>2, <2>3 DEF JournalTypeOK
<1>3. LineageTypeOK
  <2>1. manifests \in Seq(Documents) /\ Ids = {}
    BY EmptySeq DEF Ids
  <2>2. pub \in [Publishers -> Work]
    BY DEF Waiting, Work, PubPcs
  <2> QED
    BY <2>1, <2>2 DEF LineageTypeOK, DistinctManifests
<1>4. LockHeld /\ ChecksAreCounted
  BY DEF LockHeld, ChecksAreCounted, Idle, Waiting
<1>5. WorkIsMarked
  BY DEF WorkIsMarked, Knows, Idle, Recovering, Admitting
<1>6. OneOpenMarker /\ ReceiptIsBacked /\ EventIsAccounted /\ IndexUnlessChecked
  BY <1>1 DEF OneOpenMarker, ReceiptIsBacked, EventIsAccounted, IndexUnlessChecked,
     CommittedIsIndexed, Open
<1> QED
  BY <1>2, <1>3, <1>4, <1>5, <1>6 DEF JournalInv

\* The journal, its files and its processes have their types.
THEOREM JournalTypes == Spec => []JournalTypeOK
<1>1. JournalInv => JournalTypeOK
  BY DEF JournalInv
<1> QED
  BY <1>1, JournalInvInit, JournalInvNext, PTL DEF Spec

\* The journal, the files, the receipts and the index agree, whoever died where
\* and whatever Git moved: at most one admission is under way, a receipt names
\* the generation that admitted its event, and no event of the tree is forgotten.
THEOREM JournalSafe == Spec => []JournalHolds
<1>1. JournalInv => JournalHolds
  BY DEF JournalInv, JournalHolds
<1> QED
  BY <1>1, JournalInvInit, JournalInvNext, PTL DEF Spec

\* A receipt is only ever written where there was none.
LEMMA ReceiptStays ==
  ASSUME JournalInv, [Next]_vars, NEW e \in Events, receipts[e] # 0
  PROVE  receipts'[e] = receipts[e]
<1>1. ASSUME NEW p \in Procs, RecoverReceipt(p) PROVE receipts'[e] = receipts[e]
  BY <1>1, Facts DEF RecoverReceipt, ReceiptWritten
<1>2. ASSUME NEW p \in Procs, Receipt(p) PROVE receipts'[e] = receipts[e]
  <2>1. proc[p].pc = "receipt" /\ proc[p].pc \in Admitting
    BY <1>2 DEF Receipt, AtPc, Admitting
  <2>2. receipts[proc[p].event] = 0
    BY <2>1, InHand DEF Knows, AdmissionKnows
  <2> QED
    BY <1>2, <2>2, Facts DEF Receipt
<1>3. CASE Journaled
  BY <1>1, <1>2, <1>3 DEF Journaled, files, Start, JournalStep, Recovery, RecoveryRefused, RecoverNext,
     RecoverRename, RecoverUnstage, RecoverIndex, RecoverClose, Admission, Answer, Stage, Mark,
     Rename, Unstage, Transition, Index, Finish, Crash, GitMoves
<1>4. CASE Published
  BY <1>4 DEF Published, files, journalVars, Publish, ReadCommitted, LockLineage, SignManifest,
     RegisterManifest, PostManifest, RecordManifest, StartCheck, RepairIndex, Die
<1>5. CASE \/ \E S \in SUBSET Events : \E C \in SUBSET S : Pull(S, C)
           \/ \E t, u \in Trees : t # u /\ Merge(t, u)
           \/ \E t \in Trees : \E S \in past[t] : Rewind(t, S)
  BY <1>5 DEF Pull, Merge, Rewind, journalVars, files
<1>6. CASE UNCHANGED vars
  BY <1>6 DEF vars, journalVars, files
<1> QED
  BY <1>3, <1>4, <1>5, <1>6 DEF Next

\* A receipt that was given is the receipt every retry gets, whoever replays it.
THEOREM ReceiptsStay == Spec => ReceiptIsKept
<1>1. JournalInv /\ [Next]_vars =>
        [\A e \in Events : receipts[e] # 0 => receipts'[e] = receipts[e]]_journalVars
  BY ReceiptStays
<1> QED
  BY <1>1, JournalInvInit, JournalInvNext, PTL DEF Spec, ReceiptIsKept

-----------------------------------------------------------------------------
(* The lineage                                                               *)
(*                                                                           *)
(* A publisher holds the lock from reading the heads to writing the register, *)
(* so that what it signs descends from all the register holds.               *)

\* Some sets of subsets of a finite set have a smallest member.
LEMMA SmallestSet ==
  ASSUME NEW S, IsFiniteSet(S), NEW T \in SUBSET SUBSET S, T # {}
  PROVE  \E X \in T : \A Y \in T : Y \subseteq X => Y = X
<1>1. IsWellFoundedOn(StrictSubsetOrdering(S), SUBSET S)
  BY FS_StrictSubsetOrderingWellFounded, FS_FiniteSubsetsOfFinite
<1>2. PICK X \in T : \A Y \in T : ~(<<Y, X>> \in StrictSubsetOrdering(S))
  BY <1>1, WFMin
<1> QED
  BY <1>2 DEF StrictSubsetOrdering

\* A set of ids has a last one.
LEMMA LastOf ==
  ASSUME NEW n \in Nat, NEW D \in SUBSET (1..n), D # {}
  PROVE  \E m \in D : \A k \in D : k <= m
<1> DEFINE T == {k..n : k \in D}
<1>1. IsFiniteSet(1..n)
  BY FS_Interval
<1>2. T \in SUBSET SUBSET (1..n) /\ T # {}
  <2>1. \A k \in D : k..n \in SUBSET (1..n)
    OBVIOUS
  <2>2. PICK k \in D : TRUE
    OBVIOUS
  <2> QED
    BY <2>1, <2>2, Zenon
<1>3. PICK X \in T : \A Y \in T : Y \subseteq X => Y = X
  <2> DEFINE I == 1..n
  <2>1. IsFiniteSet(I) /\ T \in SUBSET SUBSET I /\ T # {}
    BY <1>1, <1>2
  <2> HIDE DEF T, I
  <2> QED
    BY <2>1, SmallestSet
<1>4. PICK m \in D : X = m..n
  OBVIOUS
<1>5. ASSUME NEW k \in D, ~(k <= m) PROVE FALSE
  <2>1. k..n \in T /\ k..n \subseteq X /\ m \in X /\ m \notin k..n
    BY <1>4, <1>5
  <2> QED
    BY <1>3, <2>1
<1> QED
  BY <1>5

ParentsAreOlder == \A i \in Ids : manifests[i].parents \subseteq 1..(i - 1)

\* The manifest i continues every manifest of the register.
Continues(i) == \A r \in register : r = i \/ Descends(i, r)

\* What a publisher knows of the register and of the events it read.
PublisherKnows(q) ==
  /\ pub[q].pc \in {"lock", "sign"} => pub[q].events \in past[Works[q]]
  /\ pub[q].pc = "sign" =>
       /\ pub[q].parents \subseteq Ids
       /\ \A r \in register : \E m \in pub[q].parents : r = m \/ Descends(m, r)
  /\ pub[q].pc = "register" => pub[q].id \in Ids /\ Continues(pub[q].id)

\* Every manifest is in the register or will be.
AllRegistered ==
  crashes = 0 =>
    \A i \in Ids : i \in register \/ \E q \in Publishers : pub[q].pc = "register" /\ pub[q].id = i

LineageInv ==
  /\ JournalInv
  /\ ParentsAreOlder
  /\ register \subseteq Ids /\ kept \in [Trees -> SUBSET Ids]
  /\ \A t \in Trees : commit[t] \in past[t]
  /\ \A q \in Publishers : PublisherKnows(q)
  /\ RegisterIsOneLineage
  /\ AllRegistered
  /\ PublishedWasCommitted

\* Descent goes on over the manifest in between.
LEMMA DescentIsTransitive ==
  ASSUME NEW k, NEW j \in Ids, NEW i, Descends(k, j), Descends(j, i)
  PROVE  Descends(k, i)
BY DEF Descends, Closed

\* A parent is an ancestor.
LEMMA ParentIsAncestor ==
  ASSUME NEW j, NEW i \in manifests[j].parents
  PROVE  Descends(j, i)
BY DEF Descends

\* A manifest that is written later changes no descent.
LEMMA DescentStays ==
  ASSUME ParentsAreOlder, Ids \subseteq Ids', \A i \in Ids : manifests'[i] = manifests[i],
         Ids = 1..Len(manifests), Len(manifests) \in Nat,
         NEW j \in Ids, NEW i, Descends(j, i)
  PROVE  Descends(j, i)'
<1> SUFFICES ASSUME NEW S \in SUBSET Ids', manifests'[j].parents \subseteq S,
                    \A m \in S : manifests'[m].parents \subseteq S
             PROVE  i \in S
  BY DEF Descends, Closed
<1>1. \A m \in Ids : manifests[m].parents \subseteq Ids
  BY DEF ParentsAreOlder
<1>2. Closed(S \cap Ids) /\ manifests[j].parents \subseteq S \cap Ids
  BY <1>1 DEF Closed
<1> QED
  BY <1>2 DEF Descends

\* Each manifest a worktree sees is one of its heads or an ancestor of one.
LEMMA HeadsCover ==
  ASSUME ParentsAreOlder, Ids = 1..Len(manifests), Len(manifests) \in Nat,
         NEW L \in SUBSET Ids, NEW r \in L
  PROVE  \E m \in HeadsOf(L) : r = m \/ Descends(m, r)
<1> DEFINE D == {j \in L : j = r \/ Descends(j, r)}
<1>1. PICK m \in D : \A k \in D : k <= m
  BY LastOf
<1>2. m \in L /\ (m = r \/ Descends(m, r))
  OBVIOUS
<1>3. ASSUME NEW k \in L, m \in manifests[k].parents PROVE FALSE
  <2>1. m < k
    BY <1>2, <1>3 DEF ParentsAreOlder
  <2>2. Descends(k, m)
    BY <1>3, ParentIsAncestor
  <2>3. Descends(k, r)
    BY <1>2, <2>2, DescentIsTransitive
  <2>4. k \in D
    BY <2>3
  <2> QED
    BY <1>1, <2>1, <2>4
<1> QED
  BY <1>2, <1>3 DEF HeadsOf

\* What the proof of a step starts from.
LEMMA LineageFacts ==
  ASSUME LineageInv
  PROVE  /\ Ids = 1..Len(manifests) /\ Len(manifests) \in Nat
         /\ pub \in [Publishers -> Work] /\ Works \in [Publishers -> Trees]
         /\ commit \in [Trees -> SUBSET Events] /\ past \in [Trees -> SUBSET SUBSET Events]
         /\ kept \in [Trees -> SUBSET Ids] /\ register \subseteq Ids
         /\ crashes \in Nat
  BY LineageAssumption, JournalAssumption, LenProperties
     DEF LineageInv, JournalInv, LineageTypeOK, JournalTypeOK, Ids

\* A step that writes no manifest and registers none.
LEMMA LineageFrame ==
  ASSUME LineageInv, JournalInv', UNCHANGED <<manifests, register>>,
         kept' \in [Trees -> SUBSET Ids],
         \A t \in Trees : past[t] \subseteq past'[t] /\ commit'[t] \in past'[t],
         crashes' = crashes \/ crashes' = crashes + 1,
         NEW Q \in SUBSET Publishers,
         \A o \in Publishers \ Q : pub'[o] = pub[o],
         \A q \in Q : PublisherKnows(q)',
         crashes' = 0 => \A q \in Q : pub[q].pc # "register"
  PROVE  LineageInv'
<1>1. Ids' = Ids
  BY DEF Ids
<1>2. \A j, i : Descends(j, i) => Descends(j, i)'
  BY <1>1 DEF Descends, Closed
<1>3. ParentsAreOlder' /\ register' \subseteq Ids' /\ kept' \in [Trees -> SUBSET Ids']
  BY <1>1 DEF LineageInv, ParentsAreOlder
<1>4. RegisterIsOneLineage'
  BY <1>2 DEF LineageInv, RegisterIsOneLineage
<1>5. ASSUME NEW q \in Publishers PROVE PublisherKnows(q)'
  <2>1. CASE q \in Q
    BY <2>1
  <2>2. CASE q \notin Q
    <3>1. pub'[q] = pub[q] /\ PublisherKnows(q) /\ Works[q] \in Trees
      BY <2>2, LineageFacts DEF LineageInv
    <3>2. \A i : Continues(i) => Continues(i)'
      BY <1>2 DEF Continues
    <3> QED
      BY <1>1, <1>2, <3>1, <3>2 DEF PublisherKnows
  <2> QED
    BY <2>1, <2>2
<1>6. PublishedWasCommitted'
  <2>1. \A i \in Ids : manifests[i].branch \in Trees
    <3>1. manifests \in Seq(Documents)
      BY DEF LineageInv, JournalInv, LineageTypeOK
    <3>2. \A i \in Ids : manifests[i] \in Documents
      BY <3>1, LineageFacts, ElementOfSeq
    <3> QED
      BY <3>2 DEF Documents
  <2> QED
    BY <1>1, <2>1 DEF LineageInv, PublishedWasCommitted
<1>7. AllRegistered'
  <2> SUFFICES ASSUME crashes' = 0, NEW i \in Ids, i \notin register
               PROVE  \E q \in Publishers : pub'[q].pc = "register" /\ pub'[q].id = i
    BY <1>1 DEF AllRegistered
  <2>1. crashes = 0
    BY LineageFacts
  <2>2. PICK q \in Publishers : pub[q].pc = "register" /\ pub[q].id = i
    BY <2>1 DEF LineageInv, AllRegistered
  <2> QED
    BY <2>2
<1> QED
  BY <1>3, <1>4, <1>5, <1>6, <1>7 DEF LineageInv

\* What a publisher signs continues the register, and is the one manifest that
\* is not registered yet.
LEMMA SigningKeepsLineage ==
  ASSUME LineageInv, JournalInv', NEW q \in Publishers, SignManifest(q)
  PROVE  LineageInv'
<1>1. /\ pub[q].pc = "sign" /\ Signed(q)
      /\ UNCHANGED <<journalVars, git, register>>
  BY DEF SignManifest, At
<1>2. /\ Ids = 1..Len(manifests) /\ Len(manifests) \in Nat /\ pub \in [Publishers -> Work]
      /\ Works[q] \in Trees /\ kept \in [Trees -> SUBSET Ids] /\ register \subseteq Ids
  BY LineageFacts
<1>3. PICK id \in Ids' :
           /\ kept' = [kept EXCEPT ![Works[q]] = @ \cup {id}]
           /\ pub' = [pub EXCEPT ![q] = [Waiting EXCEPT !.pc = "register", !.id = id,
                                                         !.rewrite = pub[q].rewrite]]
           /\ id \in Nat /\ manifests'[id] = Document(q)
           /\ Ids \subseteq Ids' /\ \A i \in Ids : manifests'[i] = manifests[i]
           /\ \/ manifests' = manifests /\ Ids' = Ids
              \/ id = Len(manifests) + 1 /\ Ids' = Ids \cup {id} /\ id \notin Ids
  BY <1>1, Signing DEF LineageInv
<1>4. /\ pub'[q].pc = "register" /\ pub'[q].id = id
      /\ \A o \in Publishers \ {q} : pub'[o] = pub[o]
  BY <1>2, <1>3 DEF Waiting
<1>5. \A o \in Publishers \ {q} : pub[o].pc \notin {"sign", "register"}
  BY <1>1 DEF LineageInv, JournalInv, LockHeld
<1>6. /\ pub[q].parents \subseteq Ids /\ pub[q].events \in past[Works[q]]
      /\ \A r \in register : \E m \in pub[q].parents : r = m \/ Descends(m, r)
  BY <1>1 DEF LineageInv, PublisherKnows
<1>7. ParentsAreOlder /\ ParentsAreOlder'
  <2>1. ParentsAreOlder
    BY DEF LineageInv
  <2>2. CASE manifests' = manifests /\ Ids' = Ids
    BY <2>1, <2>2 DEF ParentsAreOlder
  <2>3. CASE id = Len(manifests) + 1 /\ Ids' = Ids \cup {id}
    <3>1. manifests'[id].parents \subseteq 1..(id - 1)
      BY <1>2, <1>3, <1>6, <2>3 DEF Document
    <3> QED
      BY <1>3, <2>1, <2>3, <3>1 DEF ParentsAreOlder
  <2> QED
    BY <1>3, <2>1, <2>2, <2>3
<1>8. \A j \in Ids : \A i : Descends(j, i) => Descends(j, i)'
  BY <1>2, <1>3, <1>7, DescentStays
<1>9. ASSUME NEW r \in register PROVE Descends(id, r)'
  <2>1. PICK m \in pub[q].parents : r = m \/ Descends(m, r)
    BY <1>6
  <2>2. m \in manifests'[id].parents /\ m \in Ids
    BY <1>3, <1>6 DEF Document
  <2>3. Descends(id, m)'
    BY <2>2 DEF Descends
  <2>4. r = m \/ Descends(m, r)'
    BY <1>8, <2>1, <2>2
  <2> QED
    BY <1>3, <2>2, <2>3, <2>4 DEF Descends, Closed
<1>10. \A o \in Publishers : PublisherKnows(o)'
  <2>1. PublisherKnows(q)'
    BY <1>1, <1>3, <1>4, <1>9 DEF PublisherKnows, Continues
  <2>2. ASSUME NEW o \in Publishers \ {q} PROVE PublisherKnows(o)'
    BY <1>1, <1>4, <1>5, <2>2 DEF LineageInv, PublisherKnows, git
  <2> QED
    BY <2>1, <2>2
<1>11. RegisterIsOneLineage' /\ register' \subseteq Ids' /\ kept' \in [Trees -> SUBSET Ids']
  BY <1>1, <1>2, <1>3, <1>8 DEF LineageInv, RegisterIsOneLineage
<1>12. AllRegistered'
  <2> SUFFICES ASSUME crashes' = 0, NEW i \in Ids', i \notin register'
               PROVE  \E o \in Publishers : pub'[o].pc = "register" /\ pub'[o].id = i
    BY DEF AllRegistered
  <2>1. i = id \/ i \in Ids
    BY <1>3
  <2>2. CASE i = id
    BY <1>4, <2>2
  <2>3. CASE i \in Ids
    BY <1>1, <1>5, <2>3 DEF LineageInv, AllRegistered, journalVars
  <2> QED
    BY <2>1, <2>2, <2>3
<1>13. PublishedWasCommitted'
  <2>1. manifests'[id].events \in past[manifests'[id].branch]
    BY <1>3, <1>6 DEF Document
  <2> QED
    BY <1>1, <1>3, <2>1 DEF LineageInv, PublishedWasCommitted, git
<1>14. \A t \in Trees : commit'[t] \in past'[t]
  BY <1>1 DEF LineageInv, git
<1> QED
  BY <1>7, <1>10, <1>11, <1>12, <1>13, <1>14 DEF LineageInv

\* The register takes in what continues all it holds.
LEMMA RegisteringKeepsLineage ==
  ASSUME LineageInv, JournalInv', NEW q \in Publishers, RegisterManifest(q)
  PROVE  LineageInv'
<1> DEFINE id == pub[q].id
<1>1. /\ pub[q].pc = "register" /\ register' = register \cup {pub[q].id}
      /\ pub' = [pub EXCEPT ![q].pc = "post"]
      /\ UNCHANGED <<git, manifests, kept, crashes>>
  BY DEF RegisterManifest, At
<1>2. /\ pub \in [Publishers -> Work] /\ id \in Ids
      /\ \A r \in register : r = id \/ Descends(id, r)
  BY <1>1, LineageFacts DEF LineageInv, PublisherKnows, Continues
<1>3. /\ pub'[q].pc = "post" /\ \A o \in Publishers \ {q} : pub'[o] = pub[o]
  BY <1>1, <1>2 DEF Work
<1>4. \A o \in Publishers \ {q} : pub[o].pc \notin {"sign", "register"}
  BY <1>1 DEF LineageInv, JournalInv, LockHeld
<1>5. Ids' = Ids /\ \A j, i : Descends(j, i) => Descends(j, i)'
  BY <1>1 DEF Ids, Descends, Closed
<1>6. RegisterIsOneLineage'
  <2>1. \A i, j \in register \cup {id} : i = j \/ Descends(j, i) \/ Descends(i, j)
    BY <1>2 DEF LineageInv, RegisterIsOneLineage
  <2> HIDE DEF id
  <2>2. register' = register \cup {id}
    BY <1>1 DEF id
  <2> QED
    BY <1>5, <2>1, <2>2 DEF RegisterIsOneLineage
<1>7. \A o \in Publishers : PublisherKnows(o)'
  <2>1. ASSUME NEW o \in Publishers \ {q} PROVE PublisherKnows(o)'
    BY <1>1, <1>3, <1>4, <2>1 DEF LineageInv, PublisherKnows, git
  <2> QED
    BY <1>3, <2>1 DEF PublisherKnows
<1>8. AllRegistered'
  BY <1>1, <1>3, <1>5 DEF LineageInv, AllRegistered
<1> QED
  BY <1>1, <1>2, <1>5, <1>6, <1>7, <1>8 DEF LineageInv, ParentsAreOlder, PublishedWasCommitted, git

\* Every step keeps the lineage.
LEMMA LineageInvNext == LineageInv /\ [Next]_vars => LineageInv'
<1> SUFFICES ASSUME LineageInv, [Next]_vars PROVE LineageInv'
  OBVIOUS
<1>1. JournalInv'
  BY JournalInvNext DEF LineageInv
<1> DEFINE Still(Q) ==
      /\ UNCHANGED <<manifests, kept, register, commit, past>>
      /\ crashes' = crashes \/ crashes' = crashes + 1
      /\ \A o \in Publishers \ Q : pub'[o] = pub[o]
<1>2. ASSUME NEW Q \in SUBSET Publishers, Still(Q), \A q \in Q : PublisherKnows(q)',
             crashes' = 0 => \A q \in Q : pub[q].pc # "register"
      PROVE  LineageInv'
  BY <1>1, <1>2, LineageFrame, LineageFacts DEF LineageInv
<1>0. ASSUME UNCHANGED <<manifests, kept, register, commit, past, pub>>,
             crashes' = crashes \/ crashes' = crashes + 1
      PROVE  LineageInv'
  <2> DEFINE N == {}
  <2>1. N \in SUBSET Publishers /\ Still(N)
        /\ (\A q \in N : PublisherKnows(q)') /\ \A q \in N : pub[q].pc # "register"
    BY <1>0
  <2> HIDE DEF N
  <2> QED
    BY <1>2, <2>1
<1>3. CASE UNCHANGED vars
  <2>1. UNCHANGED <<manifests, kept, register, commit, past, pub, crashes>>
    BY <1>3 DEF vars, journalVars, git, lineage
  <2> QED
    BY <1>0, <2>1
<1>4. CASE Journaled
  <2>1. crashes' = crashes \/ crashes' = crashes + 1
    BY <1>4 DEF Journaled, Start, JournalStep, Recovery, RecoveryRefused, RecoverNext, RecoverRename,
       RecoverUnstage, RecoverIndex, RecoverReceipt, RecoverClose, Admission, Answer, Stage, Mark,
       Rename, Unstage, Transition, Index, Receipt, Finish, Crash, GitMoves
  <2>2. UNCHANGED <<manifests, kept, register, commit, past, pub>>
    BY <1>4 DEF Journaled, git, lineage
  <2> QED
    BY <1>0, <2>1, <2>2
<1>5. ASSUME NEW q \in Publishers, Publish(q) PROVE LineageInv'
  <2>0. pub \in [Publishers -> Work] /\ Works[q] \in Trees
    BY LineageFacts
  <2>1. CASE ReadCommitted(q)
    <3>1. Still({q}) /\ pub[q].pc = "idle" /\ pub'[q].pc = "lock" /\ pub'[q].events = commit[Works[q]]
      BY <2>0, <2>1 DEF ReadCommitted, CommittedEvents, At, journalVars, git, lineage, Waiting
    <3>2. PublisherKnows(q)'
      BY <2>0, <3>1 DEF LineageInv, PublisherKnows
    <3> QED
      BY <1>2, <3>1, <3>2
  <2>2. CASE LockLineage(q)
    <3>1. /\ Still({q}) /\ pub[q].pc = "lock" /\ pub'[q].pc = "sign" /\ pub'[q].events = pub[q].events
          /\ pub'[q].parents = Heads(Works[q])
      BY <2>0, <2>2 DEF LockLineage, At, git, lineage, Work
    <3>2. Lineage(Works[q]) \subseteq Ids /\ register \subseteq Lineage(Works[q])
      BY <2>0, LineageFacts DEF Lineage
    <3>3. \A r \in register : \E m \in Heads(Works[q]) : r = m \/ Descends(m, r)
      BY <3>2, HeadsCover, LineageFacts DEF Heads, LineageInv
    <3>4. Heads(Works[q]) \subseteq Ids
      BY <3>2 DEF Heads, HeadsOf
    <3>5. Ids' = Ids /\ \A j, i : Descends(j, i) => Descends(j, i)'
      BY <3>1 DEF Ids, Descends, Closed
    <3>6. pub[q].events \in past[Works[q]]
      BY <3>1 DEF LineageInv, PublisherKnows
    <3>7. PublisherKnows(q)'
      BY <3>1, <3>3, <3>4, <3>5, <3>6 DEF PublisherKnows
    <3> QED
      BY <1>2, <3>1, <3>7
  <2>3. CASE SignManifest(q)
    BY <1>1, <2>3, SigningKeepsLineage
  <2>4. CASE RegisterManifest(q)
    BY <1>1, <2>4, RegisteringKeepsLineage
  <2>5. CASE PostManifest(q) \/ RecordManifest(q)
    <3>1. Still({q}) /\ pub[q].pc \in {"post", "record"} /\ pub'[q].pc \in {"record", "idle"}
      BY <2>0, <2>5 DEF PostManifest, RecordManifest, At, journalVars, git, lineage, Work, Waiting
    <3>2. PublisherKnows(q)'
      BY <3>1 DEF PublisherKnows
    <3> QED
      BY <1>2, <3>1, <3>2
  <2> QED
    BY <1>5, <2>1, <2>2, <2>3, <2>4, <2>5 DEF Publish
<1>6. ASSUME NEW q \in Publishers, StartCheck(q) \/ RepairIndex(q) \/ Die(q) PROVE LineageInv'
  <2>0. pub \in [Publishers -> Work] /\ crashes \in Nat
    BY LineageFacts
  <2>1. Still({q}) /\ pub'[q].pc \in {"repair", "idle"} /\ (crashes' = 0 => pub[q].pc # "register")
    BY <1>6, <2>0 DEF StartCheck, RepairIndex, Die, At, journalVars, git, lineage, Work, Waiting
  <2>2. PublisherKnows(q)'
    BY <2>1 DEF PublisherKnows
  <2> DEFINE N == {q}
  <2>3. /\ N \in SUBSET Publishers /\ Still(N) /\ \A o \in N : PublisherKnows(o)'
        /\ crashes' = 0 => \A o \in N : pub[o].pc # "register"
    BY <2>1, <2>2
  <2> HIDE DEF N
  <2> QED
    BY <1>2, <2>3
<1>7. ASSUME NEW t \in Trees, NEW S, Branch(t, S), UNCHANGED <<manifests, register, pub, crashes>>,
             kept' \in [Trees -> SUBSET Ids]
      PROVE  LineageInv'
  <2>1. \A u \in Trees : past[u] \subseteq past'[u] /\ commit'[u] \in past'[u]
    BY <1>7, LineageFacts DEF Branch, LineageInv
  <2> DEFINE N == {}
  <2>2. /\ N \in SUBSET Publishers /\ (\A o \in Publishers \ N : pub'[o] = pub[o])
        /\ (\A q \in N : PublisherKnows(q)') /\ \A q \in N : pub[q].pc # "register"
    BY <1>7
  <2> HIDE DEF N
  <2> QED
    BY <1>1, <1>7, <2>1, <2>2, LineageFrame
<1>8. ASSUME NEW S \in SUBSET Events, NEW C \in SUBSET S, Pull(S, C) PROVE LineageInv'
  BY <1>7, <1>8, LineageFacts, LineageAssumption DEF Pull, lineage
<1>9. ASSUME NEW t \in Trees, NEW u \in Trees, Merge(t, u) PROVE LineageInv'
  BY <1>7, <1>9, LineageFacts DEF Merge
<1>10. ASSUME NEW t \in Trees, NEW S \in past[t], Rewind(t, S) PROVE LineageInv'
  BY <1>7, <1>10, LineageFacts DEF Rewind, journalVars
<1> QED
  BY <1>3, <1>4, <1>5, <1>6, <1>8, <1>9, <1>10 DEF Next, Published

\* There is no manifest at first.
LEMMA LineageInvInit == Init => LineageInv
<1> SUFFICES ASSUME Init PROVE LineageInv
  OBVIOUS
<1>1. JournalInv
  BY JournalInvInit
<1>2. Ids = {} /\ register = {} /\ pub = [q \in Publishers |-> Waiting]
      /\ kept = [t \in Trees |-> {}] /\ \A t \in Trees : commit[t] = {} /\ past[t] = {{}}
  BY DEF Init, Ids
<1> QED
  BY <1>1, <1>2 DEF LineageInv, ParentsAreOlder, PublisherKnows, RegisterIsOneLineage, AllRegistered,
     PublishedWasCommitted, Waiting

\* Once all manifests are registered, every worktree sees the same single head.
LEMMA OneHead == LineageInv => HeadsAgree
<1> SUFFICES ASSUME LineageInv, crashes = 0, lock = Nobody, NEW t \in Trees, NEW u \in Trees
             PROVE  Heads(t) = Heads(u) /\ Cardinality(Heads(t)) <= 1
  BY DEF HeadsAgree
<1>1. register = Ids
  <2>1. \A q \in Publishers : pub[q].pc # "register"
    BY LineageAssumption DEF LineageInv, JournalInv, LockHeld
  <2> QED
    BY <2>1 DEF LineageInv, AllRegistered
<1>2. Lineage(t) = Ids /\ Lineage(u) = Ids
  BY <1>1, LineageFacts DEF Lineage
<1>3. \A i, j \in HeadsOf(Ids) : ~(i # j /\ Descends(j, i))
  <2> SUFFICES ASSUME NEW i \in HeadsOf(Ids), NEW j \in HeadsOf(Ids), i # j, Descends(j, i)
               PROVE  FALSE
    OBVIOUS
  <2>1. \A k \in Ids : manifests[k].parents \subseteq Ids \ {i}
    BY LineageFacts DEF LineageInv, ParentsAreOlder, HeadsOf
  <2>2. Closed(Ids \ {i}) /\ manifests[j].parents \subseteq Ids \ {i}
    BY <2>1 DEF Closed, HeadsOf
  <2> QED
    BY <2>2 DEF Descends
<1>4. \A i, j \in HeadsOf(Ids) : i = j
  BY <1>1, <1>3 DEF LineageInv, RegisterIsOneLineage, HeadsOf
<1>5. Cardinality(HeadsOf(Ids)) <= 1
  <2>1. CASE HeadsOf(Ids) = {}
    BY <2>1, FS_EmptySet
  <2>2. CASE HeadsOf(Ids) # {}
    <3>1. PICK i : HeadsOf(Ids) = {i}
      BY <1>4, <2>2
    <3> QED
      BY <3>1, FS_Singleton
  <2> QED
    BY <2>1, <2>2
<1> QED
  BY <1>2, <1>5 DEF Heads

\* The register is one lineage whoever died where, as long as nobody died all
\* worktrees see its single head, and a manifest lists only what was committed
\* together on its branch.
THEOREM LineageSafe == Spec => []LineageAgrees
<1>1. LineageInv => LineageAgrees
  BY OneHead DEF LineageInv, LineageAgrees
<1> QED
  BY <1>1, LineageInvInit, LineageInvNext, PTL DEF Spec

-----------------------------------------------------------------------------
(* The readers                                                               *)
(*                                                                           *)
(* The reducer chooses the earliest, the latest and the first of some events; *)
(* what it chooses exists because names and cursors are numbers, and bounded. *)

\* Some numbers have a least one.
LEMMA LeastNumber ==
    ASSUME NEW S \in SUBSET Nat, S # {}
    PROVE  \E m \in S : \A y \in S : m <= y
<1>1. PICK k \in S : TRUE
  OBVIOUS
<1> DEFINE D == {x \in S : x <= k}
<1> DEFINE T == {0..y : y \in D}
<1>2. IsFiniteSet(0..k)
  BY FS_Interval
<1>3. T \in SUBSET SUBSET (0..k) /\ T # {}
  <2>1. \A y \in D : 0..y \in SUBSET (0..k)
    OBVIOUS
  <2>2. k \in D
    OBVIOUS
  <2> QED
    BY <2>1, <2>2, Zenon
<1>4. PICK X \in T : \A Y \in T : Y \subseteq X => Y = X
  <2> DEFINE I == 0..k
  <2>1. IsFiniteSet(I) /\ T \in SUBSET SUBSET I /\ T # {}
    BY <1>2, <1>3
  <2> HIDE DEF T, I
  <2> QED
    BY <2>1, SmallestSet
<1>5. PICK m \in D : X = 0..m
  OBVIOUS
<1>6. ASSUME NEW y \in S, ~(m <= y) PROVE FALSE
  <2>1. y \in D
    BY <1>5, <1>6
  <2>2. 0..y \in T /\ 0..y \subseteq X /\ m \in X /\ m \notin 0..y
    BY <1>5, <1>6, <2>1
  <2> QED
    BY <1>4, <2>2
<1> QED
  BY <1>5, <1>6

-----------------------------------------------------------------------------
\* Bounded numbers have a greatest one.
LEMMA GreatestNumber ==
  ASSUME NEW S \in SUBSET Nat, S # {}, NEW b \in Nat, \A x \in S : x <= b
  PROVE  \E m \in S : \A y \in S : y <= m
<1> DEFINE B == {x \in Nat : \A y \in S : y <= x}
<1>1. B \in SUBSET Nat /\ B # {}
  OBVIOUS
<1>2. PICK m \in B : \A y \in B : m <= y
  <2> HIDE DEF B
  <2> QED
    BY <1>1, LeastNumber
<1>3. m \in S
  <2> SUFFICES ASSUME m \notin S PROVE FALSE
    OBVIOUS
  <2>1. PICK s \in S : TRUE
    OBVIOUS
  <2>2. \A y \in S : y < m
    BY <1>2
  <2>3. m - 1 \in B
    BY <2>1, <2>2, <1>2
  <2> QED
    BY <2>3, <1>2
<1> QED
  BY <1>2, <1>3

\* Finitely many numbers are bounded.
LEMMA FewAreBounded ==
  ASSUME NEW n \in Nat, NEW f \in [1..n -> Nat]
  PROVE  \E b \in Nat : \A i \in 1..n : f[i] <= b
<1> DEFINE BoundedTo(k) == \E b \in Nat : \A i \in 1..k : f[i] <= b
<1> DEFINE U == {k \in 0..n : ~BoundedTo(k)}
<1> SUFFICES ASSUME ~BoundedTo(n) PROVE FALSE
  OBVIOUS
<1>1. U \in SUBSET Nat /\ n \in U
  OBVIOUS
<1>2. PICK k \in U : \A y \in U : k <= y
  <2> HIDE DEF U
  <2> QED
    BY <1>1, LeastNumber
<1>3. BoundedTo(0)
  <2>1. 0 \in Nat /\ \A i \in 1..0 : f[i] <= 0
    OBVIOUS
  <2> QED
    BY <2>1
<1>4. k \in 1..n
  <2>1. k \in 0..n /\ ~BoundedTo(k)
    OBVIOUS
  <2>2. k # 0
    <3> HIDE DEF BoundedTo
    <3> QED
      BY <2>1, <1>3
  <2> QED
    BY <2>1, <2>2
<1>5. BoundedTo(k - 1)
  <2>1. k - 1 \in 0..n /\ ~(k <= k - 1)
    BY <1>4
  <2>2. k - 1 \notin U
    BY <1>2, <2>1
  <2> QED
    BY <2>1, <2>2
<1>6. PICK b \in Nat : \A i \in 1..(k - 1) : f[i] <= b
  BY <1>5
<1>7. PICK c \in Nat : b <= c /\ f[k] <= c
  <2>1. f[k] \in Nat
    BY <1>4
  <2> HIDE DEF U, BoundedTo
  <2>2. b + f[k] \in Nat /\ b <= b + f[k] /\ f[k] <= b + f[k]
    BY <2>1
  <2> QED
    BY <2>2
<1>8. \A i \in 1..k : f[i] <= c
  <2> SUFFICES ASSUME NEW i \in 1..k PROVE f[i] <= c
    OBVIOUS
  <2> HIDE DEF U, BoundedTo
  <2>0. i \in 1..n
    BY <1>4
  <2>1. f[i] \in Nat /\ f[k] \in Nat
    BY <1>4, <2>0
  <2>2. CASE i = k
    BY <2>2, <1>7
  <2>3. CASE i # k
    <3>1. i \in 1..(k - 1)
      BY <1>4, <2>3
    <3> QED
      BY <3>1, <1>6, <1>7, <2>1
  <2> QED
    BY <2>2, <2>3
<1>9. BoundedTo(k) /\ ~BoundedTo(k)
  BY <1>8
<1> QED
  BY <1>9

\* Events have names of their own, and the names are numbers.
Distinct(X) == \A d, e \in X : d.id \in Nat /\ (d.id = e.id => d = e)

\* The events of a log have names of their own, up to some greatest one.
LEMMA LogFacts ==
  ASSUME NEW X, Distinct(X), NEW s \in Seq(X)
  PROVE  /\ Len(s) \in Nat /\ DOMAIN s = 1..Len(s)
         /\ ToSet(s) \subseteq X /\ Distinct(ToSet(s))
         /\ \E b \in Nat : \A e \in ToSet(s) : e.id <= b
<1>1. Len(s) \in Nat /\ DOMAIN s = 1..Len(s) /\ \A i \in 1..Len(s) : s[i] \in X
  OBVIOUS
<1>2. ToSet(s) \subseteq X
  BY <1>1 DEF ToSet
<1>3. Distinct(ToSet(s))
  BY <1>2, Zenon DEF Distinct
<1> DEFINE f == [i \in 1..Len(s) |-> s[i].id]
<1>4. \A d \in X : d.id \in Nat
  BY Zenon DEF Distinct
<1>5. f \in [1..Len(s) -> Nat]
  BY <1>1, <1>4
<1>6. PICK b \in Nat : \A i \in 1..Len(s) : f[i] <= b
  <2> HIDE DEF f
  <2> QED
    BY <1>1, <1>5, FewAreBounded
<1>7. \A e \in ToSet(s) : e.id <= b
  BY <1>1, <1>6 DEF ToSet
<1> QED
  BY <1>1, <1>2, <1>3, <1>7

-----------------------------------------------------------------------------
\* What the reducer needs of its input: the events have names of their own, and their
\* cursors are numbers up to some bound.
Orderly(in) ==
  /\ Distinct(in.events)
  /\ \E b \in Nat : \A e \in in.events : in.cursor[e.id] \in Nat /\ in.cursor[e.id] <= b

\* Among some events of an orderly input there is an earliest and a latest.
LEMMA Extremes ==
  ASSUME NEW in, Orderly(in), NEW S \in SUBSET in.events, S # {}
  PROVE  Earliest(in, S) \in S /\ Latest(in, S) \in S
<1> DEFINE at(e) == in.cursor[e.id]
<1> DEFINE C == {at(e) : e \in S}
<1>1. PICK b \in Nat : \A e \in in.events : at(e) \in Nat /\ at(e) <= b
  BY Zenon DEF Orderly
<1>2. C \in SUBSET Nat /\ C # {} /\ \A x \in C : x <= b
  BY <1>1
<1>3. PICK x \in C : \A y \in C : x <= y
  <2> HIDE DEF C
  <2> QED
    BY <1>2, LeastNumber
<1>4. PICK z \in C : \A y \in C : y <= z
  <2> HIDE DEF C
  <2> QED
    BY <1>2, GreatestNumber
<1>5. \E e \in S : \A f \in S : in.cursor[e.id] <= in.cursor[f.id]
  BY <1>3
<1>6. \E e \in S : \A f \in S : in.cursor[f.id] <= in.cursor[e.id]
  BY <1>4
<1> QED
  BY <1>5, <1>6, Zenon DEF Earliest, Latest

\* A head of the reducer stands on some events of its input.
StandsOn(in, h, S) == S \in SUBSET in.events /\ S # {} /\ h = HeadOf(in, S)
Stands(in, h) == \E S : StandsOn(in, h, S)

\* The events a head shows are events of the input.
LEMMA HeadFacts ==
  ASSUME NEW in, Orderly(in), NEW h, Stands(in, h)
  PROVE  h.event \in in.events /\ h.newest \in in.events
<1>1. PICK S : StandsOn(in, h, S)
  BY DEF Stands
<1>2. Earliest(in, S) \in S /\ Latest(in, S) \in S
  BY <1>1, Extremes DEF StandsOn
<1>3. h.event = Earliest(in, S) /\ h.newest = Latest(in, S)
  BY <1>1 DEF StandsOn, HeadOf
<1> QED
  BY <1>1, <1>2, <1>3 DEF StandsOn

\* Among some heads there is a newest and a first.
LEMMA ChosenHeads ==
  ASSUME NEW in, Orderly(in), NEW T, T # {}, \A h \in T : Stands(in, h)
  PROVE  NewestHead(in, T) \in T /\ FirstHead(T) \in T
<1>1. \A h \in T : h.event \in in.events /\ h.newest \in in.events
  BY HeadFacts
<1> DEFINE at(h) == in.cursor[h.newest.id]
<1> DEFINE C == {at(h) : h \in T}
<1> DEFINE I == {h.event.id : h \in T}
<1>2. PICK b \in Nat : \A e \in in.events : in.cursor[e.id] \in Nat /\ in.cursor[e.id] <= b
  BY Zenon DEF Orderly
<1>3. C \in SUBSET Nat /\ C # {} /\ \A x \in C : x <= b
  BY <1>1, <1>2
<1>4. PICK z \in C : \A y \in C : y <= z
  <2> HIDE DEF C
  <2> QED
    BY <1>3, GreatestNumber
<1>5. \E h \in T : \A g \in T : in.cursor[g.newest.id] <= in.cursor[h.newest.id]
  BY <1>4
<1>6. I \in SUBSET Nat /\ I # {}
  <2>1. \A e \in in.events : e.id \in Nat
    BY Zenon DEF Orderly, Distinct
  <2> QED
    BY <1>1, <2>1
<1>7. PICK x \in I : \A y \in I : x <= y
  <2> HIDE DEF I
  <2> QED
    BY <1>6, LeastNumber
<1>8. \E h \in T : \A g \in T : h.event.id <= g.event.id
  BY <1>7
<1> QED
  BY <1>5, <1>8, Zenon DEF NewestHead, FirstHead

\* The events that speak for a key are eligible, and no observed revocation covers them.
Warranted(in, e) == e \in in.events /\ ~Ineligible(in, e) /\ ~SupportRevoked(in, e)

\* What is current for a key stands on warranted events.
LEMMA CurrentStands ==
  ASSUME NEW in, Orderly(in), NEW k, NEW h \in ReduceKey(in, k).current
  PROVE  \E S : StandsOn(in, h, S) /\ \A e \in S : Warranted(in, e)
<1> DEFINE ev == Eligible(in, {e \in in.events : e.key = k})
<1> DEFINE cl == Clusters(in, ev.live)
<1> DEFINE H == HeadsIn(in, cl)
<1> DEFINE T == TopOf(H)
<1> DEFINE C == ConflictIn(T, H \ T)
<1>1. ReduceKey(in, k) = Decided(in, k, ev, cl, H, C, CurrentIn(in, T, C))
  BY DEF ReduceKey, Evidence, Clustered, Headed, Ranked, Weighed
<1>2. h \in CurrentIn(in, T, C)
  <2> HIDE DEF ev, cl, H, T, C
  <2>1. PICK cur : cur = CurrentIn(in, T, C)
    OBVIOUS
  <2>2. PICK state : state = StateOf(in, ev, cl, H, C, cur)
    OBVIOUS
  <2>3. ReduceKey(in, k).current = (IF state \in {"current", "withheld"} THEN cur ELSE {})
    BY <1>1, <2>1, <2>2 DEF Decided, Outcome
  <2> QED
    BY <2>1, <2>3
<1>3. ASSUME NEW g \in H PROVE \E S : StandsOn(in, g, S) /\ \A e \in S : Warranted(in, e)
  <2>1. ev.live \subseteq ev.el /\ ev.el = {e \in in.events : e.key = k /\ ~Ineligible(in, e)}
    BY DEF Eligible, Sifted
  <2> HIDE DEF ev
  <2>2. PICK M \in cl : Support(in, M) # {} /\ g = HeadOf(in, Support(in, M))
    BY <1>3 DEF HeadsIn, Lost
  <2>3. M \subseteq ev.live
    BY <2>2 DEF Clusters, Members
  <2>4. \A e \in Support(in, M) : e \in ev.live /\ ~SupportRevoked(in, e)
    BY <2>3 DEF Support
  <2>5. \A e \in Support(in, M) : Warranted(in, e)
    BY <2>1, <2>4, Zenon DEF Warranted
  <2> QED
    BY <2>2, <2>5 DEF StandsOn, Warranted
<1>4. h \in T
  <2>1. T \subseteq H
    BY DEF TopOf
  <2>2. \A g \in T : Stands(in, g)
    BY <1>3, <2>1 DEF Stands
  <2> HIDE DEF T, C, H
  <2>3. CASE T = {} \/ C # {}
    BY <2>3, <1>2 DEF CurrentIn
  <2>4. CASE T # {} /\ C = {}
    <3>1. NewestHead(in, T) \in T /\ FirstHead(T) \in T
      BY <2>2, <2>4, ChosenHeads
    <3>2. h \in IF Decays(T) THEN {NewestHead(in, T)} ELSE {FirstHead(T)}
      BY <2>4, <1>2 DEF CurrentIn
    <3> QED
      BY <3>1, <3>2
  <2> QED
    BY <2>3, <2>4
<1>5. h \in H
  BY <1>4 DEF TopOf
<1> QED
  BY <1>3, <1>5

-----------------------------------------------------------------------------
\* What a reader knows of authority: its revocations are not newer than its cursor, and
\* a scope that was taken from a key is not listed for it.
SoundTrust(t) ==
  /\ t.cursor \in Nat
  /\ \A r \in t.revs : r.cursor \in Nat /\ r.cursor <= t.cursor
  /\ \A r \in t.revs, x \in t.registry :
       r.scope # None /\ x.key = r.key => x.scope # r.scope

SoundWorld(w, X) ==
  /\ Distinct(X) /\ w.log \in Seq(X)
  /\ SoundTrust(TrustOf(w)) /\ SoundTrust(w.held)

\* An event of the log has a position in it.
LEMMA PositionFacts ==
  ASSUME NEW X, Distinct(X), NEW w, w.log \in Seq(X), NEW e \in ToSet(w.log)
  PROVE  Position(w.log, e) \in 1..Len(w.log)
<1>1. DOMAIN w.log = 1..Len(w.log)
  BY LogFacts
<1>2. \E i \in DOMAIN w.log : w.log[i] = e
  BY DEF ToSet
<1> QED
  BY <1>1, <1>2 DEF Position

\* The event of a name.
LEMMA NamedEvent ==
  ASSUME NEW E, Distinct(E), NEW e \in E
  PROVE  (CHOOSE d \in E : d.id = e.id) = e /\ e.id \in IdsOf(E)
<1>1. \A d \in E : d.id = e.id => d = e
  BY Zenon DEF Distinct
<1>2. (CHOOSE d \in E : d.id = e.id) = e
  BY <1>1
<1> QED
  BY <1>2 DEF IdsOf

\* The cursors that a reader gives its events are numbers up to some bound.
LEMMA CursorFacts ==
  ASSUME NEW X, NEW w, SoundWorld(w, X), NEW E \in SUBSET ToSet(w.log)
  PROVE  /\ Distinct(E)
         /\ \E b \in Nat : \A e \in E : /\ CursorsOf(w.log, E)[e.id] \in Nat
                                       /\ CursorsOf(w.log, E)[e.id] <= b
<1> USE DEF SoundWorld
<1>1. Distinct(ToSet(w.log)) /\ Len(w.log) \in Nat
  BY LogFacts
<1>2. Distinct(E)
  BY <1>1, Zenon DEF Distinct
<1>3. PICK b \in Nat : \A e \in ToSet(w.log) : e.id <= b
  BY LogFacts
<1>4. ASSUME NEW e \in E
      PROVE  CursorsOf(w.log, E)[e.id] \in Nat /\ CursorsOf(w.log, E)[e.id] <= b + Len(w.log)
  <2>1. CursorsOf(w.log, E)[e.id] = CursorOf(w.log, e)
    BY <1>2, NamedEvent DEF CursorsOf
  <2>2. e.id \in Nat /\ e.id <= b
    BY <1>2, <1>3, <1>4 DEF Distinct
  <2>3. Position(w.log, e) \in 1..Len(w.log)
    BY <1>4, PositionFacts
  <2>4. CursorOf(w.log, e) \in {Position(w.log, e), e.id}
    BY DEF CursorOf
  <2> QED
    BY <1>1, <2>1, <2>2, <2>3, <2>4
<1>5. b + Len(w.log) \in Nat
  BY <1>1
<1> QED
  BY <1>2, <1>4, <1>5

\* What a reader hands to the reducer is orderly, with the verdicts of the reader.
LEMMA InputFacts ==
  ASSUME NEW X, NEW w, SoundWorld(w, X), NEW E \in SUBSET ToSet(w.log),
         NEW t, NEW tombs, NEW seen
  PROVE  /\ Orderly(InputOf(w, E, t, tombs, seen))
         /\ InputOf(w, E, t, tombs, seen).events = E
         /\ InputOf(w, E, t, tombs, seen).store = w.store
         /\ InputOf(w, E, t, tombs, seen).authority = t.cursor
         /\ \A e \in E : InputOf(w, E, t, tombs, seen).verdict[e.id] = VerdictOf(w.log, t, e)
<1> DEFINE in == InputOf(w, E, t, tombs, seen)
<1>1. /\ in.events = E /\ in.cursor = CursorsOf(w.log, E)
      /\ in.store = w.store /\ in.authority = t.cursor
  BY DEF InputOf
<1>2. in.verdict = [i \in IdsOf(E) |-> VerdictOf(w.log, t, CHOOSE e \in E : e.id = i)]
  BY DEF InputOf, VerdictsOf
<1> HIDE DEF in
<1>3. Orderly(in)
  BY <1>1, CursorFacts DEF Orderly
<1>4. ASSUME NEW e \in E PROVE in.verdict[e.id] = VerdictOf(w.log, t, e)
  <2>1. (CHOOSE d \in E : d.id = e.id) = e /\ e.id \in IdsOf(E)
    BY CursorFacts, NamedEvent
  <2> QED
    BY <1>2, <2>1
<1> QED
  BY <1>1, <1>3, <1>4 DEF in

\* A revocation the reader holds is one its input names.
LEMMA InputRevocations ==
  ASSUME NEW w, NEW E, NEW t, NEW tombs, NEW seen, NEW r \in t.revs
  PROVE  \E x \in InputOf(w, E, t, tombs, seen).revs :
           /\ x.key = r.key /\ x.scope = r.scope /\ x.cursor = r.cursor
           /\ x.effective = r.effective /\ x.observed = seen
<1> DEFINE f(y) == [key |-> y.key, scope |-> y.scope, cursor |-> y.cursor,
                    effective |-> y.effective, observed |-> seen]
<1>1. InputOf(w, E, t, tombs, seen).revs = {f(y) : y \in t.revs}
  BY DEF InputOf
<1>2. f(r) \in {f(y) : y \in t.revs}
  OBVIOUS
<1>3. /\ f(r).key = r.key /\ f(r).scope = r.scope /\ f(r).cursor = r.cursor
      /\ f(r).effective = r.effective /\ f(r).observed = seen
  OBVIOUS
<1> HIDE DEF f
<1> QED
  BY <1>1, <1>2, <1>3

\* An event a held revocation covers is not warranted, where revocations are observed.
LEMMA CoveredIsNotWarranted ==
  ASSUME NEW X, NEW w, SoundWorld(w, X), NEW E \in SUBSET ToSet(w.log),
         NEW t, NEW tombs, NEW seen, seen \/ SoundTrust(t), NEW e,
         Warranted(InputOf(w, E, t, tombs, seen), e), NEW r \in t.revs, r.key = e.signer
  PROVE  r.scope \notin {None, e.scope}
<1> DEFINE in == InputOf(w, E, t, tombs, seen)
<1>1. PICK x \in in.revs : /\ x.key = r.key /\ x.scope = r.scope /\ x.cursor = r.cursor
                           /\ x.observed = seen
  BY InputRevocations
<1>2. in.authority = t.cursor
  BY InputFacts
<1> HIDE DEF in
<1>3. x.observed \/ x.cursor <= in.authority
  BY <1>1, <1>2 DEF SoundTrust
<1>4. ~SupportRevoked(in, e)
  BY DEF Warranted, in
<1> QED
  BY <1>1, <1>3, <1>4 DEF SupportRevoked, ObservedRevocations, Covers

-----------------------------------------------------------------------------
\* The revocations a reader has observed.
ObservedBy(w) == IF w.store = "company" THEN w.revs ELSE w.held.revs

\* What warrants a statement for a reader is in the log and not withdrawn.
Vouches(w, e) == e \in ToSet(w.log) /\ ~\E r \in ObservedBy(w) : Withdraws(w.store, r, e)

\* What warrants a statement for the Company service is in its log and not withdrawn.
LEMMA CompanyReader ==
  ASSUME NEW X, NEW w, SoundWorld(w, X), w.store = "company"
  PROVE  Orderly(Input(w)) /\ \A e : Warranted(Input(w), e) => Vouches(w, e)
<1> DEFINE E == CompanyEvents(w.log, Len(w.log))
<1> DEFINE tombs == CompanyTombs(w.log, TrustOf(w))
<1>1. E \in SUBSET ToSet(w.log)
  BY DEF CompanyEvents
<1> HIDE DEF E, tombs
<1>b. PICK seen : seen = TRUE
  OBVIOUS
<1> DEFINE in == InputOf(w, E, TrustOf(w), tombs, seen)
<1>2. Input(w) = in
  BY <1>b DEF Input, E, tombs
<1>a. Orderly(in) /\ in.events = E
  BY <1>1, InputFacts
<1>3. ASSUME NEW e, Warranted(Input(w), e) PROVE Vouches(w, e)
  <2>0. Warranted(in, e)
    BY <1>2, <1>3
  <2>1. e \in E
    BY <1>a, <2>0 DEF Warranted
  <2>2. ASSUME NEW r \in w.revs, Withdraws(w.store, r, e) PROVE FALSE
    <3>1. r \in TrustOf(w).revs
      BY DEF TrustOf
    <3>2. r.key = e.signer /\ r.scope \in {None, e.scope}
      BY <2>2 DEF Withdraws
    <3> QED
      BY <1>b, <1>1, <2>0, <3>1, <3>2, CoveredIsNotWarranted
  <2> QED
    BY <1>1, <2>1, <2>2 DEF Vouches, ObservedBy
<1> QED
  BY <1>2, <1>a, <1>3

\* The same of `explain`, which holds both kinds of events and what it last fetched.
LEMMA UnionReader ==
  ASSUME NEW X, NEW w, SoundWorld(w, X), w.store \notin {"company", "codebase"}
  PROVE  Orderly(Input(w)) /\ \A e : Warranted(Input(w), e) => Vouches(w, e)
<1> DEFINE E == CodebaseEvents(w.log, w.held) \cup CompanyEvents(w.log, w.held.upto)
<1> DEFINE tombs == CodebaseTombs(w.log, w.held)
<1>1. E \in SUBSET ToSet(w.log)
  BY DEF CompanyEvents, CodebaseEvents
<1> HIDE DEF E, tombs
<1>b. PICK seen : seen = FALSE
  OBVIOUS
<1> DEFINE in == InputOf(w, E, w.held, tombs, seen)
<1>2. Input(w) = in
  BY <1>b DEF Input, E, tombs
<1>a. Orderly(in) /\ in.events = E
  BY <1>1, InputFacts
<1>3. SoundTrust(w.held)
  BY DEF SoundWorld
<1>4. ASSUME NEW e, Warranted(Input(w), e) PROVE Vouches(w, e)
  <2>0. Warranted(in, e)
    BY <1>2, <1>4
  <2>1. e \in E
    BY <1>a, <2>0 DEF Warranted
  <2>2. ASSUME NEW r \in w.held.revs, Withdraws(w.store, r, e) PROVE FALSE
    <3>1. r.key = e.signer /\ r.scope \in {None, e.scope}
      BY <2>2 DEF Withdraws
    <3> QED
      BY <1>1, <1>3, <2>0, <3>1, CoveredIsNotWarranted
  <2> QED
    BY <1>1, <2>1, <2>2 DEF Vouches, ObservedBy
<1> QED
  BY <1>2, <1>a, <1>4

\* A repository reads the revocations of whole keys only; who lost a scope is not verified
\* in it, unless it is a steward.
LEMMA LostScopeIsNotVerified ==
  ASSUME NEW t, SoundTrust(t), NEW e, NEW r \in t.revs, r.key = e.signer, r.scope = e.scope,
         r.scope # None, e.signer \notin Stewards
  PROVE  Verify(WholeKeys(t), e) # "verified"
<1> DEFINE u == WholeKeys(t)
<1>1. ~\E x \in EntriesFor(u, e.signer) : x.scope = e.scope
  <2>1. EntriesFor(u, e.signer) \subseteq {x \in t.registry : x.key = e.signer}
    BY DEF EntriesFor, WholeKeys
  <2> QED
    BY <2>1 DEF SoundTrust
<1> HIDE DEF u
<1>2. Verify(u, e) # "verified"
  BY <1>1 DEF Verify
<1> QED
  BY <1>2 DEF u

\* The same of a repository.
LEMMA RepositoryReader ==
  ASSUME NEW X, NEW w, SoundWorld(w, X), w.store = "codebase"
  PROVE  Orderly(Input(w)) /\ \A e : Warranted(Input(w), e) => Vouches(w, e)
<1> DEFINE E == CodebaseEvents(w.log, w.held)
<1> DEFINE tombs == CodebaseTombs(w.log, w.held)
<1> DEFINE u == WholeKeys(w.held)
<1>1. E \in SUBSET ToSet(w.log) /\ \A e \in E : e.store = "codebase"
  BY DEF CodebaseEvents
<1> HIDE DEF E, tombs, u
<1>b. PICK seen : seen = FALSE
  OBVIOUS
<1> DEFINE in == InputOf(w, E, u, tombs, seen)
<1>2. Input(w) = in
  BY <1>b DEF Input, E, tombs, u
<1>a. Orderly(in) /\ in.events = E
  BY <1>1, InputFacts
<1>3. SoundTrust(w.held)
  BY DEF SoundWorld
<1>4. SoundTrust(u) /\ u.revs = {r \in w.held.revs : r.scope = None}
  BY <1>3 DEF SoundTrust, u, WholeKeys
<1>5. ASSUME NEW e, Warranted(Input(w), e) PROVE Vouches(w, e)
  <2>0. Warranted(in, e)
    BY <1>2, <1>5
  <2>1. e \in E
    BY <1>a, <2>0 DEF Warranted
  <2>2. in.verdict[e.id] = VerdictOf(w.log, u, e)
    BY <1>1, <2>1, InputFacts
  <2>3. in.verdict[e.id] = "verified"
    <3> HIDE DEF in
    <3> QED
      BY <2>0 DEF Warranted, Ineligible
  <2>4. Verify(u, e) = "verified"
    BY <1>1, <2>1, <2>2, <2>3 DEF VerdictOf
  <2>5. ASSUME NEW r \in w.held.revs, Withdraws(w.store, r, e) PROVE FALSE
    <3>1. CASE r.scope = None
      <4>1. r \in u.revs /\ r.key = e.signer
        BY <1>4, <2>5, <3>1 DEF Withdraws
      <4> QED
        BY <1>1, <1>4, <2>0, <3>1, <4>1, CoveredIsNotWarranted
    <3>2. CASE r.scope # None
      <4>1. r.key = e.signer /\ r.scope = e.scope /\ e.signer \notin Stewards
        BY <2>5, <3>2 DEF Withdraws
      <4> QED
        BY <1>3, <2>4, <3>2, <4>1, LostScopeIsNotVerified DEF u
    <3> QED
      BY <3>1, <3>2
  <2> QED
    BY <1>1, <2>1, <2>5 DEF Vouches, ObservedBy
<1> QED
  BY <1>2, <1>a, <1>5

\* The same of all readers.
LEMMA Readers ==
  ASSUME NEW X, NEW w, SoundWorld(w, X)
  PROVE  Orderly(Input(w)) /\ \A e : Warranted(Input(w), e) => Vouches(w, e)
BY CompanyReader, UnionReader, RepositoryReader

\* What a reader publishes as current, something vouches for.
CurrentVouched(w, v) ==
  \A k \in DOMAIN v.keys : \A h \in v.keys[k].current :
    \E e \in ToSet(w.log) :
      e.id \in h.support /\ ~\E r \in ObservedBy(w) : Withdraws(w.store, r, e)

\* A reader publishes one entry per key of its input.
LEMMA ReadKeys ==
  ASSUME NEW w
  PROVE  /\ DOMAIN Read(w).keys = {e.key : e \in Input(w).events}
         /\ \A k \in DOMAIN Read(w).keys : Read(w).keys[k] = ReduceKey(Input(w), k)
BY DEF Read, Reduce

\* So what a reader publishes as current, something vouches for.
LEMMA CurrentIsVouched ==
  ASSUME NEW X, NEW w, SoundWorld(w, X)
  PROVE  CurrentVouched(w, Read(w))
<1> SUFFICES ASSUME NEW k \in DOMAIN Read(w).keys, NEW h \in Read(w).keys[k].current
             PROVE  \E e \in ToSet(w.log) :
                      e.id \in h.support /\ ~\E r \in ObservedBy(w) : Withdraws(w.store, r, e)
  BY DEF CurrentVouched
<1> DEFINE in == Input(w)
<1>1. h \in ReduceKey(in, k).current
  BY ReadKeys
<1>2. Orderly(in)
  BY Readers
<1>3. PICK S : StandsOn(in, h, S) /\ \A e \in S : Warranted(in, e)
  <2> HIDE DEF in
  <2> QED
    BY <1>1, <1>2, CurrentStands
<1>4. PICK e \in S : TRUE
  BY <1>3 DEF StandsOn
<1>5. e.id \in h.support
  BY <1>3, <1>4 DEF StandsOn, HeadOf, IdsOf
<1>6. Vouches(w, e)
  BY <1>3, <1>4, Readers
<1> QED
  BY <1>5, <1>6, Zenon DEF Vouches

-----------------------------------------------------------------------------
\* The readers' invariant: the log holds events of the pool, what is known of authority is
\* sound, and the view is what the reader derives from it.
ReaderKnows == pool \in Pools /\ log \in Seq(pool.events) /\ SoundTrust(Trusted) /\ SoundTrust(held)
ReaderInv == ReaderKnows /\ view = Read(World)

\* The invariant holds where a reader starts.
LEMMA ReaderInvInit == ReaderInit => ReaderInv
<1> SUFFICES ASSUME ReaderInit PROVE ReaderInv
  OBVIOUS
<1>1. SoundTrust(Trusted)
  BY DEF ReaderInit, Trusted, SoundTrust
<1>2. log \in Seq(pool.events) /\ held = Trusted
  BY DEF ReaderInit
<1> QED
  BY <1>1, <1>2 DEF ReaderInit, ReaderInv, ReaderKnows

\* The registry and the revocations of a trust, which is all that is asked of it.
SoundAuthority(R, V, c) ==
  /\ c \in Nat
  /\ \A r \in V : r.cursor \in Nat /\ r.cursor <= c
  /\ \A r \in V, x \in R : r.scope # None /\ x.key = r.key => x.scope # r.scope

\* The trust of the service is its registry, its revocations and its cursor.
LEMMA TrustIsAuthority ==
  /\ SoundTrust(Trusted) <=> SoundAuthority(registry, revs, cursor)
  /\ SoundTrust(Trusted)' <=> SoundAuthority(registry', revs', cursor')
BY DEF SoundTrust, Trusted, SoundAuthority

\* A revocation is as new as the cursor, and takes every entry of its key.
LEMMA RevokingIsSound ==
  ASSUME SoundAuthority(registry, revs, cursor), NEW key, NEW t, Revoke(key, t)
  PROVE  SoundAuthority(registry', revs', cursor')
<1> DEFINE n == [key |-> key, scope |-> None, cursor |-> cursor', effective |-> t]
<1>1. cursor' = cursor + 1 /\ revs' = revs \cup {n} /\ registry' \subseteq registry
  BY DEF Revoke
<1>2. n.scope = None /\ n.cursor = cursor'
  OBVIOUS
<1> HIDE DEF n
<1> QED
  BY <1>1, <1>2 DEF SoundAuthority

\* Who is dropped from a scope is not listed for it.
LEMMA DroppingIsSound ==
  ASSUME SoundAuthority(registry, revs, cursor), NEW key, NEW s, DropScope(key, s)
  PROVE  SoundAuthority(registry', revs', cursor')
<1> DEFINE n == [key |-> key, scope |-> s, cursor |-> cursor', effective |-> now]
<1>1. /\ cursor' = cursor + 1 /\ revs' = revs \cup {n}
      /\ registry' = {x \in registry : ~(x.key = key /\ x.scope = s)}
  BY DEF DropScope
<1>2. n.key = key /\ n.scope = s /\ n.cursor = cursor'
  OBVIOUS
<1> HIDE DEF n
<1>3. \A x \in registry' : x \in registry /\ ~(x.key = key /\ x.scope = s)
  BY <1>1
<1>4. \A r \in revs' : r \in revs \/ r = n
  BY <1>1
<1> QED
  BY <1>1, <1>2, <1>3, <1>4 DEF SoundAuthority

\* A key listed for a scope lifts the revocation of that scope.
LEMMA RegisteringIsSound ==
  ASSUME SoundAuthority(registry, revs, cursor), NEW key, NEW s, Register(key, s)
  PROVE  SoundAuthority(registry', revs', cursor')
<1> DEFINE n == [key |-> key, scope |-> s, since |-> cursor']
<1>1. /\ cursor' = cursor + 1 /\ registry' = registry \cup {n}
      /\ revs' = {r \in revs : ~(r.key = key /\ r.scope \in {None, s})}
  BY DEF Register
<1>2. n.key = key /\ n.scope = s
  OBVIOUS
<1> HIDE DEF n
<1>3. \A x \in registry' : x \in registry \/ x = n
  BY <1>1
<1>4. \A r \in revs' : r \in revs /\ ~(r.key = key /\ r.scope \in {None, s})
  BY <1>1
<1> QED
  BY <1>1, <1>2, <1>3, <1>4 DEF SoundAuthority

\* No step breaks what is known of authority.
LEMMA StepKeepsKnowledge ==
  ASSUME ReaderKnows, Step PROVE ReaderKnows' /\ pool' = pool
<1> USE DEF ReaderKnows
<1>1. ASSUME NEW e \in pool.events, Admit(e) PROVE ReaderKnows' /\ pool' = pool
  <2>1. log' \in Seq(pool.events) /\ pool' = pool /\ held' = held /\ authorityVars' = authorityVars
    BY <1>1 DEF Admit
  <2>2. SoundTrust(Trusted)'
    BY <2>1, TrustIsAuthority DEF authorityVars
  <2> QED
    BY <2>1, <2>2
<1>2. ASSUME pool' = pool, log' = log, held' = held,
             SoundAuthority(registry', revs', cursor')
      PROVE  ReaderKnows' /\ pool' = pool
  BY <1>2, TrustIsAuthority
<1>3. ASSUME NEW k \in Signers, NEW t \in 0..MaxTime, Revoke(k, t)
      PROVE  ReaderKnows' /\ pool' = pool
  BY <1>2, <1>3, TrustIsAuthority, RevokingIsSound DEF Revoke
<1>4. ASSUME NEW k \in Signers, NEW s \in Scopes, DropScope(k, s) PROVE ReaderKnows' /\ pool' = pool
  BY <1>2, <1>4, TrustIsAuthority, DroppingIsSound DEF DropScope
<1>5. ASSUME NEW k \in Signers, NEW s \in Scopes, Register(k, s) PROVE ReaderKnows' /\ pool' = pool
  BY <1>2, <1>5, TrustIsAuthority, RegisteringIsSound, ZenonT(60) DEF Register
<1>6. ASSUME authorityVars' = authorityVars, pool' = pool, log' = log, held' \in {held, Trusted}
      PROVE  ReaderKnows' /\ pool' = pool
  <2>1. SoundTrust(Trusted)'
    BY <1>6, TrustIsAuthority DEF authorityVars
  <2> QED
    BY <1>6, <2>1
<1>7. CASE Fetch
  BY <1>6, <1>7 DEF Fetch
<1>8. ASSUME NEW u, NEW st, RecordUnknown(u, st) PROVE ReaderKnows' /\ pool' = pool
  BY <1>6, <1>8 DEF RecordUnknown
<1>9. CASE Tick
  BY <1>6, <1>9 DEF Tick
<1> QED
  BY <1>1, <1>3, <1>4, <1>5, <1>7, <1>8, <1>9 DEF Step

\* Every step keeps the invariant.
LEMMA ReaderInvNext == ReaderInv /\ [ReaderNext]_readerVars => ReaderInv'
<1> SUFFICES ASSUME ReaderInv, [ReaderNext]_readerVars PROVE ReaderInv'
  OBVIOUS
<1>1. CASE ReaderNext
  <2>1. ReaderKnows' /\ pool' = pool
    BY <1>1, StepKeepsKnowledge DEF ReaderInv, ReaderNext
  <2>2. view' = Read(World')
    BY <1>1, <2>1 DEF ReaderNext, World
  <2> QED
    BY <2>1, <2>2 DEF ReaderInv
<1>2. CASE UNCHANGED readerVars
  <2>1. /\ World' = World /\ Trusted' = Trusted /\ pool' = pool
        /\ log' = log /\ held' = held /\ view' = view
    BY <1>2 DEF readerVars, World, Trusted
  <2>2. Read(World)' = Read(World)
    BY <2>1
  <2>3. SoundTrust(Trusted)'
    BY <2>1 DEF ReaderInv, ReaderKnows
  <2> QED
    BY <2>1, <2>2, <2>3 DEF ReaderInv, ReaderKnows
<1> QED
  BY <1>1, <1>2

\* What the invariant says of the world that is read.
LEMMA KnownWorld == ReaderInv => SoundWorld(World, pool.events)
<1> SUFFICES ASSUME ReaderInv PROVE SoundWorld(World, pool.events)
  OBVIOUS
<1>1. Distinct(pool.events)
  BY EventsAreNamed, Zenon DEF ReaderInv, ReaderKnows, Distinct
<1>2. TrustOf(World) = Trusted /\ World.held = held /\ World.log = log
  BY DEF World, TrustOf, Trusted
<1> QED
  BY <1>1, <1>2 DEF ReaderInv, ReaderKnows, SoundWorld

\* The invariant withdraws what is revoked.
LEMMA InvWithdraws == ReaderInv => RevokedIsWithdrawn
<1> SUFFICES ASSUME ReaderInv PROVE RevokedIsWithdrawn
  OBVIOUS
<1>1. SoundWorld(World, pool.events) /\ view = Read(World)
  BY KnownWorld DEF ReaderInv
<1>2. PICK w : w = World
  OBVIOUS
<1>3. CurrentVouched(w, view)
  BY <1>1, <1>2, CurrentIsVouched
<1>4. /\ w.log = log /\ w.store = pool.reader
      /\ ObservedBy(w) = IF pool.reader = "company" THEN revs ELSE held.revs
  BY <1>2 DEF World, ObservedBy
<1> QED
  BY <1>3, <1>4 DEF CurrentVouched, RevokedIsWithdrawn, Keys

\* However evidence arrives, keys are revoked, dropped from a scope and listed again, and the
\* reader falls behind: no statement is current when all that support it were signed by keys
\* whose revocation the reader has observed.
THEOREM RevokedIsWithdrawnAlways == ReaderSpec => []RevokedIsWithdrawn
<1> QED
  BY ReaderInvInit, ReaderInvNext, InvWithdraws, PTL DEF ReaderSpec

-----------------------------------------------------------------------------
(* What a revocation leaves alone                                             *)
(*                                                                            *)
(* A revocation only withdraws: nothing becomes eligible by it, no tombstone  *)
(* gains an author, ranks and order stay.  So what the rest of the evidence   *)
(* retires was retired before, and an event it does not cover still supports  *)
(* its statement.                                                             *)

\* The input after a revocation, next to the input before it.
Withdrawn(in, in2) ==
  /\ Distinct(in.events) /\ \A e \in in.events : e.store = "company"
  /\ in2.events = in.events /\ in2.rank = in.rank /\ in2.verdict = in.verdict
  /\ in2.at = in.at /\ in2.store = in.store
  /\ \A e \in in.events : RevokedBefore(in, e) => RevokedBefore(in2, e)
  /\ \A e \in in.events, kind \in Withdrawals : Tombed(in2, kind, e) => Tombed(in, kind, e)

\* A revocation makes nothing eligible, and takes nothing it does not cover.
LEMMA EligibilityShrinks ==
  ASSUME NEW in, NEW in2, Withdrawn(in, in2), NEW e \in in.events
  PROVE  /\ ~Ineligible(in2, e) => ~Ineligible(in, e)
         /\ ~Ineligible(in, e) /\ ~RevokedBefore(in2, e) => ~Ineligible(in2, e)
BY DEF Withdrawn, Ineligible, UnknownEnvironment

\* What is retired.
LEMMA RetiredFacts ==
  ASSUME NEW in, NEW El, NEW i
  PROVE  i \in Retired(in, El) <=> \/ \E d \in El : i \in RetiredBy(in, El, d)
                                  \/ \E d \in El : Tombed(in, "never_true", d) /\ d.id = i
<1>1. i \in Retired(in, El) <=> i \in RetiredByAny(in, El) \/ i \in IdsOf(Disowned(in, El))
  BY DEF Retired
<1>2. i \in RetiredByAny(in, El) <=> \E d \in El : i \in RetiredBy(in, El, d)
  BY DEF RetiredByAny
<1>3. i \in IdsOf(Disowned(in, El)) <=> \E d \in El : Tombed(in, "never_true", d) /\ d.id = i
  BY DEF IdsOf, Disowned
<1> QED
  BY <1>1, <1>2, <1>3

\* Fewer events retire no event that they still contain.
LEMMA RetirementShrinks ==
  ASSUME NEW in, NEW in2, Withdrawn(in, in2),
         NEW El \in SUBSET in.events, NEW El2 \in SUBSET El,
         NEW e \in El2, e.id \in Retired(in2, El2)
  PROVE  e.id \in Retired(in, El)
<1>1. \A d \in in.events : d.id = e.id => d = e
  BY Zenon DEF Withdrawn, Distinct
<1>2. \A new, old : Owns(in2, new, old) <=> Owns(in, new, old)
  BY DEF Withdrawn, Owns
<1>3. CASE \E d \in El2 : Tombed(in2, "never_true", d) /\ d.id = e.id
  <2>1. PICK d \in El2 : Tombed(in2, "never_true", d) /\ d.id = e.id
    BY <1>3
  <2>2. d \in El /\ Tombed(in, "never_true", d)
    BY <2>1 DEF Withdrawn, Withdrawals
  <2> QED
    BY <2>1, <2>2, RetiredFacts
<1>4. CASE \E d \in El2 : e.id \in RetiredBy(in2, El2, d)
  <2>1. PICK d \in El2 : e.id \in RetiredBy(in2, El2, d)
    BY <1>4
  <2>2. NamedHeads(El2, d) \subseteq NamedHeads(El, d)
    BY DEF NamedHeads
  <2>3. ByResolution(in2, El2, d) \subseteq ByResolution(in, El, d)
    BY <1>2, <2>2 DEF ByResolution, IdsOf
  <2>4. SetAside(in2, El2, d) \subseteq SetAside(in, El, d)
    BY <1>2, <2>2 DEF SetAside
  <2>5. e.id \in BySupersession(in2, El2, d) => e.id \in BySupersession(in, El, d)
    <3> SUFFICES ASSUME e.id \in BySupersession(in2, El2, d)
                 PROVE  e.id \in BySupersession(in, El, d)
      OBVIOUS
    <3>1. e.id \in d.supersedes
      BY DEF BySupersession
    <3>2. e.id \notin IdsOf(in2.events \ El2)
      BY <1>1 DEF IdsOf, Withdrawn
    <3>3. PICK old \in El2 : old.id = e.id /\ Owns(in2, d, old)
      BY <3>2 DEF BySupersession
    <3>4. old \in El /\ Owns(in, d, old)
      BY <3>3, <1>2
    <3> QED
      BY <3>1, <3>3, <3>4 DEF BySupersession
  <2>6. e.id \in RetiredBy(in, El, d)
    BY <2>1, <2>3, <2>4, <2>5 DEF RetiredBy
  <2> QED
    BY <2>1, <2>6, RetiredFacts
<1> QED
  BY <1>3, <1>4, RetiredFacts

\* The events that stand for a key.
LiveFor(in, k) == Eligible(in, {e \in in.events : e.key = k}).live

\* An event that supported a statement, and that no observed revocation covers now, is live.
LEMMA StaysLive ==
  ASSUME NEW in, NEW in2, Withdrawn(in, in2), NEW k,
         NEW e \in LiveFor(in, k), ~SupportRevoked(in2, e)
  PROVE  e \in LiveFor(in2, k)
<1> DEFINE G == {d \in in.events : d.key = k}
<1> DEFINE El == {d \in G : ~Ineligible(in, d)}
<1> DEFINE El2 == {d \in G : ~Ineligible(in2, d)}
<1>0. in2.events = in.events /\ in2.at = in.at
  BY DEF Withdrawn
<1>1. /\ e \in El /\ e.id \notin Retired(in, El) /\ ~Negative(e.disp) /\ ~Lapsed(in, e)
  BY DEF LiveFor, Eligible, Sifted
<1>2. ~RevokedBefore(in2, e)
  BY DEF SupportRevoked, RevokedBefore
<1>3. El2 \subseteq El /\ El \subseteq in.events
  BY EligibilityShrinks
<1>4. e \in El2
  BY <1>1, <1>2, EligibilityShrinks
<1>5. e.id \notin Retired(in2, El2)
  <2> HIDE DEF El, El2, G
  <2> QED
    BY <1>1, <1>3, <1>4, RetirementShrinks
<1>6. ~Lapsed(in2, e)
  BY <1>0, <1>1 DEF Lapsed
<1>7. LiveFor(in2, k) = Sifted(in2, G, El2).live
  BY <1>0 DEF LiveFor, Eligible
<1>8. e \in Sifted(in2, G, El2).live
  <2> HIDE DEF El, El2, G
  <2> QED
    BY <1>1, <1>4, <1>5, <1>6 DEF Sifted
<1> QED
  BY <1>7, <1>8

\* The statement of a cluster of duplicates.
LEMMA StatementOf ==
  ASSUME NEW in, NEW S, S # {}, NEW s, \A e \in S : e.stmt = s
  PROVE  HeadOf(in, S).stmt = s
BY DEF HeadOf

\* The heads of a key are those of the clusters of its live events.
LEMMA HeadsOfKey ==
  ASSUME NEW in, NEW k
  PROVE  ReduceKey(in, k).heads
           = HeadsIn(in, Clusters(in, LiveFor(in, k)))
BY DEF LiveFor, ReduceKey, Evidence, Clustered, Headed, Ranked, Weighed, Decided, Outcome

\* A head that an uncovered event supports is a head afterwards.
LEMMA HeadStays ==
  ASSUME NEW in, NEW in2, Withdrawn(in, in2), NEW k, NEW h \in ReduceKey(in, k).heads,
         NEW e \in in.events, e.id \in h.support, ~SupportRevoked(in2, e)
  PROVE  \E g \in ReduceKey(in2, k).heads : g.stmt = h.stmt
<1> DEFINE L == LiveFor(in, k)
<1> DEFINE L2 == LiveFor(in2, k)
<1>1. PICK M \in Clusters(in, L) : Support(in, M) # {} /\ h = HeadOf(in, Support(in, M))
  <2>1. h \in HeadsIn(in, Clusters(in, L))
    BY HeadsOfKey
  <2> HIDE DEF L
  <2> QED
    BY <2>1 DEF HeadsIn, Lost
<1>2. PICK s : M = Members(in, L, s)
  BY <1>1 DEF Clusters
<1>3. h.stmt = s
  <2>1. \A d \in Support(in, M) : d.stmt = s
    BY <1>2 DEF Support, Members
  <2> QED
    BY <1>1, <2>1, StatementOf
<1>4. e \in Support(in, M)
  <2>1. PICK d \in Support(in, M) : d.id = e.id
    BY <1>1 DEF HeadOf, IdsOf
  <2>2. d \in L
    BY <1>2, <2>1 DEF Support, Members
  <2>3. d \in in.events
    BY <2>2 DEF LiveFor, Eligible, Sifted
  <2>4. d = e
    BY <2>1, <2>3, Zenon DEF Withdrawn, Distinct
  <2> QED
    BY <2>1, <2>4
<1>5. e \in L /\ e.stmt = s /\ ~Tombed(in, "support_withdrawn", e)
  BY <1>2, <1>4 DEF Support, Members
<1>6. e \in L2
  BY <1>5, StaysLive
<1>7. ~Tombed(in2, "support_withdrawn", e)
  BY <1>5 DEF Withdrawn, Withdrawals
<1> DEFINE M2 == Members(in2, L2, s)
<1>8. e \in M2 /\ M2 \in Clusters(in2, L2)
  <2> HIDE DEF L, L2
  <2>1. e \in M2
    BY <1>5, <1>6, <1>7 DEF Members
  <2> QED
    BY <2>1, <1>5, <1>6 DEF Clusters
<1>9. e \in Support(in2, M2)
  BY <1>8 DEF Support
<1>10. HeadOf(in2, Support(in2, M2)) \in HeadsIn(in2, Clusters(in2, L2))
  <2> HIDE DEF L2, M2
  <2> QED
    BY <1>8, <1>9 DEF HeadsIn, Lost
<1>11. HeadOf(in2, Support(in2, M2)).stmt = s
  <2>1. \A d \in Support(in2, M2) : d.stmt = s
    BY DEF Support, Members
  <2> HIDE DEF M2
  <2> QED
    BY <1>9, <2>1, StatementOf
<1>12. ReduceKey(in2, k).heads = HeadsIn(in2, Clusters(in2, L2))
  BY HeadsOfKey
<1> QED
  BY <1>3, <1>10, <1>11, <1>12

-----------------------------------------------------------------------------
\* A reader before and after a revocation: the log, what was fetched and recorded and the
\* instant are the same, the registry is smaller and there are more revocations.
Narrows(w, w2) ==
  /\ w2.store = w.store /\ w2.log = w.log /\ w2.held = w.held
  /\ w2.asked = w.asked /\ w2.closed = w.closed /\ w2.at = w.at
  /\ w2.registry \subseteq w.registry /\ w.revs \subseteq w2.revs

\* The tombstones of the Company log.
LEMMA TombFacts ==
  ASSUME NEW arrived, NEW trust, NEW t
  PROVE  t \in CompanyTombs(arrived, trust) <=>
           \E d \in ToSet(arrived) : \E x \in Named(d) :
             /\ CompanyActs(d)
             /\ t = [kind |-> d.disp, target |-> x,
                     authorized |-> LifecycleAuthorized(arrived, trust, d)]
BY DEF CompanyTombs

\* Who may act with a smaller registry might act before.
LEMMA AuthorsOnlyLeave ==
  ASSUME NEW arrived, NEW t, NEW t2, t2.registry \subseteq t.registry, NEW e,
         LifecycleAuthorized(arrived, t2, e)
  PROVE  LifecycleAuthorized(arrived, t, e)
<1>1. EntriesFor(t2, e.signer) \subseteq EntriesFor(t, e.signer)
  BY DEF EntriesFor
<1> QED
  BY <1>1, Zenon DEF LifecycleAuthorized

\* A Company reader's input: its parts.
LEMMA CompanyInput ==
  ASSUME NEW w, w.store = "company"
  PROVE  /\ Input(w).events = CompanyEvents(w.log, Len(w.log))
         /\ Input(w).store = w.store /\ Input(w).at = w.at
         /\ Input(w).tombs = CompanyTombs(w.log, TrustOf(w))
         /\ Input(w).rank = Ranks([events |-> CompanyEvents(w.log, Len(w.log)),
                                   cursor |-> CursorsOf(w.log, CompanyEvents(w.log, Len(w.log)))])
BY DEF Input, InputOf

\* Every event of a Company reader is recorded as verified.
LEMMA CompanyVerdicts ==
  ASSUME NEW X, NEW w, SoundWorld(w, X), w.store = "company"
  PROVE  Input(w).verdict = [i \in IdsOf(CompanyEvents(w.log, Len(w.log))) |-> "verified"]
<1> DEFINE E == CompanyEvents(w.log, Len(w.log))
<1>1. E \in SUBSET ToSet(w.log) /\ \A e \in E : e.store = "company"
  BY DEF CompanyEvents
<1>2. Input(w).verdict =
        [i \in IdsOf(E) |-> VerdictOf(w.log, TrustOf(w), CHOOSE e \in E : e.id = i)]
  BY DEF Input, InputOf, VerdictsOf
<1> HIDE DEF E
<1>3. ASSUME NEW i \in IdsOf(E)
      PROVE  VerdictOf(w.log, TrustOf(w), CHOOSE e \in E : e.id = i) = "verified"
  <2>1. (CHOOSE e \in E : e.id = i) \in E
    BY DEF IdsOf
  <2> QED
    BY <1>1, <2>1 DEF VerdictOf
<1> QED
  BY <1>2, <1>3 DEF E

\* An input's revocations are those the reader holds.
LEMMA RevocationsOfInput ==
  ASSUME NEW w, w.store = "company", NEW y
  PROVE  y \in Input(w).revs <=>
           \E r \in w.revs : y = [key |-> r.key, scope |-> r.scope, cursor |-> r.cursor,
                                  effective |-> r.effective, observed |-> TRUE]
BY DEF Input, InputOf, TrustOf

\* For the Company service every revocation it holds is observed.
LEMMA CoveredIsCovered ==
  ASSUME NEW w, w.store = "company", NEW e
  PROVE  /\ SupportRevoked(Input(w), e) <=> \E r \in w.revs : Covers(r, e)
         /\ RevokedBefore(Input(w), e) <=>
              \E r \in w.revs : Covers(r, e) /\ r.effective <= e.asserted
<1> DEFINE f(r) == [key |-> r.key, scope |-> r.scope, cursor |-> r.cursor,
                    effective |-> r.effective, observed |-> TRUE]
<1>1. \A y : y \in Input(w).revs <=> \E r \in w.revs : y = f(r)
  BY RevocationsOfInput
<1>2. \A r : /\ f(r).observed /\ f(r).key = r.key
            /\ f(r).scope = r.scope /\ f(r).effective = r.effective
  OBVIOUS
<1>3. \A r : Covers(f(r), e) <=> Covers(r, e)
  BY <1>2 DEF Covers
<1> HIDE DEF f
<1>4. \A y : y \in ObservedRevocations(Input(w)) <=> \E r \in w.revs : y = f(r)
  BY <1>1, <1>2 DEF ObservedRevocations
<1> QED
  BY <1>2, <1>3, <1>4 DEF SupportRevoked, RevokedBefore

\* A revocation withdraws from what a Company reader reduces, and adds nothing.
LEMMA RevokingWithdraws ==
  ASSUME NEW X, NEW w, NEW w2, SoundWorld(w, X), SoundWorld(w2, X), Narrows(w, w2),
         w.store = "company"
  PROVE  Withdrawn(Input(w), Input(w2))
<1> DEFINE E == CompanyEvents(w.log, Len(w.log))
<1>0. w2.store = "company" /\ w2.log = w.log /\ w2.at = w.at
  BY DEF Narrows
<1>1. /\ Input(w).events = E /\ Input(w2).events = E
      /\ Input(w2).rank = Input(w).rank
      /\ Input(w2).at = Input(w).at /\ Input(w2).store = Input(w).store
  BY <1>0, CompanyInput
<1>2. Input(w2).verdict = Input(w).verdict
  <2>1. Input(w).verdict = [i \in IdsOf(E) |-> "verified"]
    BY CompanyVerdicts
  <2>2. Input(w2).verdict = [i \in IdsOf(E) |-> "verified"]
    BY <1>0, CompanyVerdicts
  <2> QED
    BY <2>1, <2>2
<1>3. Distinct(E)
  <2>1. E \in SUBSET ToSet(w.log)
    BY DEF CompanyEvents
  <2> HIDE DEF E
  <2> QED
    BY <2>1, CursorFacts
<1>4. \A e \in E : e.store = "company"
  BY DEF CompanyEvents
<1>5. ASSUME NEW e, RevokedBefore(Input(w), e) PROVE RevokedBefore(Input(w2), e)
  <2>1. PICK r \in w.revs : Covers(r, e) /\ r.effective <= e.asserted
    BY <1>5, CoveredIsCovered
  <2>2. r \in w2.revs
    BY DEF Narrows
  <2> QED
    BY <1>0, <2>1, <2>2, CoveredIsCovered
<1>6. ASSUME NEW e, NEW kind, Tombed(Input(w2), kind, e) PROVE Tombed(Input(w), kind, e)
  <2>1. PICK t \in CompanyTombs(w.log, TrustOf(w2)) :
          t.kind = kind /\ t.target = e.id /\ t.authorized
    BY <1>0, <1>6, CompanyInput DEF Tombed
  <2>2. PICK d \in ToSet(w.log) : \E x \in Named(d) :
             /\ CompanyActs(d)
             /\ t = [kind |-> d.disp, target |-> x,
                     authorized |-> LifecycleAuthorized(w.log, TrustOf(w2), d)]
    BY <2>1, TombFacts
  <2>3. PICK x \in Named(d) :
             /\ CompanyActs(d)
             /\ t = [kind |-> d.disp, target |-> x,
                     authorized |-> LifecycleAuthorized(w.log, TrustOf(w2), d)]
    BY <2>2
  <2>4. LifecycleAuthorized(w.log, TrustOf(w), d)
    <3>1. LifecycleAuthorized(w.log, TrustOf(w2), d)
      BY <2>1, <2>3
    <3>2. TrustOf(w2).registry \subseteq TrustOf(w).registry
      BY DEF TrustOf, Narrows
    <3> QED
      BY <3>1, <3>2, AuthorsOnlyLeave
  <2>5. PICK u : u = [kind |-> d.disp, target |-> x,
                      authorized |-> LifecycleAuthorized(w.log, TrustOf(w), d)]
    OBVIOUS
  <2>6. u \in CompanyTombs(w.log, TrustOf(w))
    BY <2>3, <2>5, TombFacts
  <2>7. u.kind = kind /\ u.target = e.id /\ u.authorized
    BY <2>1, <2>3, <2>4, <2>5
  <2>8. u \in Input(w).tombs
    BY <2>6, CompanyInput
  <2> QED
    BY <2>7, <2>8 DEF Tombed
<1> HIDE DEF E
<1> QED
  BY <1>1, <1>2, <1>3, <1>4, <1>5, <1>6 DEF Withdrawn

\* What a repository and `explain` read is what they fetched.
LEMMA ElsewhereNothingMoves ==
  ASSUME NEW w, NEW w2, Narrows(w, w2), w.store # "company"
  PROVE  Read(w2) = Read(w)
<1>1. Input(w2) = Input(w)
  BY DEF Narrows, Input, InputOf
<1> QED
  BY <1>1 DEF Read

-----------------------------------------------------------------------------
\* Every head that an event outside the revocations R supports is a head of both views.
HeadsStay(w, v, v2, R) ==
  \A k \in DOMAIN v.keys : \A h \in v.keys[k].heads :
    (\E e \in ToSet(w.log) :
       /\ e.id \in h.support
       /\ ~\E r \in R : r.key = e.signer /\ r.scope \in {None, e.scope})
    => h.stmt \in Statements(v2.keys[k].heads)

\* The heads of a reader that something not revoked supports are there afterwards.
LEMMA SupportedHeadsStay ==
  ASSUME NEW X, NEW w, NEW w2, SoundWorld(w, X), SoundWorld(w2, X), Narrows(w, w2)
  PROVE  HeadsStay(w, Read(w), Read(w2), w2.revs)
<1> SUFFICES ASSUME NEW k \in DOMAIN Read(w).keys, NEW h \in Read(w).keys[k].heads,
                    NEW e \in ToSet(w.log), e.id \in h.support,
                    ~\E r \in w2.revs : r.key = e.signer /\ r.scope \in {None, e.scope}
             PROVE  h.stmt \in Statements(Read(w2).keys[k].heads)
  BY DEF HeadsStay
<1>1. CASE w.store # "company"
  <2>1. Read(w2) = Read(w)
    BY <1>1, ElsewhereNothingMoves
  <2> QED
    BY <2>1 DEF Statements
<1>2. CASE w.store = "company"
  <2>1. Withdrawn(Input(w), Input(w2))
    BY <1>2, RevokingWithdraws
  <2>2. k \in DOMAIN Read(w2).keys
    BY <2>1, ReadKeys DEF Withdrawn
  <2>3. h \in ReduceKey(Input(w), k).heads
    BY ReadKeys
  <2>4. e \in Input(w).events
    <3>1. PICK M \in Clusters(Input(w), LiveFor(Input(w), k)) :
            h = HeadOf(Input(w), Support(Input(w), M))
      <4>1. h \in HeadsIn(Input(w), Clusters(Input(w), LiveFor(Input(w), k)))
        BY <2>3, HeadsOfKey
      <4> QED
        BY <4>1 DEF HeadsIn
    <3>2. PICK d \in Support(Input(w), M) : d.id = e.id
      BY <3>1 DEF HeadOf, IdsOf
    <3>3. M \subseteq LiveFor(Input(w), k)
      BY <3>1 DEF Clusters, Members
    <3>4. d \in Input(w).events
      BY <3>2, <3>3 DEF Support, LiveFor, Eligible, Sifted
    <3>5. d \in ToSet(w.log)
      BY <1>2, <3>4, CompanyInput DEF CompanyEvents
    <3>6. Distinct(ToSet(w.log))
      BY LogFacts DEF SoundWorld
    <3>7. d = e
      BY <3>2, <3>5, <3>6, Zenon DEF Distinct
    <3> QED
      BY <3>4, <3>7
  <2>5. ~SupportRevoked(Input(w2), e)
    BY <1>2, CoveredIsCovered DEF Narrows, Covers
  <2>6. PICK g \in ReduceKey(Input(w2), k).heads : g.stmt = h.stmt
    BY <2>1, <2>3, <2>4, <2>5, HeadStays
  <2>7. g \in Read(w2).keys[k].heads
    BY <2>2, <2>6, ReadKeys
  <2> QED
    BY <2>6, <2>7 DEF Statements
<1> QED
  BY <1>1, <1>2

\* The log, the fetched state and the records are what they were when a key is revoked or
\* taken out of a scope, and no other step adds a revocation.
LEMMA RevokingNarrows ==
  ASSUME [ReaderNext]_readerVars, revs' \ revs # {}
  PROVE  Narrows(World, World')
<1>1. ReaderNext
  BY DEF readerVars
<1>2. Step
  BY <1>1 DEF ReaderNext
<1>3. ASSUME NEW k, NEW t, Revoke(k, t) PROVE Narrows(World, World')
  BY <1>3 DEF Revoke, Narrows, World
<1>4. ASSUME NEW k, NEW s, DropScope(k, s) PROVE Narrows(World, World')
  BY <1>4 DEF DropScope, Narrows, World
<1>5. ASSUME NEW k, NEW s, Register(k, s) PROVE FALSE
  BY <1>5 DEF Register
<1>6. ASSUME NEW e, Admit(e) PROVE FALSE
  BY <1>6 DEF Admit, authorityVars
<1>7. CASE Fetch
  BY <1>7 DEF Fetch, authorityVars
<1>8. ASSUME NEW u, NEW st, RecordUnknown(u, st) PROVE FALSE
  BY <1>8 DEF RecordUnknown, authorityVars
<1>9. CASE Tick
  BY <1>9 DEF Tick, authorityVars
<1> QED
  BY <1>2, <1>3, <1>4, <1>5, <1>6, <1>7, <1>8, <1>9 DEF Step

\* A step that adds a revocation leaves the supported heads.
LEMMA SupportedStay ==
  ASSUME ReaderInv, [ReaderNext]_readerVars, revs' \ revs # {}
  PROVE  \A k \in Keys : \A h \in view.keys[k].heads :
           (\E e \in ToSet(log) :
              /\ e.id \in h.support
              /\ ~\E r \in revs' : r.key = e.signer /\ r.scope \in {None, e.scope})
           => h.stmt \in Statements(view'.keys[k].heads)
<1>1. ReaderInv'
  BY ReaderInvNext
<1>2. SoundWorld(World, pool.events) /\ view = Read(World)
  BY KnownWorld DEF ReaderInv
<1>3. SoundWorld(World, pool.events)' /\ view' = Read(World)'
  <2>1. SoundWorld(World, pool.events)'
    BY <1>1, KnownWorld, PTL
  <2> QED
    BY <1>1, <2>1 DEF ReaderInv
<1>4. pool' = pool
  BY StepKeepsKnowledge DEF ReaderInv, ReaderNext, readerVars
<1>5. Narrows(World, World')
  BY RevokingNarrows
<1>6. PICK w : w = World
  OBVIOUS
<1>7. PICK w2 : w2 = World'
  OBVIOUS
<1>8. SoundWorld(w, pool.events) /\ SoundWorld(w2, pool.events) /\ Narrows(w, w2)
  BY <1>2, <1>3, <1>4, <1>5, <1>6, <1>7
<1>9. HeadsStay(w, Read(w), Read(w2), w2.revs)
  BY <1>8, SupportedHeadsStay
<1>10. w.log = log /\ w2.revs = revs' /\ Read(w) = view /\ Read(w2) = view'
  BY <1>2, <1>3, <1>6, <1>7 DEF World
<1> QED
  BY <1>9, <1>10 DEF HeadsStay, Keys

\* When a key is revoked, or taken out of a scope, every head that an event of another key or
\* scope supports stays a head, whatever else the log holds.
THEOREM SupportStaysAlways == ReaderSpec => SupportStays
<1>1. ReaderInv /\ [ReaderNext]_readerVars =>
        [revs' \ revs # {} =>
           \A k \in Keys : \A h \in view.keys[k].heads :
             (\E e \in ToSet(log) :
                /\ e.id \in h.support
                /\ ~\E r \in revs' : r.key = e.signer /\ r.scope \in {None, e.scope})
             => h.stmt \in Statements(view'.keys[k].heads)]_readerVars
  BY SupportedStay
<1> QED
  BY <1>1, ReaderInvInit, ReaderInvNext, PTL DEF ReaderSpec, SupportStays
=============================================================================
