------------------------------ MODULE IntakeProofs ------------------------------
(* What comes in: the queue of a host prompt, and the ingest of a source.     *)
(*                                                                            *)
(* A prompt that was claimed stays accounted for, for any number of workers   *)
(* and sweepers, any number of attempts and any number of crashes.  The       *)
(* invariant says why: a process gets to the removals only once the prompt's  *)
(* fate is decided.  The one way there that decides nothing is a failed       *)
(* attempt that finds no metadata, and metadata is missing only before the    *)
(* hook wrote it, when nobody else is about, or after a removal.              *)
(*                                                                            *)
(* A source is ingested by a run that decides what to write when it begins.   *)
(* All it has yet to write would settle the ledger for what it read, so that  *)
(* a source at rest is settled, and a scan of a settled source has nothing to *)
(* write.  Of test results and runtime signals, whatever is on the ledger or  *)
(* on its way there says of its bytes what the source said: a row never       *)
(* changes its key or its time, and the newest one that stands is the head.   *)
(* Of an item that is a key of its own, one row stands at most and says what  *)
(* the source last said of it: so what is derived for the key is what the     *)
(* item itself is accepted for.                                               *)
EXTENDS PendingQueue, Ingestion, FiniteSetTheorems, SequenceTheorems, WellFoundedInduction, TLAPS

-----------------------------------------------------------------------------
(* The queue of a prompt *)

\* What a process holds between its reading and its writing of the metadata is
\* metadata that was there, of a prompt that had an attempt left.
HeldMetaWasThere ==
    \A a \in Actors : actor[a].pc \in {"writeMeta", "failWrite", "look"} =>
        actor[a].meta.there /\ actor[a].meta.attempts < MaxAttempts

\* Nobody removes the files of a prompt whose fate is open.
RemovalIsDecided ==
    \A a \in Actors : actor[a].pc \in {"rmQueued", "rmWorking", "rmMeta"} => fate # "open"

\* An open prompt has no metadata only before the hook wrote it: there is no
\* file, and no process but the hook.
OpenHasMeta ==
    fate = "open" /\ ~meta.there =>
        /\ ~queued /\ ~working
        /\ \A a \in Actors : actor[a].pc = "idle" \/ (a = Hook /\ actor[a].pc = "start")

QueueInv == TypeOK /\ bound \in Bounds /\ HeldMetaWasThere /\ RemovalIsDecided /\ OpenHasMeta
                   /\ PromptIsAccountedFor

States == [pc : Steps, meta : MetaType]

\* The bounds of a behaviour are numbers.
LEMMA BoundsAreNumbers ==
    ASSUME bound \in Bounds
    PROVE  MaxAttempts \in Nat \ {0} /\ bound.crashes \in Nat
BY QueueAssumption DEF MaxAttempts

\* A process that does nothing, or has read nothing yet, is in a state of its type.
LEMMA IdleIsAState ==
    ASSUME bound \in Bounds
    PROVE  /\ Idle \in States /\ Idle.pc = "idle" /\ NoMeta \in MetaType
           /\ \A pc \in Steps : [Idle EXCEPT !.pc = pc] \in States
           /\ \A pc \in Steps : [Idle EXCEPT !.pc = pc].pc = pc
<1>1. NoMeta \in MetaType
  BY BoundsAreNumbers DEF NoMeta, MetaType
<1>2. Idle = [pc |-> "idle", meta |-> NoMeta]
  BY DEF Idle
<1>3. \A pc \in Steps : [Idle EXCEPT !.pc = pc] = [pc |-> pc, meta |-> NoMeta]
  BY <1>2
<1> HIDE DEF NoMeta, MetaType, Idle
<1> QED
  BY <1>1, <1>2, <1>3 DEF States, Steps

\* Before the hook does anything there is no file and no other process.
LEMMA QueueInit == Init => QueueInv
<1> SUFFICES ASSUME Init PROVE QueueInv
  OBVIOUS
<1>1. MaxAttempts \in Nat \ {0} /\ bound.crashes \in Nat /\ bound \in Bounds
  BY BoundsAreNumbers DEF Init
<1>2. \A a \in Actors : actor[a] = IF a = Hook THEN [Idle EXCEPT !.pc = "start"] ELSE Idle
  BY DEF Init
<1>3. actor \in [Actors -> States]
  BY <1>1, <1>2, IdleIsAState DEF Init, Steps
<1>4. \A a \in Actors : actor[a].pc = "idle" \/ (a = Hook /\ actor[a].pc = "start")
  BY <1>2 DEF Idle
<1>5. TypeOK
  <2>1. meta \in [attempts : 0..(MaxAttempts - 1), pid : Workers \cup {Nobody},
                  fresh : BOOLEAN, there : BOOLEAN]
    BY <1>1 DEF Init, NoMeta
  <2> QED
    <3>1. actor \in [Actors -> [pc : Steps, meta : MetaType]]
      BY <1>3 DEF States
    <3>2. claims \in 0..MaxClaims /\ crashes \in 0..bound.crashes
      BY <1>1, QueueAssumption DEF Init
    <3>3. fate \in {"open", "fallback", "recorded", "exhausted", "expired", "settled"}
      BY DEF Init
    <3>4. queued \in BOOLEAN /\ working \in BOOLEAN /\ expired \in BOOLEAN /\ audited \in BOOLEAN
      BY DEF Init
    <3> QED
      BY <2>1, <3>1, <3>2, <3>3, <3>4 DEF TypeOK
<1> QED
  BY <1>1, <1>4, <1>5 DEF Init, QueueInv, HeldMetaWasThere, RemovalIsDecided, OpenHasMeta, PromptIsAccountedFor

-----------------------------------------------------------------------------

\* What an action leaves behind outside of the processes: files, metadata and a
\* fate of their types; a decided fate stays; an open prompt has files once it
\* was claimed, and has metadata unless nothing was done about it yet.
Leaves ==
    /\ queued' \in BOOLEAN /\ working' \in BOOLEAN /\ expired' \in BOOLEAN /\ audited' \in BOOLEAN
    /\ meta' \in [attempts : 0..(MaxAttempts - 1), pid : Workers \cup {Nobody},
                   fresh : BOOLEAN, there : BOOLEAN]
    /\ fate' \in {"open", "fallback", "recorded", "exhausted", "expired", "settled"}
    /\ claims' \in 0..MaxClaims /\ crashes' \in 0..bound.crashes
    /\ fate' = "open" => fate = "open"
    /\ fate' = "open" /\ ~meta'.there => ~meta.there /\ ~queued' /\ ~working'
    /\ claims' > 0 /\ fate' = "open" => queued' \/ working'

\* Where a process may go.
Fits(r) ==
    /\ r.pc \in {"writeMeta", "failWrite", "look"} => r.meta.there /\ r.meta.attempts < MaxAttempts
    /\ r.pc \in {"rmQueued", "rmWorking", "rmMeta"} => fate' # "open"
    /\ fate' = "open" /\ ~meta'.there => r.pc = "idle"

\* An action keeps the invariant when what it leaves behind and the new states of
\* the processes it moves fit.
LEMMA ActorsMove ==
    ASSUME QueueInv, bound' = bound, Leaves,
           NEW Moved \in SUBSET Actors,
           actor' \in [Actors -> States],
           \A b \in Actors \ Moved : actor'[b] = actor[b],
           \A b \in Moved : Fits(actor'[b])
    PROVE  QueueInv'
<1>1. TypeOK'
  BY DEF QueueInv, TypeOK, MetaType, MaxAttempts, States, Leaves
<1>2. HeldMetaWasThere'
  BY DEF QueueInv, HeldMetaWasThere, MaxAttempts, Fits
<1>3. RemovalIsDecided'
  BY DEF QueueInv, RemovalIsDecided, Leaves, Fits
<1>4. OpenHasMeta'
  BY DEF QueueInv, OpenHasMeta, Leaves, Fits
<1>5. PromptIsAccountedFor'
  BY DEF PromptIsAccountedFor, Leaves
<1> QED
  BY <1>1, <1>2, <1>3, <1>4, <1>5 DEF QueueInv

\* The same for an action that moves one process.
LEMMA ActorMoves ==
    ASSUME QueueInv, bound' = bound, Leaves,
           NEW a \in Actors,
           actor' \in [Actors -> States],
           \A b \in Actors \ {a} : actor'[b] = actor[b],
           Fits(actor'[a])
    PROVE  QueueInv'
<1>1. {a} \in SUBSET Actors /\ \A b \in {a} : Fits(actor'[b])
  OBVIOUS
<1>2. ASSUME NEW Moved \in SUBSET Actors, Moved = {a}
      PROVE  QueueInv'
  BY <1>1, <1>2, ActorsMove
<1> QED
  BY <1>1, <1>2

-----------------------------------------------------------------------------
\* Where a process goes.
LEMMA Moves ==
    ASSUME QueueInv, NEW a \in Actors, NEW v \in States,
           actor' = [actor EXCEPT ![a] = v]
    PROVE  /\ actor' \in [Actors -> States] /\ actor'[a] = v
           /\ \A b \in Actors \ {a} : actor'[b] = actor[b]
BY DEF QueueInv, TypeOK, States

\* A process that goes on keeps the metadata it holds.
LEMMA GoesTo ==
    ASSUME QueueInv, NEW a \in Actors, NEW pc \in Steps, Goto(a, pc)
    PROVE  /\ actor' \in [Actors -> States]
           /\ actor'[a].pc = pc /\ actor'[a].meta = actor[a].meta
           /\ \A b \in Actors \ {a} : actor'[b] = actor[b]
<1>1. actor \in [Actors -> States] /\ actor[a] \in [pc : Steps, meta : MetaType]
  BY DEF QueueInv, TypeOK, States
<1>2. PICK v : v = [actor[a] EXCEPT !.pc = pc]
  OBVIOUS
<1>3. v \in States /\ v.pc = pc /\ v.meta = actor[a].meta
  <2> HIDE DEF MetaType, Steps
  <2> QED
    BY <1>1, <1>2 DEF States
<1>4. actor' = [actor EXCEPT ![a] = v]
  BY <1>2 DEF Goto
<1> QED
  BY <1>3, <1>4, Moves

\* A process that goes on without metadata.
LEMMA Enters ==
    ASSUME QueueInv, NEW a \in Actors, NEW pc \in Steps, Enter(a, pc)
    PROVE  /\ actor' \in [Actors -> States] /\ actor'[a].pc = pc
           /\ \A b \in Actors \ {a} : actor'[b] = actor[b]
<1>1. bound \in Bounds
  BY DEF QueueInv
<1>2. PICK v : v = [Idle EXCEPT !.pc = pc]
  OBVIOUS
<1>3. v \in States /\ v.pc = pc
  BY <1>1, <1>2, IdleIsAState
<1>4. actor' = [actor EXCEPT ![a] = v]
  BY <1>2 DEF Enter
<1> QED
  BY <1>3, <1>4, Moves

\* A process that ends is idle.
LEMMA Exits ==
    ASSUME QueueInv, NEW a \in Actors, Exit(a)
    PROVE  /\ actor' \in [Actors -> States] /\ actor'[a].pc = "idle"
           /\ \A b \in Actors \ {a} : actor'[b] = actor[b]
<1>1. bound \in Bounds
  BY DEF QueueInv
<1>2. Idle \in States /\ Idle.pc = "idle"
  BY <1>1, IdleIsAState
<1> QED
  BY <1>2, Moves DEF Exit

\* A process that reads the metadata holds it as it is.
LEMMA Reads ==
    ASSUME QueueInv, NEW a \in Actors, NEW pc \in Steps, ReadMeta(a, pc)
    PROVE  /\ actor' \in [Actors -> States] /\ actor'[a].pc = pc /\ actor'[a].meta = meta
           /\ \A b \in Actors \ {a} : actor'[b] = actor[b]
<1>1. bound \in Bounds /\ MaxAttempts \in Nat \ {0}
  BY BoundsAreNumbers DEF QueueInv
<1>2. meta \in MetaType
  BY <1>1 DEF QueueInv, TypeOK, MetaType
<1>3. PICK v : v = [pc |-> pc, meta |-> meta]
  OBVIOUS
<1>4. v \in States /\ v.pc = pc /\ v.meta = meta
  BY <1>2, <1>3 DEF States
<1>5. actor' = [actor EXCEPT ![a] = v]
  BY <1>3 DEF ReadMeta
<1> QED
  BY <1>4, <1>5, Moves

\* A worker that was not about is started; the other process goes on.
LEMMA Spawns ==
    ASSUME QueueInv, NEW a \in Actors \ Workers, Spawned(a, Idle)
    PROVE  \E w \in Workers :
               /\ actor' \in [Actors -> States]
               /\ actor'[w].pc = "spawned" /\ actor'[a].pc = "idle" /\ w # a
               /\ \A b \in Actors \ {a, w} : actor'[b] = actor[b]
<1>1. bound \in Bounds /\ actor \in [Actors -> States]
  BY DEF QueueInv, TypeOK, States
<1>2. PICK w \in Unused : actor' = [actor EXCEPT ![w] = [Idle EXCEPT !.pc = "spawned"], ![a] = Idle]
  BY DEF Spawned
<1>3. PICK v : v = [Idle EXCEPT !.pc = "spawned"]
  OBVIOUS
<1>4. v \in States /\ v.pc = "spawned" /\ Idle \in States /\ Idle.pc = "idle"
  BY <1>1, <1>3, IdleIsAState DEF Steps
<1>5. w \in Workers /\ w # a /\ w \in Actors
  BY <1>2 DEF Unused, Actors
<1>6. actor' = [actor EXCEPT ![w] = v, ![a] = Idle]
  BY <1>2, <1>3
<1>7. /\ actor' \in [Actors -> States] /\ actor'[w] = v /\ actor'[a] = Idle
      /\ \A b \in Actors \ {a, w} : actor'[b] = actor[b]
  BY <1>1, <1>4, <1>5, <1>6
<1> QED
  BY <1>4, <1>5, <1>7

\* What is decided stays decided, and what an action decides is a fate.
LEMMA Decides ==
    ASSUME QueueInv, NEW f \in {"fallback", "recorded", "exhausted", "expired"}, Fate(f)
    PROVE  /\ fate' # "open"
           /\ fate' \in {"open", "fallback", "recorded", "exhausted", "expired", "settled"}
BY DEF Fate, QueueInv, TypeOK

-----------------------------------------------------------------------------

(* Each action, by what it leaves of the files and where its process goes. *)

\* The variables have their types, and without an open fate nothing is asked.
LEMMA Typed ==
    ASSUME QueueInv
    PROVE  /\ meta \in [attempts : 0..(MaxAttempts - 1), pid : Workers \cup {Nobody},
                         fresh : BOOLEAN, there : BOOLEAN]
           /\ queued \in BOOLEAN /\ working \in BOOLEAN /\ expired \in BOOLEAN /\ audited \in BOOLEAN
           /\ fate \in {"open", "fallback", "recorded", "exhausted", "expired", "settled"}
           /\ claims \in 0..MaxClaims /\ crashes \in 0..bound.crashes
           /\ MaxAttempts \in Nat \ {0} /\ bound \in Bounds /\ bound.crashes \in Nat
           /\ actor \in [Actors -> States] /\ Hook \in Actors
           /\ claims > 0 /\ fate = "open" => queued \/ working
           /\ fate = "open" /\ ~meta.there => ~queued /\ ~working
BY BoundsAreNumbers DEF QueueInv, TypeOK, Actors, States, PromptIsAccountedFor, OpenHasMeta

\* The hook writes the metadata first.
LEMMA HookMetaKeeps ==
    ASSUME QueueInv, HookMeta, bound' = bound
    PROVE  QueueInv'
<1>1. Hook \in Actors
  BY DEF Actors
<1>2. /\ actor' \in [Actors -> States]
      /\ actor'[Hook].pc = "event" /\ actor'[Hook].meta = actor[Hook].meta
      /\ \A b \in Actors \ {Hook} : actor'[b] = actor[b]
  BY <1>1, GoesTo DEF HookMeta, Steps
<1>4. Leaves
  BY Typed DEF HookMeta, Leaves, Fresh, Nobody
<1>5. Fits(actor'[Hook])
  BY <1>2, Typed DEF HookMeta, Fits, Fresh
<1> QED
  BY <1>1, <1>2, <1>4, <1>5, ActorMoves

\* The prompt is queued after its metadata is there.
LEMMA HookEventKeeps ==
    ASSUME QueueInv, HookEvent, bound' = bound
    PROVE  QueueInv'
<1>1. Hook \in Actors
  BY DEF Actors
<1>2. /\ actor' \in [Actors -> States]
      /\ actor'[Hook].pc = "spawn" /\ actor'[Hook].meta = actor[Hook].meta
      /\ \A b \in Actors \ {Hook} : actor'[b] = actor[b]
  BY <1>1, GoesTo DEF HookEvent, Steps
<1>3. fate = "open" => meta.there
  BY <1>1 DEF HookEvent, QueueInv, OpenHasMeta, RemovalIsDecided, HeldMetaWasThere, At
<1>4. Leaves
  BY <1>3, Typed DEF HookEvent, Leaves
<1>5. Fits(actor'[Hook])
  BY <1>2, <1>3, Typed DEF HookEvent, Fits
<1> QED
  BY <1>1, <1>2, <1>4, <1>5, ActorMoves

\* The three removals come after the fate was decided.
LEMMA RemoveQueuedKeeps ==
    ASSUME QueueInv, NEW a \in Actors, RemoveQueued(a), bound' = bound
    PROVE  QueueInv'
<1>1. a \in Actors
  BY DEF Actors
<1>2. /\ actor' \in [Actors -> States]
      /\ actor'[a].pc = "rmWorking" /\ actor'[a].meta = actor[a].meta
      /\ \A b \in Actors \ {a} : actor'[b] = actor[b]
  BY <1>1, GoesTo DEF RemoveQueued, Steps
<1>3. fate # "open"
  BY <1>1 DEF RemoveQueued, QueueInv, OpenHasMeta, RemovalIsDecided, HeldMetaWasThere, At
<1>4. Leaves
  BY <1>3, Typed DEF RemoveQueued, Leaves
<1>5. Fits(actor'[a])
  BY <1>2, <1>3, Typed DEF RemoveQueued, Fits
<1> QED
  BY <1>1, <1>2, <1>4, <1>5, ActorMoves

\* The second removal.
LEMMA RemoveWorkingKeeps ==
    ASSUME QueueInv, NEW a \in Actors, RemoveWorking(a), bound' = bound
    PROVE  QueueInv'
<1>1. a \in Actors
  BY DEF Actors
<1>2. /\ actor' \in [Actors -> States]
      /\ actor'[a].pc = "rmMeta" /\ actor'[a].meta = actor[a].meta
      /\ \A b \in Actors \ {a} : actor'[b] = actor[b]
  BY <1>1, GoesTo DEF RemoveWorking, Steps
<1>3. fate # "open"
  BY <1>1 DEF RemoveWorking, QueueInv, OpenHasMeta, RemovalIsDecided, HeldMetaWasThere, At
<1>4. Leaves
  BY <1>3, Typed DEF RemoveWorking, Leaves
<1>5. Fits(actor'[a])
  BY <1>2, <1>3, Typed DEF RemoveWorking, Fits
<1> QED
  BY <1>1, <1>2, <1>4, <1>5, ActorMoves

\* The audit touches no file.
LEMMA AuditKeeps ==
    ASSUME QueueInv, NEW a \in Actors, Audit(a), bound' = bound
    PROVE  QueueInv'
<1>1. a \in Actors
  BY DEF Actors
<1>2. /\ actor' \in [Actors -> States] /\ actor'[a].pc = "idle"
      /\ \A b \in Actors \ {a} : actor'[b] = actor[b]
  BY <1>1, Exits DEF Audit
<1>4. Leaves
  BY Typed, QueueAssumption DEF Audit, Leaves, files
<1>5. Fits(actor'[a])
  BY <1>2, Typed DEF Audit, Fits
<1> QED
  BY <1>1, <1>2, <1>4, <1>5, ActorMoves

\* What a claim writes back is metadata that was there.
LEMMA ClaimWriteMetaKeeps ==
    ASSUME QueueInv, NEW w \in Workers, ClaimWriteMeta(w), bound' = bound
    PROVE  QueueInv'
<1>1. w \in Actors
  BY DEF Actors
<1>2. /\ actor' \in [Actors -> States] /\ actor'[w].pc = "observe"
      /\ \A b \in Actors \ {w} : actor'[b] = actor[b]
  BY <1>1, Enters DEF ClaimWriteMeta, Steps
<1>3. actor[w].meta.there /\ actor[w].meta.attempts < MaxAttempts /\ actor[w].meta \in MetaType /\ (fate = "open" => meta.there)
  BY <1>1 DEF ClaimWriteMeta, QueueInv, OpenHasMeta, RemovalIsDecided, HeldMetaWasThere, At, TypeOK
<1>4. Leaves
  BY <1>3, Typed DEF ClaimWriteMeta, Leaves, MetaType, Nobody
<1>5. Fits(actor'[w])
  BY <1>2, <1>3, Typed DEF ClaimWriteMeta, Fits, MetaType
<1> QED
  BY <1>1, <1>2, <1>4, <1>5, ActorMoves

\* A failed attempt puts the prompt back under its queued name.
LEMMA FailRenameKeeps ==
    ASSUME QueueInv, NEW a \in Actors, FailRename(a), bound' = bound
    PROVE  QueueInv'
<1>1. a \in Actors
  BY DEF Actors
<1>2. /\ actor' \in [Actors -> States] /\ actor'[a].pc = "idle"
      /\ \A b \in Actors \ {a} : actor'[b] = actor[b]
  BY <1>1, Exits DEF FailRename
<1>4. Leaves
  BY Typed DEF FailRename, Leaves
<1>5. Fits(actor'[a])
  BY <1>2, Typed DEF FailRename, Fits
<1> QED
  BY <1>1, <1>2, <1>4, <1>5, ActorMoves

\* A sweep leaves alone what a live worker holds.
LEMMA SkipHeldKeeps ==
    ASSUME QueueInv, NEW s \in Sweepers, SkipHeld(s), bound' = bound
    PROVE  QueueInv'
<1>1. s \in Actors
  BY DEF Actors
<1>2. /\ actor' \in [Actors -> States] /\ actor'[s].pc = "idle"
      /\ \A b \in Actors \ {s} : actor'[b] = actor[b]
  BY <1>1, Exits DEF SkipHeld
<1>4. Leaves
  BY Typed DEF SkipHeld, Leaves, files
<1>5. Fits(actor'[s])
  BY <1>2, Typed DEF SkipHeld, Fits
<1> QED
  BY <1>1, <1>2, <1>4, <1>5, ActorMoves

\* A sweep leaves alone what was stamped lately.
LEMMA SkipRecentKeeps ==
    ASSUME QueueInv, NEW s \in Sweepers, SkipRecent(s), bound' = bound
    PROVE  QueueInv'
<1>1. s \in Actors
  BY DEF Actors
<1>2. /\ actor' \in [Actors -> States] /\ actor'[s].pc = "idle"
      /\ \A b \in Actors \ {s} : actor'[b] = actor[b]
  BY <1>1, Exits DEF SkipRecent
<1>4. Leaves
  BY Typed DEF SkipRecent, Leaves, files
<1>5. Fits(actor'[s])
  BY <1>2, Typed DEF SkipRecent, Fits
<1> QED
  BY <1>1, <1>2, <1>4, <1>5, ActorMoves

\* A sweep counts an attempt for a worker that died.
LEMMA WorkerLostKeeps ==
    ASSUME QueueInv, NEW s \in Sweepers, WorkerLost(s), bound' = bound
    PROVE  QueueInv'
<1>1. s \in Actors
  BY DEF Actors
<1>2. /\ actor' \in [Actors -> States] /\ actor'[s].pc = "failRead"
      /\ \A b \in Actors \ {s} : actor'[b] = actor[b]
  BY <1>1, Enters DEF WorkerLost, Steps
<1>3. fate = "open" => meta.there
  BY <1>1 DEF WorkerLost, QueueInv, OpenHasMeta, RemovalIsDecided, HeldMetaWasThere, At, NotHeld
<1>4. Leaves
  BY <1>3, Typed DEF WorkerLost, Leaves, files
<1>5. Fits(actor'[s])
  BY <1>2, <1>3, Typed DEF WorkerLost, Fits, files
<1> QED
  BY <1>1, <1>2, <1>4, <1>5, ActorMoves

\* The hook starts a worker, or takes the prompt back.
LEMMA HookSpawnKeeps ==
    ASSUME QueueInv, HookSpawn, bound' = bound
    PROVE  QueueInv'
<1>1. Hook \in Actors \ Workers
  BY QueueAssumption DEF Actors
<1>2. fate = "open" => meta.there
  BY <1>1 DEF HookSpawn, QueueInv, OpenHasMeta, At
<1>3. Leaves
  <2>1. UNCHANGED <<files, expired, audited, claims, crashes>>
    BY DEF HookSpawn
  <2>2. CASE UNCHANGED fate
    BY <2>1, <2>2, Typed DEF Leaves, files
  <2>3. CASE Fate("fallback")
    <3>1. /\ fate' # "open"
          /\ fate' \in {"open", "fallback", "recorded", "exhausted", "expired", "settled"}
      BY <2>3, Decides
    <3> QED
      BY <2>1, <3>1, Typed DEF Leaves, files
  <2> QED
    BY <2>2, <2>3 DEF HookSpawn
<1>4. CASE Spawned(Hook, Idle) /\ UNCHANGED fate
  <2>1. PICK w \in Workers :
            /\ actor' \in [Actors -> States]
            /\ actor'[w].pc = "spawned" /\ actor'[Hook].pc = "idle" /\ w # Hook
            /\ \A b \in Actors \ {Hook, w} : actor'[b] = actor[b]
    BY <1>1, <1>4, Spawns
  <2>2. {Hook, w} \in SUBSET Actors /\ UNCHANGED meta
    BY <1>1 DEF Actors, HookSpawn, files
  <2>3. \A b \in {Hook, w} : Fits(actor'[b])
    BY <1>2, <1>4, <2>1, <2>2 DEF Fits
  <2> QED
    BY <1>3, <2>1, <2>2, <2>3, ActorsMove
<1>5. CASE Goto(Hook, "rmQueued") /\ Fate("fallback")
  <2>1. /\ actor' \in [Actors -> States] /\ actor'[Hook].pc = "rmQueued"
        /\ \A b \in Actors \ {Hook} : actor'[b] = actor[b]
    BY <1>1, <1>5, GoesTo DEF Steps
  <2>2. fate' # "open"
    BY <1>5, Decides
  <2>3. Fits(actor'[Hook])
    BY <2>1, <2>2 DEF Fits
  <2> QED
    BY <1>1, <1>3, <2>1, <2>3, ActorMoves
<1> QED
  BY <1>4, <1>5 DEF HookSpawn

\* A sweep writes back the metadata it read, and starts a worker.
LEMMA RestartKeeps ==
    ASSUME QueueInv, NEW s \in Sweepers, Restart(s), bound' = bound
    PROVE  QueueInv'
<1>1. s \in Actors \ Workers
  BY QueueAssumption DEF Actors
<1>2. actor[s].meta \in MetaType /\ actor[s].meta.there /\ actor[s].meta.attempts < MaxAttempts
  BY <1>1 DEF Restart, NotHeld, QueueInv, HeldMetaWasThere, TypeOK, At
<1>3. meta' \in [attempts : 0..(MaxAttempts - 1), pid : Workers \cup {Nobody},
                 fresh : BOOLEAN, there : BOOLEAN] /\ meta'.there
  <2>1. PICK m : m = actor[s].meta
    OBVIOUS
  <2>2. m \in MetaType /\ m.there /\ m.attempts \in 0..(MaxAttempts - 1)
    BY <1>2, <2>1, Typed DEF MetaType
  <2>3. meta' = [m EXCEPT !.fresh = TRUE]
    BY <2>1 DEF Restart
  <2> QED
    BY <2>2, <2>3 DEF MetaType
<1>4. Leaves
  BY <1>3, Typed DEF Restart, Leaves
<1>5. CASE Unused = {}
  <2>1. /\ actor' \in [Actors -> States] /\ actor'[s].pc = "idle"
        /\ \A b \in Actors \ {s} : actor'[b] = actor[b]
    BY <1>1, <1>5, Exits DEF Restart
  <2>2. Fits(actor'[s])
    BY <2>1 DEF Fits
  <2> QED
    BY <1>1, <1>4, <2>1, <2>2, ActorMoves
<1>6. CASE Spawned(s, Idle)
  <2>1. PICK w \in Workers :
            /\ actor' \in [Actors -> States]
            /\ actor'[w].pc = "spawned" /\ actor'[s].pc = "idle" /\ w # s
            /\ \A b \in Actors \ {s, w} : actor'[b] = actor[b]
    BY <1>1, <1>6, Spawns
  <2>2. {s, w} \in SUBSET Actors
    BY <1>1 DEF Actors
  <2>3. \A b \in {s, w} : Fits(actor'[b])
    BY <1>3, <2>1 DEF Fits
  <2> QED
    BY <1>4, <2>1, <2>2, <2>3, ActorsMove
<1> QED
  BY <1>5, <1>6 DEF Restart

\* The metadata goes last, of a decided prompt.
LEMMA RemoveMetaKeeps ==
    ASSUME QueueInv, NEW a \in Actors, RemoveMeta(a), bound' = bound
    PROVE  QueueInv'
<1>1. fate # "open"
  BY DEF RemoveMeta, QueueInv, RemovalIsDecided, At
<1>2. meta' \in [attempts : 0..(MaxAttempts - 1), pid : Workers \cup {Nobody},
                 fresh : BOOLEAN, there : BOOLEAN]
  BY Typed DEF RemoveMeta, NoMeta
<1>3. Leaves
  BY <1>1, <1>2, Typed DEF RemoveMeta, Leaves
<1>4. /\ actor' \in [Actors -> States] /\ actor'[a].pc \in {"audit", "idle"}
      /\ \A b \in Actors \ {a} : actor'[b] = actor[b]
  <2>1. CASE Goto(a, "audit")
    BY <2>1, GoesTo DEF Steps
  <2>2. CASE Exit(a)
    BY <2>2, Exits
  <2> QED
    BY <2>1, <2>2 DEF RemoveMeta
<1>5. Fits(actor'[a])
  BY <1>1, <1>4 DEF RemoveMeta, Fits
<1> QED
  BY <1>3, <1>4, <1>5, ActorMoves

\* A claim moves the prompt from one name to the other.
LEMMA ClaimKeeps ==
    ASSUME QueueInv, NEW w \in Workers, Claim(w), bound' = bound
    PROVE  QueueInv'
<1>1. w \in Actors
  BY DEF Actors
<1>2. fate = "open" => meta.there
  BY <1>1 DEF Claim, QueueInv, OpenHasMeta, At
<1>3. claims' \in 0..MaxClaims
  BY Typed, QueueAssumption DEF Claim
<1>4. Leaves
  BY <1>2, <1>3, Typed DEF Claim, Leaves
<1>5. /\ actor' \in [Actors -> States] /\ actor'[w].pc \in {"readMeta", "idle"}
      /\ \A b \in Actors \ {w} : actor'[b] = actor[b]
  <2>1. CASE Goto(w, "readMeta")
    BY <1>1, <2>1, GoesTo DEF Steps
  <2>2. CASE Exit(w)
    BY <1>1, <2>2, Exits
  <2> QED
    BY <2>1, <2>2 DEF Claim
<1>6. Fits(actor'[w])
  BY <1>2, <1>5 DEF Claim, Fits
<1> QED
  BY <1>1, <1>4, <1>5, <1>6, ActorMoves

\* A worker goes on with the metadata only if it is there.
LEMMA ClaimReadMetaKeeps ==
    ASSUME QueueInv, NEW w \in Workers, ClaimReadMeta(w), bound' = bound
    PROVE  QueueInv'
<1>1. w \in Actors
  BY DEF Actors
<1>2. fate = "open" => meta.there
  BY <1>1 DEF ClaimReadMeta, QueueInv, OpenHasMeta, At
<1>3. Leaves
  BY <1>2, Typed DEF ClaimReadMeta, Leaves, files
<1>4. /\ actor' \in [Actors -> States] /\ actor'[w].pc \in {"writeMeta", "observe"}
      /\ actor'[w].pc = "writeMeta" => meta.there
      /\ actor'[w].meta = meta
      /\ \A b \in Actors \ {w} : actor'[b] = actor[b]
  <2>1. CASE meta.there /\ ReadMeta(w, "writeMeta")
    BY <1>1, <2>1, Reads DEF Steps
  <2>2. CASE ~meta.there /\ ReadMeta(w, "observe")
    BY <1>1, <2>2, Reads DEF Steps
  <2> QED
    BY <2>1, <2>2 DEF ClaimReadMeta
<1>5. Fits(actor'[w])
  BY <1>2, <1>4, Typed DEF ClaimReadMeta, Fits, files
<1> QED
  BY <1>1, <1>3, <1>4, <1>5, ActorMoves

\* A worker reads the prompt, or its attempt fails.
LEMMA ReadPromptKeeps ==
    ASSUME QueueInv, NEW w \in Workers, ReadPrompt(w), bound' = bound
    PROVE  QueueInv'
<1>1. w \in Actors
  BY DEF Actors
<1>2. fate = "open" => meta.there
  BY <1>1 DEF ReadPrompt, QueueInv, OpenHasMeta, At
<1>3. Leaves
  BY <1>2, Typed DEF ReadPrompt, Leaves, files
<1>4. /\ actor' \in [Actors -> States] /\ actor'[w].pc \in {"classify", "failRead"}
      /\ \A b \in Actors \ {w} : actor'[b] = actor[b]
  <2>1. CASE Goto(w, "classify")
    BY <1>1, <2>1, GoesTo DEF Steps
  <2>2. CASE Goto(w, "failRead")
    BY <1>1, <2>2, GoesTo DEF Steps
  <2> QED
    BY <2>1, <2>2 DEF ReadPrompt
<1>5. Fits(actor'[w])
  BY <1>2, <1>4, Typed DEF ReadPrompt, Fits, files
<1> QED
  BY <1>1, <1>3, <1>4, <1>5, ActorMoves

\* A recorded prompt has its fate before anything is removed.
LEMMA ClassifyKeeps ==
    ASSUME QueueInv, NEW w \in Workers, Classify(w), bound' = bound
    PROVE  QueueInv'
<1>1. w \in Actors
  BY DEF Actors
<1>2. fate = "open" => meta.there
  BY <1>1 DEF Classify, QueueInv, OpenHasMeta, At
<1>3. UNCHANGED <<files, expired, audited, claims, crashes>>
  BY DEF Classify
<1>4. CASE Fate("recorded") /\ Goto(w, "rmQueued")
  <2>1. /\ fate' # "open"
        /\ fate' \in {"open", "fallback", "recorded", "exhausted", "expired", "settled"}
    BY <1>4, Decides
  <2>2. /\ actor' \in [Actors -> States] /\ actor'[w].pc = "rmQueued"
        /\ \A b \in Actors \ {w} : actor'[b] = actor[b]
    BY <1>1, <1>4, GoesTo DEF Steps
  <2>3. Leaves /\ Fits(actor'[w])
    BY <1>3, <2>1, <2>2, Typed DEF Leaves, Fits, files
  <2> QED
    BY <1>1, <2>2, <2>3, ActorMoves
<1>5. CASE Goto(w, "failRead") /\ UNCHANGED fate
  <2>1. /\ actor' \in [Actors -> States] /\ actor'[w].pc = "failRead"
        /\ \A b \in Actors \ {w} : actor'[b] = actor[b]
    BY <1>1, <1>5, GoesTo DEF Steps
  <2>2. Leaves /\ Fits(actor'[w])
    BY <1>2, <1>3, <1>5, <2>1, Typed DEF Leaves, Fits, files
  <2> QED
    BY <1>1, <2>1, <2>2, ActorMoves
<1> QED
  BY <1>4, <1>5 DEF Classify

\* A failed attempt removes nothing of an open prompt: it has metadata, and an
\* attempt left unless its fate is decided here.
LEMMA FailReadKeeps ==
    ASSUME QueueInv, NEW a \in Actors, FailRead(a), bound' = bound
    PROVE  QueueInv'
<1>1. fate = "open" => meta.there
  BY DEF FailRead, QueueInv, OpenHasMeta, At
<1>2. PICK failed : failed = Fresh(meta.attempts + 1)
  OBVIOUS
<1>3. failed \in MetaType /\ failed.there /\ failed.attempts = meta.attempts + 1
  BY <1>2, Typed DEF Fresh, MetaType
<1>4. UNCHANGED <<files, expired, audited, claims, crashes>>
  BY DEF FailRead
<1>5. CASE ~meta.there /\ ReadMeta(a, "rmQueued") /\ UNCHANGED fate
  <2>1. /\ actor' \in [Actors -> States] /\ actor'[a].pc = "rmQueued"
        /\ \A b \in Actors \ {a} : actor'[b] = actor[b]
    BY <1>5, Reads DEF Steps
  <2>2. Leaves /\ Fits(actor'[a])
    BY <1>1, <1>4, <1>5, <2>1, Typed DEF Leaves, Fits, files
  <2> QED
    BY <2>1, <2>2, ActorMoves
<1>6. CASE /\ actor' = [actor EXCEPT ![a] = [pc |-> "rmQueued", meta |-> failed]]
           /\ Fate("exhausted")
  <2>1. PICK v : v = [pc |-> "rmQueued", meta |-> failed]
    OBVIOUS
  <2>2. v \in States /\ v.pc = "rmQueued"
    BY <1>3, <2>1 DEF States, Steps
  <2>3. /\ actor' \in [Actors -> States] /\ actor'[a] = v
        /\ \A b \in Actors \ {a} : actor'[b] = actor[b]
    BY <1>6, <2>1, <2>2, Moves
  <2>4. /\ fate' # "open"
        /\ fate' \in {"open", "fallback", "recorded", "exhausted", "expired", "settled"}
    BY <1>6, Decides
  <2>5. Leaves /\ Fits(actor'[a])
    BY <1>4, <2>2, <2>3, <2>4, Typed DEF Leaves, Fits, files
  <2> QED
    BY <2>3, <2>5, ActorMoves
<1>7. CASE /\ meta.there /\ ~Spent(failed.attempts)
           /\ actor' = [actor EXCEPT ![a] = [pc |-> "failWrite", meta |-> failed]]
           /\ UNCHANGED fate
  <2>1. PICK v : v = [pc |-> "failWrite", meta |-> failed]
    OBVIOUS
  <2>2. v \in States /\ v.pc = "failWrite" /\ v.meta = failed
    BY <1>3, <2>1 DEF States, Steps
  <2>3. /\ actor' \in [Actors -> States] /\ actor'[a] = v
        /\ \A b \in Actors \ {a} : actor'[b] = actor[b]
    BY <1>7, <2>1, <2>2, Moves
  <2>4. failed.attempts < MaxAttempts
    BY <1>3, <1>7, Typed DEF Spent
  <2>5. Leaves /\ Fits(actor'[a])
    BY <1>3, <1>4, <1>7, <2>2, <2>3, <2>4, Typed DEF Leaves, Fits, files
  <2> QED
    BY <2>3, <2>5, ActorMoves
<1> QED
  BY <1>2, <1>5, <1>6, <1>7 DEF FailRead

\* The attempt is written with attempts left.
LEMMA FailWriteKeeps ==
    ASSUME QueueInv, NEW a \in Actors, FailWrite(a), bound' = bound
    PROVE  QueueInv'
<1>1. /\ actor[a].meta.there /\ actor[a].meta.attempts < MaxAttempts /\ actor[a].meta \in MetaType
      /\ fate = "open" => meta.there
  BY DEF FailWrite, QueueInv, OpenHasMeta, HeldMetaWasThere, TypeOK, At
<1>2. UNCHANGED <<queued, working, expired, fate, audited, claims, crashes>>
  BY DEF FailWrite
<1>3. CASE meta' = actor[a].meta /\ Enter(a, "failRename")
  <2>1. /\ actor' \in [Actors -> States] /\ actor'[a].pc = "failRename"
        /\ \A b \in Actors \ {a} : actor'[b] = actor[b]
    BY <1>3, Enters DEF Steps
  <2>2. meta' \in [attempts : 0..(MaxAttempts - 1), pid : Workers \cup {Nobody},
                   fresh : BOOLEAN, there : BOOLEAN]
    BY <1>1, <1>3, Typed DEF MetaType
  <2>3. Leaves /\ Fits(actor'[a])
    BY <1>1, <1>2, <1>3, <2>1, <2>2, Typed DEF Leaves, Fits
  <2> QED
    BY <2>1, <2>3, ActorMoves
<1>4. CASE Exit(a) /\ UNCHANGED meta
  <2>1. /\ actor' \in [Actors -> States] /\ actor'[a].pc = "idle"
        /\ \A b \in Actors \ {a} : actor'[b] = actor[b]
    BY <1>4, Exits
  <2>2. Leaves /\ Fits(actor'[a])
    BY <1>2, <1>4, <2>1, Typed DEF Leaves, Fits
  <2> QED
    BY <2>1, <2>2, ActorMoves
<1> QED
  BY <1>3, <1>4 DEF FailWrite

\* A sweep looks only at a prompt with metadata.
LEMMA SweepKeeps ==
    ASSUME QueueInv, NEW s \in Sweepers, Sweep(s), bound' = bound
    PROVE  QueueInv'
<1>1. s \in Actors
  BY DEF Actors
<1>2. /\ actor' \in [Actors -> States] /\ actor'[s].pc = "look" /\ actor'[s].meta = meta
      /\ \A b \in Actors \ {s} : actor'[b] = actor[b]
  BY <1>1, Reads DEF Sweep, Steps
<1>3. Leaves
  BY Typed DEF Sweep, Leaves, files
<1>4. Fits(actor'[s])
  BY <1>2, Typed DEF Sweep, Fits, files
<1> QED
  BY <1>1, <1>2, <1>3, <1>4, ActorMoves

\* A prompt past its retention has its fate before it is removed.
LEMMA DropExpiredKeeps ==
    ASSUME QueueInv, NEW s \in Sweepers, DropExpired(s), bound' = bound
    PROVE  QueueInv'
<1>1. s \in Actors
  BY DEF Actors
<1>2. /\ actor' \in [Actors -> States] /\ actor'[s].pc = "rmQueued"
      /\ \A b \in Actors \ {s} : actor'[b] = actor[b]
  BY <1>1, Enters DEF DropExpired, Steps
<1>3. /\ fate' # "open"
      /\ fate' \in {"open", "fallback", "recorded", "exhausted", "expired", "settled"}
  BY Decides DEF DropExpired
<1>4. Leaves /\ Fits(actor'[s])
  BY <1>2, <1>3, Typed DEF DropExpired, Leaves, Fits, files
<1> QED
  BY <1>1, <1>2, <1>4, ActorMoves

\* A process that dies leaves the files as they are.
LEMMA CrashKeeps ==
    ASSUME QueueInv, NEW a \in Actors, Crash(a)
    PROVE  QueueInv'
<1>1. /\ actor' \in [Actors -> States] /\ actor'[a].pc = "idle"
      /\ \A b \in Actors \ {a} : actor'[b] = actor[b]
  BY Exits DEF Crash
<1>2. crashes' \in 0..bound.crashes
  BY Typed DEF Crash
<1>3. Leaves /\ Fits(actor'[a])
  BY <1>1, <1>2, Typed DEF Crash, Leaves, Fits, files
<1>4. bound' = bound
  BY DEF Crash
<1> QED
  BY <1>1, <1>3, <1>4, ActorMoves

\* The retention ends.
LEMMA ExpireKeeps ==
    ASSUME QueueInv, Expire
    PROVE  QueueInv'
<1>1. Leaves /\ bound' = bound /\ actor' \in [Actors -> States] /\ actor' = actor
  BY Typed DEF Expire, Leaves, files
<1>2. {} \in SUBSET Actors /\ \A b \in {} : Fits(actor'[b])
  OBVIOUS
<1>3. \A b \in Actors \ {} : actor'[b] = actor[b]
  BY <1>1
<1> QED
  BY <1>1, <1>2, <1>3, ActorsMove

\* Time passes; what is held grows stale with what is on disk.
LEMMA GrowsStaleKeeps ==
    ASSUME QueueInv, GrowsStale
    PROVE  QueueInv'
<1>1. meta' \in [attempts : 0..(MaxAttempts - 1), pid : Workers \cup {Nobody},
                 fresh : BOOLEAN, there : BOOLEAN] /\ meta'.there = meta.there
  BY Typed DEF GrowsStale
<1>2. Leaves /\ bound' = bound /\ fate' = fate
  BY <1>1, Typed DEF GrowsStale, Leaves
<1>3. \A r \in States : /\ [r EXCEPT !.meta.fresh = FALSE] \in States
                        /\ [r EXCEPT !.meta.fresh = FALSE].pc = r.pc
                        /\ [r EXCEPT !.meta.fresh = FALSE].meta.there = r.meta.there
                        /\ [r EXCEPT !.meta.fresh = FALSE].meta.attempts = r.meta.attempts
  <2> SUFFICES ASSUME NEW r \in States
               PROVE  /\ [r EXCEPT !.meta.fresh = FALSE] \in States
                      /\ [r EXCEPT !.meta.fresh = FALSE].pc = r.pc
                      /\ [r EXCEPT !.meta.fresh = FALSE].meta.there = r.meta.there
                      /\ [r EXCEPT !.meta.fresh = FALSE].meta.attempts = r.meta.attempts
    OBVIOUS
  <2>1. PICK m : m = [r.meta EXCEPT !.fresh = FALSE]
    OBVIOUS
  <2>2. m \in MetaType /\ m.there = r.meta.there /\ m.attempts = r.meta.attempts
    BY <2>1 DEF States, MetaType
  <2>3. [r EXCEPT !.meta.fresh = FALSE] = [r EXCEPT !.meta = m]
    BY <2>1
  <2> HIDE DEF MetaType, Steps
  <2> QED
    BY <2>2, <2>3 DEF States
<1>4. actor' \in [Actors -> States]
      /\ \A a \in Actors : /\ actor'[a].pc = actor[a].pc
                           /\ actor'[a].meta.there = actor[a].meta.there
                           /\ actor'[a].meta.attempts = actor[a].meta.attempts
  BY <1>3, Typed DEF GrowsStale
<1>5. TypeOK'
  BY <1>2, <1>4 DEF QueueInv, TypeOK, MetaType, MaxAttempts, States, Leaves
<1>6. HeldMetaWasThere'
  BY <1>2, <1>4 DEF QueueInv, HeldMetaWasThere, MaxAttempts
<1>7. RemovalIsDecided'
  BY <1>2, <1>4 DEF QueueInv, RemovalIsDecided
<1>8. OpenHasMeta'
  BY <1>1, <1>2, <1>4 DEF QueueInv, OpenHasMeta, GrowsStale
<1>9. PromptIsAccountedFor'
  BY <1>2 DEF QueueInv, PromptIsAccountedFor, Leaves
<1> QED
  BY <1>2, <1>5, <1>6, <1>7, <1>8, <1>9 DEF QueueInv

\* Every step keeps the invariant.
LEMMA QueueNext == QueueInv /\ [Next]_vars => QueueInv'
<1> SUFFICES ASSUME QueueInv, [Next]_vars PROVE QueueInv'
  OBVIOUS
<1>1. CASE UNCHANGED vars
  <2>1. UNCHANGED <<queued, working, meta, actor, expired, fate, audited, claims, crashes, bound>>
    BY <1>1 DEF vars, files
  <2>2. TypeOK' /\ HeldMetaWasThere' /\ MaxAttempts' = MaxAttempts
    BY <2>1 DEF QueueInv, TypeOK, HeldMetaWasThere, MetaType, MaxAttempts
  <2> QED
    BY <2>1, <2>2 DEF QueueInv, RemovalIsDecided, OpenHasMeta, PromptIsAccountedFor
<1>2. ASSUME NEW a \in Actors, Step(a) PROVE QueueInv'
  <2>1. bound' = bound
    BY <1>2 DEF Step
  <2>2. CASE HookStep
    BY <2>1, <2>2, HookMetaKeeps, HookEventKeeps, HookSpawnKeeps DEF HookStep
  <2>3. CASE a \in Workers /\ WorkerStep(a)
    BY <2>1, <2>3, ClaimKeeps, ClaimReadMetaKeeps, ClaimWriteMetaKeeps, ReadPromptKeeps, ClassifyKeeps
       DEF WorkerStep
  <2>4. CASE a \in Sweepers /\ (Sweep(a) \/ SweeperStep(a))
    BY <2>1, <2>4, SweepKeeps, SkipHeldKeeps, DropExpiredKeeps, WorkerLostKeeps, SkipRecentKeeps,
       RestartKeeps DEF SweeperStep
  <2>5. CASE Settle(a)
    BY <2>1, <2>5, RemoveQueuedKeeps, RemoveWorkingKeeps, RemoveMetaKeeps, AuditKeeps, FailReadKeeps,
       FailWriteKeeps, FailRenameKeeps DEF Settle
  <2> QED
    BY <1>2, <2>2, <2>3, <2>4, <2>5 DEF Step
<1>3. ASSUME NEW a \in Actors, Crash(a) PROVE QueueInv'
  BY <1>3, CrashKeeps
<1> QED
  BY <1>1, <1>2, <1>3, GrowsStaleKeeps, ExpireKeeps DEF Next

-----------------------------------------------------------------------------

\* The invariant holds throughout, and with it the types.
THEOREM QueueIsSound == Spec => []QueueInv
BY QueueInit, QueueNext, PTL DEF Spec

\* A claimed prompt is on disk until something decided what becomes of it, for
\* any number of workers, sweepers, attempts and crashes.
THEOREM ClaimedIsKept == Spec => []PromptIsAccountedFor
<1>1. QueueInv => PromptIsAccountedFor
  BY DEF QueueInv
<1> QED
  BY <1>1, QueueIsSound, PTL

-----------------------------------------------------------------------------
(* What the ingests of a source do to its observations                        *)

\* Some sets of subsets of a finite set have a smallest member.
LEMMA SmallestSubset ==
    ASSUME NEW S, IsFiniteSet(S), NEW T \in SUBSET SUBSET S, T # {}
    PROVE  \E X \in T : \A Y \in T : Y \subseteq X => Y = X
<1>1. IsWellFoundedOn(StrictSubsetOrdering(S), SUBSET S)
  BY FS_StrictSubsetOrderingWellFounded, FS_FiniteSubsetsOfFinite
<1>2. PICK X \in T : \A Y \in T : ~(<<Y, X>> \in StrictSubsetOrdering(S))
  BY <1>1, WFMin
<1> QED
  BY <1>2 DEF StrictSubsetOrdering

\* A strict order of finitely many things has a last one.
StrictOn(R, S) ==
  /\ \A x \in S : <<x, x>> \notin R
  /\ \A x, y, z \in S : <<x, y>> \in R /\ <<y, z>> \in R => <<x, z>> \in R

LEMMA LastExists ==
  ASSUME NEW S, IsFiniteSet(S), S # {}, NEW R, StrictOn(R, S)
  PROVE  \E m \in S : \A y \in S : <<m, y>> \notin R
<1> DEFINE Up(x) == {y \in S : y = x \/ <<x, y>> \in R}
<1> DEFINE T == {Up(x) : x \in S}
<1>1. T \in SUBSET SUBSET S /\ T # {}
  OBVIOUS
<1>2. PICK X \in T : \A Y \in T : Y \subseteq X => Y = X
  <2> HIDE DEF T
  <2> QED
    BY <1>1, SmallestSubset
<1>3. PICK m \in S : X = Up(m)
  BY <1>2
<1>4. ASSUME NEW y \in S, <<m, y>> \in R PROVE FALSE
  <2>1. Up(y) \subseteq Up(m)
    BY <1>4 DEF StrictOn
  <2>2. m \notin Up(y)
    BY <1>4 DEF StrictOn
  <2>3. m \in Up(m)
    OBVIOUS
  <2>4. Up(y) \in T
    OBVIOUS
  <2> HIDE DEF Up, T
  <2> QED
    BY <1>2, <1>3, <2>1, <2>2, <2>3, <2>4
<1> QED
  BY <1>4

\* A set of numbers has a smallest.
LEMMA SmallestNumber ==
  ASSUME NEW S \in SUBSET Nat, S # {}
  PROVE  \E n \in S : \A m \in S : n <= m
<1>1. IsWellFoundedOn(OpToRel(<, Nat), Nat)
  BY NatLessThanWellFounded
<1>2. PICK n \in S : \A m \in S : <<m, n>> \notin OpToRel(<, Nat)
  BY <1>1, WFMin, Zenon
<1>3. \A m \in S : ~(m < n)
  BY <1>2 DEF OpToRel
<1> QED
  BY <1>3

\* Tuples of n numbers.
Numbers(n) == [1..n -> Nat]

LEMMA LessIsStrict ==
  ASSUME NEW n \in Nat, NEW s \in Numbers(n) PROVE ~Less(s, s)
BY DEF Less, Numbers

LEMMA LessGoesOn ==
  ASSUME NEW n \in Nat, NEW s \in Numbers(n), NEW t \in Numbers(n), NEW u \in Numbers(n),
         Less(s, t), Less(t, u)
  PROVE  Less(s, u)
<1>1. PICK i \in 1..n : s[i] < t[i] /\ \A j \in 1..(i - 1) : s[j] = t[j]
  BY DEF Less, Numbers
<1>2. PICK k \in 1..n : t[k] < u[k] /\ \A j \in 1..(k - 1) : t[j] = u[j]
  BY DEF Less, Numbers
<1>3. CASE i <= k
  <2>1. s[i] < u[i]
    BY <1>1, <1>2, <1>3 DEF Numbers
  <2>2. \A j \in 1..(i - 1) : s[j] = u[j]
    BY <1>1, <1>2, <1>3
  <2> QED
    BY <2>1, <2>2 DEF Less, Numbers
<1>4. CASE k < i
  <2>1. s[k] < u[k]
    BY <1>1, <1>2, <1>4 DEF Numbers
  <2>2. \A j \in 1..(k - 1) : s[j] = u[j]
    BY <1>1, <1>2, <1>4
  <2> QED
    BY <2>1, <2>2 DEF Less, Numbers
<1> QED
  BY <1>3, <1>4

LEMMA LessOrMore ==
  ASSUME NEW n \in Nat, NEW s \in Numbers(n), NEW t \in Numbers(n), s # t
  PROVE  Less(s, t) \/ Less(t, s)
<1> DEFINE D == {i \in 1..n : s[i] # t[i]}
<1>1. D # {} /\ D \in SUBSET Nat
  BY SMTT(40) DEF Numbers
<1>2. PICK i \in D : \A j \in D : i <= j
  <2> HIDE DEF D
  <2> QED
    BY <1>1, SmallestNumber
<1>3. \A j \in 1..(i - 1) : s[j] = t[j]
  BY <1>2
<1>4. s[i] < t[i] \/ t[i] < s[i]
  BY <1>2 DEF Numbers
<1>5. i \in DOMAIN s /\ i \in DOMAIN t
  BY <1>2 DEF Numbers
<1> QED
  BY <1>3, <1>4, <1>5 DEF Less

\* A row of numbers for each of some things.
Ranked(S, n, f) == \A x \in S : f[x] \in Numbers(n)

LEMMA LastByRank ==
  ASSUME NEW S, IsFiniteSet(S), S # {}, NEW n \in Nat, NEW f, Ranked(S, n, f),
         \A x, y \in S : f[x] = f[y] => x = y
  PROVE  \E m \in S : \A y \in S \ {m} : Less(f[y], f[m])
<1> DEFINE R == {e \in S \X S : Less(f[e[1]], f[e[2]])}
<1>1. \A x, y \in S : <<x, y>> \in R <=> Less(f[x], f[y])
  OBVIOUS
<1>2. StrictOn(R, S)
  <2>1. \A x \in S : <<x, x>> \notin R
    BY <1>1, LessIsStrict DEF Ranked
  <2>2. ASSUME NEW x \in S, NEW y \in S, NEW z \in S, <<x, y>> \in R, <<y, z>> \in R
        PROVE  <<x, z>> \in R
    <3>1. Less(f[x], f[y]) /\ Less(f[y], f[z])
      BY <1>1, <2>2
    <3>2. f[x] \in Numbers(n) /\ f[y] \in Numbers(n) /\ f[z] \in Numbers(n)
      BY DEF Ranked
    <3>3. Less(f[x], f[z])
      BY <3>1, <3>2, LessGoesOn
    <3> QED
      BY <1>1, <3>3
  <2> HIDE DEF R
  <2> QED
    BY <2>1, <2>2, Zenon DEF StrictOn
<1>3. PICK m \in S : \A y \in S : <<m, y>> \notin R
  <2> HIDE DEF R
  <2> QED
    BY <1>2, LastExists
<1>4. ASSUME NEW y \in S \ {m} PROVE Less(f[y], f[m])
  <2>1. ~Less(f[m], f[y])
    BY <1>1, <1>3
  <2>2. f[m] # f[y] /\ f[m] \in Numbers(n) /\ f[y] \in Numbers(n)
    BY DEF Ranked
  <2> QED
    BY <2>1, <2>2, LessOrMore
<1> QED
  BY <1>4

LEMMA FirstByRank ==
  ASSUME NEW S, IsFiniteSet(S), S # {}, NEW n \in Nat, NEW f, Ranked(S, n, f),
         \A x, y \in S : f[x] = f[y] => x = y
  PROVE  \E m \in S : \A y \in S \ {m} : Less(f[m], f[y])
<1> DEFINE R == {e \in S \X S : Less(f[e[2]], f[e[1]])}
<1>1. \A x, y \in S : <<x, y>> \in R <=> Less(f[y], f[x])
  OBVIOUS
<1>2. StrictOn(R, S)
  <2>1. \A x \in S : <<x, x>> \notin R
    BY <1>1, LessIsStrict DEF Ranked
  <2>2. ASSUME NEW x \in S, NEW y \in S, NEW z \in S, <<x, y>> \in R, <<y, z>> \in R
        PROVE  <<x, z>> \in R
    <3>1. Less(f[y], f[x]) /\ Less(f[z], f[y])
      BY <1>1, <2>2
    <3>2. f[x] \in Numbers(n) /\ f[y] \in Numbers(n) /\ f[z] \in Numbers(n)
      BY DEF Ranked
    <3>3. Less(f[z], f[x])
      BY <3>1, <3>2, LessGoesOn
    <3> QED
      BY <1>1, <3>3
  <2> HIDE DEF R
  <2> QED
    BY <2>1, <2>2, Zenon DEF StrictOn
<1>3. PICK m \in S : \A y \in S : <<m, y>> \notin R
  <2> HIDE DEF R
  <2> QED
    BY <1>2, LastExists
<1>4. ASSUME NEW y \in S \ {m} PROVE Less(f[m], f[y])
  <2>1. ~Less(f[y], f[m])
    BY <1>1, <1>3
  <2>2. f[m] # f[y] /\ f[m] \in Numbers(n) /\ f[y] \in Numbers(n)
    BY DEF Ranked
  <2> QED
    BY <2>1, <2>2, LessOrMore
<1> QED
  BY <1>4

\* The fields rows and records are ordered by are numbers.
Numbered(o) == o.native \in Nat /\ o.at \in BOOLEAN /\ o.digest \in Nat
Dated(o) == o.observed \in Nat /\ o.asserted \in Nat

\* One row to an identity and its bytes.
OneToAnId(S) == \A o, p \in S : Id(o) = Id(p) => o = p

LEMMA BranchIsANumber ==
  ASSUME NEW o, Numbered(o) PROVE Branch(o) \in Nat
BY DEF Branch, Numbered

LEMMA SameId ==
  ASSUME NEW o, NEW p, Numbered(o), Numbered(p), o.native = p.native,
         Branch(o) = Branch(p), o.digest = p.digest
  PROVE  Id(o) = Id(p)
<1>1. o.at = p.at
  BY DEF Branch, Numbered
<1> QED
  BY <1>1 DEF Id

\* Rows in a finite ledger.
Rows(S) == IsFiniteSet(S) /\ OneToAnId(S) /\ \A o \in S : Numbered(o) /\ Dated(o)

LEMMA LastObservedIsOne ==
  ASSUME NEW S, Rows(S), S # {}
  PROVE  LastObserved(S) \in S
<1> DEFINE f == [o \in S |-> ObservedOrder(o)]
<1>1. Ranked(S, 4, f)
  <2> SUFFICES ASSUME NEW o \in S PROVE ObservedOrder(o) \in Numbers(4)
    BY DEF Ranked
  <2>1. Branch(o) \in Nat
    BY BranchIsANumber DEF Rows
  <2> QED
    BY <2>1 DEF Rows, Numbered, Dated, Numbers, ObservedOrder
<1>2. ASSUME NEW x \in S, NEW y \in S, f[x] = f[y] PROVE x = y
  <2>1. x.native = y.native /\ Branch(x) = Branch(y) /\ x.digest = y.digest
    BY <1>2 DEF ObservedOrder
  <2>2. Id(x) = Id(y)
    BY <2>1, SameId DEF Rows
  <2> QED
    BY <2>2 DEF Rows, OneToAnId
<1>3. PICK m \in S : \A y \in S \ {m} : Less(f[y], f[m])
  <2> HIDE DEF f
  <2> QED
    BY <1>1, <1>2, LastByRank DEF Rows
<1>4. \A y \in S \ {m} : Less(ObservedOrder(y), ObservedOrder(m))
  BY <1>3
<1> QED
  BY <1>4 DEF LastObserved

LEMMA FirstObservedIsOne ==
  ASSUME NEW S, Rows(S), S # {}
  PROVE  FirstObserved(S) \in S
<1> DEFINE f == [o \in S |-> ObservedOrder(o)]
<1>1. Ranked(S, 4, f)
  <2> SUFFICES ASSUME NEW o \in S PROVE ObservedOrder(o) \in Numbers(4)
    BY DEF Ranked
  <2>1. Branch(o) \in Nat
    BY BranchIsANumber DEF Rows
  <2> QED
    BY <2>1 DEF Rows, Numbered, Dated, Numbers, ObservedOrder
<1>2. ASSUME NEW x \in S, NEW y \in S, f[x] = f[y] PROVE x = y
  <2>1. x.native = y.native /\ Branch(x) = Branch(y) /\ x.digest = y.digest
    BY <1>2 DEF ObservedOrder
  <2>2. Id(x) = Id(y)
    BY <2>1, SameId DEF Rows
  <2> QED
    BY <2>2 DEF Rows, OneToAnId
<1>3. PICK m \in S : \A y \in S \ {m} : Less(f[m], f[y])
  <2> HIDE DEF f
  <2> QED
    BY <1>1, <1>2, FirstByRank DEF Rows
<1>4. \A y \in S \ {m} : Less(ObservedOrder(m), ObservedOrder(y))
  BY <1>3
<1> QED
  BY <1>4 DEF FirstObserved

\* The last by their own times has the greatest.
LEMMA LastAssertedIsOne ==
  ASSUME NEW S, Rows(S), S # {}
  PROVE  /\ LastAsserted(S) \in S
         /\ \A o \in S : o.asserted <= LastAsserted(S).asserted
<1> DEFINE f == [o \in S |-> AssertedOrder(o)]
<1>0. \A o \in S : AssertedOrder(o) \in Numbers(5)
  <2> SUFFICES ASSUME NEW o \in S PROVE AssertedOrder(o) \in Numbers(5)
    OBVIOUS
  <2>1. Branch(o) \in Nat
    BY BranchIsANumber DEF Rows
  <2> QED
    BY <2>1 DEF Rows, Numbered, Dated, Numbers, AssertedOrder
<1>1. Ranked(S, 5, f)
  BY <1>0 DEF Ranked
<1>2. ASSUME NEW x \in S, NEW y \in S, f[x] = f[y] PROVE x = y
  <2>1. x.native = y.native /\ Branch(x) = Branch(y) /\ x.digest = y.digest
    BY <1>2 DEF AssertedOrder
  <2>2. Id(x) = Id(y)
    BY <2>1, SameId DEF Rows
  <2> QED
    BY <2>2 DEF Rows, OneToAnId
<1>3. PICK m \in S : \A y \in S \ {m} : Less(f[y], f[m])
  <2> HIDE DEF f
  <2> QED
    BY <1>1, <1>2, LastByRank DEF Rows
<1>4. \A y \in S \ {m} : Less(AssertedOrder(y), AssertedOrder(m))
  BY <1>3
<1>5. /\ LastAsserted(S) \in S
      /\ \A p \in S \ {LastAsserted(S)} : Less(AssertedOrder(p), AssertedOrder(LastAsserted(S)))
  BY <1>4 DEF LastAsserted
<1>6. ASSUME NEW o \in S, o # LastAsserted(S) PROVE o.asserted <= LastAsserted(S).asserted
  <2> DEFINE h == LastAsserted(S)
  <2>1. PICK i \in 1..5 : /\ AssertedOrder(o)[i] < AssertedOrder(h)[i]
                          /\ \A j \in 1..(i - 1) : AssertedOrder(o)[j] = AssertedOrder(h)[j]
    <3>1. Less(AssertedOrder(o), AssertedOrder(h)) /\ AssertedOrder(o) \in Numbers(5)
      BY <1>0, <1>5, <1>6
    <3> HIDE DEF h
    <3> QED
      BY <3>1 DEF Less, Numbers
  <2>2. AssertedOrder(o)[1] = o.asserted /\ AssertedOrder(h)[1] = h.asserted
    BY DEF AssertedOrder
  <2>3. o.asserted \in Nat /\ h.asserted \in Nat
    BY <1>5 DEF Rows, Dated
  <2> HIDE DEF h
  <2>4. CASE i = 1
    BY <2>1, <2>2, <2>3, <2>4 DEF h
  <2>5. CASE i # 1
    <3>1. 1 \in 1..(i - 1)
      BY <2>1, <2>5
    <3> QED
      BY <2>1, <2>2, <2>3, <3>1 DEF h
  <2> QED
    BY <2>4, <2>5
<1>7. LastAsserted(S).asserted \in Nat
  BY <1>5 DEF Rows, Dated
<1> QED
  BY <1>5, <1>6, <1>7

-----------------------------------------------------------------------------
\* An item of a source.
IsItem(i) ==
  /\ i = [subject |-> i.subject, digest |-> i.digest, state |-> i.state, place |-> i.place,
          copy |-> i.copy, stamp |-> i.stamp, until |-> i.until, signer |-> i.signer,
          owner |-> i.owner, parents |-> i.parents, marks |-> i.marks]
  /\ i.digest \in Nat /\ i.copy \in Nat /\ i.stamp \in Nat

\* A source of some natives.
IsSource(src) == DOMAIN src = Natives /\ \A n \in Native(src) : IsItem(src[n])

\* A record a scan yields.
Shaped(r) ==
  r = [kind |-> r.kind, native |-> r.native, at |-> r.at, digest |-> r.digest, key |-> r.key,
       disp |-> r.disp, origin |-> r.origin, atom |-> r.atom, asserted |-> r.asserted,
       until |-> r.until, signer |-> r.signer, owner |-> r.owner, scope |-> r.scope,
       parents |-> r.parents, attrs |-> r.attrs, receipt |-> r.receipt, present |-> r.present]

ScannedFrom(k, n, r) ==
  /\ Shaped(r) /\ r.kind = k /\ r.native = n
  /\ r.at \in BOOLEAN /\ r.digest \in Nat /\ r.asserted \in Nat /\ r.present \in BOOLEAN
  /\ k \notin Ordered => r.receipt = 0

\* What an envelope's record says is what its item says.
ReceiptOf(item, r) ==
  /\ r.digest = item.digest /\ r.key = item.subject /\ r.asserted = item.stamp
  /\ r.disp \in {"observed", "failed", "passed"} /\ "reducer_owned" \notin r.attrs

\* One record for an identity.
OneToAnIdentity(S) == \A r, s \in S : r.native = s.native /\ r.at = s.at => r = s

LEMMA RecordShape ==
  ASSUME NEW k, NEW n, NEW item, IsItem(item), NEW atom, NEW disp, NEW origin
  PROVE  ScannedFrom(k, n, Record(k, n, item, atom, disp, origin))
BY DEF Record, ScannedFrom, Shaped, IsItem

LEMMA BranchShape ==
  ASSUME NEW k, NEW n, NEW item, IsItem(item), NEW atom, NEW disp,
         NEW r \in BranchCopy(k, n, item, atom, disp)
  PROVE  ScannedFrom(k, n, r) /\ r.at = TRUE /\ r.digest = item.copy
<1>1. r = [Record(k, n, item, atom, disp, "unreviewed-branch") EXCEPT !.at = TRUE,
                                                                  !.digest = item.copy]
  BY DEF BranchCopy
<1> QED
  BY <1>1 DEF Record, ScannedFrom, Shaped, IsItem

LEMMA BranchIsOne ==
  ASSUME NEW k, NEW n, NEW item, NEW atom, NEW disp,
         NEW r \in BranchCopy(k, n, item, atom, disp),
         NEW s \in BranchCopy(k, n, item, atom, disp)
  PROVE  r = s
BY DEF BranchCopy

FileRecords(k, n, item, atom, disp, origin) ==
  {Record(k, n, item, atom, disp, origin) : d \in {item.digest} \ {0}}
    \cup BranchCopy(k, n, item, atom, disp)

LEMMA FileScan ==
  ASSUME NEW k, NEW n, NEW item, IsItem(item), NEW atom, NEW disp, NEW origin, NEW S,
         S = FileRecords(k, n, item, atom, disp, origin)
  PROVE  /\ \A r \in S : ScannedFrom(k, n, r)
         /\ OneToAnIdentity(S)
<1> DEFINE own == Record(k, n, item, atom, disp, origin)
           C == BranchCopy(k, n, item, atom, disp)
<1>1. own.at = FALSE
  BY DEF Record
<1>2. \A r \in S : r = own \/ r \in C
  BY DEF FileRecords
<1>3. ScannedFrom(k, n, own)
  BY RecordShape
<1>4. \A r \in C : ScannedFrom(k, n, r) /\ r.at = TRUE
  BY BranchShape
<1>5. \A r, s \in C : r = s
  BY BranchIsOne
<1> HIDE DEF own, C
<1>6. \A r \in S : ScannedFrom(k, n, r)
  BY <1>2, <1>3, <1>4
<1>7. \A r, s \in S : r.at = s.at => r = s
  BY <1>1, <1>2, <1>4, <1>5
<1> QED
  BY <1>6, <1>7 DEF OneToAnIdentity

LEMMA EnvelopeScan ==
  ASSUME NEW k, NEW n, NEW item, IsItem(item), k \in Ordered
  PROVE  /\ \A r \in ScanEnvelope(k, n, item) : ScannedFrom(k, n, r) /\ ReceiptOf(item, r)
         /\ OneToAnIdentity(ScanEnvelope(k, n, item))
<1> SUFFICES ASSUME NEW r \in ScanEnvelope(k, n, item)
             PROVE  ScannedFrom(k, n, r) /\ ReceiptOf(item, r)
  BY DEF OneToAnIdentity, ScanEnvelope
<1>1. PICK disp \in {"observed", "failed", "passed"} :
        r = [Record(k, n, item, "observation", disp, OriginTrust(item))
               EXCEPT !.until = item.until, !.owner = item.owner, !.receipt = item.stamp,
                      !.attrs = item.marks \cap {"exit_failed"}]
  BY DEF ScanEnvelope
<1> QED
  BY <1>1 DEF Record, ScannedFrom, Shaped, IsItem, ReceiptOf

\* A scan of at most one record, with some of its fields given.
LEMMA OneScan ==
  ASSUME NEW k, NEW n, NEW S, \A r, s \in S : r = s, \A r \in S : ScannedFrom(k, n, r)
  PROVE  (\A r \in S : ScannedFrom(k, n, r)) /\ OneToAnIdentity(S)
BY DEF OneToAnIdentity

LEMMA ItemScan ==
  ASSUME NEW k, k \in Personal \cup RepositoryFiles \cup Exports \cup
                        {"repo_symbols", "repo_tests", "runtime_evidence", "git_history",
                         "github_export", "kindex", "authority_answer"},
         NEW src, NEW n, IsItem(src[n])
  PROVE  /\ \A r \in ScanItem(k, src, n) : ScannedFrom(k, n, r)
         /\ OneToAnIdentity(ScanItem(k, src, n))
         /\ k \in Ordered => \A r \in ScanItem(k, src, n) : ReceiptOf(src[n], r)
<1> DEFINE item == src[n]
           S == ScanItem(k, src, n)
<1>0. IsItem(item)
  OBVIOUS
<1> HIDE DEF item
<1>1. CASE k = "repo_code"
  <2>1. S = ScanRepoCode(n, item)
    BY <1>1 DEF ScanItem, item, Personal, Exports
  <2>2. S = FileRecords(k, n, item, "claim", "current", OriginTrust(item))
    BY <1>1, <2>1 DEF ScanRepoCode, FileRecords
  <2> HIDE DEF S
  <2>3. (\A r \in S : ScannedFrom(k, n, r)) /\ OneToAnIdentity(S)
    BY <1>0, <2>2, FileScan
  <2> QED
    BY <1>1, <2>3 DEF S, Ordered
<1>2. CASE k = "docs_adr"
  <2>1. S = ScanDocsAdr(n, item)
    BY <1>2 DEF ScanItem, item, Personal, Exports
  <2>2. S = FileRecords(k, n, item, "decision", AdrStatus(item), OriginTrust(item))
    BY <1>2, <2>1 DEF ScanDocsAdr, FileRecords
  <2> HIDE DEF S
  <2>3. (\A r \in S : ScannedFrom(k, n, r)) /\ OneToAnIdentity(S)
    BY <1>0, <2>2, FileScan
  <2> QED
    BY <1>2, <2>3 DEF S, Ordered
<1>3. CASE k \in Ordered
  <2>1. S = ScanEnvelope(k, n, item)
    BY <1>3 DEF ScanItem, item, Personal, Exports, Ordered
  <2> HIDE DEF S
  <2>2. /\ \A r \in S : ScannedFrom(k, n, r) /\ ReceiptOf(item, r)
        /\ OneToAnIdentity(S)
    BY <1>0, <1>3, <2>1, EnvelopeScan
  <2> QED
    BY <2>2 DEF S, item
<1>4. CASE k \in Personal
  <2>1. S = ScanTranscript(k, n, item)
    BY <1>4 DEF ScanItem, item, Personal, Exports
  <2>2. \A r, s \in S : r = s
    BY <2>1 DEF ScanTranscript
  <2>3. ASSUME NEW r \in S PROVE ScannedFrom(k, n, r)
    <3>1. PICK atom, disp : r = [Record(k, n, item, atom, disp, "personal-host")
                 EXCEPT !.scope = "host-session",
                        !.attrs = item.marks \cap {"edited", "resumed_from", "raw_withheld"}]
      BY <2>1, <2>3 DEF ScanTranscript
    <3> QED
      BY <1>0, <3>1 DEF Record, ScannedFrom, Shaped, IsItem
  <2>4. k \notin Ordered
    BY <1>4 DEF Personal, Ordered
  <2> HIDE DEF S
  <2>5. (\A r \in S : ScannedFrom(k, n, r)) /\ OneToAnIdentity(S)
    BY <2>2, <2>3, OneScan
  <2> QED
    BY <2>4, <2>5 DEF S
<1>5. CASE k \in Exports
  <2>1. S = ScanExport(k, n, item)
    BY <1>5 DEF ScanItem, item, Personal, Exports
  <2>2. \A r, s \in S : r = s
    BY <2>1 DEF ScanExport
  <2>3. ASSUME NEW r \in S PROVE ScannedFrom(k, n, r)
    <3>1. r = Record(k, n, item, "claim", ExportDisposition(k, item), "merged-default")
      BY <2>1, <2>3 DEF ScanExport
    <3> QED
      BY <1>0, <3>1, RecordShape
  <2>4. k \notin Ordered
    BY <1>5 DEF Exports, Ordered
  <2> HIDE DEF S
  <2>5. (\A r \in S : ScannedFrom(k, n, r)) /\ OneToAnIdentity(S)
    BY <2>2, <2>3, OneScan
  <2> QED
    BY <2>4, <2>5 DEF S
<1>6. CASE k = "repo_symbols"
  <2>1. S = ScanRepoSymbols(src, n)
    BY <1>6 DEF ScanItem, item, Personal, Exports
  <2>2. \A r, s \in S : r = s
    BY <2>1 DEF ScanRepoSymbols
  <2>3. ASSUME NEW r \in S PROVE ScannedFrom(k, n, r)
    <3>1. r = [Record(k, n, item, "interface", "current", OriginTrust(item))
                 EXCEPT !.key = SymbolKey(src, n), !.asserted = 0]
      BY <1>6, <2>1, <2>3 DEF ScanRepoSymbols, item
    <3> QED
      BY <1>0, <3>1 DEF Record, ScannedFrom, Shaped, IsItem
  <2> HIDE DEF S
  <2>5. (\A r \in S : ScannedFrom(k, n, r)) /\ OneToAnIdentity(S)
    BY <2>2, <2>3, OneScan
  <2> QED
    BY <1>6, <2>5 DEF S, Ordered
<1>7. CASE k = "git_history"
  <2>1. S = ScanGit(n, item)
    BY <1>7 DEF ScanItem, item, Personal, Exports
  <2>2. \A r, s \in S : r = s
    BY <2>1 DEF ScanGit
  <2>3. ASSUME NEW r \in S PROVE ScannedFrom(k, n, r)
    <3>1. r = [Record("git_history", n, item, item.state, GitDisposition(item), GitOrigin(item))
                 EXCEPT !.attrs = item.marks \cap {"reverted_by", "reverts", "skew_bounded"}]
      BY <2>1, <2>3 DEF ScanGit
    <3> QED
      BY <1>0, <1>7, <3>1 DEF Record, ScannedFrom, Shaped, IsItem
  <2> HIDE DEF S
  <2>5. (\A r \in S : ScannedFrom(k, n, r)) /\ OneToAnIdentity(S)
    BY <2>2, <2>3, OneScan
  <2> QED
    BY <1>7, <2>5 DEF S, Ordered
<1>8. CASE k = "github_export"
  <2>1. S = ScanGithub(n, item)
    BY <1>8 DEF ScanItem, item, Personal, Exports
  <2>2. \A r, s \in S : r = s
    BY <2>1 DEF ScanGithub
  <2>3. ASSUME NEW r \in S PROVE ScannedFrom(k, n, r)
    <3>1. r = [Record("github_export", n, item, "decision", GithubDisposition(item),
                      OriginTrust(item))
                 EXCEPT !.present = "newest snapshot" \in item.marks,
                        !.attrs = item.marks \cap {"edited"}]
      BY <2>1, <2>3 DEF ScanGithub
    <3>2. ("newest snapshot" \in item.marks) \in BOOLEAN
      OBVIOUS
    <3> QED
      BY <1>0, <1>8, <3>1, <3>2 DEF Record, ScannedFrom, Shaped, IsItem
  <2> HIDE DEF S
  <2>5. (\A r \in S : ScannedFrom(k, n, r)) /\ OneToAnIdentity(S)
    BY <2>2, <2>3, OneScan
  <2> QED
    BY <1>8, <2>5 DEF S, Ordered
<1>9. CASE k = "kindex"
  <2>1. S = ScanKindex(n, item)
    BY <1>9 DEF ScanItem, item, Personal, Exports
  <2>2. \A r, s \in S : r = s
    BY <2>1 DEF ScanKindex
  <2>3. ASSUME NEW r \in S PROVE ScannedFrom(k, n, r)
    <3>1. r = [Record("kindex", n, item, "claim", item.state, OriginTrust(item))
                 EXCEPT !.until = item.until, !.parents = item.parents,
                        !.attrs = item.marks \cap {"contradicts", "superseded_by"}]
      BY <2>1, <2>3 DEF ScanKindex
    <3> QED
      BY <1>0, <1>9, <3>1 DEF Record, ScannedFrom, Shaped, IsItem
  <2> HIDE DEF S
  <2>5. (\A r \in S : ScannedFrom(k, n, r)) /\ OneToAnIdentity(S)
    BY <2>2, <2>3, OneScan
  <2> QED
    BY <1>9, <2>5 DEF S, Ordered
<1>10. CASE k = "authority_answer"
  <2>1. S = ScanAnswer(n, item)
    BY <1>10 DEF ScanItem, item, Personal, Exports
  <2>2. \A r, s \in S : r = s
    BY <2>1 DEF ScanAnswer
  <2>3. ASSUME NEW r \in S PROVE ScannedFrom(k, n, r)
    <3>1. r = [Record("authority_answer", n, item, "decision", "answered", OriginTrust(item))
                 EXCEPT !.signer = item.signer, !.scope = "company", !.parents = item.parents,
                        !.attrs = item.marks \cap {"signature_valid", "late"}]
      BY <2>1, <2>3 DEF ScanAnswer
    <3> QED
      BY <1>0, <1>10, <3>1 DEF Record, ScannedFrom, Shaped, IsItem
  <2> HIDE DEF S
  <2>5. (\A r \in S : ScannedFrom(k, n, r)) /\ OneToAnIdentity(S)
    BY <2>2, <2>3, OneScan
  <2> QED
    BY <1>10, <2>5 DEF S, Ordered
<1> HIDE DEF S
<1>11. \/ k = "repo_code" \/ k = "docs_adr" \/ k \in Ordered \/ k \in Personal \/ k \in Exports
       \/ k = "repo_symbols" \/ k = "git_history" \/ k = "github_export" \/ k = "kindex"
       \/ k = "authority_answer"
  BY DEF RepositoryFiles, Ordered
<1> QED
  BY <1>1, <1>2, <1>3, <1>4, <1>5, <1>6, <1>7, <1>8, <1>9, <1>10, <1>11

\* The records of a scan.
AreRecords(k, src, R) ==
  /\ IsFiniteSet(R) /\ OneToAnIdentity(R)
  /\ \A r \in R : /\ r.native \in Native(src) /\ ScannedFrom(k, r.native, r)
                  /\ k \in Ordered => ReceiptOf(src[r.native], r)

\* What an unnarrowed scan reads is what it reads of each item.
LEMMA RecordsAreOfItems ==
  ASSUME NEW k \in Kinds, NEW src, IsSource(src)
  PROVE  RecordsOf(k, src) = UNION {ScanItem(k, src, n) : n \in Native(src)}
<1> DEFINE U == UNION {ScanItem(k, src, n) : n \in Native(src)}
           R == RecordsOf(k, src)
<1>1. k \in Personal \cup RepositoryFiles \cup Exports \cup
              {"repo_symbols", "repo_tests", "runtime_evidence", "git_history",
               "github_export", "kindex", "authority_answer"}
  BY KindsAreKnown
<1>2. \A r \in U : [r EXCEPT !.attrs = @ \cup {}] = r
  <2> SUFFICES ASSUME NEW r \in U PROVE [r EXCEPT !.attrs = @ \cup {}] = r
    OBVIOUS
  <2>1. PICK n \in Native(src) : r \in ScanItem(k, src, n)
    OBVIOUS
  <2>2. IsItem(src[n])
    BY DEF IsSource
  <2>3. Shaped(r)
    BY <1>1, <2>1, <2>2, ItemScan DEF ScannedFrom
  <2>4. r.attrs \cup {} = r.attrs
    OBVIOUS
  <2> HIDE DEF U
  <2> QED
    BY <2>3, <2>4 DEF Shaped
<1>3. R = {[r EXCEPT !.attrs = @ \cup {}] : r \in U}
  BY DEF RecordsOf, Scan
<1> HIDE DEF U, R
<1>4. R = U
  BY <1>2, <1>3
<1> QED
  BY <1>4 DEF R, U

LEMMA RecordsAreScanned ==
  ASSUME NEW k \in Kinds, NEW src, IsSource(src)
  PROVE  AreRecords(k, src, RecordsOf(k, src))
<1> DEFINE U == UNION {ScanItem(k, src, n) : n \in Native(src)}
           R == RecordsOf(k, src)
<1>1. k \in Personal \cup RepositoryFiles \cup Exports \cup
              {"repo_symbols", "repo_tests", "runtime_evidence", "git_history",
               "github_export", "kindex", "authority_answer"}
  BY KindsAreKnown
<1>2. ASSUME NEW r \in U
      PROVE  \E n \in Native(src) :
               /\ r \in ScanItem(k, src, n) /\ r.native = n /\ ScannedFrom(k, n, r)
               /\ k \in Ordered => ReceiptOf(src[n], r)
  <2>1. PICK n \in Native(src) : r \in ScanItem(k, src, n)
    OBVIOUS
  <2>2. IsItem(src[n])
    BY DEF IsSource
  <2>3. ScannedFrom(k, n, r) /\ (k \in Ordered => ReceiptOf(src[n], r))
    BY <1>1, <2>1, <2>2, ItemScan
  <2>4. r.native = n
    BY <2>3 DEF ScannedFrom
  <2> QED
    BY <2>1, <2>3, <2>4
<1>3. R = U
  BY RecordsAreOfItems
<1>4. OneToAnIdentity(U)
  <2> SUFFICES ASSUME NEW r \in U, NEW s \in U, r.native = s.native, r.at = s.at PROVE r = s
    BY DEF OneToAnIdentity
  <2>1. PICK n \in Native(src) : r \in ScanItem(k, src, n) /\ r.native = n
    BY <1>2
  <2>2. PICK m \in Native(src) : s \in ScanItem(k, src, m) /\ s.native = m
    BY <1>2
  <2>3. IsItem(src[n]) /\ n = m
    BY <2>1, <2>2 DEF IsSource
  <2>4. OneToAnIdentity(ScanItem(k, src, n))
    BY <1>1, <2>3, ItemScan
  <2> QED
    BY <2>1, <2>2, <2>3, <2>4 DEF OneToAnIdentity
<1>5. IsFiniteSet(U)
  <2> DEFINE f == [r \in U |-> <<r.native, r.at>>]
             T == Natives \X BOOLEAN
  <2>1. \A r \in U : r.native \in Natives /\ r.at \in BOOLEAN
    <3> SUFFICES ASSUME NEW r \in U PROVE r.native \in Natives /\ r.at \in BOOLEAN
      OBVIOUS
    <3>1. PICK n \in Native(src) : r.native = n /\ ScannedFrom(k, n, r)
      BY <1>2
    <3> QED
      BY <3>1 DEF ScannedFrom, Native, IsSource
  <2>2. \A r, s \in U : <<r.native, r.at>> = <<s.native, s.at>> => r = s
    BY <1>4 DEF OneToAnIdentity
  <2> HIDE DEF U
  <2>3. f \in Injection(U, T)
    BY <2>1, <2>2 DEF Injection, IsInjective
  <2>4. IsFiniteSet(T)
    <3>1. IsFiniteSet(BOOLEAN)
      <4>1. BOOLEAN = {TRUE} \cup {FALSE}
        OBVIOUS
      <4>2. IsFiniteSet({TRUE}) /\ IsFiniteSet({FALSE})
        BY FS_Singleton
      <4> QED
        BY <4>1, <4>2, FS_Union
    <3> QED
      BY <3>1, NativesAreNumbers, FS_Product
  <2> HIDE DEF f, T
  <2> QED
    BY <2>3, <2>4, FS_Injection
<1> HIDE DEF U, R
<1> QED
  BY <1>2, <1>3, <1>4, <1>5, Zenon DEF AreRecords, R

LEMMA FirstRecordIsOne ==
  ASSUME NEW k, NEW src, IsSource(src), NEW R, AreRecords(k, src, R), NEW todo \in SUBSET R,
         todo # {}
  PROVE  FirstRecord(todo) \in todo
<1> DEFINE f == [r \in todo |-> RecordOrder(r)]
<1>1. \A r \in todo : Numbered(r)
  <2> SUFFICES ASSUME NEW r \in todo PROVE Numbered(r)
    OBVIOUS
  <2>1. r.native \in Native(src) /\ ScannedFrom(k, r.native, r)
    BY DEF AreRecords
  <2> QED
    BY <2>1, NativesAreNumbers DEF Numbered, ScannedFrom, Native, IsSource
<1>2. Ranked(todo, 3, f)
  <2> SUFFICES ASSUME NEW r \in todo PROVE RecordOrder(r) \in Numbers(3)
    BY DEF Ranked
  <2>1. Branch(r) \in Nat /\ r.native \in Nat /\ r.digest \in Nat
    BY <1>1, BranchIsANumber DEF Numbered
  <2> QED
    BY <2>1 DEF Numbers, RecordOrder
<1>3. ASSUME NEW x \in todo, NEW y \in todo, f[x] = f[y] PROVE x = y
  <2>1. x.native = y.native /\ Branch(x) = Branch(y)
    BY <1>3 DEF RecordOrder
  <2>2. x.at = y.at
    BY <1>1, <2>1 DEF Branch, Numbered
  <2> QED
    BY <2>1, <2>2 DEF AreRecords, OneToAnIdentity
<1>4. IsFiniteSet(todo)
  BY FS_Subset DEF AreRecords
<1>5. PICK m \in todo : \A y \in todo \ {m} : Less(f[m], f[y])
  <2> HIDE DEF f
  <2> QED
    BY <1>2, <1>3, <1>4, FirstByRank
<1>6. \A y \in todo \ {m} : Less(RecordOrder(m), RecordOrder(y))
  BY <1>5
<1> QED
  BY <1>6 DEF FirstRecord

\* The elements of a set, one after another.
LEMMA SetIsListed ==
  ASSUME NEW S, IsFiniteSet(S)
  PROVE  /\ SetToSeq(S) \in Seq(S) /\ ToSet(SetToSeq(S)) = S
         /\ \A i, j \in 1..Len(SetToSeq(S)) : SetToSeq(S)[i] = SetToSeq(S)[j] => i = j
<1> DEFINE n == Cardinality(S)
           s == SetToSeq(S)
<1>1. n \in Nat /\ ExistsBijection(1..n, S)
  BY FS_CardinalityType
<1>2. PICK f \in Bijection(1..n, S) : TRUE
  BY <1>1 DEF ExistsBijection
<1>3. f \in [1..n -> S] /\ IsInjective(f)
  BY <1>2 DEF Bijection, Injection
<1>4. s \in [1..n -> S] /\ IsInjective(s)
  BY <1>3 DEF SetToSeq
<1>5. s \in Injection(1..n, S)
  BY <1>4 DEF Injection
<1>6. IsFiniteSet(1..n) /\ Cardinality(1..n) = n
  BY <1>1, FS_Interval
<1> HIDE DEF n, s
<1>7. s \in Surjection(1..n, S)
  BY <1>5, <1>6, FS_Injection DEF n
<1>8. s \in Seq(S) /\ Len(s) = n
  BY <1>1, <1>4
<1>9. ToSet(s) = S
  BY <1>4, <1>7, <1>8 DEF ToSet, Surjection
<1>10. \A i, j \in 1..Len(s) : s[i] = s[j] => i = j
  BY <1>4, <1>8 DEF IsInjective
<1> QED
  BY <1>8, <1>9, <1>10 DEF s

-----------------------------------------------------------------------------
\* A row of the ledger.
IsRow(o) ==
  /\ o = [kind |-> o.kind, native |-> o.native, at |-> o.at, digest |-> o.digest, key |-> o.key,
          life |-> o.life, disp |-> o.disp, origin |-> o.origin, atom |-> o.atom,
          observed |-> o.observed, asserted |-> o.asserted, until |-> o.until,
          cursor |-> o.cursor, signer |-> o.signer, owner |-> o.owner, scope |-> o.scope,
          parents |-> o.parents, attrs |-> o.attrs]
  /\ Numbered(o) /\ Dated(o) /\ o.cursor \in Nat

\* The rows an ingest reads.
IsLedger(L) ==
  /\ IsFiniteSet(L) /\ OneToAnId(L)
  /\ \A o \in L : IsRow(o) /\ o.cursor # 0

\* A sequence, and one whose rows have ids of their own.
Sequenced(s) == \E S : s \in Seq(S)
Apart(s) == \A i, j \in 1..Len(s) : Id(s[i]) = Id(s[j]) => i = j

LEMMA NothingIsApart == Sequenced(<<>>) /\ Apart(<<>>) /\ ToSet(<<>>) = {}
BY DEF Sequenced, Apart, ToSet

LEMMA OneIsApart ==
  ASSUME NEW v PROVE Sequenced(<<v>>) /\ Apart(<<v>>) /\ ToSet(<<v>>) = {v}
<1>1. <<v>> \in Seq({v}) /\ Len(<<v>>) = 1 /\ DOMAIN <<v>> = 1..1 /\ <<v>>[1] = v
  OBVIOUS
<1>2. Sequenced(<<v>>)
  BY <1>1 DEF Sequenced
<1>3. Apart(<<v>>)
  BY <1>1 DEF Apart
<1>4. ToSet(<<v>>) = {v}
  BY <1>1 DEF ToSet
<1> QED
  BY <1>2, <1>3, <1>4

LEMMA JoinedAreApart ==
  ASSUME NEW s, NEW t, Sequenced(s), Sequenced(t), Apart(s), Apart(t),
         \A v \in ToSet(s), w \in ToSet(t) : Id(v) # Id(w)
  PROVE  Sequenced(s \o t) /\ Apart(s \o t) /\ ToSet(s \o t) = ToSet(s) \cup ToSet(t)
<1>1. PICK S : s \in Seq(S)
  BY DEF Sequenced
<1>2. PICK T : t \in Seq(T)
  BY DEF Sequenced
<1>3. s \in Seq(S \cup T) /\ t \in Seq(S \cup T)
  BY <1>1, <1>2
<1>4. s \o t \in Seq(S \cup T)
  BY <1>3
<1>5. /\ Len(s) \in Nat /\ Len(t) \in Nat /\ Len(s \o t) = Len(s) + Len(t)
      /\ DOMAIN s = 1..Len(s) /\ DOMAIN t = 1..Len(t) /\ DOMAIN (s \o t) = 1..(Len(s) + Len(t))
  BY <1>3, <1>4
<1>6. \A i \in 1..Len(s) : (s \o t)[i] = s[i]
  BY <1>3
<1>7. \A i \in (Len(s) + 1)..(Len(s) + Len(t)) : (s \o t)[i] = t[i - Len(s)]
  BY <1>3
<1>8. \A i \in 1..Len(t) : (s \o t)[i + Len(s)] = t[i]
  BY <1>3
<1>9. ToSet(s \o t) = ToSet(s) \cup ToSet(t)
  <2>1. ASSUME NEW v \in ToSet(s \o t) PROVE v \in ToSet(s) \cup ToSet(t)
    <3>1. PICK i \in 1..(Len(s) + Len(t)) : v = (s \o t)[i]
      BY <1>5 DEF ToSet
    <3>2. CASE i <= Len(s)
      BY <1>5, <1>6, <3>1, <3>2 DEF ToSet
    <3>3. CASE i > Len(s)
      <4>1. i - Len(s) \in 1..Len(t) /\ v = t[i - Len(s)]
        BY <1>5, <1>7, <3>1, <3>3
      <4> QED
        BY <1>5, <4>1 DEF ToSet
    <3> QED
      BY <1>5, <3>2, <3>3
  <2>2. ASSUME NEW v \in ToSet(s) PROVE v \in ToSet(s \o t)
    <3>1. PICK i \in 1..Len(s) : v = s[i]
      BY <1>5 DEF ToSet
    <3>2. i \in 1..(Len(s) + Len(t)) /\ v = (s \o t)[i]
      BY <1>5, <1>6, <3>1
    <3> QED
      BY <1>5, <3>2 DEF ToSet
  <2>3. ASSUME NEW v \in ToSet(t) PROVE v \in ToSet(s \o t)
    <3>1. PICK i \in 1..Len(t) : v = t[i]
      BY <1>5 DEF ToSet
    <3>2. i + Len(s) \in 1..(Len(s) + Len(t)) /\ v = (s \o t)[i + Len(s)]
      BY <1>5, <1>8, <3>1
    <3> QED
      BY <1>5, <3>2 DEF ToSet
  <2> QED
    BY <2>1, <2>2, <2>3
<1>10. Apart(s \o t)
  <2> SUFFICES ASSUME NEW i \in 1..(Len(s) + Len(t)), NEW j \in 1..(Len(s) + Len(t)),
                      Id((s \o t)[i]) = Id((s \o t)[j])
               PROVE  i = j
    BY <1>5 DEF Apart
  <2>0. \A x \in 1..Len(s), y \in 1..Len(t) : Id(s[x]) # Id(t[y])
    BY <1>5 DEF ToSet
  <2>1. CASE i <= Len(s) /\ j <= Len(s)
    BY <1>5, <1>6, <2>1 DEF Apart
  <2>2. CASE i > Len(s) /\ j > Len(s)
    <3>1. i - Len(s) \in 1..Len(t) /\ j - Len(s) \in 1..Len(t)
      BY <1>5, <2>2
    <3>2. Id(t[i - Len(s)]) = Id(t[j - Len(s)])
      BY <1>5, <1>7, <2>2
    <3>3. i - Len(s) = j - Len(s)
      BY <3>1, <3>2 DEF Apart
    <3> QED
      BY <1>5, <3>3
  <2>3. CASE i <= Len(s) /\ j > Len(s)
    <3>1. j - Len(s) \in 1..Len(t) /\ i \in 1..Len(s)
      BY <1>5, <2>3
    <3>2. Id(s[i]) = Id(t[j - Len(s)])
      BY <1>5, <1>6, <1>7, <2>3
    <3> QED
      BY <2>0, <3>1, <3>2
  <2>4. CASE i > Len(s) /\ j <= Len(s)
    <3>1. i - Len(s) \in 1..Len(t) /\ j \in 1..Len(s)
      BY <1>5, <2>4
    <3>2. Id(s[j]) = Id(t[i - Len(s)])
      BY <1>5, <1>6, <1>7, <2>4
    <3> QED
      BY <2>0, <3>1, <3>2
  <2> QED
    BY <1>5, <2>1, <2>2, <2>3, <2>4
<1> QED
  BY <1>4, <1>9, <1>10 DEF Sequenced

\* Writes in their turn: the rows of an identity are given up before one is
\* written for it.
GivesUp(v) == v.cursor # 0 /\ ~Stands(v)
InTurn(s) ==
  \A i, j \in 1..Len(s) : i < j /\ Identity(s[i]) = Identity(s[j]) => GivesUp(s[i])

LEMMA NothingIsInTurn == InTurn(<<>>)
BY DEF InTurn

LEMMA OneIsInTurn == ASSUME NEW v PROVE InTurn(<<v>>)
<1>1. Len(<<v>>) = 1
  OBVIOUS
<1> QED
  BY <1>1 DEF InTurn

LEMMA GivenUpAreInTurn ==
  ASSUME NEW s, Sequenced(s), \A v \in ToSet(s) : GivesUp(v)
  PROVE  InTurn(s)
<1>1. PICK S : s \in Seq(S)
  BY DEF Sequenced
<1>2. \A i \in 1..Len(s) : s[i] \in ToSet(s)
  BY <1>1 DEF ToSet
<1> QED
  BY <1>2 DEF InTurn

LEMMA JoinedAreInTurn ==
  ASSUME NEW s, NEW t, Sequenced(s), Sequenced(t), InTurn(s), InTurn(t),
         \A v \in ToSet(s), w \in ToSet(t) : Identity(v) = Identity(w) => GivesUp(v)
  PROVE  InTurn(s \o t)
<1>1. PICK S : s \in Seq(S)
  BY DEF Sequenced
<1>2. PICK T : t \in Seq(T)
  BY DEF Sequenced
<1>3. /\ Len(s) \in Nat /\ Len(t) \in Nat /\ Len(s \o t) = Len(s) + Len(t)
      /\ \A i \in 1..Len(s) : s[i] \in ToSet(s)
      /\ \A i \in 1..Len(t) : t[i] \in ToSet(t)
      /\ \A i \in 1..(Len(s) + Len(t)) :
           (s \o t)[i] = IF i <= Len(s) THEN s[i] ELSE t[i - Len(s)]
  <2>1. s \in Seq(S \cup T) /\ t \in Seq(S \cup T)
    BY <1>1, <1>2
  <2> QED
    BY <2>1, ConcatProperties DEF ToSet
<1> SUFFICES ASSUME NEW i \in 1..Len(s \o t), NEW j \in 1..Len(s \o t), i < j,
                    Identity((s \o t)[i]) = Identity((s \o t)[j])
             PROVE  GivesUp((s \o t)[i])
  BY DEF InTurn
<1>4. CASE j <= Len(s)
  <2>1. i \in 1..Len(s) /\ j \in 1..Len(s) /\ (s \o t)[i] = s[i] /\ (s \o t)[j] = s[j]
    BY <1>3, <1>4
  <2> QED
    BY <2>1 DEF InTurn
<1>5. CASE ~(j <= Len(s)) /\ i <= Len(s)
  <2>1. /\ i \in 1..Len(s) /\ j - Len(s) \in 1..Len(t)
        /\ (s \o t)[i] = s[i] /\ (s \o t)[j] = t[j - Len(s)]
    BY <1>3, <1>5
  <2> QED
    BY <1>3, <2>1
<1>6. CASE ~(i <= Len(s))
  <2>1. /\ i - Len(s) \in 1..Len(t) /\ j - Len(s) \in 1..Len(t) /\ i - Len(s) < j - Len(s)
        /\ (s \o t)[i] = t[i - Len(s)] /\ (s \o t)[j] = t[j - Len(s)]
    BY <1>3, <1>6
  <2> QED
    BY <2>1 DEF InTurn
<1> QED
  BY <1>3, <1>4, <1>5, <1>6

\* What an ingest may write for a record, and for a row no record is for.
LifeOf(r) == IF r.present THEN "observed" ELSE "absent"

Refreshes(v, prior, r, now) == \E o \in prior : Id(o) = Id(r) /\ v = Reobserved(o, r, now)
Inserts(v, prior, r, now) ==
  /\ HeldFor(prior, r) = {}
  /\ \E marks \in SUBSET {"renamed_from"} : v = Row(r, now, LifeOf(r), marks)
Supersedes(v, prior, r) ==
  \E o \in prior : /\ Stands(o) /\ Identity(o) = Identity(r) /\ Id(o) # Id(r)
                   /\ v = Retired(o, "superseded")
Retires(v, prior, present, lives) ==
  \E o \in prior, life \in lives : Identity(o) \notin present /\ v = Retired(o, life)

WrittenFor(v, prior, r, now) ==
  Refreshes(v, prior, r, now) \/ Inserts(v, prior, r, now) \/ Supersedes(v, prior, r)

Answered(ws, prior, r, now) ==
  \/ Skewed(r, now)
  \/ \E o \in prior : Id(o) = Id(r) /\ Reobserved(o, r, now) = o
  \/ \E v \in ToSet(ws) : Refreshes(v, prior, r, now) \/ Inserts(v, prior, r, now)

\* Where a record is new, every standing row of its identity is written.
Cleared(ws, prior, r, now) ==
  ~Skewed(r, now) /\ HeldFor(prior, r) = {} =>
    \A o \in prior : Stands(o) /\ Identity(o) = Identity(r) => \E v \in ToSet(ws) : Id(v) = Id(o)

\* A record the ledger does not hold as it is.
Wanting(prior, r, now) ==
  HeldFor(prior, r) = {} \/ \E o \in prior : Id(o) = Id(r) /\ Reobserved(o, r, now) # o

PlanHolds(prior, present, now, R, p) ==
  /\ p = [writes |-> p.writes, taken |-> p.taken, todo |-> p.todo]
  /\ p.todo \subseteq R /\ Sequenced(p.writes) /\ Apart(p.writes) /\ InTurn(p.writes)
  /\ \A v \in ToSet(p.writes) :
       \/ \E r \in R \ p.todo : WrittenFor(v, prior, r, now)
       \/ /\ Retires(v, prior, present, {"renamed"}) /\ Id(v) \in p.taken
          /\ \E r \in R : r.digest = v.digest
  /\ \A r \in R \ p.todo : Answered(p.writes, prior, r, now) /\ Cleared(p.writes, prior, r, now)
  /\ \A t \in p.taken : \E v \in ToSet(p.writes) : Id(v) = t /\ v.life = "renamed"
  /\ ToSet(p.writes) # {} => \E r \in R : Wanting(prior, r, now)

LEMMA RefreshedKeepsId ==
  ASSUME NEW o, IsRow(o), NEW r, NEW now
  PROVE  /\ Id(Reobserved(o, r, now)) = Id(o)
         /\ Identity(Reobserved(o, r, now)) = Identity(o)
BY DEF IsRow, Reobserved, Id, Identity

LEMMA RetiredKeepsId ==
  ASSUME NEW o, IsRow(o), NEW life
  PROVE  /\ Id(Retired(o, life)) = Id(o) /\ Identity(Retired(o, life)) = Identity(o)
         /\ Retired(o, life).life = life
BY DEF IsRow, Retired, Id, Identity

LEMMA RowHasId ==
  ASSUME NEW r, NEW now, NEW life, NEW marks
  PROVE  Id(Row(r, now, life, marks)) = Id(r) /\ Identity(Row(r, now, life, marks)) = Identity(r)
BY DEF Row, Id, Identity

\* A row given up is one of the ledger's.
LEMMA RetiredGivesUp ==
  ASSUME NEW prior, IsLedger(prior), NEW present, NEW lives, "observed" \notin lives, NEW v,
         Retires(v, prior, present, lives)
  PROVE  GivesUp(v)
<1>1. PICK o \in prior, life \in lives : v = Retired(o, life)
  BY DEF Retires
<1>2. IsRow(o) /\ o.cursor # 0
  BY DEF IsLedger
<1>3. v.cursor = o.cursor /\ v.life = life
  BY <1>1, <1>2 DEF Retired, IsRow
<1> QED
  BY <1>2, <1>3 DEF GivesUp, Stands

LEMMA IdGivesIdentity ==
  ASSUME NEW o, NEW p, Id(o) = Id(p) PROVE Identity(o) = Identity(p)
BY DEF Id, Identity

\* What is written for a record has its identity.
LEMMA WrittenHasIdentity ==
  ASSUME NEW prior, IsLedger(prior), NEW r, NEW now, NEW v, WrittenFor(v, prior, r, now)
  PROVE  Identity(v) = Identity(r)
<1>1. CASE Refreshes(v, prior, r, now)
  BY <1>1, RefreshedKeepsId, IdGivesIdentity DEF Refreshes, IsLedger
<1>2. CASE Inserts(v, prior, r, now)
  BY <1>2, RowHasId DEF Inserts
<1>3. CASE Supersedes(v, prior, r)
  BY <1>3, RetiredKeepsId DEF Supersedes, IsLedger
<1> QED
  BY <1>1, <1>2, <1>3 DEF WrittenFor

LEMMA RetiredIsElsewhere ==
  ASSUME NEW prior, IsLedger(prior), NEW present, NEW lives, NEW v,
         Retires(v, prior, present, lives)
  PROVE  Identity(v) \notin present
BY RetiredKeepsId DEF Retires, IsLedger

\* The plan after one more record.
LEMMA PlanGrows ==
  ASSUME NEW prior, IsLedger(prior), NEW R, OneToAnIdentity(R), NEW present,
         \A r \in R : Identity(r) \in present, NEW now,
         NEW p, PlanHolds(prior, present, now, R, p), NEW r \in p.todo, NEW ws, NEW T,
         Sequenced(ws), Apart(ws), InTurn(ws), T \cap p.taken = {},
         \A v \in ToSet(ws) : \/ WrittenFor(v, prior, r, now)
                              \/ /\ Retires(v, prior, present, {"renamed"}) /\ Id(v) \in T
                                 /\ v.digest = r.digest,
         \A t \in T : \E v \in ToSet(ws) : Id(v) = t /\ v.life = "renamed",
         Answered(ws, prior, r, now), Cleared(ws, prior, r, now),
         ToSet(ws) # {} => Wanting(prior, r, now)
  PROVE  PlanHolds(prior, present, now, R,
                   [writes |-> p.writes \o ws, taken |-> p.taken \cup T, todo |-> p.todo \ {r}])
<1> DEFINE q == [writes |-> p.writes \o ws, taken |-> p.taken \cup T, todo |-> p.todo \ {r}]
<1>1. r \in R /\ R \ q.todo = (R \ p.todo) \cup {r}
  BY DEF PlanHolds
<1>2. ASSUME NEW v \in ToSet(p.writes), NEW w \in ToSet(ws), Id(v) = Id(w) PROVE FALSE
  <2>0. Identity(v) = Identity(w)
    BY <1>2, IdGivesIdentity
  <2>1. CASE WrittenFor(w, prior, r, now)
    <3>1. Identity(w) = Identity(r) /\ Identity(r) \in present
      BY <1>1, <2>1, WrittenHasIdentity
    <3>2. PICK s \in R \ p.todo : WrittenFor(v, prior, s, now)
      BY <2>0, <3>1, RetiredIsElsewhere DEF PlanHolds
    <3>3. Identity(s) = Identity(r)
      BY <2>0, <3>1, <3>2, WrittenHasIdentity
    <3>4. s = r
      BY <1>1, <3>3 DEF OneToAnIdentity, Identity
    <3> QED
      BY <3>2, <3>4
  <2>2. CASE Retires(w, prior, present, {"renamed"}) /\ Id(w) \in T
    <3>1. Identity(w) \notin present
      BY <2>2, RetiredIsElsewhere
    <3>2. Id(v) \notin p.taken
      BY <1>2, <2>2
    <3>3. PICK s \in R \ p.todo : WrittenFor(v, prior, s, now)
      BY <3>2 DEF PlanHolds
    <3>4. Identity(v) = Identity(s)
      BY <3>3, WrittenHasIdentity
    <3> QED
      BY <2>0, <3>1, <3>3, <3>4
  <2> QED
    BY <2>1, <2>2
<1>3. /\ Sequenced(p.writes \o ws) /\ Apart(p.writes \o ws)
      /\ ToSet(p.writes \o ws) = ToSet(p.writes) \cup ToSet(ws)
  BY <1>2, JoinedAreApart DEF PlanHolds
<1>11. InTurn(p.writes \o ws)
  <2>1. ASSUME NEW v \in ToSet(p.writes), NEW w \in ToSet(ws), Identity(v) = Identity(w)
        PROVE  GivesUp(v)
    <3>1. CASE Retires(v, prior, present, {"renamed"})
      BY <3>1, RetiredGivesUp
    <3>2. CASE \E s \in R \ p.todo : WrittenFor(v, prior, s, now)
      <4>1. PICK s \in R \ p.todo : WrittenFor(v, prior, s, now)
        BY <3>2
      <4>2. Identity(v) = Identity(s) /\ Identity(s) \in present
        BY <4>1, WrittenHasIdentity
      <4>3. WrittenFor(w, prior, r, now)
        BY <2>1, <4>2, RetiredIsElsewhere
      <4>6. Identity(w) = Identity(r)
        BY <4>3, WrittenHasIdentity
      <4>4. Identity(s) = Identity(r)
        BY <2>1, <4>2, <4>6
      <4>5. s = r
        BY <1>1, <4>4 DEF OneToAnIdentity, Identity
      <4> QED
        BY <4>1, <4>5
    <3> QED
      BY <3>1, <3>2 DEF PlanHolds
  <2> QED
    BY <2>1, JoinedAreInTurn DEF PlanHolds
<1>4. q.todo \subseteq R
  BY DEF PlanHolds
<1>5. ASSUME NEW v \in ToSet(q.writes)
      PROVE  \/ \E s \in R \ q.todo : WrittenFor(v, prior, s, now)
             \/ /\ Retires(v, prior, present, {"renamed"}) /\ Id(v) \in q.taken
                /\ \E s \in R : s.digest = v.digest
  <2>1. CASE v \in ToSet(p.writes)
    <3>1. \/ \E s \in R \ p.todo : WrittenFor(v, prior, s, now)
          \/ /\ Retires(v, prior, present, {"renamed"}) /\ Id(v) \in p.taken
             /\ \E s \in R : s.digest = v.digest
      BY <2>1 DEF PlanHolds
    <3> QED
      BY <1>1, <3>1
  <2>2. CASE v \in ToSet(ws)
    BY <1>1, <2>2
  <2> QED
    BY <1>3, <2>1, <2>2
<1>6. ASSUME NEW s \in R \ q.todo
      PROVE  Answered(q.writes, prior, s, now) /\ Cleared(q.writes, prior, s, now)
  <2>1. \/ Answered(p.writes, prior, s, now) /\ Cleared(p.writes, prior, s, now)
        \/ Answered(ws, prior, s, now) /\ Cleared(ws, prior, s, now)
    BY <1>1 DEF PlanHolds
  <2>2. ToSet(q.writes) = ToSet(p.writes) \cup ToSet(ws)
    BY <1>3
  <2> HIDE DEF q
  <2> QED
    BY <2>1, <2>2 DEF Answered, Cleared
<1>7. ASSUME NEW t \in q.taken PROVE \E v \in ToSet(q.writes) : Id(v) = t /\ v.life = "renamed"
  <2>1. CASE t \in T
    BY <1>3, <2>1
  <2>2. CASE t \in p.taken
    <3>1. \E v \in ToSet(p.writes) : Id(v) = t /\ v.life = "renamed"
      BY <2>2 DEF PlanHolds
    <3> QED
      BY <1>3, <3>1
  <2> QED
    BY <2>1, <2>2
<1>8. q = [writes |-> q.writes, taken |-> q.taken, todo |-> q.todo]
  OBVIOUS
<1>9. Sequenced(q.writes) /\ Apart(q.writes) /\ InTurn(q.writes)
  BY <1>3, <1>11
<1>10. ToSet(q.writes) # {} => \E s \in R : Wanting(prior, s, now)
  <2>1. CASE ToSet(ws) # {}
    BY <1>1, <2>1
  <2>2. CASE ToSet(p.writes) # {}
    BY <2>2 DEF PlanHolds
  <2> QED
    BY <1>3, <2>1, <2>2
<1> HIDE DEF q
<1> QED
  BY <1>4, <1>5, <1>6, <1>7, <1>8, <1>9, <1>10, Zenon DEF PlanHolds, q

\* Some rows of a ledger, given up.
LEMMA GivenUpAreApart ==
  ASSUME NEW prior, IsLedger(prior), NEW S \in SUBSET prior, NEW life
  PROVE  LET ws == SetToSeq({Retired(o, life) : o \in S})
         IN  Sequenced(ws) /\ Apart(ws) /\ ToSet(ws) = {Retired(o, life) : o \in S}
<1> DEFINE G == {Retired(o, life) : o \in S}
           ws == SetToSeq(G)
<1>1. IsFiniteSet(S)
  BY FS_Subset DEF IsLedger
<1>2. IsFiniteSet(G)
  <2> DEFINE f == [o \in S |-> Retired(o, life)]
  <2>1. f \in Surjection(S, G)
    BY DEF Surjection
  <2> HIDE DEF f, G
  <2> QED
    BY <1>1, <2>1, FS_Surjection
<1>3. /\ ws \in Seq(G) /\ ToSet(ws) = G
      /\ \A i, j \in 1..Len(ws) : ws[i] = ws[j] => i = j
  BY <1>2, SetIsListed
<1>4. \A v, w \in G : Id(v) = Id(w) => v = w
  <2> SUFFICES ASSUME NEW o \in S, NEW p \in S, Id(Retired(o, life)) = Id(Retired(p, life))
               PROVE  Retired(o, life) = Retired(p, life)
    OBVIOUS
  <2>1. Id(o) = Id(p)
    BY RetiredKeepsId DEF IsLedger
  <2> QED
    BY <2>1 DEF IsLedger, OneToAnId
<1> HIDE DEF G, ws
<1>5. \A i \in 1..Len(ws) : ws[i] \in G
  BY <1>3
<1>6. Apart(ws)
  BY <1>3, <1>4, <1>5 DEF Apart
<1> QED
  BY <1>3, <1>6 DEF Sequenced, G, ws

LEMMA RowsOfLedger ==
  ASSUME NEW prior, IsLedger(prior), NEW S \in SUBSET prior
  PROVE  Rows(S)
<1>1. IsFiniteSet(S)
  BY FS_Subset DEF IsLedger
<1> QED
  BY <1>1 DEF Rows, IsLedger, OneToAnId, IsRow

With(p, T, ws) == [p EXCEPT !.taken = @ \cup T, !.writes = @ \o ws]
WithAlone(p, ws) == [p EXCEPT !.writes = @ \o ws]
Without(p, r) == [p EXCEPT !.todo = @ \ {r}]

LEMMA GrownPlan ==
  ASSUME NEW w, NEW k, NEW d, NEW p, p = [writes |-> w, taken |-> k, todo |-> d],
         NEW ws, NEW T, NEW r,
         NEW rw, rw = With(p, T, ws)
  PROVE  Without(rw, r)
           = [writes |-> w \o ws, taken |-> k \cup T, todo |-> d \ {r}]
<1>1. PICK s : s = w \o ws
  OBVIOUS
<1>2. PICK u : u = k \cup T
  OBVIOUS
<1>3. PICK e : e = d \ {r}
  OBVIOUS
<1>4. p.writes = w /\ p.taken = k
  OBVIOUS
<1>5. rw = [p EXCEPT !.taken = u, !.writes = s]
  BY <1>1, <1>2, <1>4 DEF With
<1>6. rw = [writes |-> s, taken |-> u, todo |-> d]
  BY <1>5
<1>7. rw.todo \ {r} = e
  BY <1>3, <1>6
<1>8. PICK q : q = [rw EXCEPT !.todo = e]
  OBVIOUS
<1>9. q = [writes |-> s, taken |-> u, todo |-> e]
  BY <1>6, <1>8
<1> QED
  BY <1>1, <1>2, <1>3, <1>7, <1>8, <1>9 DEF Without

LEMMA GrownPlanAlone ==
  ASSUME NEW w, NEW k, NEW d, NEW p, p = [writes |-> w, taken |-> k, todo |-> d],
         NEW ws, NEW r, NEW rw, rw = WithAlone(p, ws)
  PROVE  Without(rw, r)
           = [writes |-> w \o ws, taken |-> k \cup {}, todo |-> d \ {r}]
<1>1. PICK s : s = w \o ws
  OBVIOUS
<1>2. k \cup {} = k
  OBVIOUS
<1>3. PICK e : e = d \ {r}
  OBVIOUS
<1>4. p.writes = w
  OBVIOUS
<1>5. rw = [p EXCEPT !.writes = s]
  BY <1>1, <1>4 DEF WithAlone
<1>6. rw = [writes |-> s, taken |-> k, todo |-> d]
  BY <1>5
<1>7. rw.todo \ {r} = e
  BY <1>3, <1>6
<1>8. PICK q : q = [rw EXCEPT !.todo = e]
  OBVIOUS
<1>9. q = [writes |-> s, taken |-> k, todo |-> e]
  BY <1>6, <1>8
<1> QED
  BY <1>1, <1>2, <1>3, <1>7, <1>8, <1>9 DEF Without

LEMMA TwoAreJoined ==
  ASSUME NEW a, NEW b PROVE <<a, b>> = <<a>> \o <<b>>
<1>1. PICK S : S = {a, b}
  OBVIOUS
<1>2. PICK s, t, u : s = <<a>> /\ t = <<b>> /\ u = <<a, b>>
  OBVIOUS
<1>3. s \in Seq(S) /\ t \in Seq(S) /\ u \in Seq(S)
  BY <1>1, <1>2
<1>4. Len(s) = 1 /\ s[1] = a /\ Len(t) = 1 /\ t[1] = b /\ Len(u) = 2 /\ u[1] = a /\ u[2] = b
  BY <1>2
<1>5. PICK v : v = s \o t
  OBVIOUS
<1>6. v \in Seq(S) /\ Len(v) = Len(s) + Len(t)
  BY <1>3, <1>5, ConcatProperties
<1>7. Len(v) = 2
  BY <1>4, <1>6
<1>8. v[1] = a /\ v[2] = b
  <2>1. \A i \in 1..Len(s) + Len(t) : v[i] = IF i <= Len(s) THEN s[i] ELSE t[i - Len(s)]
    BY <1>3, <1>5, ConcatProperties
  <2>2. 1 \in 1..2 /\ 2 \in 1..2 /\ 2 - 1 = 1
    OBVIOUS
  <2>3. \A i \in 1..2 : v[i] = IF i <= 1 THEN s[i] ELSE t[i - 1]
    BY <1>4, <2>1
  <2> QED
    BY <1>4, <2>2, <2>3
<1>9. \A i \in 1..2 : u[i] = v[i]
  BY <1>4, <1>8
<1>10. u = v
  BY <1>3, <1>4, <1>6, <1>7, <1>9, SeqEqual
<1> QED
  BY <1>2, <1>5, <1>10

\* One record is reconciled.
LEMMA RecordIsReconciled ==
  ASSUME NEW prior, IsLedger(prior), NEW R, OneToAnIdentity(R), NEW present,
         \A r \in R : Identity(r) \in present, NEW now,
         NEW p, PlanHolds(prior, present, now, R, p), NEW r \in p.todo, r.present \in BOOLEAN
  PROVE  PlanHolds(prior, present, now, R,
                   [RecordWrites(prior, present, now, p, r) EXCEPT !.todo = @ \ {r}])
<1> DEFINE q == [RecordWrites(prior, present, now, p, r) EXCEPT !.todo = @ \ {r}]
           held == HeldFor(prior, r)
           same == {o \in prior : Identity(o) = Identity(r)}
           renamed == RenamedFrom(prior, present, p.taken, r)
           old == LastObserved(renamed)
           Grown(ws, T) == [writes |-> p.writes \o ws, taken |-> p.taken \cup T,
                            todo |-> p.todo \ {r}]
<1>0. /\ p = [writes |-> p.writes, taken |-> p.taken, todo |-> p.todo]
      /\ p.writes \o <<>> = p.writes /\ p.taken \cup {} = p.taken
  <2>1. PICK S : p.writes \in Seq(S)
    BY DEF PlanHolds, Sequenced
  <2> QED
    BY <2>1 DEF PlanHolds
<1>9. HeldFor(prior, r) = {} => Wanting(prior, r, now)
  BY DEF Wanting
<1>1. CASE Skewed(r, now)
  <2>1. q = Grown(<<>>, {})
    <3>1. RecordWrites(prior, present, now, p, r) = p
      BY <1>1 DEF RecordWrites
    <3> QED
      BY <1>0, <3>1
  <2>2. Answered(<<>>, prior, r, now) /\ Cleared(<<>>, prior, r, now)
    BY <1>1 DEF Answered, Cleared
  <2>3. PlanHolds(prior, present, now, R, Grown(<<>>, {}))
    BY <2>2, NothingIsApart, NothingIsInTurn, PlanGrows
  <2> QED
    BY <2>1, <2>3
<1>2. CASE ~Skewed(r, now) /\ held # {}
  <2> DEFINE o == CHOOSE x \in held : TRUE
             ws == IF Reobserved(o, r, now) = o THEN <<>> ELSE <<Reobserved(o, r, now)>>
  <2>1. o \in prior /\ Id(o) = Id(r)
    BY <1>2 DEF HeldFor
  <2>2. q = Grown(ws, {})
    <3>1. RecordWrites(prior, present, now, p, r) = [p EXCEPT !.writes = @ \o ws]
      BY <1>0, <1>2 DEF RecordWrites
    <3> HIDE DEF ws
    <3>2. PICK rw : rw = RecordWrites(prior, present, now, p, r)
      OBVIOUS
    <3>3. rw = WithAlone(p, ws)
      BY <3>1, <3>2 DEF WithAlone
    <3>4. Without(rw, r) = Grown(ws, {})
      BY <1>0, <3>3, GrownPlanAlone
    <3> QED
      BY <3>2, <3>4 DEF Without
  <2>3. Sequenced(ws) /\ Apart(ws) /\ InTurn(ws)
    BY NothingIsApart, OneIsApart, NothingIsInTurn, OneIsInTurn
  <2>4. \A v \in ToSet(ws) : v = Reobserved(o, r, now)
    BY NothingIsApart, OneIsApart
  <2>5. Answered(ws, prior, r, now)
    <3>1. CASE Reobserved(o, r, now) = o
      BY <2>1, <3>1 DEF Answered
    <3>2. CASE Reobserved(o, r, now) # o
      <4>1. ToSet(ws) = {Reobserved(o, r, now)}
        BY <3>2, OneIsApart
      <4> HIDE DEF o, ws
      <4> QED
        BY <2>1, <4>1 DEF Answered, Refreshes
    <3> QED
      BY <3>1, <3>2
  <2> HIDE DEF ws, o
  <2>6. \A v \in ToSet(ws) : WrittenFor(v, prior, r, now)
    BY <2>1, <2>4 DEF WrittenFor, Refreshes
  <2>8. ToSet(ws) # {} => Wanting(prior, r, now)
    <3>1. ToSet(ws) # {} => Reobserved(o, r, now) # o
      BY NothingIsApart DEF ws
    <3> QED
      BY <2>1, <3>1 DEF Wanting
  <2>9. Cleared(ws, prior, r, now)
    BY <1>2 DEF Cleared
  <2>7. PlanHolds(prior, present, now, R, Grown(ws, {}))
    BY <2>3, <2>5, <2>6, <2>8, <2>9, PlanGrows
  <2> QED
    BY <2>2, <2>7
<1>3. CASE ~Skewed(r, now) /\ held = {} /\ same # {}
  <2> DEFINE gone == SetToSeq({Retired(o, "superseded") : o \in StandingIn(same)})
             row == Row(r, now, LifeOf(r), {})
             ws == gone \o <<row>>
  <2>1. q = Grown(ws, {})
    <3>1. RecordWrites(prior, present, now, p, r) = [p EXCEPT !.writes = @ \o ws]
      BY <1>3 DEF RecordWrites, LifeOf
    <3> HIDE DEF ws
    <3>2. PICK rw : rw = RecordWrites(prior, present, now, p, r)
      OBVIOUS
    <3>3. rw = WithAlone(p, ws)
      BY <3>1, <3>2 DEF WithAlone
    <3>4. Without(rw, r) = Grown(ws, {})
      BY <1>0, <3>3, GrownPlanAlone
    <3> QED
      BY <3>2, <3>4 DEF Without
  <2>2. StandingIn(same) \in SUBSET prior
    BY DEF StandingIn
  <2>3. /\ Sequenced(gone) /\ Apart(gone)
        /\ ToSet(gone) = {Retired(o, "superseded") : o \in StandingIn(same)}
    <3> HIDE DEF same
    <3> QED
      BY <2>2, GivenUpAreApart
  <2>4. ASSUME NEW v \in ToSet(gone)
        PROVE  Supersedes(v, prior, r) /\ Id(v) # Id(r) /\ GivesUp(v)
    <3>1. PICK o \in StandingIn(same) : v = Retired(o, "superseded")
      BY <2>3
    <3>2. o \in prior /\ Stands(o) /\ Identity(o) = Identity(r)
      BY <3>1 DEF StandingIn
    <3>3. Id(o) # Id(r)
      BY <1>3, <3>2 DEF HeldFor
    <3>4. Id(v) = Id(o)
      BY <3>1, <3>2, RetiredKeepsId DEF IsLedger
    <3>5. IsRow(o) /\ o.cursor # 0
      BY <3>2 DEF IsLedger
    <3>6. v.cursor = o.cursor /\ v.life = "superseded"
      BY <3>1, <3>5 DEF Retired, IsRow
    <3> QED
      BY <3>1, <3>2, <3>3, <3>4, <3>5, <3>6 DEF Supersedes, GivesUp, Stands
  <2>5. Inserts(row, prior, r, now) /\ Id(row) = Id(r)
    BY <1>3, RowHasId DEF Inserts
  <2>12. \A o \in prior : Stands(o) /\ Identity(o) = Identity(r) => \E v \in ToSet(gone) : Id(v) = Id(o)
    <3> SUFFICES ASSUME NEW o \in prior, Stands(o), Identity(o) = Identity(r)
                 PROVE  \E v \in ToSet(gone) : Id(v) = Id(o)
      OBVIOUS
    <3>1. Retired(o, "superseded") \in ToSet(gone)
      BY <2>3 DEF StandingIn
    <3>2. Id(Retired(o, "superseded")) = Id(o)
      BY RetiredKeepsId DEF IsLedger
    <3> QED
      BY <3>1, <3>2
  <2> HIDE DEF gone, row
  <2>6. /\ Sequenced(<<row>>) /\ Apart(<<row>>) /\ ToSet(<<row>>) = {row}
    BY OneIsApart
  <2>7. \A v \in ToSet(gone), w \in ToSet(<<row>>) : Id(v) # Id(w)
    BY <2>4, <2>5, <2>6
  <2>8. Sequenced(ws) /\ Apart(ws) /\ ToSet(ws) = ToSet(gone) \cup {row}
    BY <2>3, <2>6, <2>7, JoinedAreApart
  <2>13. InTurn(ws)
    <3>1. InTurn(gone) /\ InTurn(<<row>>)
      BY <2>3, <2>4, GivenUpAreInTurn, OneIsInTurn
    <3> QED
      BY <2>3, <2>4, <2>6, <3>1, JoinedAreInTurn
  <2> HIDE DEF ws
  <2>14. Cleared(ws, prior, r, now)
    BY <2>8, <2>12 DEF Cleared
  <2>9. \A v \in ToSet(ws) : WrittenFor(v, prior, r, now)
    BY <2>4, <2>5, <2>8 DEF WrittenFor
  <2>10. Answered(ws, prior, r, now)
    BY <2>5, <2>8 DEF Answered
  <2>11. PlanHolds(prior, present, now, R, Grown(ws, {}))
    BY <1>3, <1>9, <2>8, <2>9, <2>10, <2>13, <2>14, PlanGrows
  <2> QED
    BY <2>1, <2>11
<1>4. CASE ~Skewed(r, now) /\ held = {} /\ same = {} /\ renamed # {}
  <2> DEFINE left == Retired(old, "renamed")
             row == Row(r, now, LifeOf(r), {"renamed_from"})
             ws == <<left, row>>
  <2>1. q = Grown(ws, {Id(old)})
    <3>1. RecordWrites(prior, present, now, p, r)
            = [p EXCEPT !.taken = @ \cup {Id(old)}, !.writes = @ \o ws]
      BY <1>4 DEF RecordWrites, LifeOf
    <3> HIDE DEF ws, old
    <3>2. PICK rw : rw = RecordWrites(prior, present, now, p, r)
      OBVIOUS
    <3>3. PICK T : T = {Id(old)}
      OBVIOUS
    <3>4. rw = With(p, T, ws)
      BY <3>1, <3>2, <3>3 DEF With
    <3>5. Without(rw, r) = Grown(ws, T)
      BY <1>0, <3>4, GrownPlan
    <3> QED
      BY <3>2, <3>3, <3>5 DEF Without
  <2>2. renamed \in SUBSET prior
    BY DEF RenamedFrom
  <2>3. old \in renamed
    <3>1. Rows(renamed)
      BY <2>2, RowsOfLedger
    <3> HIDE DEF renamed
    <3> QED
      BY <1>4, <3>1, LastObservedIsOne
  <2>4. /\ old \in prior /\ Identity(old) \notin present /\ Id(old) \notin p.taken
        /\ old.digest = r.digest
    BY <2>3 DEF RenamedFrom
  <2> HIDE DEF old
  <2>5. /\ Id(left) = Id(old) /\ Identity(left) = Identity(old) /\ left.life = "renamed"
        /\ left.digest = r.digest
    <3>1. Id(left) = Id(old) /\ Identity(left) = Identity(old) /\ left.life = "renamed"
      BY <2>4, RetiredKeepsId DEF IsLedger
    <3> HIDE DEF left
    <3> QED
      BY <2>4, <3>1 DEF Id
  <2>6. Id(row) = Id(r) /\ Identity(row) = Identity(r)
    BY RowHasId
  <2>7. Retires(left, prior, present, {"renamed"})
    BY <2>4 DEF Retires
  <2>8. Inserts(row, prior, r, now)
    BY <1>4 DEF Inserts
  <2> HIDE DEF left, row
  <2>9. /\ Sequenced(<<left>>) /\ Apart(<<left>>) /\ ToSet(<<left>>) = {left}
        /\ Sequenced(<<row>>) /\ Apart(<<row>>) /\ ToSet(<<row>>) = {row}
    BY OneIsApart
  <2>10. Id(left) # Id(row)
    <3>1. Identity(row) \in present
      BY <2>6 DEF PlanHolds
    <3> QED
      BY <2>4, <2>5, <3>1, IdGivesIdentity
  <2>11. ws = <<left>> \o <<row>>
    BY TwoAreJoined
  <2>12. \A v \in ToSet(<<left>>), w \in ToSet(<<row>>) : Id(v) # Id(w)
    BY <2>9, <2>10
  <2>13. Sequenced(ws) /\ Apart(ws) /\ ToSet(ws) = {left, row}
    <3>1. /\ Sequenced(<<left>> \o <<row>>) /\ Apart(<<left>> \o <<row>>)
          /\ ToSet(<<left>> \o <<row>>) = ToSet(<<left>>) \cup ToSet(<<row>>)
      BY <2>9, <2>12, JoinedAreApart
    <3> HIDE DEF ws
    <3> QED
      BY <2>9, <2>11, <3>1
  <2>19. InTurn(ws)
    <3>1. InTurn(<<left>>) /\ InTurn(<<row>>)
      BY OneIsInTurn
    <3>2. GivesUp(left)
      BY <2>7, RetiredGivesUp
    <3>3. InTurn(<<left>> \o <<row>>)
      BY <2>9, <3>1, <3>2, JoinedAreInTurn
    <3> HIDE DEF ws
    <3> QED
      BY <2>11, <3>3
  <2>20. Cleared(ws, prior, r, now)
    BY <1>4 DEF Cleared
  <2> HIDE DEF ws
  <2>14. \A v \in ToSet(ws) : \/ WrittenFor(v, prior, r, now)
                              \/ /\ Retires(v, prior, present, {"renamed"})
                                 /\ Id(v) \in {Id(old)} /\ v.digest = r.digest
    BY <2>5, <2>7, <2>8, <2>13 DEF WrittenFor
  <2>15. \A t \in {Id(old)} : \E v \in ToSet(ws) : Id(v) = t /\ v.life = "renamed"
    BY <2>5, <2>13
  <2>16. Answered(ws, prior, r, now)
    BY <2>8, <2>13 DEF Answered
  <2>17. {Id(old)} \cap p.taken = {}
    BY <2>4
  <2>18. PlanHolds(prior, present, now, R, Grown(ws, {Id(old)}))
    BY <1>4, <1>9, <2>13, <2>14, <2>15, <2>16, <2>17, <2>19, <2>20, PlanGrows
  <2> QED
    BY <2>1, <2>18
<1>5. CASE ~Skewed(r, now) /\ held = {} /\ same = {} /\ renamed = {}
  <2> DEFINE row == Row(r, now, LifeOf(r), {})
             ws == <<row>>
  <2>1. q = Grown(ws, {})
    <3>1. RecordWrites(prior, present, now, p, r) = [p EXCEPT !.writes = @ \o ws]
      BY <1>5 DEF RecordWrites, LifeOf
    <3> HIDE DEF ws
    <3>2. PICK rw : rw = RecordWrites(prior, present, now, p, r)
      OBVIOUS
    <3>3. rw = WithAlone(p, ws)
      BY <3>1, <3>2 DEF WithAlone
    <3>4. Without(rw, r) = Grown(ws, {})
      BY <1>0, <3>3, GrownPlanAlone
    <3> QED
      BY <3>2, <3>4 DEF Without
  <2>2. Inserts(row, prior, r, now)
    BY <1>5 DEF Inserts
  <2> HIDE DEF row
  <2>3. Sequenced(ws) /\ Apart(ws) /\ ToSet(ws) = {row} /\ InTurn(ws)
    BY OneIsApart, OneIsInTurn
  <2>7. Cleared(ws, prior, r, now)
    BY <1>5 DEF Cleared
  <2> HIDE DEF ws
  <2>4. \A v \in ToSet(ws) : WrittenFor(v, prior, r, now)
    BY <2>2, <2>3 DEF WrittenFor
  <2>5. Answered(ws, prior, r, now)
    BY <2>2, <2>3 DEF Answered
  <2>6. PlanHolds(prior, present, now, R, Grown(ws, {}))
    BY <1>5, <1>9, <2>3, <2>4, <2>5, <2>7, PlanGrows
  <2> QED
    BY <2>1, <2>6
<1> QED
  BY <1>1, <1>2, <1>3, <1>4, <1>5

\* What is reconciled is no longer to do.
LEMMA TodoIsLess ==
  ASSUME NEW prior, NEW R, NEW present, NEW now, NEW p, PlanHolds(prior, present, now, R, p), NEW r
  PROVE  Without(RecordWrites(prior, present, now, p, r), r).todo = p.todo \ {r}
<1> DEFINE rw == RecordWrites(prior, present, now, p, r)
<1>1. p = [writes |-> p.writes, taken |-> p.taken, todo |-> p.todo]
  BY DEF PlanHolds
<1>2. \/ rw = p \/ \E ws : rw = [p EXCEPT !.writes = @ \o ws]
      \/ \E T, ws : rw = [p EXCEPT !.taken = @ \cup T, !.writes = @ \o ws]
  BY DEF RecordWrites
<1> HIDE DEF rw
<1>3. rw.todo = p.todo /\ "todo" \in DOMAIN rw
  <2>1. ASSUME NEW ws, rw = [p EXCEPT !.writes = @ \o ws]
        PROVE  rw.todo = p.todo /\ "todo" \in DOMAIN rw
    BY <1>1, <2>1
  <2>2. ASSUME NEW T, NEW ws, rw = [p EXCEPT !.taken = @ \cup T, !.writes = @ \o ws]
        PROVE  rw.todo = p.todo /\ "todo" \in DOMAIN rw
    BY <1>1, <2>2
  <2>3. "todo" \in DOMAIN p
    BY <1>1
  <2> QED
    BY <1>2, <2>1, <2>2, <2>3
<1> QED
  BY <1>3 DEF Without, rw

\* All the records of a scan are reconciled.
LEMMA PlanIsMade ==
  ASSUME NEW prior, IsLedger(prior), NEW k, NEW src, IsSource(src), NEW R, AreRecords(k, src, R),
         NEW present, \A r \in R : Identity(r) \in present, NEW now
  PROVE  /\ PlanHolds(prior, present, now, R, PlanFor(prior, present, now, R))
         /\ PlanFor(prior, present, now, R).todo = {}
<1> DEFINE N == Cardinality(R)
           Opening == [writes |-> <<>>, taken |-> {}, todo |-> R]
           After(p) == LET r == FirstRecord(p.todo)
                       IN  [RecordWrites(prior, present, now, p, r) EXCEPT !.todo = @ \ {r}]
           Goes(g, n) == g = [i \in 0..n |-> IF i = 0 THEN Opening ELSE After(g[i - 1])]
           f == CHOOSE g : Goes(g, N)
<1>1. N \in Nat
  BY FS_CardinalityType DEF AreRecords
<1>2. PlanFor(prior, present, now, R) = f[N]
  BY DEF PlanFor
<1> HIDE DEF Opening, After, N
<1>3. \A n \in Nat : \E g : Goes(g, n)
  <2> DEFINE Bad == {n \in Nat : ~ \E g : Goes(g, n)}
  <2> SUFFICES ASSUME Bad # {} PROVE FALSE
    OBVIOUS
  <2>1. PICK n \in Bad : \A m \in Bad : n <= m
    <3>1. Bad \in SUBSET Nat
      OBVIOUS
    <3> HIDE DEF Bad
    <3> QED
      BY <3>1, SmallestNumber
  <2>2. CASE n = 0
    <3>1. PICK g : g = [i \in 0..0 |-> Opening]
      OBVIOUS
    <3>2. g = [i \in 0..0 |-> IF i = 0 THEN Opening ELSE After(g[i - 1])]
      BY <3>1
    <3> QED
      BY <2>1, <2>2, <3>2
  <2>3. CASE n # 0
    <3>1. n - 1 \in Nat /\ ~(n <= n - 1)
      BY <2>1, <2>3
    <3>2. PICK g : Goes(g, n - 1)
      <4>1. n - 1 \notin Bad
        <5> HIDE DEF Bad
        <5> QED
          BY <2>1, <3>1
      <4> HIDE DEF Goes
      <4> QED
        BY <3>1, <4>1
    <3>3. PICK h : h = [i \in 0..n |-> IF i = n THEN After(g[n - 1]) ELSE g[i]]
      OBVIOUS
    <3>4. \A i \in 0..(n - 1) : h[i] = g[i]
      BY <2>1, <3>3
    <3>5. ASSUME NEW i \in 0..n
          PROVE  h[i] = IF i = 0 THEN Opening ELSE After(h[i - 1])
      <4>1. CASE i = n
        <5>1. h[i] = After(g[n - 1]) /\ h[n - 1] = g[n - 1]
          BY <2>1, <2>3, <3>3, <3>4, <4>1
        <5> QED
          BY <2>3, <4>1, <5>1
      <4>2. CASE i # n
        <5>1. i \in 0..(n - 1) /\ h[i] = g[i]
          BY <2>1, <3>4, <4>2
        <5>2. g[i] = IF i = 0 THEN Opening ELSE After(g[i - 1])
          BY <3>2, <5>1
        <5>3. i # 0 => h[i - 1] = g[i - 1]
          BY <2>1, <3>4, <5>1
        <5> QED
          BY <5>1, <5>2, <5>3
      <4> QED
        BY <4>1, <4>2
    <3>6. h = [i \in 0..n |-> IF i = 0 THEN Opening ELSE After(h[i - 1])]
      BY <3>3, <3>5
    <3> QED
      BY <2>1, <3>6
  <2> QED
    BY <2>2, <2>3
<1>4. Goes(f, N)
  BY <1>1, <1>3
<1> HIDE DEF f
<1>5. f[0] = Opening /\ \A i \in 0..N : i # 0 => f[i] = After(f[i - 1])
  BY <1>1, <1>4
<1> HIDE DEF Goes
<1> DEFINE Holds(i) == /\ PlanHolds(prior, present, now, R, f[i])
                       /\ IsFiniteSet(f[i].todo) /\ Cardinality(f[i].todo) = N - i
<1>6. PlanHolds(prior, present, now, R, Opening) /\ Opening.todo = R
  <2>1. /\ Opening = [writes |-> <<>>, taken |-> {}, todo |-> R]
        /\ Opening.writes = <<>> /\ Opening.taken = {} /\ Opening.todo = R
    BY DEF Opening
  <2> QED
    BY <2>1, NothingIsApart, NothingIsInTurn DEF PlanHolds
<1>7. Holds(0)
  BY <1>1, <1>5, <1>6 DEF AreRecords, N
<1>8. ASSUME NEW i \in 1..N, Holds(i - 1) PROVE Holds(i)
  <2> DEFINE p == f[i - 1]
             r == FirstRecord(p.todo)
  <2>1. p.todo # {} /\ p.todo \in SUBSET R
    <3>1. Cardinality(p.todo) # 0
      BY <1>1, <1>8
    <3> QED
      BY <1>8, <3>1, FS_EmptySet DEF PlanHolds
  <2> HIDE DEF p
  <2>2. r \in p.todo
    BY <2>1, FirstRecordIsOne
  <2> HIDE DEF r
  <2>3. r.present \in BOOLEAN
    BY <2>1, <2>2 DEF AreRecords, ScannedFrom
  <2>4. OneToAnIdentity(R) /\ PlanHolds(prior, present, now, R, p)
    BY <1>8 DEF AreRecords, p
  <2>5. f[i] = Without(RecordWrites(prior, present, now, p, r), r)
    BY <1>1, <1>5 DEF After, p, r, Without
  <2>6. PlanHolds(prior, present, now, R, f[i])
    BY <2>2, <2>3, <2>4, <2>5, RecordIsReconciled DEF Without
  <2>7. f[i].todo = p.todo \ {r}
    BY <2>2, <2>4, <2>5, TodoIsLess
  <2>8. IsFiniteSet(f[i].todo) /\ Cardinality(f[i].todo) = Cardinality(p.todo) - 1
    BY <1>8, <2>2, <2>7, FS_RemoveElement, ZenonT(60) DEF p
  <2>9. Cardinality(f[i].todo) = N - i
    BY <1>1, <1>8, <2>8 DEF p
  <2> QED
    BY <2>6, <2>8, <2>9
<1>9. \A i \in 0..N : Holds(i)
  <2> DEFINE Bad == {i \in 0..N : ~Holds(i)}
  <2> SUFFICES ASSUME Bad # {} PROVE FALSE
    OBVIOUS
  <2> HIDE DEF Holds
  <2>1. PICK i \in Bad : \A j \in Bad : i <= j
    <3>1. Bad \in SUBSET Nat
      BY <1>1
    <3> HIDE DEF Bad
    <3> QED
      BY <3>1, SmallestNumber
  <2>2. i \in 1..N /\ i - 1 \in 0..N /\ i - 1 \notin Bad
    BY <1>1, <1>7, <2>1
  <2> QED
    BY <1>8, <2>1, <2>2
<1>10. PlanHolds(prior, present, now, R, f[N]) /\ IsFiniteSet(f[N].todo)
       /\ Cardinality(f[N].todo) = 0
  BY <1>1, <1>9
<1> QED
  BY <1>2, <1>10, FS_EmptySet

-----------------------------------------------------------------------------
\* What an ingest does to the rows it read.
PresentIn(k, src) == {Identity(r) : r \in RecordsOf(k, src)}

StillElsewhere(k, src, rows, o) ==
  \E e \in PresentElsewhere(k, src) :
    e[1] = o.native /\ \A p \in rows : Identity(p) = Identity(o) => p.origin = e[2]

Lost(k, src, rows, o) ==
  Stands(o) /\ Identity(o) \notin PresentIn(k, src) /\ ~StillElsewhere(k, src, rows, o)

Reconciles(k, src, prior, now, w) ==
  /\ Sequenced(w) /\ Apart(w) /\ InTurn(w)
  /\ \A v \in ToSet(w) :
       \/ \E r \in RecordsOf(k, src) : WrittenFor(v, prior, r, now)
       \/ /\ Retires(v, prior, PresentIn(k, src), {"renamed", "retracted", "absent"})
          /\ v.life = "renamed" => \E r \in RecordsOf(k, src) : r.digest = v.digest
  /\ \A r \in RecordsOf(k, src) : Answered(w, prior, r, now) /\ Cleared(w, prior, r, now)
  /\ \A o \in prior : Lost(k, src, prior, o) => \E v \in ToSet(w) : Id(v) = Id(o)
  /\ ToSet(w) # {} => \/ \E r \in RecordsOf(k, src) : Wanting(prior, r, now)
                      \/ \E o \in prior : Lost(k, src, prior, o)

LEMMA IngestReconciles ==
  ASSUME NEW k \in Kinds, NEW src, IsSource(src), NEW prior, IsLedger(prior), NEW now,
         NEW available \in BOOLEAN, NEW unitPresent \in BOOLEAN,
         available \/ Native(src) = {}
  PROVE  Reconciles(k, src, prior, now,
                    Reconciled(k, src, prior, now, available, unitPresent))
<1> DEFINE R == RecordsOf(k, src)
           present == PresentIn(k, src)
           plan == PlanFor(prior, present, now, R)
           gone == Vanished(prior, present, PresentElsewhere(k, src), plan.taken)
           life == IF available /\ unitPresent THEN "retracted" ELSE "absent"
           last == SetToSeq({Retired(o, life) : o \in gone})
           w == plan.writes \o last
<1>1. AreRecords(k, src, R)
  BY RecordsAreScanned
<1>2. ~available => R = {} /\ PresentElsewhere(k, src) = {}
  <2>1. Native(src) = {} => R = {}
    BY <1>1 DEF AreRecords
  <2>2. Native(src) = {} => PresentElsewhere(k, src) = {}
    BY DEF PresentElsewhere
  <2> QED
    BY <2>1, <2>2
<1>3. Reconciled(k, src, prior, now, available, unitPresent) = w
  <2>1. (IF available THEN R ELSE {}) = R
    BY <1>2
  <2>2. (IF available THEN PresentElsewhere(k, src) ELSE {}) = PresentElsewhere(k, src)
    BY <1>2
  <2> QED
    BY <2>1, <2>2, Zenon DEF Reconciled, PresentIn
<1>4. PlanHolds(prior, present, now, R, plan) /\ plan.todo = {}
  <2>1. \A r \in R : Identity(r) \in present
    BY DEF PresentIn
  <2> HIDE DEF R, present
  <2> QED
    BY <1>1, <2>1, PlanIsMade
<1>5. gone \in SUBSET prior
  BY DEF Vanished
<1>6. Sequenced(last) /\ Apart(last) /\ ToSet(last) = {Retired(o, life) : o \in gone}
  <2> HIDE DEF gone, life
  <2> QED
    BY <1>5, GivenUpAreApart, ZenonT(60)
<1>7. \A o \in gone : /\ o \in prior /\ Lost(k, src, prior, o) /\ Id(o) \notin plan.taken
                      /\ Identity(o) \notin present
  BY DEF Vanished, Lost, StillElsewhere
<1>8. \A o \in prior : Lost(k, src, prior, o) /\ Id(o) \notin plan.taken => o \in gone
  BY DEF Vanished, Lost, StillElsewhere
<1>9. life \in {"renamed", "retracted", "absent"}
  OBVIOUS
<1> HIDE DEF R, plan, gone, last, life
<1>10. ASSUME NEW v \in ToSet(plan.writes)
       PROVE  \/ \E r \in R : WrittenFor(v, prior, r, now)
              \/ /\ Retires(v, prior, present, {"renamed"}) /\ Id(v) \in plan.taken
                 /\ \E r \in R : r.digest = v.digest
  BY <1>4 DEF PlanHolds
<1>11. ASSUME NEW v \in ToSet(last)
       PROVE  \E o \in gone : v = Retired(o, life) /\ Id(v) = Id(o) /\ Identity(v) = Identity(o)
  <2>1. PICK o \in gone : v = Retired(o, life)
    BY <1>6
  <2> QED
    BY <1>7, <2>1, RetiredKeepsId DEF IsLedger
<1>12. ASSUME NEW v \in ToSet(plan.writes), NEW x \in ToSet(last), Id(v) = Id(x) PROVE FALSE
  <2>1. PICK o \in gone : Id(x) = Id(o) /\ Identity(x) = Identity(o)
    BY <1>11
  <2>2. Id(v) \notin plan.taken /\ Identity(v) \notin present
    BY <1>7, <1>12, <2>1, IdGivesIdentity
  <2>3. PICK r \in R : WrittenFor(v, prior, r, now)
    BY <1>10, <2>2
  <2>4. Identity(v) = Identity(r)
    BY <2>3, WrittenHasIdentity
  <2> QED
    BY <2>2, <2>3, <2>4 DEF PresentIn, R
<1>13. Sequenced(w) /\ Apart(w) /\ ToSet(w) = ToSet(plan.writes) \cup ToSet(last)
  <2>1. Sequenced(plan.writes) /\ Apart(plan.writes)
    BY <1>4 DEF PlanHolds
  <2> QED
    BY <1>6, <1>12, <2>1, JoinedAreApart
<1>18. InTurn(w)
  <2>1. ASSUME NEW x \in ToSet(last) PROVE GivesUp(x) /\ Identity(x) \notin present
    <3>1. PICK o \in gone : x = Retired(o, life) /\ Identity(x) = Identity(o)
      BY <1>11
    <3>2. Retires(x, prior, present, {"retracted", "absent"})
      BY <1>7, <3>1 DEF Retires, life
    <3> QED
      BY <1>7, <3>1, <3>2, RetiredGivesUp
  <2>2. ASSUME NEW v \in ToSet(plan.writes), NEW x \in ToSet(last), Identity(v) = Identity(x)
        PROVE  GivesUp(v)
    <3>1. Identity(v) \notin present
      BY <2>1, <2>2
    <3>2. ASSUME NEW r \in R, WrittenFor(v, prior, r, now) PROVE FALSE
      <4>1. Identity(v) = Identity(r)
        BY <3>2, WrittenHasIdentity
      <4> QED
        BY <3>1, <4>1 DEF PresentIn, R
    <3>3. Retires(v, prior, present, {"renamed"})
      BY <1>10, <3>2
    <3> QED
      BY <3>3, RetiredGivesUp
  <2>3. InTurn(plan.writes) /\ Sequenced(plan.writes)
    BY <1>4 DEF PlanHolds
  <2>4. InTurn(last)
    BY <1>6, <2>1, GivenUpAreInTurn
  <2> QED
    BY <1>6, <2>2, <2>3, <2>4, JoinedAreInTurn
<1> HIDE DEF w, present
<1>14. ASSUME NEW v \in ToSet(w)
       PROVE  \/ \E r \in R : WrittenFor(v, prior, r, now)
              \/ /\ Retires(v, prior, present, {"renamed", "retracted", "absent"})
                 /\ v.life = "renamed" => \E r \in R : r.digest = v.digest
  <2>1. CASE v \in ToSet(plan.writes)
    <3>1. CASE \E r \in R : WrittenFor(v, prior, r, now)
      BY <3>1
    <3>2. CASE Retires(v, prior, present, {"renamed"}) /\ \E r \in R : r.digest = v.digest
      BY <3>2 DEF Retires
    <3> QED
      BY <1>10, <2>1, <3>1, <3>2
  <2>2. CASE v \in ToSet(last)
    <3>1. PICK o \in gone : v = Retired(o, life)
      BY <1>11, <2>2
    <3>2. IsRow(o) /\ life # "renamed"
      BY <1>7 DEF IsLedger, life
    <3>3. v.life # "renamed"
      BY <3>1, <3>2, RetiredKeepsId
    <3> QED
      BY <1>7, <1>9, <3>1, <3>3 DEF Retires
  <2> QED
    BY <1>13, <2>1, <2>2
<1>15. ASSUME NEW r \in R PROVE Answered(w, prior, r, now) /\ Cleared(w, prior, r, now)
  <2>1. Answered(plan.writes, prior, r, now) /\ Cleared(plan.writes, prior, r, now)
    BY <1>4 DEF PlanHolds
  <2> QED
    BY <1>13, <2>1 DEF Answered, Cleared
<1>16. ASSUME NEW o \in prior, Lost(k, src, prior, o) PROVE \E v \in ToSet(w) : Id(v) = Id(o)
  <2>1. CASE Id(o) \in plan.taken
    <3>1. \E v \in ToSet(plan.writes) : Id(v) = Id(o)
      BY <1>4, <2>1 DEF PlanHolds
    <3> QED
      BY <1>13, <3>1
  <2>2. CASE Id(o) \notin plan.taken
    <3>1. o \in gone
      BY <1>8, <1>16, <2>2
    <3>2. Retired(o, life) \in ToSet(last) /\ Id(Retired(o, life)) = Id(o)
      BY <1>6, <3>1, RetiredKeepsId DEF IsLedger
    <3> QED
      BY <1>13, <3>2
  <2> QED
    BY <2>1, <2>2
<1>17. ToSet(w) # {} => \/ \E r \in R : Wanting(prior, r, now)
                        \/ \E o \in prior : Lost(k, src, prior, o)
  <2>1. CASE ToSet(plan.writes) # {}
    BY <1>4, <2>1 DEF PlanHolds
  <2>2. CASE ToSet(last) # {}
    BY <1>7, <1>11, <2>2
  <2> QED
    BY <1>13, <2>1, <2>2
<1> QED
  BY <1>3, <1>13, <1>14, <1>15, <1>16, <1>17, <1>18 DEF Reconciles, R, present

-----------------------------------------------------------------------------
\* A row of the ledger says what a record of the scan does.
Agrees(o, r) ==
  /\ o.attrs = r.attrs \cup (o.attrs \cap {"renamed_from", "reducer_owned"})
  /\ o.origin = r.origin /\ o.until = r.until /\ o.disp = r.disp /\ o.parents = r.parents
  /\ o.key = r.key
  /\ o.life = "observed" => r.present
  /\ WithdrawnLife(o) => ~r.present

\* Rows without their place on the ledger, and those to be when all is written.
Bare(o) == [o EXCEPT !.cursor = 0]
Untouched(L, w) == {o \in L : \A v \in ToSet(w) : Id(v) # Id(o)}
Due(L, w) == {Bare(o) : o \in Untouched(L, w) \cup ToSet(w)}

\* Rows a scan of the source has nothing to say about.
Settled(F, k, src) ==
  /\ \A r \in RecordsOf(k, src) : /\ \E o \in F : Id(o) = Id(r)
                                  /\ \A o \in F : Id(o) = Id(r) => Agrees(o, r)
  /\ \A o \in F : ~Lost(k, src, F, o)

LEMMA StableAgrees ==
  ASSUME NEW o, IsRow(o), NEW r, r.present \in BOOLEAN, NEW now
  PROVE  Reobserved(o, r, now) = o <=> Agrees(o, r)
<1>1. ASSUME Agrees(o, r) PROVE Reobserved(o, r, now) = o
  <2>1. Reobserved(o, r, now)
          = [o EXCEPT !.attrs = o.attrs, !.origin = o.origin, !.until = o.until, !.disp = o.disp,
                      !.parents = o.parents, !.key = o.key, !.life = o.life,
                      !.observed = o.observed]
    BY <1>1 DEF Reobserved, Agrees, WithdrawnLife
  <2> QED
    BY <2>1 DEF IsRow
<1>2. ASSUME Reobserved(o, r, now) = o PROVE Agrees(o, r)
  BY <1>2, ZenonT(60) DEF Reobserved, Agrees, WithdrawnLife, IsRow
<1> QED
  BY <1>1, <1>2

LEMMA RefreshedAgrees ==
  ASSUME NEW o, IsRow(o), NEW r, r.present \in BOOLEAN, NEW now
  PROVE  Agrees(Reobserved(o, r, now), r)
BY DEF Reobserved, Agrees, WithdrawnLife, IsRow

LEMMA InsertedAgrees ==
  ASSUME NEW r, r.present \in BOOLEAN, NEW now, NEW marks \in SUBSET {"renamed_from"}
  PROVE  Agrees(Row(r, now, LifeOf(r), marks), r)
BY DEF Row, LifeOf, Agrees, WithdrawnLife

LEMMA BareKeeps ==
  ASSUME NEW o, IsRow(o)
  PROVE  /\ Id(Bare(o)) = Id(o) /\ Identity(Bare(o)) = Identity(o)
         /\ Stands(Bare(o)) <=> Stands(o)
         /\ Bare(o).origin = o.origin /\ Bare(o).native = o.native
         /\ \A r : Agrees(Bare(o), r) <=> Agrees(o, r)
BY DEF Bare, Id, Identity, Stands, Agrees, WithdrawnLife, IsRow

\* A row an ingest has yet to write is one it read, changed, or a new one.
IsWrite(v, prior) ==
  /\ IsRow(v)
  /\ v.cursor = 0 => \A o \in prior : Id(o) # Id(v)
  /\ v.cursor # 0 => \E o \in prior : Id(o) = Id(v)

LEMMA WritesAreRows ==
  ASSUME NEW k \in Kinds, NEW src, IsSource(src), NEW prior, IsLedger(prior), NEW now \in Nat,
         NEW w, Reconciles(k, src, prior, now, w), NEW v \in ToSet(w)
  PROVE  IsWrite(v, prior)
<1>1. AreRecords(k, src, RecordsOf(k, src))
  BY RecordsAreScanned
<1>2. ASSUME NEW r \in RecordsOf(k, src), Refreshes(v, prior, r, now) PROVE IsWrite(v, prior)
  <2>1. PICK o \in prior : v = Reobserved(o, r, now)
    BY <1>2 DEF Refreshes
  <2>2. IsRow(o) /\ o.cursor # 0
    BY DEF IsLedger
  <2>3. IsRow(v) /\ v.cursor = o.cursor
    BY <2>1, <2>2 DEF Reobserved, IsRow, Numbered, Dated
  <2> QED
    BY <2>1, <2>2, <2>3, RefreshedKeepsId DEF IsWrite
<1>3. ASSUME NEW r \in RecordsOf(k, src), Inserts(v, prior, r, now) PROVE IsWrite(v, prior)
  <2>1. PICK marks \in SUBSET {"renamed_from"} : v = Row(r, now, LifeOf(r), marks)
    BY <1>3 DEF Inserts
  <2>2. r.native \in Nat /\ r.at \in BOOLEAN /\ r.digest \in Nat /\ r.asserted \in Nat
    BY <1>1, NativesAreNumbers DEF AreRecords, ScannedFrom, Native, IsSource
  <2>3. IsRow(v) /\ v.cursor = 0
    BY <2>1, <2>2 DEF Row, IsRow, Numbered, Dated
  <2>4. \A o \in prior : Id(o) # Id(v)
    BY <1>3, <2>1, RowHasId DEF Inserts, HeldFor
  <2> QED
    BY <2>3, <2>4 DEF IsWrite
<1>4. ASSUME NEW o \in prior, NEW life, v = Retired(o, life) PROVE IsWrite(v, prior)
  <2>1. IsRow(o) /\ o.cursor # 0
    BY DEF IsLedger
  <2>2. IsRow(v) /\ v.cursor = o.cursor
    BY <1>4, <2>1 DEF Retired, IsRow, Numbered, Dated
  <2> QED
    BY <1>4, <2>1, <2>2, RetiredKeepsId DEF IsWrite
<1>5. CASE \E r \in RecordsOf(k, src) : WrittenFor(v, prior, r, now)
  BY <1>2, <1>3, <1>4, <1>5 DEF WrittenFor, Supersedes
<1>6. CASE Retires(v, prior, PresentIn(k, src), {"renamed", "retracted", "absent"})
  BY <1>4, <1>6 DEF Retires
<1> QED
  BY <1>5, <1>6 DEF Reconciles

\* Once all is written, the scan has nothing more to say.
LEMMA ReconcilingSettles ==
  ASSUME NEW k \in Kinds, k \notin Ordered, NEW src, IsSource(src), NEW prior, IsLedger(prior),
         NEW now \in Nat, NEW w, Reconciles(k, src, prior, now, w)
  PROVE  Settled(Due(prior, w), k, src)
<1> DEFINE R == RecordsOf(k, src)
           F == Due(prior, w)
           U == Untouched(prior, w)
           W == ToSet(w)
<1>1. AreRecords(k, src, R)
  BY RecordsAreScanned
<1>2. /\ \A o \in U : o \in prior /\ IsRow(o) /\ \A v \in W : Id(v) # Id(o)
      /\ \A o \in prior : o \in U \/ \E v \in W : Id(v) = Id(o)
  BY DEF Untouched, IsLedger
<1>3. \A v \in W : IsRow(v)
  BY WritesAreRows DEF IsWrite
<1>4. ASSUME NEW f \in F
      PROVE  \E o \in U \cup W :
               /\ Id(f) = Id(o) /\ Identity(f) = Identity(o) /\ (Stands(f) <=> Stands(o))
               /\ f.origin = o.origin /\ f.native = o.native
               /\ \A r : Agrees(f, r) <=> Agrees(o, r)
  <2>1. PICK o \in U \cup W : f = Bare(o)
    BY DEF Due
  <2>2. IsRow(o)
    BY <1>2, <1>3
  <2> HIDE DEF F, U, W
  <2> QED
    BY <2>1, <2>2, BareKeeps
<1>5. \A o \in U \cup W : Bare(o) \in F /\ Id(Bare(o)) = Id(o)
  <2>1. \A o \in U \cup W : IsRow(o) /\ Bare(o) \in F
    BY <1>2, <1>3 DEF Due
  <2> QED
    BY <2>1, BareKeeps
<1>6. ASSUME NEW r \in R
      PROVE  \/ \E o \in prior : Id(o) = Id(r) /\ Agrees(o, r)
             \/ \E v \in W : Id(v) = Id(r)
  <2>1. k \notin Ordered => r.receipt = 0
    BY <1>1 DEF AreRecords, ScannedFrom
  <2>2. Answered(w, prior, r, now) /\ ~Skewed(r, now) /\ r.present \in BOOLEAN
    BY <1>1, <2>1 DEF Reconciles, Skewed, AreRecords, ScannedFrom
  <2>3. ASSUME NEW o \in prior, Id(o) = Id(r), Reobserved(o, r, now) = o PROVE Agrees(o, r)
    BY <2>2, <2>3, StableAgrees DEF IsLedger
  <2>4. ASSUME NEW v \in W, Refreshes(v, prior, r, now) \/ Inserts(v, prior, r, now)
        PROVE  Id(v) = Id(r)
    BY <2>4, RefreshedKeepsId, RowHasId DEF Refreshes, Inserts, IsLedger
  <2> QED
    BY <2>2, <2>3, <2>4 DEF Answered
<1>7. ASSUME NEW r \in R, NEW v \in W, Id(v) = Id(r) PROVE Agrees(v, r)
  <2>1. Identity(v) = Identity(r) /\ Identity(r) \in PresentIn(k, src)
    BY <1>7, IdGivesIdentity DEF PresentIn
  <2>2. PICK s \in R : WrittenFor(v, prior, s, now)
    BY <2>1, RetiredIsElsewhere DEF Reconciles
  <2>3. Identity(v) = Identity(s)
    BY <2>2, WrittenHasIdentity
  <2>4. s = r
    BY <1>1, <2>1, <2>3 DEF AreRecords, OneToAnIdentity, Identity
  <2>5. r.present \in BOOLEAN
    BY <1>1 DEF AreRecords, ScannedFrom
  <2>6. CASE Refreshes(v, prior, r, now)
    BY <2>5, <2>6, RefreshedAgrees DEF Refreshes, IsLedger
  <2>7. CASE Inserts(v, prior, r, now)
    BY <2>5, <2>7, InsertedAgrees DEF Inserts
  <2>8. CASE Supersedes(v, prior, r)
    BY <1>7, <2>8, RetiredKeepsId DEF Supersedes, IsLedger
  <2> QED
    BY <2>2, <2>4, <2>6, <2>7, <2>8 DEF WrittenFor
<1> HIDE DEF F, U, W
<1>8. ASSUME NEW r \in R PROVE \E f \in F : Id(f) = Id(r)
  <2>1. CASE \E v \in W : Id(v) = Id(r)
    BY <1>5, <2>1
  <2>2. CASE \E o \in prior : Id(o) = Id(r)
    <3>1. PICK o \in prior : Id(o) = Id(r)
      BY <2>2
    <3>2. \E x \in U \cup W : Id(x) = Id(r)
      BY <1>2, <3>1
    <3> QED
      BY <1>5, <3>2
  <2> QED
    BY <1>6, <2>1, <2>2
<1>9. ASSUME NEW r \in R, NEW f \in F, Id(f) = Id(r) PROVE Agrees(f, r)
  <2>1. PICK o \in U \cup W : Id(o) = Id(r) /\ (Agrees(f, r) <=> Agrees(o, r))
    BY <1>4, <1>9
  <2>2. CASE o \in W
    BY <1>7, <2>1, <2>2
  <2>3. CASE o \in U
    <3>1. ~ \E v \in W : Id(v) = Id(r)
      BY <1>2, <2>1, <2>3
    <3>2. PICK p \in prior : Id(p) = Id(r) /\ Agrees(p, r)
      BY <1>6, <3>1
    <3>3. p = o
      BY <1>2, <2>1, <2>3, <3>2 DEF IsLedger, OneToAnId
    <3> QED
      BY <2>1, <3>2, <3>3
  <2> QED
    BY <2>1, <2>2, <2>3
<1>10. ASSUME NEW v \in W, Identity(v) \notin PresentIn(k, src)
       PROVE  Retires(v, prior, PresentIn(k, src), {"renamed", "retracted", "absent"})
  <2>1. ASSUME NEW s \in R, WrittenFor(v, prior, s, now) PROVE FALSE
    <3>1. Identity(v) = Identity(s)
      BY <2>1, WrittenHasIdentity
    <3> QED
      BY <1>10, <3>1 DEF PresentIn
  <2> QED
    BY <2>1 DEF Reconciles, W
<1>11. ASSUME NEW f \in F PROVE ~Lost(k, src, F, f)
  <2> SUFFICES ASSUME Lost(k, src, F, f) PROVE FALSE
    OBVIOUS
  <2>1. Stands(f) /\ Identity(f) \notin PresentIn(k, src) /\ ~StillElsewhere(k, src, F, f)
    BY DEF Lost
  <2>2. PICK o \in U \cup W : /\ Id(f) = Id(o) /\ Identity(f) = Identity(o)
                              /\ Stands(o) /\ f.native = o.native
    BY <1>4, <2>1
  <2>3. o \notin W
    <3> SUFFICES ASSUME o \in W PROVE FALSE
      OBVIOUS
    <3>1. Retires(o, prior, PresentIn(k, src), {"renamed", "retracted", "absent"})
      BY <1>10, <2>1, <2>2
    <3>2. o.life # "observed"
      BY <3>1, RetiredKeepsId DEF Retires, IsLedger
    <3> QED
      BY <2>2, <3>2 DEF Stands
  <2>4. o \in U /\ o \in prior
    BY <1>2, <2>2, <2>3
  <2>5. ~Lost(k, src, prior, o)
    BY <1>2, <2>4 DEF Reconciles, W
  <2>6. PICK e \in PresentElsewhere(k, src) :
          /\ e[1] = o.native
          /\ \A p \in prior : Identity(p) = Identity(o) => p.origin = e[2]
    BY <2>1, <2>2, <2>5 DEF Lost, StillElsewhere
  <2>7. ASSUME NEW g \in F, Identity(g) = Identity(f) PROVE g.origin = e[2]
    <3>1. PICK p \in U \cup W : Identity(p) = Identity(g) /\ g.origin = p.origin
      BY <1>4
    <3>2. CASE p \in U
      BY <1>2, <2>2, <2>6, <2>7, <3>1, <3>2
    <3>3. CASE p \in W
      <4>1. Retires(p, prior, PresentIn(k, src), {"renamed", "retracted", "absent"})
        BY <1>10, <2>1, <2>7, <3>1, <3>3
      <4>2. PICK x \in prior : \E life : p = Retired(x, life)
        BY <4>1 DEF Retires
      <4>3. IsRow(x)
        BY DEF IsLedger
      <4>4. p.origin = x.origin /\ Identity(p) = Identity(x)
        BY <4>2, <4>3 DEF Retired, IsRow, Identity
      <4> QED
        BY <2>2, <2>6, <2>7, <3>1, <4>4
    <3> QED
      BY <3>1, <3>2, <3>3
  <2>8. StillElsewhere(k, src, F, f)
    BY <2>2, <2>6, <2>7 DEF StillElsewhere
  <2> QED
    BY <2>1, <2>8
<1> QED
  BY <1>8, <1>9, <1>11 DEF Settled, F, R

\* With nothing to say, it writes nothing.
LEMMA SettledIsQuiet ==
  ASSUME NEW k \in Kinds, NEW src, IsSource(src), NEW prior, IsLedger(prior),
         Settled(Due(prior, <<>>), k, src), NEW now, NEW w, Reconciles(k, src, prior, now, w)
  PROVE  w = <<>>
<1> DEFINE R == RecordsOf(k, src)
           F == Due(prior, <<>>)
<1>1. AreRecords(k, src, R)
  BY RecordsAreScanned
<1>2. F = {Bare(o) : o \in prior}
  BY NothingIsApart DEF Due, Untouched
<1>3. \A o \in prior : /\ Bare(o) \in F /\ Id(Bare(o)) = Id(o) /\ Identity(Bare(o)) = Identity(o)
                       /\ Stands(Bare(o)) <=> Stands(o)
                       /\ Bare(o).origin = o.origin /\ Bare(o).native = o.native
                       /\ \A r : Agrees(Bare(o), r) <=> Agrees(o, r)
  BY <1>2, BareKeeps DEF IsLedger
<1>4. ASSUME NEW r \in R PROVE ~Wanting(prior, r, now)
  <2>1. PICK f \in F : Id(f) = Id(r)
    BY DEF Settled
  <2>2. PICK o \in prior : f = Bare(o)
    BY <1>2
  <2>3. Id(o) = Id(r) /\ HeldFor(prior, r) # {}
    BY <1>3, <2>1, <2>2 DEF HeldFor
  <2>4. ASSUME NEW p \in prior, Id(p) = Id(r) PROVE Reobserved(p, r, now) = p
    <3>1. Agrees(Bare(p), r)
      BY <1>3, <2>4 DEF Settled
    <3>2. Agrees(p, r) /\ IsRow(p) /\ r.present \in BOOLEAN
      BY <1>1, <1>3, <3>1 DEF IsLedger, AreRecords, ScannedFrom
    <3> QED
      BY <3>2, StableAgrees
  <2> QED
    BY <2>3, <2>4 DEF Wanting
<1>5. ASSUME NEW o \in prior PROVE ~Lost(k, src, prior, o)
  <2>1. ~Lost(k, src, F, Bare(o))
    BY <1>3 DEF Settled
  <2>2. StillElsewhere(k, src, F, Bare(o)) => StillElsewhere(k, src, prior, o)
    <3> SUFFICES ASSUME NEW e \in PresentElsewhere(k, src), e[1] = Bare(o).native,
                        \A p \in F : Identity(p) = Identity(Bare(o)) => p.origin = e[2]
                 PROVE  /\ e[1] = o.native
                        /\ \A p \in prior : Identity(p) = Identity(o) => p.origin = e[2]
      BY DEF StillElsewhere
    <3> HIDE DEF F
    <3> QED
      BY <1>3
  <2> QED
    BY <1>3, <2>1, <2>2 DEF Lost
<1>6. ToSet(w) = {}
  BY <1>4, <1>5 DEF Reconciles
<1>7. PICK S : w \in Seq(S)
  BY DEF Reconciles, Sequenced
<1>8. Len(w) = 0
  <2>1. Len(w) \in Nat /\ DOMAIN w = 1..Len(w)
    BY <1>7
  <2>2. Len(w) # 0 => 1 \in DOMAIN w
    BY <2>1
  <2> QED
    BY <1>6, <2>2 DEF ToSet
<1> QED
  BY <1>7, <1>8, EmptySeq

-----------------------------------------------------------------------------
\* The ledger once one more row is written.
WrittenTo(L, v, c) ==
  IF v.cursor = 0 /\ HeldFor(L, v) = {} THEN L \cup {[v EXCEPT !.cursor = c + 1]}
  ELSE IF v.cursor = 0 THEN L
  ELSE (L \ HeldFor(L, v)) \cup {v}

Placed(v, c) == [v EXCEPT !.cursor = c + 1]

LEMMA PlacedIsRow ==
  ASSUME NEW v, IsRow(v), NEW c \in Nat
  PROVE  /\ IsRow(Placed(v, c)) /\ Placed(v, c).cursor # 0 /\ Id(Placed(v, c)) = Id(v)
         /\ Bare(Placed(v, c)) = Bare(v)
         /\ Placed(v, c).life = v.life /\ Placed(v, c).digest = v.digest
         /\ Placed(v, c).key = v.key /\ Placed(v, c).asserted = v.asserted
         /\ Placed(v, c).kind = v.kind /\ Placed(v, c).attrs = v.attrs
         /\ Placed(v, c).disp = v.disp
<1>1. PICK e \in Nat : e = c + 1
  OBVIOUS
<1>2. PICK q : q = [v EXCEPT !.cursor = e]
  OBVIOUS
<1>3. Placed(v, c) = q /\ e # 0
  BY <1>1, <1>2 DEF Placed
<1>4. IsRow(q)
  BY <1>2 DEF IsRow, Numbered, Dated
<1>5. q.cursor = e
  BY <1>2 DEF IsRow
<1>6. Id(q) = Id(v)
  BY <1>2 DEF IsRow, Id
<1>7. Bare(q) = Bare(v)
  BY <1>2 DEF IsRow, Bare
<1>8. /\ q.life = v.life /\ q.digest = v.digest /\ q.key = v.key /\ q.asserted = v.asserted
      /\ q.kind = v.kind /\ q.attrs = v.attrs /\ q.disp = v.disp
  BY <1>2 DEF IsRow
<1> QED
  BY <1>3, <1>4, <1>5, <1>6, <1>7, <1>8

\* Its rows are those it had, the one written, and no others.
LEMMA WrittenRows ==
  ASSUME NEW L, IsLedger(L), NEW v, IsRow(v), NEW c \in Nat
  PROVE  /\ IsLedger(WrittenTo(L, v, c))
         /\ \A o \in WrittenTo(L, v, c) : o \in L \/ o = Placed(v, c) \/ o = v
         /\ \A o \in WrittenTo(L, v, c) : Id(o) = Id(v) \/ o \in L
         /\ \A o \in L : \E p \in WrittenTo(L, v, c) : Id(p) = Id(o)
<1>1. CASE v.cursor = 0 /\ HeldFor(L, v) = {}
  <2>1. WrittenTo(L, v, c) = L \cup {Placed(v, c)}
    BY <1>1 DEF WrittenTo, Placed
  <2>2. IsFiniteSet(L \cup {Placed(v, c)})
    BY FS_AddElement DEF IsLedger
  <2>3. \A o \in L : Id(o) # Id(v)
    BY <1>1 DEF HeldFor
  <2> QED
    BY <2>1, <2>2, <2>3, PlacedIsRow DEF IsLedger, OneToAnId
<1>2. CASE v.cursor = 0 /\ HeldFor(L, v) # {}
  BY <1>2 DEF WrittenTo
<1>3. CASE v.cursor # 0
  <2>1. WrittenTo(L, v, c) = (L \ HeldFor(L, v)) \cup {v}
    BY <1>3 DEF WrittenTo
  <2>2. IsFiniteSet((L \ HeldFor(L, v)) \cup {v})
    BY FS_AddElement, FS_Difference DEF IsLedger
  <2>3. \A o \in L : Id(o) = Id(v) <=> o \in HeldFor(L, v)
    BY DEF HeldFor
  <2> QED
    BY <1>3, <2>1, <2>2, <2>3 DEF IsLedger, OneToAnId
<1> QED
  BY <1>1, <1>2, <1>3

LEMMA HeadAndTail ==
  ASSUME NEW w, Sequenced(w), w # <<>>
  PROVE  /\ Sequenced(Tail(w)) /\ ToSet(w) = {Head(w)} \cup ToSet(Tail(w))
         /\ Apart(w) => Apart(Tail(w)) /\ \A v \in ToSet(Tail(w)) : Id(v) # Id(Head(w))
<1>1. PICK S : w \in Seq(S)
  BY DEF Sequenced
<1>2. /\ Head(w) = w[1] /\ Tail(w) \in Seq(S) /\ Len(Tail(w)) = Len(w) - 1
      /\ \A i \in 1..Len(Tail(w)) : Tail(w)[i] = w[i + 1]
      /\ Len(w) \in Nat /\ Len(w) # 0
      /\ DOMAIN w = 1..Len(w) /\ DOMAIN Tail(w) = 1..Len(Tail(w))
  BY <1>1, HeadTailProperties, EmptySeq
<1>3. ToSet(w) = {Head(w)} \cup ToSet(Tail(w))
  <2>1. ASSUME NEW v \in ToSet(w) PROVE v \in {Head(w)} \cup ToSet(Tail(w))
    <3>1. PICK i \in 1..Len(w) : v = w[i]
      BY <1>2 DEF ToSet
    <3>2. CASE i = 1
      BY <1>2, <3>1, <3>2
    <3>3. CASE i # 1
      <4>1. i - 1 \in 1..Len(Tail(w)) /\ (i - 1) + 1 = i
        BY <1>2, <3>3
      <4>2. v = Tail(w)[i - 1]
        BY <1>2, <3>1, <4>1
      <4> QED
        BY <1>2, <4>1, <4>2 DEF ToSet
    <3> QED
      BY <3>2, <3>3
  <2>2. Head(w) \in ToSet(w)
    <3>1. 1 \in 1..Len(w)
      BY <1>2
    <3> QED
      BY <1>2, <3>1 DEF ToSet
  <2>3. ASSUME NEW v \in ToSet(Tail(w)) PROVE v \in ToSet(w)
    <3>1. PICK i \in 1..Len(Tail(w)) : v = Tail(w)[i]
      BY <1>2 DEF ToSet
    <3>2. v = w[i + 1] /\ i + 1 \in 1..Len(w)
      BY <1>2, <3>1
    <3> QED
      BY <1>2, <3>2 DEF ToSet
  <2> QED
    BY <2>1, <2>2, <2>3
<1>4. ASSUME Apart(w) PROVE Apart(Tail(w))
  <2> SUFFICES ASSUME NEW i \in 1..Len(Tail(w)), NEW j \in 1..Len(Tail(w)),
                      Id(Tail(w)[i]) = Id(Tail(w)[j])
               PROVE  i = j
    BY DEF Apart
  <2>1. i + 1 \in 1..Len(w) /\ j + 1 \in 1..Len(w) /\ Id(w[i + 1]) = Id(w[j + 1])
    BY <1>2
  <2>2. i + 1 = j + 1
    BY <1>4, <2>1 DEF Apart
  <2> QED
    BY <2>2
<1>5. ASSUME Apart(w), NEW v \in ToSet(Tail(w)), Id(v) = Id(Head(w)) PROVE FALSE
  <2>1. PICK i \in 1..Len(Tail(w)) : v = Tail(w)[i]
    BY <1>2 DEF ToSet
  <2>2. i + 1 \in 1..Len(w) /\ 1 \in 1..Len(w) /\ Id(w[i + 1]) = Id(w[1]) /\ i + 1 # 1
    BY <1>2, <1>5, <2>1
  <2> QED
    BY <1>5, <2>2 DEF Apart
<1> QED
  BY <1>2, <1>3, <1>4, <1>5 DEF Sequenced

\* What an ingest has yet to write.
Pending(L, w) == Sequenced(w) /\ Apart(w) /\ \A v \in ToSet(w) : IsWrite(v, L)

LEMMA WritingKeepsDue ==
  ASSUME NEW L, IsLedger(L), NEW w, Pending(L, w), w # <<>>, NEW c \in Nat
  PROVE  LET M == WrittenTo(L, Head(w), c)
         IN  Pending(M, Tail(w)) /\ Due(M, Tail(w)) = Due(L, w)
<1> DEFINE v == Head(w)
           M == WrittenTo(L, v, c)
           x == IF v.cursor = 0 THEN Placed(v, c) ELSE v
<1>1. /\ Sequenced(Tail(w)) /\ ToSet(w) = {v} \cup ToSet(Tail(w))
      /\ Apart(Tail(w)) /\ \A u \in ToSet(Tail(w)) : Id(u) # Id(v)
  BY HeadAndTail DEF Pending
<1>2. IsWrite(v, L) /\ IsRow(v)
  BY <1>1 DEF Pending, IsWrite
<1> HIDE DEF v
<1>3. /\ \A o \in M : Id(o) = Id(v) \/ o \in L
      /\ \A o \in L : \E p \in M : Id(p) = Id(o)
  BY <1>2, WrittenRows
<1>4. ASSUME NEW u \in ToSet(Tail(w)) PROVE IsWrite(u, M)
  <2>1. IsWrite(u, L) /\ Id(u) # Id(v)
    BY <1>1 DEF Pending
  <2> HIDE DEF M
  <2> QED
    BY <1>3, <2>1 DEF IsWrite
<1>5. M = {o \in L : Id(o) # Id(v)} \cup {x} /\ Id(x) = Id(v) /\ Bare(x) = Bare(v)
  <2>1. CASE v.cursor = 0
    <3>1. \A o \in L : Id(o) # Id(v)
      BY <1>2, <2>1 DEF IsWrite
    <3>2. M = L \cup {Placed(v, c)}
      BY <2>1, <3>1 DEF WrittenTo, Placed, HeldFor
    <3> QED
      BY <1>2, <2>1, <3>1, <3>2, PlacedIsRow
  <2>2. CASE v.cursor # 0
    BY <2>2 DEF WrittenTo, HeldFor
  <2> QED
    BY <2>1, <2>2
<1> HIDE DEF M, x
<1>6. Untouched(M, Tail(w)) = Untouched(L, w) \cup {x}
  <2>1. ASSUME NEW o \in Untouched(M, Tail(w)) PROVE o \in Untouched(L, w) \cup {x}
    BY <1>1, <1>5 DEF Untouched
  <2>2. ASSUME NEW o \in Untouched(L, w) PROVE o \in Untouched(M, Tail(w))
    BY <1>1, <1>5 DEF Untouched
  <2>3. x \in Untouched(M, Tail(w))
    BY <1>1, <1>5 DEF Untouched
  <2> QED
    BY <2>1, <2>2, <2>3
<1>7. Due(M, Tail(w)) = Due(L, w)
  <2>1. ASSUME NEW f \in Due(M, Tail(w)) PROVE f \in Due(L, w)
    <3>1. PICK o \in Untouched(L, w) \cup {x} \cup ToSet(Tail(w)) : f = Bare(o)
      BY <1>6 DEF Due
    <3>2. CASE o = x
      BY <1>1, <1>5, <3>1, <3>2 DEF Due
    <3>3. CASE o # x
      BY <1>1, <3>1, <3>3 DEF Due
    <3> QED
      BY <3>2, <3>3
  <2>2. ASSUME NEW f \in Due(L, w) PROVE f \in Due(M, Tail(w))
    <3>1. PICK o \in Untouched(L, w) \cup {v} \cup ToSet(Tail(w)) : f = Bare(o)
      BY <1>1 DEF Due
    <3>2. CASE o = v
      BY <1>5, <1>6, <3>1, <3>2 DEF Due
    <3>3. CASE o # v
      BY <1>6, <3>1, <3>3 DEF Due
    <3> QED
      BY <3>2, <3>3
  <2> QED
    BY <2>1, <2>2
<1> QED
  BY <1>1, <1>4, <1>7 DEF Pending, M, v

-----------------------------------------------------------------------------
\* The current facts of test results and runtime observations.
AreReceipts(k, S) == \A o \in S : o.kind = k /\ Derivable(o)

LEMMA HeadIsNewest ==
  ASSUME NEW L, IsLedger(L), NEW k \in Ordered, AreReceipts(k, L), NEW t, NEW now,
         NEW f \in Derive(L, t, now), f.fact = "current"
  PROVE  \E h \in L : /\ Stands(h) /\ f.row = Id(h) /\ f.key = h.key
                      /\ \A o \in L : Stands(o) /\ o.key = h.key => o.asserted <= h.asserted
<1>1. {o \in L : Derivable(o)} = L
  BY DEF AreReceipts
<1>2. PICK key \in {o.key : o \in L} : f \in DeriveCohort(t, now, {o \in L : o.key = key})
  BY <1>1 DEF Derive
<1> DEFINE rows == {o \in L : o.key = key}
           alive == StandingIn(rows)
           head == LastAsserted(alive)
<1>3. rows \in SUBSET L /\ rows # {} /\ alive \in SUBSET L
  BY <1>2 DEF StandingIn
<1>4. FirstObserved(rows).kind = k
  <2>1. Rows(rows)
    BY <1>3, RowsOfLedger
  <2> HIDE DEF rows
  <2>2. FirstObserved(rows) \in rows
    BY <1>3, <2>1, FirstObservedIsOne
  <2> QED
    BY <1>3, <2>2 DEF AreReceipts
<1>5. f \in DeriveOrdered(t, now, rows)
  <2> HIDE DEF rows
  <2>1. DeriveCohort(t, now, rows) = DeriveOrdered(t, now, rows)
    BY <1>4 DEF DeriveCohort, Ordered, Personal, RepositoryFiles, Exports
  <2> QED
    BY <1>2, <2>1 DEF rows
<1> HIDE DEF rows
<1>6. f \notin SettleHistory(rows, {})
  <2> SUFFICES ASSUME f \in SettleHistory(rows, {}) PROVE FALSE
    OBVIOUS
  <2>1. PICK o, state, disp, fact, asks :
          f = Outcome(o, state, disp, fact, {}, asks) /\ fact \in {"withdrawn", "superseded"}
    BY DEF SettleHistory
  <2>2. f.fact = fact
    BY <2>1 DEF Outcome
  <2> QED
    BY <2>1, <2>2
<1>7. PICK seen \in alive :
        \/ f.fact = "superseded" \/ f.fact = "withdrawn"
        \/ f.row = Id(head) /\ f.key = head.key
  BY <1>5, <1>6 DEF DeriveOrdered, PushHistory, WithdrawRevoked, PushFact, Outcome
<1>8. f.row = Id(head) /\ f.key = head.key /\ alive # {}
  BY <1>7
<1>9. head \in alive /\ \A p \in alive : p.asserted <= head.asserted
  <2>1. Rows(alive)
    BY <1>3, RowsOfLedger
  <2> HIDE DEF alive
  <2> QED
    BY <1>8, <2>1, LastAssertedIsOne
<1>10. head \in L /\ Stands(head) /\ head.key = key
  BY <1>9 DEF StandingIn, rows
<1>11. \A o \in L : Stands(o) /\ o.key = key => o \in alive
  BY DEF StandingIn, rows
<1> QED
  BY <1>8, <1>9, <1>10, <1>11

-----------------------------------------------------------------------------
\* An ingest under way.
IsIngest(i) ==
  /\ i = [kind |-> "ingest", now |-> i.now, reads |-> i.reads, writes |-> i.writes]
  /\ i.now \in Nat /\ IsSource(i.reads) /\ Sequenced(i.writes)
  /\ \A v \in ToSet(i.writes) : IsRow(v)

IngestHolds ==
  /\ kind \in Kinds /\ minted \in Nat /\ clock \in Nat /\ cursor \in Nat
  /\ IsSource(source) /\ IsLedger(ledger) /\ rest \in {Gone, source}
  /\ run = [p \in Runs |-> run[p]]
  /\ \A p \in Runs : run[p] # Stopped => IsIngest(run[p])

\* What people do to the source, and what only time and authorities do.
SourceMoves ==
  \/ \E n \in Natives, form \in Forms[kind] : Edit(n, form) \/ Reclassify(n, form)
  \/ \E n \in Natives, d \in 1..minted : PutBack(n, d)
  \/ \E n, m \in Natives : Rename(n, m)
  \/ \E n \in Natives : Delete(n)

WorldMoves == ClockTicks \/ RevokeKey(OwnKey) \/ RegisterAgain(OwnKey)

\* What the item of a receipt says.
ItemSays(i) == <<i.digest, i.subject, i.stamp>>

LEMMA NewItem ==
  ASSUME NEW k \in Kinds, NEW form \in Forms[k], NEW n, NEW d \in Nat
  PROVE  IsItem(Item(n, form, d)) /\ Item(n, form, d).digest = d
<1>1. form.copy \in Nat /\ form.stamp \in Nat
  BY FormsAreNumbered
<1> QED
  BY <1>1 DEF Item, IsItem

ChangedAt(src, to, n, i) ==
  \A m \in Native(to) : (m \in Native(src) /\ to[m] = src[m]) \/ (m = n /\ to[m] = i)

LEMMA ItemIsChanged ==
  ASSUME NEW src, IsSource(src), NEW n \in Natives, NEW i, NEW to,
         to = [src EXCEPT ![n] = i], i = Gone \/ IsItem(i)
  PROVE  IsSource(to) /\ ChangedAt(src, to, n, i)
<1>1. DOMAIN to = Natives /\ to[n] = i /\ \A m \in Natives : m # n => to[m] = src[m]
  BY DEF IsSource
<1>2. \A m \in Native(to) : (m \in Native(src) /\ to[m] = src[m]) \/ (m = n /\ to[m] = i)
  <2> SUFFICES ASSUME NEW m \in Native(to), m # n
               PROVE  m \in Native(src) /\ to[m] = src[m]
    BY <1>1
  <2>1. m \in Natives /\ to[m] # Gone
    BY <1>1 DEF Native
  <2>2. to[m] = src[m] /\ DOMAIN src = Natives
    BY <1>1, <2>1 DEF IsSource
  <2> QED
    BY <2>1, <2>2 DEF Native
<1>3. \A m \in Native(to) : IsItem(to[m])
  <2>1. ASSUME NEW m \in Native(to) PROVE IsItem(to[m])
    <3>1. CASE m = n /\ to[m] = i
      BY <3>1 DEF Native
    <3>2. CASE m \in Native(src) /\ to[m] = src[m]
      BY <3>2 DEF IsSource
    <3> QED
      BY <1>2, <3>1, <3>2
  <2> QED
    BY <2>1
<1> QED
  BY <1>1, <1>2, <1>3 DEF IsSource, ChangedAt

LEMMA SourceMovesKeep ==
  IngestHolds /\ SourceMoves =>
    /\ IsSource(source') /\ minted' \in Nat /\ rest' = Gone
    /\ kind' = kind /\ clock' = clock /\ ledger' = ledger /\ cursor' = cursor /\ run' = run
    /\ kind \in Ordered =>
         \/ minted' = minted /\ \A m \in Native(source') : m \in Native(source)
                                                           /\ source'[m] = source[m]
         \/ minted' = minted + 1 /\ \A m, l \in Native(source') :
              \/ m \in Native(source) /\ source'[m] = source[m]
              \/ source'[m].digest = minted' /\ (source'[l].digest = minted' =>
                   l = m \/ (l \in Native(source) /\ source'[l] = source[l]))
<1> SUFFICES ASSUME IngestHolds, SourceMoves
             PROVE  /\ IsSource(source') /\ minted' \in Nat /\ rest' = Gone
                    /\ kind' = kind /\ clock' = clock /\ ledger' = ledger /\ cursor' = cursor
                    /\ run' = run
                    /\ kind \in Ordered =>
                         \/ minted' = minted /\ \A m \in Native(source') :
                              m \in Native(source) /\ source'[m] = source[m]
                         \/ minted' = minted + 1 /\ \A m, l \in Native(source') :
                              \/ m \in Native(source) /\ source'[m] = source[m]
                              \/ source'[m].digest = minted' /\ (source'[l].digest = minted' =>
                                   l = m \/ (l \in Native(source) /\ source'[l] = source[l]))
  OBVIOUS
<1>0. kind \in Kinds /\ IsSource(source) /\ minted \in Nat
  BY DEF IngestHolds
<1>1. ASSUME NEW n \in Natives, NEW form \in Forms[kind], Edit(n, form)
      PROVE  /\ IsSource(source') /\ minted' = minted + 1
             /\ \A m \in Native(source') : \/ m \in Native(source) /\ source'[m] = source[m]
                                           \/ m = n /\ source'[m].digest = minted'
  <2>1. minted' = minted + 1 /\ source' = [source EXCEPT ![n] = Item(n, form, minted')]
    BY <1>1 DEF Edit
  <2>2. PICK i : i = Item(n, form, minted')
    OBVIOUS
  <2>3. IsItem(i) /\ i.digest = minted'
    BY <1>0, <2>1, <2>2, NewItem
  <2>4. source' = [source EXCEPT ![n] = i]
    BY <2>1, <2>2
  <2>5. IsSource(source') /\ ChangedAt(source, source', n, i)
    BY <1>0, <2>3, <2>4, ItemIsChanged
  <2> QED
    BY <2>1, <2>3, <2>5 DEF ChangedAt
<1>2. ASSUME NEW n \in Natives, NEW form \in Forms[kind], Reclassify(n, form)
      PROVE  IsSource(source') /\ minted' = minted /\ kind \notin Ordered
  <2>1. /\ source' = [source EXCEPT ![n] = Item(n, form, source[n].digest)]
        /\ minted' = minted /\ source[n] # Gone /\ kind \in BesidesBytes
    BY <1>2 DEF Reclassify
  <2>2. source[n].digest \in Nat
    BY <1>0, <2>1 DEF IsSource, IsItem, Native
  <2>3. PICK i : i = Item(n, form, source[n].digest)
    OBVIOUS
  <2>4. IsItem(i)
    BY <1>0, <2>2, <2>3, NewItem
  <2>5. source' = [source EXCEPT ![n] = i]
    BY <2>1, <2>3
  <2>6. IsSource(source')
    BY <1>0, <2>4, <2>5, ItemIsChanged
  <2> QED
    BY <2>1, <2>6 DEF BesidesBytes, Ordered
<1>3. ASSUME NEW n \in Natives, NEW d \in 1..minted, PutBack(n, d)
      PROVE  IsSource(source') /\ minted' = minted /\ kind \notin Ordered
  <2>1. /\ source' = [source EXCEPT ![n].digest = d]
        /\ minted' = minted /\ source[n] # Gone /\ kind = "repo_code"
    BY <1>3 DEF PutBack
  <2>2. PICK i : i = [source[n] EXCEPT !.digest = d]
    OBVIOUS
  <2>3. IsItem(source[n])
    BY <1>0, <2>1 DEF IsSource, Native
  <2>4. IsItem(i)
    BY <1>0, <2>2, <2>3 DEF IsItem
  <2>5. source' = [source EXCEPT ![n] = i]
    BY <2>1, <2>2
  <2> QED
    BY <1>0, <2>1, <2>4, <2>5, ItemIsChanged DEF Ordered
<1>4. ASSUME NEW n \in Natives, NEW m \in Natives, Rename(n, m)
      PROVE  IsSource(source') /\ minted' = minted /\ kind \notin Ordered
  <2>1. /\ source' = [source EXCEPT ![n] = Gone, ![m] = [source[n] EXCEPT !.subject = m]]
        /\ minted' = minted /\ source[n] # Gone /\ kind \in RepositoryFiles
    BY <1>4 DEF Rename
  <2>2. PICK i : i = [source[n] EXCEPT !.subject = m]
    OBVIOUS
  <2>3. IsItem(source[n])
    BY <1>0, <2>1 DEF IsSource, Native
  <2>4. IsItem(i)
    BY <2>2, <2>3 DEF IsItem
  <2>5. PICK mid : mid = [source EXCEPT ![n] = Gone]
    OBVIOUS
  <2>6. IsSource(mid)
    BY <1>0, <2>5, ItemIsChanged
  <2>7. source' = [mid EXCEPT ![m] = i]
    BY <2>1, <2>2, <2>5
  <2>8. IsSource(source')
    BY <2>4, <2>6, <2>7, ItemIsChanged
  <2> QED
    BY <2>1, <2>8 DEF RepositoryFiles, Ordered
<1>5. ASSUME NEW n \in Natives, Delete(n)
      PROVE  /\ IsSource(source') /\ minted' = minted
             /\ \A m \in Native(source') : m \in Native(source) /\ source'[m] = source[m]
  <2>1. source' = [source EXCEPT ![n] = Gone] /\ minted' = minted
    BY <1>5 DEF Delete
  <2>2. /\ IsSource(source')
        /\ ChangedAt(source, source', n, Gone)
    <3>1. PICK i : i = Gone
      OBVIOUS
    <3>2. source' = [source EXCEPT ![n] = i]
      BY <2>1, <3>1
    <3> QED
      BY <1>0, <3>1, <3>2, ItemIsChanged
  <2> QED
    BY <2>1, <2>2 DEF Native, ChangedAt
<1>6. /\ rest' = Gone /\ kind' = kind /\ clock' = clock /\ ledger' = ledger
      /\ cursor' = cursor /\ run' = run
  BY DEF SourceMoves, Edit, Reclassify, PutBack, Rename, Delete, Disturbed
<1>7. CASE \E n \in Natives, form \in Forms[kind] : Edit(n, form)
  <2>1. PICK n \in Natives :
          /\ IsSource(source') /\ minted' = minted + 1
          /\ \A m \in Native(source') : \/ m \in Native(source) /\ source'[m] = source[m]
                                        \/ m = n /\ source'[m].digest = minted'
    BY <1>1, <1>7
  <2>2. minted' \in Nat
    BY <1>0, <2>1
  <2> QED
    BY <1>6, <2>1, <2>2
<1>8. CASE \E n \in Natives, form \in Forms[kind] : Reclassify(n, form)
  BY <1>0, <1>2, <1>6, <1>8
<1>9. CASE \E n \in Natives, d \in 1..minted : PutBack(n, d)
  BY <1>0, <1>3, <1>6, <1>9
<1>10. CASE \E n, m \in Natives : Rename(n, m)
  BY <1>0, <1>4, <1>6, <1>10
<1>11. CASE \E n \in Natives : Delete(n)
  BY <1>0, <1>5, <1>6, <1>11
<1> QED
  BY <1>7, <1>8, <1>9, <1>10, <1>11 DEF SourceMoves

LEMMA WorldMovesKeep ==
  IngestHolds /\ WorldMoves =>
    /\ clock' \in Nat
    /\ kind' = kind /\ source' = source /\ minted' = minted /\ ledger' = ledger
    /\ cursor' = cursor /\ run' = run /\ rest' = rest
BY DEF IngestHolds, WorldMoves, ClockTicks, RevokeKey, RegisterAgain

LEMMA IngestBegins ==
  ASSUME NEW p \in Runs, NEW available \in BOOLEAN, NEW unitPresent \in BOOLEAN
  PROVE  IngestHolds /\ BeginIngest(p, available, unitPresent) =>
           LET w == Reconciled(kind, source, ledger, clock, available, unitPresent)
           IN  /\ Reconciles(kind, source, ledger, clock, w)
               /\ run' = [run EXCEPT ![p] = [kind |-> "ingest", now |-> clock, reads |-> source,
                                            writes |-> w]]
               /\ IsIngest(run'[p]) /\ run'[p].reads = source /\ run'[p].writes = w
               /\ \A v \in ToSet(w) : IsWrite(v, ledger)
<1> SUFFICES ASSUME IngestHolds, BeginIngest(p, available, unitPresent)
             PROVE  LET w == Reconciled(kind, source, ledger, clock, available, unitPresent)
                    IN  /\ Reconciles(kind, source, ledger, clock, w)
                        /\ run' = [run EXCEPT ![p] = [kind |-> "ingest", now |-> clock,
                                                     reads |-> source, writes |-> w]]
                        /\ IsIngest(run'[p]) /\ run'[p].reads = source /\ run'[p].writes = w
                        /\ \A v \in ToSet(w) : IsWrite(v, ledger)
  OBVIOUS
<1> DEFINE w == Reconciled(kind, source, ledger, clock, available, unitPresent)
           i == [kind |-> "ingest", now |-> clock, reads |-> source, writes |-> w]
<1>1. kind \in Kinds /\ IsSource(source) /\ IsLedger(ledger) /\ clock \in Nat
  BY DEF IngestHolds
<1>2. available \/ Native(source) = {}
  BY DEF BeginIngest
<1>3. Reconciles(kind, source, ledger, clock, w)
  BY <1>1, <1>2, IngestReconciles
<1>4. run' = [run EXCEPT ![p] = i]
  BY DEF BeginIngest
<1> HIDE DEF w
<1>5. \A v \in ToSet(w) : IsWrite(v, ledger)
  BY <1>1, <1>3, WritesAreRows
<1>6. run'[p] = i
  BY <1>4 DEF IngestHolds
<1>7. IsIngest(i)
  BY <1>1, <1>3, <1>5 DEF IsIngest, Reconciles, IsWrite
<1>8. i.reads = source /\ i.writes = w
  OBVIOUS
<1> HIDE DEF i
<1> QED
  BY <1>3, <1>4, <1>5, <1>6, <1>7, <1>8 DEF i, w

LEMMA RowIsWritten ==
  ASSUME NEW p \in Runs
  PROVE  IngestHolds /\ WriteRow(p) =>
           /\ Sequenced(run[p].writes) /\ run[p].writes # <<>> /\ run[p] # Stopped
           /\ IsRow(Head(run[p].writes)) /\ Head(run[p].writes) \in ToSet(run[p].writes)
           /\ ledger' = WrittenTo(ledger, Head(run[p].writes), cursor) /\ IsLedger(ledger')
           /\ run' = [run EXCEPT ![p].writes = Tail(@)]
           /\ run'[p] # Stopped /\ IsIngest(run'[p])
           /\ run'[p].writes = Tail(run[p].writes) /\ run'[p].reads = run[p].reads
           /\ cursor' \in Nat
<1> SUFFICES ASSUME IngestHolds, WriteRow(p)
             PROVE  /\ Sequenced(run[p].writes) /\ run[p].writes # <<>> /\ run[p] # Stopped
                    /\ IsRow(Head(run[p].writes)) /\ Head(run[p].writes) \in ToSet(run[p].writes)
                    /\ ledger' = WrittenTo(ledger, Head(run[p].writes), cursor)
                    /\ IsLedger(ledger')
                    /\ run' = [run EXCEPT ![p].writes = Tail(@)]
                    /\ run'[p] # Stopped /\ IsIngest(run'[p])
                    /\ run'[p].writes = Tail(run[p].writes) /\ run'[p].reads = run[p].reads
                    /\ cursor' \in Nat
  OBVIOUS
<1> DEFINE i == run[p]
           v == Head(i.writes)
<1>1. /\ i # Stopped /\ i.writes # <<>> /\ run' = [run EXCEPT ![p].writes = Tail(@)]
      /\ IsIngest(i) /\ IsLedger(ledger) /\ cursor \in Nat /\ run = [q \in Runs |-> run[q]]
  BY DEF WriteRow, IngestHolds
<1>2. /\ Sequenced(i.writes) /\ Sequenced(Tail(i.writes))
      /\ ToSet(i.writes) = {v} \cup ToSet(Tail(i.writes))
  BY <1>1, HeadAndTail DEF IsIngest
<1>3. v \in ToSet(i.writes) /\ IsRow(v)
  BY <1>1, <1>2 DEF IsIngest
<1>4. ledger' = WrittenTo(ledger, v, cursor)
  <2>1. v.cursor = 0 /\ HeldFor(ledger, v) = {} =>
          ledger' = ledger \cup {[v EXCEPT !.cursor = cursor + 1]}
    BY DEF WriteRow
  <2>2. ~(v.cursor = 0 /\ HeldFor(ledger, v) = {}) /\ v.cursor = 0 => ledger' = ledger
    BY DEF WriteRow
  <2>3. v.cursor # 0 => ledger' = (ledger \ HeldFor(ledger, v)) \cup {v}
    BY DEF WriteRow
  <2> HIDE DEF v
  <2> QED
    BY <2>1, <2>2, <2>3 DEF WrittenTo
<1>5. IsLedger(ledger')
  <2> HIDE DEF v
  <2> QED
    BY <1>1, <1>3, <1>4, WrittenRows
<1>6. cursor' \in Nat
  BY <1>1 DEF WriteRow
<1>7. run'[p] = [i EXCEPT !.writes = Tail(i.writes)]
  BY <1>1
<1> HIDE DEF i, v
<1>8. /\ run'[p] = [kind |-> "ingest", now |-> i.now, reads |-> i.reads, writes |-> Tail(i.writes)]
      /\ run'[p].writes = Tail(i.writes) /\ run'[p].reads = i.reads /\ run'[p].now = i.now
  <2>1. PICK s : s = Tail(i.writes)
    OBVIOUS
  <2>2. PICK q : q = [i EXCEPT !.writes = s]
    OBVIOUS
  <2>3. i = [kind |-> "ingest", now |-> i.now, reads |-> i.reads, writes |-> i.writes]
    BY <1>1 DEF IsIngest
  <2>4. q = [kind |-> "ingest", now |-> i.now, reads |-> i.reads, writes |-> s]
    BY <2>2, <2>3
  <2>5. run'[p] = q
    BY <1>7, <2>1, <2>2
  <2>6. q.writes = s /\ q.reads = i.reads /\ q.now = i.now
    BY <2>4
  <2> QED
    BY <2>1, <2>4, <2>5, <2>6
<1>9. IsIngest(run'[p])
  BY <1>1, <1>2, <1>8 DEF IsIngest
<1>10. run'[p] # Stopped
  <2>1. "now" \in DOMAIN run'[p] /\ "now" \notin DOMAIN Stopped
    BY <1>8 DEF Stopped
  <2> QED
    BY <2>1
<1> QED
  BY <1>1, <1>2, <1>3, <1>4, <1>5, <1>6, <1>8, <1>9, <1>10 DEF i, v

LEMMA IngestHoldsInit == IngestInit => IngestHolds
<1> SUFFICES ASSUME IngestInit PROVE IngestHolds
  OBVIOUS
<1>1. IsSource(source)
  BY DEF IngestInit, IsSource, Native
<1>2. IsLedger(ledger)
  BY FS_EmptySet DEF IngestInit, IsLedger, OneToAnId
<1> QED
  BY <1>1, <1>2 DEF IngestInit, IngestHolds

LEMMA IngestHoldsNext == IngestHolds /\ [IngestNext]_ingestVars => IngestHolds'
<1> SUFFICES ASSUME IngestHolds, [IngestNext]_ingestVars PROVE IngestHolds'
  OBVIOUS
<1>0. /\ kind \in Kinds /\ minted \in Nat /\ clock \in Nat /\ cursor \in Nat
      /\ IsSource(source) /\ IsLedger(ledger) /\ rest \in {Gone, source}
      /\ run = [p \in Runs |-> run[p]]
      /\ \A p \in Runs : run[p] # Stopped => IsIngest(run[p])
  BY DEF IngestHolds
<1>1. CASE SourceMoves
  BY <1>0, <1>1, SourceMovesKeep DEF IngestHolds
<1>2. CASE WorldMoves
  BY <1>0, <1>2, WorldMovesKeep DEF IngestHolds
<1>3. ASSUME NEW p \in Runs, NEW available \in BOOLEAN, NEW unitPresent \in BOOLEAN,
             BeginIngest(p, available, unitPresent)
      PROVE  IngestHolds'
  <2>1. PICK i : run' = [run EXCEPT ![p] = i]
    BY <1>3 DEF BeginIngest
  <2>2. IsIngest(run'[p])
    BY <1>3, IngestBegins
  <2>3. \A q \in Runs : q # p => run'[q] = run[q]
    BY <1>0, <2>1
  <2>4. run' = [q \in Runs |-> run'[q]]
    BY <1>0, <2>1
  <2>5. \A q \in Runs : run'[q] # Stopped => IsIngest(run'[q])
    BY <1>0, <2>2, <2>3
  <2>6. UNCHANGED <<kind, source, minted, clock, ledger, cursor, rest>>
    BY <1>3 DEF BeginIngest
  <2> QED
    BY <1>0, <2>4, <2>5, <2>6 DEF IngestHolds
<1>4. ASSUME NEW p \in Runs, WriteRow(p) PROVE IngestHolds'
  <2>1. run' = [run EXCEPT ![p].writes = Tail(@)] /\ IsIngest(run'[p]) /\ IsLedger(ledger')
        /\ cursor' \in Nat
    BY <1>4, RowIsWritten
  <2>2. \A q \in Runs : q # p => run'[q] = run[q]
    BY <1>0, <2>1
  <2>3. run' = [q \in Runs |-> run'[q]]
    BY <1>0, <2>1
  <2>4. \A q \in Runs : run'[q] # Stopped => IsIngest(run'[q])
    BY <1>0, <2>1, <2>2
  <2>5. UNCHANGED <<kind, source, minted, clock, rest>>
    BY <1>4 DEF WriteRow
  <2> QED
    BY <1>0, <2>1, <2>3, <2>4, <2>5 DEF IngestHolds
<1>5. ASSUME NEW p \in Runs, FinishIngest(p) \/ Kill(p) PROVE IngestHolds'
  <2>1. run' = [run EXCEPT ![p] = Stopped]
    BY <1>5 DEF FinishIngest, Kill
  <2>2. /\ run' = [q \in Runs |-> run'[q]]
        /\ \A q \in Runs : run'[q] # Stopped => IsIngest(run'[q])
    BY <1>0, <2>1
  <2>3. rest' \in {Gone, source}
    BY <1>0, <1>5 DEF FinishIngest, Kill
  <2>4. UNCHANGED <<kind, source, minted, clock, ledger, cursor>>
    BY <1>5 DEF FinishIngest, Kill
  <2> QED
    BY <1>0, <2>2, <2>3, <2>4 DEF IngestHolds
<1>6. CASE UNCHANGED ingestVars
  BY <1>0, <1>6 DEF IngestHolds, ingestVars
<1> QED
  BY <1>1, <1>2, <1>3, <1>4, <1>5, <1>6 DEF IngestNext, SourceMoves, WorldMoves

-----------------------------------------------------------------------------
\* One ingest at a time.
OneRun == \A p, q \in Runs : p = q

\* All an ingest has yet to write would settle the ledger for what it read, and
\* a source at rest is settled.
SettledHolds ==
  kind \notin Ordered =>
    /\ \A p \in Runs : run[p] # Stopped =>
         /\ Pending(ledger, run[p].writes)
         /\ Settled(Due(ledger, run[p].writes), kind, run[p].reads)
    /\ rest # Gone => /\ Settled(Due(ledger, <<>>), kind, rest)
                      /\ \A p \in Runs : run[p] # Stopped => run[p].writes = <<>>

LEMMA SettledHoldsInit == IngestInit => SettledHolds
BY DEF IngestInit, SettledHolds

LEMMA SettledHoldsNext ==
  OneRun /\ IngestHolds /\ SettledHolds /\ [IngestNext]_ingestVars => SettledHolds'
<1> SUFFICES ASSUME OneRun, IngestHolds, SettledHolds, [IngestNext]_ingestVars, kind' \notin Ordered
             PROVE  /\ \A p \in Runs : run'[p] # Stopped =>
                         /\ Pending(ledger', run'[p].writes)
                         /\ Settled(Due(ledger', run'[p].writes), kind', run'[p].reads)
                    /\ rest' # Gone =>
                         /\ Settled(Due(ledger', <<>>), kind', rest')
                         /\ \A p \in Runs : run'[p] # Stopped => run'[p].writes = <<>>
  BY DEF SettledHolds
<1>0. /\ kind \in Kinds /\ clock \in Nat /\ cursor \in Nat /\ IsSource(source)
      /\ IsLedger(ledger) /\ rest \in {Gone, source} /\ run = [p \in Runs |-> run[p]]
  BY DEF IngestHolds
<1>1. CASE SourceMoves
  <2>1. kind' = kind /\ ledger' = ledger /\ run' = run /\ rest' = Gone
    BY <1>1, SourceMovesKeep
  <2> QED
    BY <2>1 DEF SettledHolds
<1>2. CASE WorldMoves
  <2>1. kind' = kind /\ ledger' = ledger /\ run' = run /\ rest' = rest
    BY <1>2, WorldMovesKeep
  <2> QED
    BY <2>1 DEF SettledHolds
<1>3. ASSUME NEW p \in Runs, NEW available \in BOOLEAN, NEW unitPresent \in BOOLEAN,
             BeginIngest(p, available, unitPresent)
      PROVE  /\ \A q \in Runs : run'[q] # Stopped =>
                  /\ Pending(ledger', run'[q].writes)
                  /\ Settled(Due(ledger', run'[q].writes), kind', run'[q].reads)
             /\ rest' # Gone =>
                  /\ Settled(Due(ledger', <<>>), kind', rest')
                  /\ \A q \in Runs : run'[q] # Stopped => run'[q].writes = <<>>
  <2>1. ledger' = ledger /\ kind' = kind /\ rest' = rest
    BY <1>3 DEF BeginIngest
  <2>2. PICK w : /\ Reconciles(kind, source, ledger, clock, w)
                 /\ run'[p].reads = source /\ run'[p].writes = w
                 /\ \A v \in ToSet(w) : IsWrite(v, ledger)
    BY <1>3, IngestBegins
  <2>3. Pending(ledger, w)
    BY <2>2 DEF Pending, Reconciles
  <2>4. Settled(Due(ledger, w), kind, source)
    BY <1>0, <2>1, <2>2, ReconcilingSettles
  <2>5. rest # Gone => Settled(Due(ledger, <<>>), kind, source) /\ rest = source
    BY <1>0, <2>1 DEF SettledHolds
  <2>6. rest # Gone => w = <<>>
    BY <1>0, <2>2, <2>5, SettledIsQuiet
  <2>7. \A q \in Runs : q = p
    BY DEF OneRun
  <2> QED
    BY <2>1, <2>2, <2>3, <2>4, <2>5, <2>6, <2>7
<1>4. ASSUME NEW p \in Runs, WriteRow(p)
      PROVE  /\ \A q \in Runs : run'[q] # Stopped =>
                  /\ Pending(ledger', run'[q].writes)
                  /\ Settled(Due(ledger', run'[q].writes), kind', run'[q].reads)
             /\ rest' = Gone
  <2>1. kind' = kind /\ rest' = rest
    BY <1>4 DEF WriteRow
  <2>2. /\ run[p].writes # <<>> /\ run[p] # Stopped
        /\ ledger' = WrittenTo(ledger, Head(run[p].writes), cursor)
        /\ run'[p].writes = Tail(run[p].writes) /\ run'[p].reads = run[p].reads
    BY <1>4, RowIsWritten
  <2>3. /\ Pending(ledger, run[p].writes)
        /\ Settled(Due(ledger, run[p].writes), kind, run[p].reads)
        /\ rest = Gone
    BY <2>1, <2>2 DEF SettledHolds
  <2>4. /\ Pending(ledger', Tail(run[p].writes))
        /\ Due(ledger', Tail(run[p].writes)) = Due(ledger, run[p].writes)
    BY <1>0, <2>2, <2>3, WritingKeepsDue
  <2>5. \A q \in Runs : q = p
    BY DEF OneRun
  <2> QED
    BY <2>1, <2>2, <2>3, <2>4, <2>5
<1>5. ASSUME NEW p \in Runs, FinishIngest(p)
      PROVE  /\ \A q \in Runs : run'[q] = Stopped
             /\ rest' # Gone => Settled(Due(ledger', <<>>), kind', rest')
  <2>1. /\ run[p] # Stopped /\ run[p].writes = <<>> /\ run' = [run EXCEPT ![p] = Stopped]
        /\ rest' = IF run[p].reads = source THEN source ELSE Gone
        /\ ledger' = ledger /\ kind' = kind
    BY <1>5 DEF FinishIngest
  <2>2. Settled(Due(ledger, <<>>), kind, run[p].reads)
    BY <2>1 DEF SettledHolds
  <2>3. \A q \in Runs : run'[q] = Stopped
    BY <1>0, <2>1 DEF OneRun
  <2> QED
    BY <2>1, <2>2, <2>3
<1>6. ASSUME NEW p \in Runs, Kill(p)
      PROVE  /\ \A q \in Runs : run'[q] = Stopped
             /\ rest' # Gone => Settled(Due(ledger', <<>>), kind', rest')
  <2>1. /\ run' = [run EXCEPT ![p] = Stopped]
        /\ ledger' = ledger /\ kind' = kind /\ rest' = rest
    BY <1>6 DEF Kill
  <2>2. \A q \in Runs : run'[q] = Stopped
    BY <1>0, <2>1 DEF OneRun
  <2> QED
    BY <2>1, <2>2 DEF SettledHolds
<1>7. CASE UNCHANGED ingestVars
  <2>1. kind' = kind /\ ledger' = ledger /\ run' = run /\ rest' = rest
    BY <1>7 DEF ingestVars
  <2> QED
    BY <2>1 DEF SettledHolds
<1>8. CASE \E p \in Runs : \E available, unitPresent \in BOOLEAN :
             BeginIngest(p, available, unitPresent)
  <2>1. PICK p \in Runs, available \in BOOLEAN, unitPresent \in BOOLEAN :
          BeginIngest(p, available, unitPresent)
    BY <1>8
  <2> QED
    BY <1>3, <2>1
<1>9. CASE \E p \in Runs : WriteRow(p)
  BY <1>4, <1>9
<1>10. CASE \E p \in Runs : FinishIngest(p) \/ Kill(p)
  BY <1>5, <1>6, <1>10
<1> QED
  BY <1>1, <1>2, <1>7, <1>8, <1>9, <1>10 DEF IngestNext, SourceMoves, WorldMoves

\* A run that was stopped and is not has begun an ingest.
LEMMA StartedIngest ==
  ASSUME NEW p \in Runs
  PROVE  /\ IngestHolds /\ [IngestNext]_ingestVars /\ run[p] = Stopped /\ run'[p] # Stopped
         => \E available, unitPresent \in BOOLEAN : BeginIngest(p, available, unitPresent)
<1> SUFFICES ASSUME IngestHolds, [IngestNext]_ingestVars, run[p] = Stopped, run'[p] # Stopped
             PROVE  \E available, unitPresent \in BOOLEAN : BeginIngest(p, available, unitPresent)
  OBVIOUS
<1>0. run = [q \in Runs |-> run[q]]
  BY DEF IngestHolds
<1>1. ~SourceMoves /\ ~WorldMoves
  BY SourceMovesKeep, WorldMovesKeep
<1>2. ASSUME NEW q \in Runs, WriteRow(q) PROVE FALSE
  <2>1. run' = [run EXCEPT ![q].writes = Tail(@)] /\ run[q] # Stopped
    BY <1>2 DEF WriteRow
  <2> QED
    BY <1>0, <2>1
<1>3. ASSUME NEW q \in Runs, FinishIngest(q) \/ Kill(q) PROVE FALSE
  <2>1. run' = [run EXCEPT ![q] = Stopped]
    BY <1>3 DEF FinishIngest, Kill
  <2> QED
    BY <1>0, <2>1
<1>4. ASSUME NEW q \in Runs, NEW available \in BOOLEAN, NEW unitPresent \in BOOLEAN,
             BeginIngest(q, available, unitPresent)
      PROVE  q = p
  <2>1. \E i : run' = [run EXCEPT ![q] = i]
    BY <1>4 DEF BeginIngest
  <2> QED
    BY <1>0, <2>1
<1>5. ~UNCHANGED ingestVars
  BY DEF ingestVars
<1> QED
  BY <1>1, <1>2, <1>3, <1>4, <1>5 DEF IngestNext, SourceMoves, WorldMoves

LEMMA RescanIsQuiet ==
  OneRun /\ IngestHolds /\ SettledHolds /\ [IngestNext]_ingestVars =>
    \A p \in Runs : /\ run[p] = Stopped /\ run'[p] # Stopped
                    /\ AtRest /\ kind \notin Ordered
                    => run'[p].writes = <<>>
<1> SUFFICES ASSUME OneRun, IngestHolds, SettledHolds, [IngestNext]_ingestVars, NEW p \in Runs,
                    run[p] = Stopped, run'[p] # Stopped, AtRest, kind \notin Ordered
             PROVE  run'[p].writes = <<>>
  OBVIOUS
<1>1. \E available, unitPresent \in BOOLEAN : BeginIngest(p, available, unitPresent)
  BY StartedIngest
<1>2. rest' = rest /\ kind' = kind /\ rest # Gone
  BY <1>1 DEF BeginIngest, AtRest
<1>3. SettledHolds'
  BY SettledHoldsNext
<1> QED
  BY <1>2, <1>3 DEF SettledHolds

-----------------------------------------------------------------------------
\* What is on the ledger or on its way there, and what the rows and the items of
\* the source say: bytes, their key and their time.
Tells(L, plans, t) ==
  t \in L \/ \E p \in Runs : plans[p] # Stopped /\ t \in ToSet(plans[p].writes)

Saying(t) == <<t.digest, t.key, t.asserted>>

Said(L, plans, src, s) ==
  (\E t : Tells(L, plans, t) /\ s = Saying(t)) \/ \E n \in Native(src) : s = ItemSays(src[n])

IsReceipt(k, t) == t.kind = k /\ Derivable(t)

\* Bytes are said one thing about.
OneSaying(L, plans, src) ==
  \A s, u : Said(L, plans, src, s) /\ Said(L, plans, src, u) /\ s[1] = u[1] => s = u
SaidOf(L, plans, src, n) == \A s : Said(L, plans, src, s) => s[1] \in 0..n

ReceiptsHold ==
  kind \in Ordered =>
    /\ \A t : Tells(ledger, run, t) => IsReceipt(kind, t)
    /\ SaidOf(ledger, run, source, minted) /\ OneSaying(ledger, run, source)

\* What an ingest will write says what the rows and the source said.
LEMMA WritesSayTheSame ==
  ASSUME NEW k \in Kinds, k \in Ordered, NEW src, IsSource(src), NEW L, IsLedger(L), NEW plans,
         \A t : Tells(L, plans, t) => IsReceipt(k, t), OneSaying(L, plans, src),
         NEW now, NEW w, Reconciles(k, src, L, now, w), NEW v \in ToSet(w)
  PROVE  IsReceipt(k, v) /\ Said(L, plans, src, Saying(v))
<1>1. AreRecords(k, src, RecordsOf(k, src))
  BY RecordsAreScanned
<1>2. ASSUME NEW r \in RecordsOf(k, src)
      PROVE  /\ r.kind = k /\ "reducer_owned" \notin r.attrs /\ r.disp # "CLOCK_SKEW"
             /\ Said(L, plans, src, <<r.digest, r.key, r.asserted>>)
  <2>1. r.native \in Native(src) /\ ScannedFrom(k, r.native, r) /\ ReceiptOf(src[r.native], r)
    BY <1>1 DEF AreRecords
  <2>2. <<r.digest, r.key, r.asserted>> = ItemSays(src[r.native])
    BY <2>1 DEF ReceiptOf, ItemSays
  <2> QED
    BY <2>1, <2>2 DEF ScannedFrom, ReceiptOf, Said
<1>3. ASSUME NEW o \in L
      PROVE  /\ o.kind = k /\ "reducer_owned" \notin o.attrs /\ o.disp # "CLOCK_SKEW"
             /\ Said(L, plans, src, Saying(o)) /\ IsRow(o)
  BY DEF Tells, IsReceipt, Derivable, Has, Said, IsLedger
<1>4. ASSUME NEW r \in RecordsOf(k, src), Refreshes(v, L, r, now)
      PROVE  IsReceipt(k, v) /\ Said(L, plans, src, Saying(v))
  <2>1. PICK o \in L : Id(o) = Id(r) /\ v = Reobserved(o, r, now)
    BY <1>4 DEF Refreshes
  <2>2. o.digest = r.digest
    BY <2>1 DEF Id
  <2>3. Saying(o) = <<r.digest, r.key, r.asserted>>
    <3>1. Saying(o)[1] = <<r.digest, r.key, r.asserted>>[1]
      BY <2>2 DEF Saying
    <3> QED
      BY <1>2, <1>3, <3>1 DEF OneSaying
  <2>4. o.key = r.key
    BY <2>3 DEF Saying
  <2>5. /\ v.kind = o.kind /\ v.digest = o.digest /\ v.asserted = o.asserted /\ v.key = r.key
        /\ v.disp = r.disp
        /\ v.attrs = r.attrs \cup (o.attrs \cap {"renamed_from", "reducer_owned"})
    BY <1>3, <2>1 DEF Reobserved, IsRow
  <2>6. Saying(v) = Saying(o)
    BY <2>4, <2>5 DEF Saying
  <2> QED
    BY <1>2, <1>3, <2>5, <2>6 DEF IsReceipt, Derivable, Has
<1>5. ASSUME NEW r \in RecordsOf(k, src), Inserts(v, L, r, now)
      PROVE  IsReceipt(k, v) /\ Said(L, plans, src, Saying(v))
  <2>1. PICK marks \in SUBSET {"renamed_from"} : v = Row(r, now, LifeOf(r), marks)
    BY <1>5 DEF Inserts
  <2>2. /\ v.kind = r.kind /\ v.disp = r.disp /\ v.attrs = r.attrs \cup marks
        /\ v.digest = r.digest /\ v.key = r.key /\ v.asserted = r.asserted
    BY <2>1 DEF Row
  <2> QED
    BY <1>2, <2>2 DEF IsReceipt, Derivable, Has, Saying
<1>6. ASSUME NEW o \in L, NEW life, v = Retired(o, life)
      PROVE  IsReceipt(k, v) /\ Said(L, plans, src, Saying(v))
  <2>1. /\ v.kind = o.kind /\ v.disp = o.disp /\ v.attrs = o.attrs
        /\ v.digest = o.digest /\ v.key = o.key /\ v.asserted = o.asserted
    BY <1>3, <1>6 DEF Retired, IsRow
  <2> QED
    BY <1>3, <2>1 DEF IsReceipt, Derivable, Has, Saying
<1>7. CASE \E r \in RecordsOf(k, src) : WrittenFor(v, L, r, now)
  BY <1>4, <1>5, <1>6, <1>7 DEF WrittenFor, Supersedes
<1>8. CASE Retires(v, L, PresentIn(k, src), {"renamed", "retracted", "absent"})
  BY <1>6, <1>8 DEF Retires
<1> QED
  BY <1>7, <1>8 DEF Reconciles

\* Where all that is told was told or is one of some new rows that say the same.
LEMMA ReceiptsCarryOver ==
  ASSUME NEW k, NEW L, NEW plans, NEW src, NEW n, NEW M, NEW gone,
         \A t : Tells(L, plans, t) => IsReceipt(k, t),
         SaidOf(L, plans, src, n), OneSaying(L, plans, src),
         \A t : Tells(M, gone, t) => IsReceipt(k, t) /\ Said(L, plans, src, Saying(t))
  PROVE  /\ \A t : Tells(M, gone, t) => IsReceipt(k, t)
         /\ SaidOf(M, gone, src, n) /\ OneSaying(M, gone, src)
<1>1. \A s : Said(M, gone, src, s) => Said(L, plans, src, s)
  BY DEF Said
<1> QED
  BY <1>1 DEF SaidOf, OneSaying

LEMMA ReceiptsHoldInit == IngestInit => ReceiptsHold
<1> SUFFICES ASSUME IngestInit PROVE ReceiptsHold
  OBVIOUS
<1>1. /\ \A t : ~Tells(ledger, run, t)
      /\ Native(source) = {}
  BY DEF IngestInit, Tells, Native
<1> QED
  BY <1>1 DEF ReceiptsHold, SaidOf, OneSaying, Said

\* A row of the ledger says what was told before it was written.
LEMMA LedgerWasTold ==
  IngestHolds /\ [IngestNext]_ingestVars =>
    \A o \in ledger' : \E t : /\ Tells(ledger, run, t) /\ Saying(t) = Saying(o)
                              /\ o.kind = t.kind /\ o.attrs = t.attrs /\ o.disp = t.disp
<1> SUFFICES ASSUME IngestHolds, [IngestNext]_ingestVars, NEW o \in ledger'
             PROVE  \E t : /\ Tells(ledger, run, t) /\ Saying(t) = Saying(o)
                           /\ o.kind = t.kind /\ o.attrs = t.attrs /\ o.disp = t.disp
  OBVIOUS
<1>1. CASE ledger' = ledger
  BY <1>1 DEF Tells
<1>2. ASSUME NEW p \in Runs, WriteRow(p)
      PROVE  \E t : /\ Tells(ledger, run, t) /\ Saying(t) = Saying(o)
                    /\ o.kind = t.kind /\ o.attrs = t.attrs /\ o.disp = t.disp
  <2> DEFINE v == Head(run[p].writes)
  <2>1. /\ run[p] # Stopped /\ IsRow(v) /\ v \in ToSet(run[p].writes)
        /\ ledger' = WrittenTo(ledger, v, cursor)
    BY <1>2, RowIsWritten
  <2>2. IsLedger(ledger) /\ cursor \in Nat
    BY DEF IngestHolds
  <2> HIDE DEF v
  <2>3. o \in ledger \/ o = Placed(v, cursor) \/ o = v
    BY <2>1, <2>2, WrittenRows
  <2>4. Tells(ledger, run, v)
    BY <2>1 DEF Tells
  <2>5. CASE o \in ledger
    BY <2>5 DEF Tells
  <2>6. CASE o = v
    BY <2>4, <2>6
  <2>7. CASE o = Placed(v, cursor)
    <3>1. /\ o.digest = v.digest /\ o.key = v.key /\ o.asserted = v.asserted
          /\ o.kind = v.kind /\ o.attrs = v.attrs /\ o.disp = v.disp
      BY <2>1, <2>2, <2>7, PlacedIsRow
    <3>2. Saying(v) = Saying(o)
      BY <3>1 DEF Saying
    <3> QED
      BY <2>4, <3>1, <3>2
  <2> QED
    BY <2>3, <2>5, <2>6, <2>7
<1>3. CASE SourceMoves \/ WorldMoves
  BY <1>1, <1>3, SourceMovesKeep, WorldMovesKeep
<1>4. ASSUME NEW p \in Runs, NEW available, NEW unitPresent,
             BeginIngest(p, available, unitPresent) \/ FinishIngest(p) \/ Kill(p)
      PROVE  ledger' = ledger
  BY <1>4 DEF BeginIngest, FinishIngest, Kill
<1>5. CASE UNCHANGED ingestVars
  BY <1>1, <1>5 DEF ingestVars
<1> QED
  BY <1>1, <1>2, <1>3, <1>4, <1>5 DEF IngestNext, SourceMoves, WorldMoves

\* What a change of the source leaves true of the receipts.
LEMMA ReceiptsOfChange ==
  ASSUME NEW L, NEW plans, NEW src, NEW n \in Nat, NEW to, NEW m \in Nat,
         SaidOf(L, plans, src, n), OneSaying(L, plans, src),
         \/ m = n /\ \A i \in Native(to) : i \in Native(src) /\ to[i] = src[i]
         \/ m = n + 1 /\ \A i, j \in Native(to) :
              \/ i \in Native(src) /\ to[i] = src[i]
              \/ to[i].digest = m /\ (to[j].digest = m =>
                   j = i \/ (j \in Native(src) /\ to[j] = src[j]))
  PROVE  SaidOf(L, plans, to, m) /\ OneSaying(L, plans, to)
<1>1. ASSUME NEW s, Said(L, plans, to, s), ~Said(L, plans, src, s)
      PROVE  m = n + 1 /\ s[1] = m
  <2>1. PICK i \in Native(to) : s = ItemSays(to[i])
    BY <1>1 DEF Said
  <2>2. ~(i \in Native(src) /\ to[i] = src[i])
    BY <1>1, <2>1 DEF Said
  <2>3. s[1] = to[i].digest
    BY <2>1 DEF ItemSays
  <2> QED
    BY <2>2, <2>3
<1>2. ASSUME NEW s, Said(L, plans, to, s) PROVE s[1] \in 0..m
  <2>1. CASE Said(L, plans, src, s)
    <3>1. s[1] \in 0..n
      BY <2>1 DEF SaidOf
    <3> QED
      BY <3>1
  <2>2. CASE ~Said(L, plans, src, s)
    BY <1>1, <1>2, <2>2
  <2> QED
    BY <2>1, <2>2
<1>3. ASSUME NEW s, NEW u, Said(L, plans, to, s), Said(L, plans, to, u), s[1] = u[1]
      PROVE  s = u
  <2>1. CASE Said(L, plans, src, s) /\ Said(L, plans, src, u)
    BY <1>3, <2>1 DEF OneSaying
  <2>2. CASE Said(L, plans, src, s) /\ ~Said(L, plans, src, u)
    <3>1. s[1] \in 0..n /\ m = n + 1 /\ u[1] = m
      BY <1>1, <1>3, <2>2 DEF SaidOf
    <3> QED
      BY <1>3, <3>1
  <2>3. CASE ~Said(L, plans, src, s) /\ Said(L, plans, src, u)
    <3>1. u[1] \in 0..n /\ m = n + 1 /\ s[1] = m
      BY <1>1, <1>3, <2>3 DEF SaidOf
    <3> QED
      BY <1>3, <3>1
  <2>4. CASE ~Said(L, plans, src, s) /\ ~Said(L, plans, src, u)
    <3>1. PICK i \in Native(to) : s = ItemSays(to[i])
      BY <1>3, <2>4 DEF Said
    <3>2. PICK j \in Native(to) : u = ItemSays(to[j])
      BY <1>3, <2>4 DEF Said
    <3>3. /\ ~(i \in Native(src) /\ to[i] = src[i])
          /\ ~(j \in Native(src) /\ to[j] = src[j])
      BY <2>4, <3>1, <3>2 DEF Said
    <3>4. u[1] = to[j].digest
      BY <3>2 DEF ItemSays
    <3>5. m = n + 1 /\ u[1] = m
      BY <1>1, <1>3, <2>4
    <3>6. i = j
      BY <3>3, <3>4, <3>5
    <3> QED
      BY <3>1, <3>2, <3>6
  <2> QED
    BY <2>1, <2>2, <2>3, <2>4
<1> QED
  BY <1>2, <1>3 DEF SaidOf, OneSaying

LEMMA ReceiptsHoldNext == IngestHolds /\ ReceiptsHold /\ [IngestNext]_ingestVars => ReceiptsHold'
<1> SUFFICES ASSUME IngestHolds, ReceiptsHold, [IngestNext]_ingestVars, kind' \in Ordered
             PROVE  /\ \A t : Tells(ledger', run', t) => IsReceipt(kind', t)
                    /\ SaidOf(ledger', run', source', minted')
                    /\ OneSaying(ledger', run', source')
  BY DEF ReceiptsHold
<1>0. /\ kind \in Kinds /\ IsSource(source) /\ IsLedger(ledger) /\ minted \in Nat
      /\ run = [p \in Runs |-> run[p]]
  BY DEF IngestHolds
<1>1. kind' = kind
  BY SourceMovesKeep, WorldMovesKeep
     DEF IngestNext, ingestVars, BeginIngest, WriteRow, FinishIngest, Kill, SourceMoves, WorldMoves
<1>2. /\ \A t : Tells(ledger, run, t) => IsReceipt(kind, t)
      /\ SaidOf(ledger, run, source, minted) /\ OneSaying(ledger, run, source)
  BY <1>1 DEF ReceiptsHold
<1>3. CASE SourceMoves
  <2>1. ledger' = ledger /\ run' = run /\ minted' \in Nat
    BY <1>3, SourceMovesKeep
  <2>2. \/ minted' = minted /\ \A m \in Native(source') : m \in Native(source)
                                                          /\ source'[m] = source[m]
        \/ minted' = minted + 1 /\ \A m, l \in Native(source') :
             \/ m \in Native(source) /\ source'[m] = source[m]
             \/ source'[m].digest = minted' /\ (source'[l].digest = minted' =>
                  l = m \/ (l \in Native(source) /\ source'[l] = source[l]))
    BY <1>1, <1>3, SourceMovesKeep
  <2>3. PICK to : to = source'
    OBVIOUS
  <2>4. PICK n : n = minted'
    OBVIOUS
  <2>5. SaidOf(ledger, run, to, n) /\ OneSaying(ledger, run, to)
    BY <1>0, <1>2, <2>1, <2>2, <2>3, <2>4, ReceiptsOfChange
  <2> QED
    BY <1>1, <1>2, <2>1, <2>3, <2>4, <2>5
<1>4. CASE /\ source' = source /\ minted' = minted
           /\ \A t : Tells(ledger', run', t) =>
                IsReceipt(kind, t) /\ Said(ledger, run, source, Saying(t))
  <2>1. PICK M : M = ledger'
    OBVIOUS
  <2>2. PICK gone : gone = run'
    OBVIOUS
  <2>3. /\ \A t : Tells(M, gone, t) => IsReceipt(kind, t)
        /\ SaidOf(M, gone, source, minted) /\ OneSaying(M, gone, source)
    BY <1>2, <1>4, <2>1, <2>2, ReceiptsCarryOver
  <2> QED
    BY <1>1, <1>4, <2>1, <2>2, <2>3
<1>5. \A t : Tells(ledger, run, t) =>
        IsReceipt(kind, t) /\ Said(ledger, run, source, Saying(t))
  BY <1>2 DEF Said
<1>6. ASSUME WorldMoves \/ UNCHANGED ingestVars
      PROVE  /\ source' = source /\ minted' = minted
             /\ \A t : Tells(ledger', run', t) =>
                  IsReceipt(kind, t) /\ Said(ledger, run, source, Saying(t))
  <2>1. source' = source /\ minted' = minted /\ ledger' = ledger /\ run' = run
    BY <1>6, WorldMovesKeep DEF ingestVars
  <2> QED
    BY <1>5, <2>1
<1>7. ASSUME NEW p \in Runs, NEW available \in BOOLEAN, NEW unitPresent \in BOOLEAN,
             BeginIngest(p, available, unitPresent)
      PROVE  /\ source' = source /\ minted' = minted
             /\ \A t : Tells(ledger', run', t) =>
                  IsReceipt(kind, t) /\ Said(ledger, run, source, Saying(t))
  <2>1. source' = source /\ minted' = minted /\ ledger' = ledger
    BY <1>7 DEF BeginIngest
  <2>2. PICK w : Reconciles(kind, source, ledger, clock, w) /\ run'[p].writes = w
    BY <1>7, IngestBegins
  <2>3. \A q \in Runs : q # p => run'[q] = run[q]
    BY <1>0, <1>7 DEF BeginIngest
  <2>4. ASSUME NEW t \in ToSet(w)
        PROVE  IsReceipt(kind, t) /\ Said(ledger, run, source, Saying(t))
    BY <1>0, <1>1, <1>2, <2>2, WritesSayTheSame
  <2>5. ASSUME NEW t, Tells(ledger', run', t)
        PROVE  Tells(ledger, run, t) \/ t \in ToSet(w)
    BY <2>1, <2>2, <2>3, <2>5 DEF Tells
  <2> QED
    BY <1>5, <2>1, <2>4, <2>5
<1>8. ASSUME NEW p \in Runs, WriteRow(p)
      PROVE  /\ source' = source /\ minted' = minted
             /\ \A t : Tells(ledger', run', t) =>
                  IsReceipt(kind, t) /\ Said(ledger, run, source, Saying(t))
  <2>1. source' = source /\ minted' = minted
    BY <1>8 DEF WriteRow
  <2>2. /\ Sequenced(run[p].writes) /\ run[p].writes # <<>> /\ run[p] # Stopped
        /\ run' = [run EXCEPT ![p].writes = Tail(@)]
        /\ run'[p].writes = Tail(run[p].writes)
    BY <1>8, RowIsWritten
  <2>3. \A t \in ToSet(Tail(run[p].writes)) : t \in ToSet(run[p].writes)
    BY <2>2, HeadAndTail
  <2>4. \A q \in Runs : q # p => run'[q] = run[q]
    BY <1>0, <2>2
  <2>5. ASSUME NEW t \in ledger'
        PROVE  IsReceipt(kind, t) /\ Said(ledger, run, source, Saying(t))
    <3>1. PICK u : /\ Tells(ledger, run, u) /\ Saying(u) = Saying(t)
                   /\ t.kind = u.kind /\ t.attrs = u.attrs /\ t.disp = u.disp
      BY <2>5, LedgerWasTold
    <3>2. IsReceipt(kind, u) /\ Said(ledger, run, source, Saying(u))
      BY <1>5, <3>1
    <3> QED
      BY <3>1, <3>2 DEF IsReceipt, Derivable, Has
  <2>6. ASSUME NEW t, Tells(ledger', run', t), t \notin ledger'
        PROVE  Tells(ledger, run, t)
    BY <2>2, <2>3, <2>4, <2>6 DEF Tells
  <2> QED
    BY <1>5, <2>1, <2>5, <2>6
<1>9. ASSUME NEW p \in Runs, FinishIngest(p) \/ Kill(p)
      PROVE  /\ source' = source /\ minted' = minted
             /\ \A t : Tells(ledger', run', t) =>
                  IsReceipt(kind, t) /\ Said(ledger, run, source, Saying(t))
  <2>1. /\ source' = source /\ minted' = minted /\ ledger' = ledger
        /\ run' = [run EXCEPT ![p] = Stopped]
    BY <1>9 DEF FinishIngest, Kill
  <2>2. \A q \in Runs : run'[q] # Stopped => run'[q] = run[q]
    BY <1>0, <2>1
  <2>3. \A t : Tells(ledger', run', t) => Tells(ledger, run, t)
    BY <2>1, <2>2 DEF Tells
  <2> QED
    BY <1>5, <2>1, <2>3
<1> QED
  BY <1>3, <1>4, <1>6, <1>7, <1>8, <1>9 DEF IngestNext, SourceMoves, WorldMoves

LEMMA NoOlderReceiptStep ==
  IngestHolds /\ ReceiptsHold /\ IngestHolds' /\ ReceiptsHold' /\ [IngestNext]_ingestVars
    => NoOlderReceipt
<1> SUFFICES ASSUME IngestHolds, ReceiptsHold, IngestHolds', ReceiptsHold',
                    [IngestNext]_ingestVars, kind \in Ordered,
                    NEW key \in {o.key : o \in ledger}, NEW id \in {Id(o) : o \in ledger},
                    id \in HeadOf(key, View), NEW later \in HeadOf(key, View'),
                    NEW before \in AssertedAt(ledger', id), NEW after \in AssertedAt(ledger', later)
             PROVE  before <= after
  BY DEF NoOlderReceipt
<1>1. kind' = kind
  BY SourceMovesKeep, WorldMovesKeep
     DEF IngestNext, ingestVars, BeginIngest, WriteRow, FinishIngest, Kill, SourceMoves, WorldMoves
<1>2. IsLedger(ledger) /\ AreReceipts(kind, ledger) /\ OneSaying(ledger, run, source)
  BY DEF IngestHolds, ReceiptsHold, AreReceipts, Tells, IsReceipt
<1>3. PICK M : M = ledger'
  OBVIOUS
<1>4. IsLedger(M) /\ AreReceipts(kind, M)
  BY <1>1, <1>3 DEF IngestHolds, ReceiptsHold, AreReceipts, Tells, IsReceipt
<1>5. PICK h \in ledger : id = Id(h) /\ h.key = key
  <2>1. PICK f \in View : f.key = key /\ f.fact = "current" /\ id = f.row
    BY DEF HeadOf
  <2>2. \E h \in ledger : f.row = Id(h) /\ f.key = h.key
    BY <1>2, <2>1, HeadIsNewest DEF View
  <2> QED
    BY <2>1, <2>2
<1>6. PICK g \in M : /\ later = Id(g) /\ g.key = key
                     /\ \A o \in M : Stands(o) /\ o.key = key => o.asserted <= g.asserted
  <2>1. PICK f \in View' : f.key = key /\ f.fact = "current" /\ later = f.row
    BY DEF HeadOf
  <2>2. PICK t, now : f \in Derive(M, t, now)
    BY <1>3 DEF View
  <2>3. \E g \in M : /\ Stands(g) /\ f.row = Id(g) /\ f.key = g.key
                     /\ \A o \in M : Stands(o) /\ o.key = g.key => o.asserted <= g.asserted
    BY <1>4, <2>1, <2>2, HeadIsNewest
  <2> QED
    BY <2>1, <2>3
<1>7. PICK b \in M : Id(b) = id /\ Stands(b) /\ before = b.asserted
  BY <1>3 DEF AssertedAt
<1>8. b.key = key
  <2>1. PICK t : Tells(ledger, run, t) /\ Saying(t) = Saying(b)
    BY <1>3, <1>7, LedgerWasTold
  <2>2. Said(ledger, run, source, Saying(b)) /\ Said(ledger, run, source, Saying(h))
    BY <1>5, <2>1 DEF Said, Tells
  <2>3. b.digest = h.digest
    BY <1>5, <1>7 DEF Id
  <2>4. Saying(b)[1] = Saying(h)[1]
    BY <2>3 DEF Saying
  <2>5. Saying(b) = Saying(h)
    BY <1>2, <2>2, <2>4 DEF OneSaying
  <2> QED
    BY <1>5, <2>5 DEF Saying
<1>9. PICK a \in M : Id(a) = later /\ after = a.asserted
  BY <1>3 DEF AssertedAt
<1>10. a = g
  BY <1>4, <1>6, <1>9 DEF IsLedger, OneToAnId
<1> QED
  BY <1>6, <1>7, <1>8, <1>9, <1>10

-----------------------------------------------------------------------------
(* NewestReceiptStays: however many ingests of a source overlap, the       *)
(* current fact about a test or a runtime signal never passes to an older  *)
(* receipt while the newer one's row stands.                               *)
THEOREM NewestReceiptStaysAlways == IngestSpec => NewestReceiptStays
<1>1. IngestInit => IngestHolds /\ ReceiptsHold
  BY IngestHoldsInit, ReceiptsHoldInit
<1>2. IngestHolds /\ ReceiptsHold /\ [IngestNext]_ingestVars => (IngestHolds /\ ReceiptsHold)'
  BY IngestHoldsNext, ReceiptsHoldNext
<1>3. IngestHolds /\ ReceiptsHold /\ (IngestHolds /\ ReceiptsHold)' /\ [IngestNext]_ingestVars
        => [NoOlderReceipt]_ingestVars
  BY NoOlderReceiptStep
<1> QED
  BY <1>1, <1>2, <1>3, PTL DEF IngestSpec, NewestReceiptStays

(* ObservationsStand, where ingests of a source do not overlap: a scan of  *)
(* a source nobody has changed since it was ingested writes nothing, and   *)
(* no observation is overtaken by an older one.                            *)
THEOREM ObservationsStandAlways == OneRun => (IngestSpec => ObservationsStand)
<1> SUFFICES ASSUME OneRun PROVE IngestSpec => ObservationsStand
  OBVIOUS
<1> DEFINE Quiet == \A p \in Runs : /\ run[p] = Stopped /\ run'[p] # Stopped
                                    /\ AtRest /\ kind \notin Ordered
                                    => run'[p].writes = <<>>
<1>1. IngestInit => IngestHolds /\ SettledHolds
  BY IngestHoldsInit, SettledHoldsInit
<1>2. IngestHolds /\ SettledHolds /\ [IngestNext]_ingestVars => (IngestHolds /\ SettledHolds)'
  BY IngestHoldsNext, SettledHoldsNext
<1>3. IngestHolds /\ SettledHolds /\ [IngestNext]_ingestVars => Quiet
  BY RescanIsQuiet
<1> HIDE DEF Quiet
<1>4. IngestHolds /\ SettledHolds /\ [IngestNext]_ingestVars => [Quiet]_ingestVars
  BY <1>3
<1>5. IngestSpec => [][Quiet]_ingestVars
  BY <1>1, <1>2, <1>4, PTL DEF IngestSpec
<1>6. IngestSpec => RescanWritesNothing
  BY <1>5 DEF Quiet, RescanWritesNothing
<1> QED
  BY <1>6, NewestReceiptStaysAlways DEF ObservationsStand

-----------------------------------------------------------------------------
(* What is current of a source at rest *)

\* The kinds whose items are keys of their own: transcripts, repository files,
\* exports, commits, GitHub items and Kindex nodes.
OwnKeyed ==
  Personal \cup RepositoryFiles \cup Exports \cup {"git_history", "github_export", "kindex"}

\* The words a native system of these kinds uses, and the places Git knows.
Worded(k, i) ==
  /\ k \in Personal => i.state \in {"line", "terminal", "not JSON"}
  /\ k \in RepositoryFiles => i.place \in {"dirty", "default", "merged-pr", "branch"}
  /\ k = "issue_tracker" => i.state \notin {"merged", "accepted"}
  /\ k = "pull_request" => i.state \notin {"completed", "accepted"}
  /\ k = "chat_thread" => i.state \notin {"completed", "merged", "accepted"}
  /\ k = "document" =>
       i.state \in IneligibleDispositions
                     \cup {"accepted", "completed", "merged", "unstated", "not JSON"}
  /\ k = "kindex" =>
       /\ i.state \in {"accepted", "retracted", "superseded", "manifest_observation_expired"}
       /\ i.marks \subseteq {"contradicts", "superseded_by", "not active", "not for the team"}
       /\ i.until \in Nat

\* Items of these kinds are named by their identity and worded by their system.
OwnForms ==
  \A k \in Kinds \cap OwnKeyed : \A f \in Forms[k] : f.subject = 0 /\ Worded(k, f)

\* What is absent is no origin and no answer of the registry.
AbsentIsApart == None # "unreviewed-branch" /\ Unread \notin SUBSET {OwnKey}

\* What the row of an item is about, where a scan does not refresh it.
WordOf(k, i) ==
  IF k = "git_history" THEN i.state ELSE IF i.state = "terminal" THEN "observation" ELSE "claim"
AtomKinds == Personal \cup {"git_history"}

ItemFits(k, n, i) == i.subject = n /\ i.digest # 0 /\ Worded(k, i)
Fitting(k, src) == \A n \in Native(src) : ItemFits(k, n, src[n])

RecordFits(k, i, r) ==
  /\ r.kind = k /\ r.key = r.native /\ r.signer = None /\ "reducer_owned" \notin r.attrs
  /\ r.at => k \in RepositoryFiles
  /\ ~r.at => r.digest = i.digest
  /\ k \in AtomKinds => r.atom = WordOf(k, i)
  /\ k # "github_export" => r.present

\* The record of an item itself, rather than of a branch's copy.
MainRecord(k, i, n) ==
  CASE k = "repo_code" -> Record(k, n, i, "claim", "current", OriginTrust(i))
    [] k = "docs_adr" -> Record(k, n, i, "decision", AdrStatus(i), OriginTrust(i))
    [] k \in Personal ->
         [Record(k, n, i, IF i.state = "terminal" THEN "observation" ELSE "claim",
                 IF i.state = "terminal" THEN "terminal" ELSE "current", "personal-host")
            EXCEPT !.scope = "host-session",
                   !.attrs = i.marks \cap {"edited", "resumed_from", "raw_withheld"}]
    [] k \in Exports -> Record(k, n, i, "claim", ExportDisposition(k, i), "merged-default")
    [] k = "git_history" ->
         [Record(k, n, i, i.state, GitDisposition(i), GitOrigin(i))
            EXCEPT !.attrs = i.marks \cap {"reverted_by", "reverts", "skew_bounded"}]
    [] k = "github_export" ->
         [Record(k, n, i, "decision", GithubDisposition(i), OriginTrust(i))
            EXCEPT !.present = "newest snapshot" \in i.marks, !.attrs = i.marks \cap {"edited"}]
    [] OTHER ->
         [Record(k, n, i, "claim", i.state, OriginTrust(i))
            EXCEPT !.until = i.until, !.parents = i.parents,
                   !.attrs = i.marks \cap {"contradicts", "superseded_by"}]

\* The items a scan reads no record of.
Unscanned(k, i) ==
  \/ k \in Personal /\ (i.state = "not JSON" \/ "oversized" \in i.marks)
  \/ k \in Exports /\ i.state = "not JSON"
  \/ k = "git_history" /\ "outside window" \in i.marks /\ i.state # "ref"
  \/ k = "kindex" /\ ("not active" \in i.marks \/ "not for the team" \in i.marks)

\* A scan reads the record of an item and, of a repository file, a branch's copy.
LEMMA OwnScan ==
  ASSUME NEW k \in OwnKeyed, NEW src, NEW n, src[n].digest # 0
  PROVE  LET i == src[n]
             own == IF Unscanned(k, i) THEN {} ELSE {MainRecord(k, i, n)}
         IN  /\ k \notin RepositoryFiles => ScanItem(k, src, n) = own
             /\ k \in RepositoryFiles =>
                  \E disp, atom : ScanItem(k, src, n) = own \cup BranchCopy(k, n, i, atom, disp)
<1> DEFINE i == src[n]
           m == MainRecord(k, i, n)
<1>0. i.digest # 0
  OBVIOUS
<1> HIDE DEF i
<1>1. CASE k = "repo_code"
  <2>1. ScanItem(k, src, n) = ScanRepoCode(n, i)
    BY <1>1 DEF ScanItem, i, Personal, Exports
  <2>2. m = Record("repo_code", n, i, "claim", "current", OriginTrust(i)) /\ ~Unscanned(k, i)
    BY <1>1 DEF MainRecord, Unscanned, Personal, Exports
  <2>3. {i.digest} \ {0} = {i.digest}
    BY <1>0
  <2> HIDE DEF m
  <2>4. ScanRepoCode(n, i) = {m} \cup BranchCopy(k, n, i, "claim", "current")
    BY <1>1, <2>2, <2>3 DEF ScanRepoCode
  <2> QED
    BY <1>1, <2>1, <2>2, <2>4 DEF RepositoryFiles, m, i
<1>2. CASE k = "docs_adr"
  <2>1. ScanItem(k, src, n) = ScanDocsAdr(n, i)
    BY <1>2 DEF ScanItem, i, Personal, Exports
  <2>2. m = Record("docs_adr", n, i, "decision", AdrStatus(i), OriginTrust(i)) /\ ~Unscanned(k, i)
    BY <1>2 DEF MainRecord, Unscanned, Personal, Exports
  <2>3. {i.digest} \ {0} = {i.digest}
    BY <1>0
  <2> HIDE DEF m
  <2>4. ScanDocsAdr(n, i) = {m} \cup BranchCopy(k, n, i, "decision", AdrStatus(i))
    BY <1>2, <2>2, <2>3 DEF ScanDocsAdr
  <2> QED
    BY <1>2, <2>1, <2>2, <2>4 DEF RepositoryFiles, m, i
<1>3. CASE k \in Personal
  <2>1. ScanItem(k, src, n) = ScanTranscript(k, n, i)
    BY <1>3 DEF ScanItem, i, Personal, Exports
  <2>2. m = [Record(k, n, i, IF i.state = "terminal" THEN "observation" ELSE "claim",
                    IF i.state = "terminal" THEN "terminal" ELSE "current", "personal-host")
               EXCEPT !.scope = "host-session",
                      !.attrs = i.marks \cap {"edited", "resumed_from", "raw_withheld"}]
    BY <1>3 DEF MainRecord, Personal, Exports
  <2>3. Unscanned(k, i) <=> i.state = "not JSON" \/ "oversized" \in i.marks
    BY <1>3 DEF Unscanned, Personal, Exports
  <2> HIDE DEF m
  <2>4. ScanTranscript(k, n, i) = IF Unscanned(k, i) THEN {} ELSE {m}
    BY <2>2, <2>3 DEF ScanTranscript
  <2> QED
    BY <1>3, <2>1, <2>4 DEF Personal, RepositoryFiles, m, i
<1>4. CASE k \in Exports
  <2>1. ScanItem(k, src, n) = ScanExport(k, n, i)
    BY <1>4 DEF ScanItem, i, Personal, Exports
  <2>2. m = Record(k, n, i, "claim", ExportDisposition(k, i), "merged-default")
    BY <1>4 DEF MainRecord, Personal, Exports
  <2>3. Unscanned(k, i) <=> i.state = "not JSON"
    BY <1>4 DEF Unscanned, Personal, Exports
  <2> HIDE DEF m
  <2>4. ScanExport(k, n, i) = IF Unscanned(k, i) THEN {} ELSE {m}
    BY <2>2, <2>3 DEF ScanExport
  <2> QED
    BY <1>4, <2>1, <2>4 DEF Exports, RepositoryFiles, m, i
<1>5. CASE k = "git_history"
  <2>1. ScanItem(k, src, n) = ScanGit(n, i)
    BY <1>5 DEF ScanItem, i, Personal, Exports
  <2>2. m = [Record("git_history", n, i, i.state, GitDisposition(i), GitOrigin(i))
               EXCEPT !.attrs = i.marks \cap {"reverted_by", "reverts", "skew_bounded"}]
    BY <1>5 DEF MainRecord, Personal, Exports
  <2>3. Unscanned(k, i) <=> "outside window" \in i.marks /\ i.state # "ref"
    BY <1>5 DEF Unscanned, Personal, Exports
  <2> HIDE DEF m
  <2>4. ScanGit(n, i) = IF Unscanned(k, i) THEN {} ELSE {m}
    BY <2>2, <2>3 DEF ScanGit
  <2> QED
    BY <1>5, <2>1, <2>4 DEF RepositoryFiles, m, i
<1>6. CASE k = "github_export"
  <2>1. ScanItem(k, src, n) = ScanGithub(n, i)
    BY <1>6 DEF ScanItem, i, Personal, Exports
  <2>2. m = [Record("github_export", n, i, "decision", GithubDisposition(i), OriginTrust(i))
               EXCEPT !.present = "newest snapshot" \in i.marks, !.attrs = i.marks \cap {"edited"}]
    BY <1>6 DEF MainRecord, Personal, Exports
  <2>3. ~Unscanned(k, i)
    BY <1>6 DEF Unscanned, Personal, Exports
  <2> HIDE DEF m
  <2>4. ScanGithub(n, i) = {m}
    BY <2>2, <2>3 DEF ScanGithub
  <2> QED
    BY <1>6, <2>1, <2>3, <2>4 DEF RepositoryFiles, m, i
<1>7. CASE k = "kindex"
  <2>1. ScanItem(k, src, n) = ScanKindex(n, i)
    BY <1>7 DEF ScanItem, i, Personal, Exports
  <2>2. m = [Record("kindex", n, i, "claim", i.state, OriginTrust(i))
               EXCEPT !.until = i.until, !.parents = i.parents,
                      !.attrs = i.marks \cap {"contradicts", "superseded_by"}]
    BY <1>7 DEF MainRecord, Personal, Exports
  <2>3. Unscanned(k, i) <=> "not active" \in i.marks \/ "not for the team" \in i.marks
    BY <1>7 DEF Unscanned, Personal, Exports
  <2> HIDE DEF m
  <2>4. ScanKindex(n, i) = IF Unscanned(k, i) THEN {} ELSE {m}
    BY <2>2, <2>3 DEF ScanKindex
  <2> QED
    BY <1>7, <2>1, <2>4 DEF RepositoryFiles, m, i
<1> QED
  BY <1>1, <1>2, <1>3, <1>4, <1>5, <1>6, <1>7 DEF OwnKeyed, RepositoryFiles

\* What the record of an item says.
MainFits(k, i, n, r) ==
  /\ r.kind = k /\ r.native = n /\ ~r.at /\ r.key = i.subject /\ r.signer = None
  /\ "reducer_owned" \notin r.attrs /\ r.digest = i.digest
  /\ k \in AtomKinds => r.atom = WordOf(k, i)
  /\ k # "github_export" => r.present

\* The record of an item names it, and nobody signs it.
LEMMA MainSays ==
  ASSUME NEW k \in OwnKeyed, NEW i, NEW n
  PROVE  MainFits(k, i, n, MainRecord(k, i, n))
<1> DEFINE m == MainRecord(k, i, n)
<1>1. CASE k = "repo_code"
  <2>1. m = Record("repo_code", n, i, "claim", "current", OriginTrust(i))
    BY <1>1 DEF MainRecord, Personal, Exports
  <2> HIDE DEF m
  <2>2. MainFits(k, i, n, m)
    BY <1>1, <2>1 DEF Record, MainFits, AtomKinds, Personal
  <2> QED
    BY <2>2 DEF m
<1>2. CASE k = "docs_adr"
  <2>1. m = Record("docs_adr", n, i, "decision", AdrStatus(i), OriginTrust(i))
    BY <1>2 DEF MainRecord, Personal, Exports
  <2> HIDE DEF m
  <2>2. MainFits(k, i, n, m)
    BY <1>2, <2>1 DEF Record, MainFits, AtomKinds, Personal
  <2> QED
    BY <2>2 DEF m
<1>3. CASE k \in Personal
  <2>3. m = [Record(k, n, i, IF i.state = "terminal" THEN "observation" ELSE "claim",
                    IF i.state = "terminal" THEN "terminal" ELSE "current", "personal-host")
               EXCEPT !.scope = "host-session",
                      !.attrs = i.marks \cap {"edited", "resumed_from", "raw_withheld"}]
    BY <1>3 DEF MainRecord, Personal, Exports
  <2>4. PICK disp : disp = IF i.state = "terminal" THEN "terminal" ELSE "current"
    OBVIOUS
  <2>5. PICK attrs : attrs = i.marks \cap {"edited", "resumed_from", "raw_withheld"}
    OBVIOUS
  <2>1. /\ m = [Record(k, n, i, IF i.state = "terminal" THEN "observation" ELSE "claim",
                       disp, "personal-host") EXCEPT !.scope = "host-session", !.attrs = attrs]
        /\ attrs \subseteq {"edited", "resumed_from", "raw_withheld"}
    BY <2>3, <2>4, <2>5
  <2> HIDE DEF m
  <2>2. MainFits(k, i, n, m)
    BY <1>3, <2>1 DEF Record, MainFits, AtomKinds, WordOf, Personal
  <2> QED
    BY <2>2 DEF m
<1>4. CASE k \in Exports
  <2>1. m = Record(k, n, i, "claim", ExportDisposition(k, i), "merged-default")
    BY <1>4 DEF MainRecord, Personal, Exports
  <2> HIDE DEF m
  <2>2. MainFits(k, i, n, m)
    BY <1>4, <2>1 DEF Record, MainFits, AtomKinds, Personal, Exports
  <2> QED
    BY <2>2 DEF m
<1>5. CASE k = "git_history"
  <2>1. m = [Record("git_history", n, i, i.state, GitDisposition(i), GitOrigin(i))
               EXCEPT !.attrs = i.marks \cap {"reverted_by", "reverts", "skew_bounded"}]
    BY <1>5 DEF MainRecord, Personal, Exports
  <2> HIDE DEF m
  <2>2. MainFits(k, i, n, m)
    BY <1>5, <2>1 DEF Record, MainFits, WordOf
  <2> QED
    BY <2>2 DEF m
<1>6. CASE k = "github_export"
  <2>1. m = [Record("github_export", n, i, "decision", GithubDisposition(i), OriginTrust(i))
               EXCEPT !.present = "newest snapshot" \in i.marks, !.attrs = i.marks \cap {"edited"}]
    BY <1>6 DEF MainRecord, Personal, Exports
  <2> HIDE DEF m
  <2>2. MainFits(k, i, n, m)
    BY <1>6, <2>1 DEF Record, MainFits, AtomKinds, Personal
  <2> QED
    BY <2>2 DEF m
<1>7. CASE k = "kindex"
  <2>1. m = [Record("kindex", n, i, "claim", i.state, OriginTrust(i))
               EXCEPT !.until = i.until, !.parents = i.parents,
                      !.attrs = i.marks \cap {"contradicts", "superseded_by"}]
    BY <1>7 DEF MainRecord, Personal, Exports
  <2> HIDE DEF m
  <2>2. MainFits(k, i, n, m)
    BY <1>7, <2>1 DEF Record, MainFits, AtomKinds, Personal
  <2> QED
    BY <2>2 DEF m
<1> QED
  BY <1>1, <1>2, <1>3, <1>4, <1>5, <1>6, <1>7 DEF OwnKeyed, RepositoryFiles

\* The records of a source are those of its items.
LEMMA OwnRecords ==
  ASSUME NEW k \in Kinds, k \in OwnKeyed, NEW src, IsSource(src), Fitting(k, src)
  PROVE  /\ \A r \in RecordsOf(k, src) :
              /\ r.native \in Native(src) /\ RecordFits(k, src[r.native], r)
              /\ ~r.at => /\ ~Unscanned(k, src[r.native])
                          /\ r = MainRecord(k, src[r.native], r.native)
         /\ \A n \in Native(src) : ~Unscanned(k, src[n])
                                     => MainRecord(k, src[n], n) \in RecordsOf(k, src)
         /\ k \in RepositoryFiles => \A n \in Native(src) : ~Unscanned(k, src[n])
<1>1. RecordsOf(k, src) = UNION {ScanItem(k, src, n) : n \in Native(src)}
  BY RecordsAreOfItems
<1>2. ASSUME NEW n \in Native(src)
      PROVE  /\ src[n].digest # 0 /\ src[n].subject = n /\ IsItem(src[n])
             /\ MainFits(k, src[n], n, MainRecord(k, src[n], n))
  BY MainSays DEF Fitting, ItemFits, IsSource
<1>3. ASSUME NEW n \in Native(src), NEW r \in ScanItem(k, src, n)
      PROVE  /\ r.native = n /\ RecordFits(k, src[n], r)
             /\ ~r.at => ~Unscanned(k, src[n]) /\ r = MainRecord(k, src[n], n)
  <2>1. CASE r = MainRecord(k, src[n], n) /\ ~Unscanned(k, src[n])
    BY <1>2, <2>1 DEF MainFits, RecordFits
  <2>2. ASSUME NEW atom, NEW disp, r \in BranchCopy(k, n, src[n], atom, disp), k \in RepositoryFiles
        PROVE  r.native = n /\ RecordFits(k, src[n], r) /\ r.at
    <3>1. PICK d : r = [Record(k, n, src[n], atom, disp, "unreviewed-branch") EXCEPT !.at = TRUE,
                                                                               !.digest = d]
      BY <2>2 DEF BranchCopy
    <3>2. r.at /\ r.native = n /\ r.kind = k /\ r.key = src[n].subject /\ r.signer = None
          /\ r.attrs = {} /\ r.present
      BY <3>1 DEF Record
    <3> QED
      BY <1>2, <2>2, <3>2 DEF RecordFits, AtomKinds, RepositoryFiles, Personal
  <2>3. CASE k \notin RepositoryFiles
    BY <1>2, <1>3, <2>1, <2>3, OwnScan
  <2>4. CASE k \in RepositoryFiles
    <3>1. PICK disp, atom :
            ScanItem(k, src, n) = (IF Unscanned(k, src[n]) THEN {} ELSE {MainRecord(k, src[n], n)})
                                    \cup BranchCopy(k, n, src[n], atom, disp)
      BY <1>2, <2>4, OwnScan
    <3>2. CASE r \in BranchCopy(k, n, src[n], atom, disp)
      BY <2>2, <2>4, <3>2
    <3>3. CASE r \notin BranchCopy(k, n, src[n], atom, disp)
      BY <1>3, <2>1, <3>1, <3>3
    <3> QED
      BY <3>2, <3>3
  <2> QED
    BY <2>3, <2>4
<1>4. ASSUME NEW n \in Native(src), ~Unscanned(k, src[n])
      PROVE  MainRecord(k, src[n], n) \in ScanItem(k, src, n)
  BY <1>2, <1>4, OwnScan
<1>5. k \in RepositoryFiles => \A n \in Native(src) : ~Unscanned(k, src[n])
  BY DEF Unscanned, RepositoryFiles, Personal, Exports
<1> QED
  BY <1>1, <1>3, <1>4, <1>5

-----------------------------------------------------------------------------
\* The rows of a source of these kinds, on the ledger or on their way there.
Lives == {"observed", "absent", "retracted", "superseded", "renamed"}
Replaced(o) == o.life \in {"superseded", "renamed"}

\* A row of the bytes a native item has now.
Bears(o, src) == ~o.at /\ o.native \in Native(src) /\ o.digest = src[o.native].digest

RowFits(k, d, t) ==
  /\ t.kind = k /\ t.native \in Natives /\ t.key = t.native /\ t.signer = None
  /\ "reducer_owned" \notin t.attrs /\ t.life \in Lives
  /\ t.at => k \in RepositoryFiles
  /\ ~t.at => t.digest <= d

\* Bytes that were replaced do not come back, and only repository files share them.
RowSuits(k, src, t) ==
  /\ Bears(t, src) => ~Replaced(t) /\ (k \in AtomKinds => t.atom = WordOf(k, src[t.native]))
  /\ k \notin RepositoryFiles => \A n \in Native(src) : t.digest = src[n].digest => t.native = n

Minting(k, src, d) ==
  /\ \A n \in Native(src) : src[n].digest \in 1..d
  /\ k \notin RepositoryFiles => \A n, m \in Native(src) : src[n].digest = src[m].digest => n = m

\* Beside a row of an item's bytes no other row of its identity stands.
OneStanding(F, src) ==
  \A o, p \in F : Bears(o, src) /\ Stands(p) /\ Identity(o) = Identity(p) => Id(p) = Id(o)

\* What an ingest writes about fitting rows fits the source it read.
LEMMA WritesSuit ==
  ASSUME NEW k \in Kinds, k \in OwnKeyed, NEW src, IsSource(src), Fitting(k, src),
         NEW d \in Nat, Minting(k, src, d), NEW L, IsLedger(L),
         \A o \in L : RowFits(k, d, o) /\ RowSuits(k, src, o),
         NEW now \in Nat, NEW w, Reconciles(k, src, L, now, w), NEW v \in ToSet(w)
  PROVE  /\ RowFits(k, d, v) /\ RowSuits(k, src, v)
         /\ v.cursor = 0 => v.life \in {"observed", "absent"}
<1> DEFINE R == RecordsOf(k, src)
           Goal == /\ RowFits(k, d, v) /\ RowSuits(k, src, v)
                   /\ v.cursor = 0 => v.life \in {"observed", "absent"}
<1>1. \A r \in R : /\ r.native \in Native(src) /\ RecordFits(k, src[r.native], r)
                   /\ r.digest \in Nat /\ r.present \in BOOLEAN /\ r.at \in BOOLEAN
  BY OwnRecords, RecordsAreScanned DEF AreRecords, ScannedFrom
<1>2. Native(src) \subseteq Natives /\ \A n \in Native(src) : src[n].digest \in 1..d
  BY DEF Native, IsSource, Minting
<1>3. ASSUME NEW o \in L, NEW x, x.native = o.native, x.at = o.at, x.digest = o.digest,
             x.kind = o.kind, x.signer = o.signer, x.atom = o.atom, x.key = o.native,
             "reducer_owned" \notin x.attrs, x.life \in Lives, x.cursor = o.cursor,
             Bears(o, src) => ~Replaced(x)
      PROVE  /\ RowFits(k, d, x) /\ RowSuits(k, src, x)
             /\ x.cursor = 0 => x.life \in {"observed", "absent"}
  <2>1. RowFits(k, d, o) /\ RowSuits(k, src, o) /\ o.cursor # 0
    BY DEF IsLedger
  <2>2. Bears(x, src) <=> Bears(o, src)
    BY <1>3 DEF Bears
  <2> QED
    BY <1>3, <2>1, <2>2 DEF RowFits, RowSuits
<1>4. ASSUME NEW r \in R, Refreshes(v, L, r, now) PROVE Goal
  <2>1. PICK o \in L : Id(o) = Id(r) /\ v = Reobserved(o, r, now)
    BY <1>4 DEF Refreshes
  <2>2. IsRow(o) /\ RowFits(k, d, o) /\ RowSuits(k, src, o) /\ o.native = r.native
    BY <2>1 DEF IsLedger, Id
  <2>3. /\ v.native = o.native /\ v.at = o.at /\ v.digest = o.digest
        /\ v.kind = o.kind /\ v.signer = o.signer /\ v.atom = o.atom /\ v.key = r.key
        /\ v.attrs = r.attrs \cup (o.attrs \cap {"renamed_from", "reducer_owned"})
        /\ v.cursor = o.cursor /\ (v.life = o.life \/ v.life \in {"absent", "observed"})
    BY <2>1, <2>2 DEF Reobserved, IsRow
  <2>4. /\ v.key = o.native /\ "reducer_owned" \notin v.attrs /\ v.life \in Lives
        /\ Bears(o, src) => ~Replaced(v)
    BY <1>1, <2>2, <2>3 DEF RecordFits, RowFits, RowSuits, Lives, Replaced
  <2> QED
    BY <1>3, <2>3, <2>4
<1>5. ASSUME NEW r \in R, Inserts(v, L, r, now) PROVE Goal
  <2>1. PICK marks \in SUBSET {"renamed_from"} : v = Row(r, now, LifeOf(r), marks)
    BY <1>5 DEF Inserts
  <2>2. /\ v.native = r.native /\ v.at = r.at /\ v.digest = r.digest
        /\ v.kind = r.kind /\ v.signer = r.signer /\ v.atom = r.atom /\ v.key = r.key
        /\ v.attrs = r.attrs \cup marks /\ v.life \in {"observed", "absent"}
    BY <2>1 DEF Row, LifeOf
  <2>3. r.native \in Native(src) /\ RecordFits(k, src[r.native], r)
    BY <1>1
  <2>4. RowFits(k, d, v)
    BY <1>2, <2>2, <2>3 DEF RowFits, RecordFits, Lives
  <2>5. Bears(v, src) => ~Replaced(v) /\ (k \in AtomKinds => v.atom = WordOf(k, src[v.native]))
    BY <2>2, <2>3 DEF RecordFits, Replaced
  <2>6. k \notin RepositoryFiles =>
          \A n \in Native(src) : v.digest = src[n].digest => v.native = n
    BY <2>2, <2>3 DEF RecordFits, Minting
  <2> QED
    BY <2>2, <2>4, <2>5, <2>6 DEF RowSuits
<1>6. ASSUME NEW o \in L, NEW life \in Lives, v = Retired(o, life),
             Bears(o, src) => life \notin {"superseded", "renamed"}
      PROVE  Goal
  <2>1. IsRow(o) /\ RowFits(k, d, o)
    BY DEF IsLedger
  <2>2. /\ v.native = o.native /\ v.at = o.at /\ v.digest = o.digest
        /\ v.kind = o.kind /\ v.signer = o.signer /\ v.atom = o.atom /\ v.key = o.key
        /\ v.attrs = o.attrs /\ v.cursor = o.cursor /\ v.life = life
    BY <1>6, <2>1 DEF Retired, IsRow
  <2>3. /\ v.key = o.native /\ "reducer_owned" \notin v.attrs
        /\ Bears(o, src) => ~Replaced(v)
    BY <1>6, <2>1, <2>2 DEF RowFits, Replaced
  <2> QED
    BY <1>3, <2>2, <2>3
<1>7. ASSUME NEW r \in R, Supersedes(v, L, r) PROVE Goal
  <2>1. PICK o \in L : /\ Identity(o) = Identity(r) /\ Id(o) # Id(r)
                       /\ v = Retired(o, "superseded")
    BY <1>7 DEF Supersedes
  <2>2. ~Bears(o, src)
    <3> SUFFICES ASSUME Bears(o, src) PROVE FALSE
      OBVIOUS
    <3>1. o.native = r.native /\ o.at = r.at /\ ~o.at /\ o.digest = src[r.native].digest
      BY <2>1 DEF Bears, Identity
    <3>2. r.digest = src[r.native].digest
      BY <1>1, <3>1 DEF RecordFits
    <3> QED
      BY <2>1, <3>1, <3>2 DEF Id
  <2> QED
    BY <1>6, <2>1, <2>2 DEF Lives
<1>8. ASSUME Retires(v, L, PresentIn(k, src), {"renamed", "retracted", "absent"}),
             v.life = "renamed" => \E r \in R : r.digest = v.digest
      PROVE  Goal
  <2>1. PICK o \in L, life \in {"renamed", "retracted", "absent"} :
          Identity(o) \notin PresentIn(k, src) /\ v = Retired(o, life)
    BY <1>8 DEF Retires
  <2>2. IsRow(o)
    BY DEF IsLedger
  <2>3. v.life = life /\ v.digest = o.digest
    BY <2>1, <2>2 DEF Retired, IsRow
  <2>4. ASSUME Bears(o, src), life = "renamed" PROVE FALSE
    <3>1. PICK r \in R : r.digest = o.digest
      BY <1>8, <2>3, <2>4
    <3>2. PICK s \in R : s.native = o.native /\ ~s.at
      <4>1. CASE k \in RepositoryFiles
        <5>1. MainRecord(k, src[o.native], o.native) \in R
          BY <2>4, <4>1, OwnRecords DEF Bears
        <5>2. MainFits(k, src[o.native], o.native, MainRecord(k, src[o.native], o.native))
          BY MainSays
        <5> QED
          BY <5>1, <5>2 DEF MainFits
      <4>2. CASE k \notin RepositoryFiles
        <5>1. r.native \in Native(src) /\ ~r.at /\ r.digest = src[r.native].digest
          BY <1>1, <4>2 DEF RecordFits
        <5>2. r.native = o.native
          BY <2>4, <3>1, <4>2, <5>1 DEF Minting, Bears
        <5> QED
          BY <5>1, <5>2
      <4> QED
        BY <4>1, <4>2
    <3>3. Identity(s) = Identity(o)
      <4>1. s.at = FALSE /\ o.at = FALSE
        BY <1>1, <2>2, <2>4, <3>2 DEF Bears, IsRow, Numbered
      <4> QED
        BY <3>2, <4>1 DEF Identity
    <3> QED
      BY <2>1, <3>3 DEF PresentIn
  <2> QED
    BY <1>6, <2>1, <2>4 DEF Lives
<1> HIDE DEF Goal
<1>9. ASSUME NEW r \in R, WrittenFor(v, L, r, now) PROVE Goal
  BY <1>4, <1>5, <1>7, <1>9 DEF WrittenFor
<1>10. Goal
  BY <1>8, <1>9 DEF Reconciles, R
<1> QED
  BY <1>10 DEF Goal

\* Once all a scan decides is written, nothing stands beside an item's bytes.
LEMMA ReconcilingStands ==
  ASSUME NEW k \in Kinds, k \in OwnKeyed, NEW src, IsSource(src), Fitting(k, src),
         NEW L, IsLedger(L), OneStanding(L, src),
         NEW now \in Nat, NEW w, Reconciles(k, src, L, now, w)
  PROVE  OneStanding(Due(L, w), src)
<1> DEFINE R == RecordsOf(k, src)
           U == Untouched(L, w)
           W == ToSet(w)
<1>1. /\ \A o \in U : o \in L /\ IsRow(o) /\ \A v \in W : Id(v) # Id(o)
      /\ \A v \in W : IsRow(v)
  BY WritesAreRows DEF Untouched, IsLedger, IsWrite
<1>2. AreRecords(k, src, R)
  BY RecordsAreScanned
<1>3. SUFFICES ASSUME NEW o \in U \cup W, NEW p \in U \cup W, Bears(o, src), Stands(p),
                      Identity(o) = Identity(p)
               PROVE  Id(p) = Id(o)
  <2>1. \A f \in Due(L, w) : \E x \in U \cup W :
          /\ f = Bare(x) /\ Id(f) = Id(x) /\ Identity(f) = Identity(x)
          /\ (Stands(f) <=> Stands(x)) /\ (Bears(f, src) => Bears(x, src))
    <3> SUFFICES ASSUME NEW x \in U \cup W
                 PROVE  /\ Id(Bare(x)) = Id(x) /\ Identity(Bare(x)) = Identity(x)
                        /\ (Stands(Bare(x)) <=> Stands(x))
                        /\ (Bears(Bare(x), src) => Bears(x, src))
      BY DEF Due
    <3>1. IsRow(x)
      BY <1>1
    <3> QED
      BY <3>1, BareKeeps DEF Bears, Id
  <2> HIDE DEF U, W
  <2> QED
    BY <1>3, <2>1 DEF OneStanding
<1>4. ASSUME NEW v \in W, Identity(v) \notin PresentIn(k, src)
      PROVE  ~Stands(v) /\ \E x \in L : Id(x) = Id(v)
  <2>1. ASSUME NEW s \in R, WrittenFor(v, L, s, now) PROVE FALSE
    <3>1. Identity(v) = Identity(s)
      BY <2>1, WrittenHasIdentity
    <3> QED
      BY <1>4, <3>1 DEF PresentIn
  <2>2. PICK x \in L, life \in {"renamed", "retracted", "absent"} : v = Retired(x, life)
    BY <2>1 DEF Reconciles, Retires
  <2>3. Id(v) = Id(x) /\ v.life = life
    BY <2>2, RetiredKeepsId DEF IsLedger
  <2> QED
    BY <2>2, <2>3 DEF Stands
<1>5. CASE Identity(o) \notin PresentIn(k, src)
  <2>1. p \in L
    BY <1>1, <1>3, <1>4, <1>5
  <2>2. PICK x \in L : Id(x) = Id(o)
    BY <1>1, <1>4, <1>5
  <2>3. Bears(x, src) /\ Identity(x) = Identity(o)
    BY <1>3, <2>2 DEF Bears, Id, Identity
  <2> QED
    BY <1>3, <2>1, <2>2, <2>3 DEF OneStanding
<1>6. CASE Identity(o) \in PresentIn(k, src)
  <2>1. PICK r \in R : Identity(r) = Identity(o)
    BY <1>6 DEF PresentIn
  <2>2. Id(r) = Id(o)
    <3>1. r.native = o.native /\ r.at = o.at /\ ~o.at
      BY <1>3, <2>1 DEF Identity, Bears
    <3>2. r.digest = src[r.native].digest
      BY <3>1, OwnRecords DEF RecordFits
    <3> QED
      BY <1>3, <3>1, <3>2 DEF Id, Bears
  <2>3. CASE p \in W
    <3>1. PICK s \in R : WrittenFor(p, L, s, now)
      <4>1. ~Retires(p, L, PresentIn(k, src), {"renamed", "retracted", "absent"})
        <5>1. Identity(p) \in PresentIn(k, src)
          BY <1>3, <1>6
        <5> QED
          BY <5>1, RetiredIsElsewhere
      <4> QED
        BY <2>3, <4>1 DEF Reconciles, R, W
    <3>2. s = r
      <4>1. Identity(s) = Identity(p)
        BY <3>1, WrittenHasIdentity
      <4> QED
        BY <1>2, <1>3, <2>1, <4>1 DEF AreRecords, OneToAnIdentity, Identity
    <3>3. CASE Refreshes(p, L, r, now)
      BY <2>2, <3>3, RefreshedKeepsId DEF Refreshes, IsLedger
    <3>4. CASE Inserts(p, L, r, now)
      BY <2>2, <3>4, RowHasId DEF Inserts
    <3>5. CASE Supersedes(p, L, r)
      <4>1. p.life = "superseded"
        BY <3>5, RetiredKeepsId DEF Supersedes, IsLedger
      <4> QED
        BY <1>3, <4>1 DEF Stands
    <3> QED
      BY <3>1, <3>2, <3>3, <3>4, <3>5 DEF WrittenFor
  <2>4. CASE p \in U
    <3>1. p \in L /\ \A v \in W : Id(v) # Id(p)
      BY <1>1, <2>4
    <3>2. CASE HeldFor(L, r) = {}
      <4>1. k \notin Ordered /\ r.receipt = 0
        <5>1. k \notin Ordered
          BY DEF OwnKeyed, Ordered, Personal, RepositoryFiles, Exports
        <5> QED
          BY <1>2, <5>1 DEF AreRecords, ScannedFrom
      <4>2. ~Skewed(r, now) /\ Cleared(w, L, r, now)
        BY <4>1 DEF Skewed, Reconciles
      <4>3. \E v \in W : Id(v) = Id(p)
        BY <1>3, <2>1, <3>1, <3>2, <4>2 DEF Cleared
      <4> QED
        BY <3>1, <4>3
    <3>3. CASE HeldFor(L, r) # {}
      <4>1. PICK x \in L : Id(x) = Id(o)
        BY <2>2, <3>3 DEF HeldFor
      <4>2. Bears(x, src) /\ Identity(x) = Identity(o)
        BY <1>3, <4>1 DEF Bears, Id, Identity
      <4> QED
        BY <1>3, <3>1, <4>1, <4>2 DEF OneStanding
    <3> QED
      BY <3>2, <3>3
  <2> QED
    BY <2>3, <2>4
<1> QED
  BY <1>5, <1>6

\* Nor does anything beside them once one more row is written in its turn.
LEMMA WritingStands ==
  ASSUME NEW L, IsLedger(L), NEW w, Pending(L, w), InTurn(w), w # <<>>, NEW c \in Nat,
         NEW src, OneStanding(L, src), OneStanding(Due(L, w), src)
  PROVE  OneStanding(WrittenTo(L, Head(w), c), src) /\ InTurn(Tail(w))
<1> DEFINE v == Head(w)
           M == WrittenTo(L, v, c)
           x == IF v.cursor = 0 THEN Placed(v, c) ELSE v
<1>1. /\ Sequenced(Tail(w)) /\ ToSet(w) = {v} \cup ToSet(Tail(w))
      /\ Apart(Tail(w)) /\ \A u \in ToSet(Tail(w)) : Id(u) # Id(v)
  BY HeadAndTail DEF Pending
<1>2. IsWrite(v, L) /\ IsRow(v) /\ \A u \in ToSet(Tail(w)) : IsRow(u)
  BY <1>1 DEF Pending, IsWrite
<1>3. PICK S : w \in Seq(S)
  BY DEF Pending, Sequenced
<1>4. /\ v = w[1] /\ Len(Tail(w)) = Len(w) - 1 /\ Len(w) \in Nat /\ Len(w) # 0
      /\ \A i \in 1..Len(Tail(w)) : Tail(w)[i] = w[i + 1]
      /\ DOMAIN Tail(w) = 1..Len(Tail(w))
  <2>1. Tail(w) \in Seq(S)
    BY <1>3, HeadTailProperties
  <2> QED
    BY <1>3, <2>1, HeadTailProperties, EmptySeq
<1> HIDE DEF v
<1>5. InTurn(Tail(w))
  <2> SUFFICES ASSUME NEW i \in 1..Len(Tail(w)), NEW j \in 1..Len(Tail(w)), i < j,
                      Identity(Tail(w)[i]) = Identity(Tail(w)[j])
               PROVE  GivesUp(Tail(w)[i])
    BY DEF InTurn
  <2>1. i + 1 \in 1..Len(w) /\ j + 1 \in 1..Len(w) /\ i + 1 < j + 1
    BY <1>4
  <2> QED
    BY <1>4, <2>1 DEF InTurn
<1>6. ASSUME NEW u \in ToSet(Tail(w)), Identity(u) = Identity(v) PROVE GivesUp(v)
  <2>1. PICK i \in 1..Len(Tail(w)) : u = Tail(w)[i]
    BY <1>4 DEF ToSet
  <2>2. u = w[i + 1] /\ i + 1 \in 1..Len(w) /\ 1 \in 1..Len(w) /\ 1 < i + 1
    BY <1>4, <2>1
  <2> QED
    BY <1>4, <1>6, <2>2 DEF InTurn
<1>7. /\ M = {o \in L : Id(o) # Id(v)} \cup {x} /\ IsRow(x)
      /\ Id(x) = Id(v) /\ Identity(x) = Identity(v) /\ x.life = v.life
  <2>1. CASE v.cursor = 0
    <3>1. \A o \in L : Id(o) # Id(v)
      BY <1>2, <2>1 DEF IsWrite
    <3>2. M = L \cup {Placed(v, c)}
      BY <2>1, <3>1 DEF WrittenTo, Placed, HeldFor
    <3>3. x = Placed(v, c)
      BY <2>1
    <3>4. IsRow(x) /\ Id(x) = Id(v) /\ x.life = v.life
      BY <1>2, <3>3, PlacedIsRow
    <3> HIDE DEF x, M
    <3> QED
      BY <3>1, <3>2, <3>3, <3>4, IdGivesIdentity
  <2>2. CASE v.cursor # 0
    BY <1>2, <2>2 DEF WrittenTo, HeldFor
  <2> QED
    BY <2>1, <2>2
<1>8. Due(M, Tail(w)) = Due(L, w) /\ IsLedger(M)
  BY <1>2, WritingKeepsDue, WrittenRows DEF v
<1> HIDE DEF M, x
<1>9. SUFFICES ASSUME NEW o \in M, NEW p \in M, Bears(o, src), Stands(p), Identity(o) = Identity(p)
               PROVE  Id(p) = Id(o)
  BY <1>5, <1>9 DEF OneStanding, M, v
<1>10. CASE Identity(o) # Identity(v)
  <2>1. o \in L /\ p \in L
    BY <1>7, <1>9, <1>10
  <2> QED
    BY <1>9, <2>1 DEF OneStanding
<1>11. CASE Identity(o) = Identity(v) /\ GivesUp(v)
  <2>1. p # x
    BY <1>7, <1>9, <1>11 DEF GivesUp, Stands
  <2>2. p \in L
    BY <1>7, <2>1
  <2>3. PICK q \in L : Id(q) = Id(o)
    <3>1. v.cursor # 0
      BY <1>11 DEF GivesUp
    <3> QED
      BY <1>2, <1>7, <3>1 DEF IsWrite
  <2>4. Bears(q, src) /\ Identity(q) = Identity(o)
    BY <1>9, <2>3 DEF Bears, Id, Identity
  <2> QED
    BY <1>9, <2>2, <2>3, <2>4 DEF OneStanding
<1>12. CASE Identity(o) = Identity(v) /\ ~GivesUp(v)
  <2>1. \A u \in ToSet(Tail(w)) : Identity(u) # Identity(v)
    BY <1>6, <1>12
  <2>2. \A q \in M : Identity(q) = Identity(v) => q \in Untouched(M, Tail(w)) /\ IsRow(q)
    BY <1>8, <2>1, IdGivesIdentity DEF Untouched, IsLedger
  <2>3. Bare(o) \in Due(L, w) /\ Bare(p) \in Due(L, w)
    BY <1>8, <1>9, <1>12, <2>2 DEF Due
  <2>4. /\ Id(Bare(o)) = Id(o) /\ Id(Bare(p)) = Id(p) /\ Stands(Bare(p))
        /\ Identity(Bare(o)) = Identity(Bare(p))
    BY <1>9, <1>12, <2>2, BareKeeps
  <2>5. Bears(Bare(o), src)
    BY <1>9, <2>4 DEF Bears, Id
  <2> QED
    BY <2>3, <2>4, <2>5 DEF OneStanding
<1> QED
  BY <1>10, <1>11, <1>12

\* What is told of an item stays true where its bytes and what they say stay.
Kept(k, src, to, m) ==
  /\ m \in Native(src) /\ to[m].digest = src[m].digest
  /\ k \in AtomKinds => to[m].state = src[m].state

\* Bytes that take the place of others were never used, or are those of every row
\* of their identity, or come under an identity the ledger does not know.
Moved(k, L, jobs, d, to, e, m) ==
  \/ e = d + 1 /\ to[m].digest = e
  \/ /\ k \in RepositoryFiles
     /\ \A t : Tells(L, jobs, t) /\ t.native = m => t.digest = to[m].digest /\ Stands(t)
  \/ k \in RepositoryFiles /\ \A o \in L : o.native # m

Shift(k, L, jobs, src, d, to, e) ==
  \A m \in Native(to) : Kept(k, src, to, m) \/ Moved(k, L, jobs, d, to, e, m)

\* A native that did not change keeps what its item says.
LEMMA ItemStays ==
  ASSUME NEW k, NEW src, NEW d \in Nat, Fitting(k, src), Minting(k, src, d), NEW to, NEW e \in Nat, d <= e,
         NEW n, NEW i, ChangedAt(src, to, n, i),
         n \in Native(to) /\ to[n] = i =>
           /\ ItemFits(k, n, i) /\ i.digest \in 1..e
           /\ k \in RepositoryFiles \/ (n \in Native(src) /\ i.digest = src[n].digest)
                \/ ~(i.digest <= d)
  PROVE  /\ Fitting(k, to) /\ Minting(k, to, e)
         /\ \A m \in Native(to) : Kept(k, src, to, m) \/ (m = n /\ to[m] = i)
<1>1. ASSUME NEW m \in Native(to)
      PROVE  \/ m \in Native(src) /\ to[m] = src[m] /\ ItemFits(k, m, src[m]) /\ src[m].digest \in 1..d
             \/ m = n /\ to[m] = i
  BY DEF ChangedAt, Fitting, Minting
<1>2. Fitting(k, to)
  BY <1>1 DEF Fitting
<1>3. \A m \in Native(to) : to[m].digest \in 1..e
  BY <1>1
<1>4. ASSUME k \notin RepositoryFiles, NEW m \in Native(to), NEW l \in Native(to),
             to[m].digest = to[l].digest
      PROVE  m = l
  <2>1. \A x, y \in Native(src) : src[x].digest = src[y].digest => x = y
    BY <1>4 DEF Minting
  <2>2. ASSUME NEW x \in Native(to), NEW y \in Native(to), to[x].digest = to[y].digest,
               y = n, to[y] = i, x \in Native(src), to[x] = src[x], src[x].digest \in 1..d
        PROVE  x = y
    BY <1>4, <2>1, <2>2
  <2> QED
    BY <1>1, <1>4, <2>1, <2>2
<1>5. \A m \in Native(to) : Kept(k, src, to, m) \/ (m = n /\ to[m] = i)
  BY <1>1 DEF Kept
<1> QED
  BY <1>2, <1>3, <1>4, <1>5 DEF Minting

MovesTo(k, L, jobs, src, d, to, e) ==
  Fitting(k, to) /\ Minting(k, to, e) /\ d <= e /\ Shift(k, L, jobs, src, d, to, e)

\* What people do to a source leaves its items fitting, and none takes up bytes
\* the ledger has seen replaced.
LEMMA SourceMovesFit ==
  /\ OwnForms /\ Returns = FALSE /\ IngestHolds /\ SourceMoves /\ kind \in OwnKeyed
  /\ Fitting(kind, source) /\ Minting(kind, source, minted)
  => MovesTo(kind, ledger, run, source, minted, source', minted')
<1> SUFFICES ASSUME OwnForms, Returns = FALSE, IngestHolds, SourceMoves, kind \in OwnKeyed,
                    Fitting(kind, source), Minting(kind, source, minted)
             PROVE  MovesTo(kind, ledger, run, source, minted, source', minted')
  OBVIOUS
<1>0. kind \in Kinds /\ IsSource(source) /\ minted \in Nat
  BY DEF IngestHolds
<1>1. ASSUME NEW form \in Forms[kind], NEW n, NEW d \in Nat, d # 0
      PROVE  ItemFits(kind, n, Item(n, form, d)) /\ IsItem(Item(n, form, d))
  <2>1. form.subject = 0 /\ Worded(kind, form)
    BY <1>0 DEF OwnForms
  <2>2. PICK i : i = Item(n, form, d)
    OBVIOUS
  <2>3. /\ i.subject = n /\ i.digest = d /\ i.state = form.state /\ i.place = form.place
        /\ i.marks = form.marks /\ i.until = form.until
    BY <2>1, <2>2 DEF Item
  <2>4. Worded(kind, i)
    BY <2>1, <2>3 DEF Worded
  <2> QED
    BY <1>0, <1>1, <2>2, <2>3, <2>4, NewItem DEF ItemFits
<1>2. ASSUME NEW n \in Natives, NEW form \in Forms[kind], Edit(n, form)
      PROVE  MovesTo(kind, ledger, run, source, minted, source', minted')
  <2>1. PICK e \in Nat : e = minted'
    BY <1>0, <1>2 DEF Edit
  <2>2. e = minted + 1 /\ source' = [source EXCEPT ![n] = Item(n, form, e)]
    BY <1>2, <2>1 DEF Edit
  <2>3. PICK i : i = Item(n, form, e)
    OBVIOUS
  <2>4. PICK to : to = source'
    OBVIOUS
  <2>5. IsItem(i) /\ i.digest = e /\ ItemFits(kind, n, i)
    BY <1>0, <1>1, <2>2, <2>3, NewItem
  <2>6. ChangedAt(source, to, n, i)
    BY <1>0, <2>2, <2>3, <2>4, <2>5, ItemIsChanged
  <2>7. minted <= e /\ i.digest \in 1..e /\ ~(i.digest <= minted)
    BY <1>0, <2>2, <2>5
  <2>10. Fitting(kind, to) /\ Minting(kind, to, e)
        /\ \A m \in Native(to) : Kept(kind, source, to, m) \/ (m = n /\ to[m] = i)
    BY <1>0, <2>5, <2>6, <2>7, ItemStays
  <2>8. Shift(kind, ledger, run, source, minted, to, e)
    BY <2>2, <2>5, <2>10 DEF Shift, Moved
  <2>9. MovesTo(kind, ledger, run, source, minted, to, e)
    BY <1>0, <2>2, <2>10, <2>8 DEF MovesTo
  <2> QED
    BY <2>1, <2>4, <2>9
<1>3. ASSUME NEW n \in Natives, NEW form \in Forms[kind], Reclassify(n, form)
      PROVE  MovesTo(kind, ledger, run, source, minted, source', minted')
  <2> DEFINE b == source[n].digest
  <2>1. /\ source' = [source EXCEPT ![n] = Item(n, form, b)] /\ minted' = minted
        /\ kind \in BesidesBytes /\ n \in Native(source)
        /\ BytesOf(kind, Item(n, form, b)) = BytesOf(kind, source[n])
    BY <1>0, <1>3 DEF Reclassify, Native, IsSource
  <2>2. b \in 1..minted /\ b # 0 /\ b \in Nat
    BY <1>0, <2>1 DEF Minting
  <2>3. PICK i : i = Item(n, form, b)
    OBVIOUS
  <2>4. PICK to : to = source'
    OBVIOUS
  <2>5. IsItem(i) /\ i.digest = b /\ ItemFits(kind, n, i)
    BY <1>0, <1>1, <2>2, <2>3, NewItem
  <2>6. kind \in AtomKinds => i.state = source[n].state
    <3> SUFFICES ASSUME kind \in AtomKinds PROVE i.state = source[n].state
      OBVIOUS
    <3>1. kind = "git_history"
      BY <2>1 DEF AtomKinds, BesidesBytes, Personal
    <3>2. IsItem(source[n])
      BY <1>0, <2>1 DEF IsSource
    <3>3. PICK j : j = source[n]
      OBVIOUS
    <3>4. [i EXCEPT !.place = None, !.copy = 0, !.marks = {}]
            = [j EXCEPT !.place = None, !.copy = 0, !.marks = {}]
      BY <2>1, <2>3, <3>1, <3>3 DEF BytesOf
    <3>5. [i EXCEPT !.place = None, !.copy = 0, !.marks = {}].state = i.state
      BY <2>5 DEF IsItem
    <3>6. [j EXCEPT !.place = None, !.copy = 0, !.marks = {}].state = j.state
      BY <3>2, <3>3 DEF IsItem
    <3> QED
      BY <3>3, <3>4, <3>5, <3>6
  <2> HIDE DEF b
  <2>7. to = [source EXCEPT ![n] = i]
    BY <2>1, <2>3, <2>4
  <2>8. ChangedAt(source, to, n, i)
    BY <1>0, <2>5, <2>7, ItemIsChanged
  <2>9. Fitting(kind, to) /\ Minting(kind, to, minted)
        /\ \A m \in Native(to) : Kept(kind, source, to, m) \/ (m = n /\ to[m] = i)
    <3>1. i.digest = source[n].digest /\ i.digest \in 1..minted
      BY <2>2, <2>5 DEF b
    <3> QED
      BY <1>0, <2>1, <2>5, <2>8, <3>1, ItemStays
  <2>10. \A m \in Native(to) : Kept(kind, source, to, m)
    BY <2>1, <2>5, <2>6, <2>9 DEF Kept, b
  <2>11. MovesTo(kind, ledger, run, source, minted, to, minted)
    BY <1>0, <2>9, <2>10 DEF MovesTo, Shift
  <2> QED
    BY <2>1, <2>4, <2>11
<1>4. ASSUME NEW n \in Natives, NEW d \in 1..minted, PutBack(n, d)
      PROVE  MovesTo(kind, ledger, run, source, minted, source', minted')
  <2>1. /\ source' = [source EXCEPT ![n].digest = d] /\ minted' = minted
        /\ kind = "repo_code" /\ n \in Native(source)
        /\ \A o \in Recorded : o.native = n => o.digest = d /\ Stands(o)
    BY <1>0, <1>4 DEF PutBack, Native, IsSource
  <2>2. IsItem(source[n]) /\ ItemFits(kind, n, source[n])
    BY <1>0, <2>1 DEF IsSource, Fitting
  <2>3. PICK i : i = [source[n] EXCEPT !.digest = d]
    OBVIOUS
  <2>4. PICK to : to = source'
    OBVIOUS
  <2>5. IsItem(i) /\ i.digest = d /\ i.subject = source[n].subject /\ i.place = source[n].place
    BY <1>0, <2>2, <2>3 DEF IsItem
  <2>6. ItemFits(kind, n, i)
    BY <1>0, <2>1, <2>2, <2>5 DEF ItemFits, Worded, Personal
  <2>7. to = [source EXCEPT ![n] = i]
    BY <2>1, <2>3, <2>4
  <2>8. ChangedAt(source, to, n, i)
    BY <1>0, <2>5, <2>7, ItemIsChanged
  <2>9. Fitting(kind, to) /\ Minting(kind, to, minted)
        /\ \A m \in Native(to) : Kept(kind, source, to, m) \/ (m = n /\ to[m] = i)
    <3>1. kind \in RepositoryFiles /\ i.digest \in 1..minted /\ minted <= minted
      BY <1>0, <2>1, <2>5 DEF RepositoryFiles
    <3> QED
      BY <1>0, <2>6, <2>8, <3>1, ItemStays
  <2>10. \A t : Tells(ledger, run, t) => t \in Recorded
    BY DEF Tells, Recorded
  <2>11. \A m \in Native(to) : m = n /\ to[m] = i => Moved(kind, ledger, run, minted, to, minted, m)
    BY <2>1, <2>5, <2>10 DEF Moved, RepositoryFiles
  <2>12. MovesTo(kind, ledger, run, source, minted, to, minted)
    BY <1>0, <2>9, <2>11 DEF MovesTo, Shift
  <2> QED
    BY <2>1, <2>4, <2>12
<1>5. ASSUME NEW n \in Natives, NEW l \in Natives, Rename(n, l)
      PROVE  MovesTo(kind, ledger, run, source, minted, source', minted')
  <2>1. /\ source' = [source EXCEPT ![n] = Gone, ![l] = [source[n] EXCEPT !.subject = l]]
        /\ minted' = minted /\ kind \in RepositoryFiles /\ n \in Native(source)
        /\ ~ \E o \in ledger : o.native = l
    BY <1>0, <1>5 DEF Rename, Native, IsSource
  <2>2. IsItem(source[n]) /\ ItemFits(kind, n, source[n]) /\ source[n].digest \in 1..minted
    BY <1>0, <2>1 DEF IsSource, Fitting, Minting
  <2>3. PICK i : i = [source[n] EXCEPT !.subject = l]
    OBVIOUS
  <2>4. PICK to : to = source'
    OBVIOUS
  <2>5. IsItem(i) /\ i.digest = source[n].digest /\ i.subject = l /\ i.place = source[n].place
        /\ i.state = source[n].state
    BY <2>2, <2>3 DEF IsItem
  <2>6. ItemFits(kind, l, i)
    BY <2>1, <2>2, <2>5 DEF ItemFits, Worded, RepositoryFiles, Personal
  <2>7. PICK gone : gone = Gone
    OBVIOUS
  <2>8. PICK mid : mid = [source EXCEPT ![n] = gone]
    OBVIOUS
  <2>9. IsSource(mid) /\ ChangedAt(source, mid, n, gone)
    BY <1>0, <2>7, <2>8, ItemIsChanged
  <2>10. \A m \in Native(mid) : m \in Native(source) /\ mid[m] = source[m]
    BY <2>7, <2>9 DEF ChangedAt, Native
  <2>11. to = [mid EXCEPT ![l] = i]
    BY <2>1, <2>3, <2>4, <2>7, <2>8
  <2>12. ChangedAt(mid, to, l, i)
    BY <2>5, <2>9, <2>11, ItemIsChanged
  <2>13. ChangedAt(source, to, l, i)
    BY <2>10, <2>12 DEF ChangedAt
  <2>14. Fitting(kind, to) /\ Minting(kind, to, minted)
         /\ \A m \in Native(to) : Kept(kind, source, to, m) \/ (m = l /\ to[m] = i)
    BY <1>0, <2>1, <2>2, <2>5, <2>6, <2>13, ItemStays
  <2>15. MovesTo(kind, ledger, run, source, minted, to, minted)
    BY <1>0, <2>1, <2>14 DEF MovesTo, Shift, Moved
  <2> QED
    BY <2>1, <2>4, <2>15
<1>6. ASSUME NEW n \in Natives, Delete(n) PROVE MovesTo(kind, ledger, run, source, minted, source', minted')
  <2>1. PICK gone : gone = Gone
    OBVIOUS
  <2>2. PICK to : to = source'
    OBVIOUS
  <2>3. to = [source EXCEPT ![n] = gone] /\ minted' = minted
    BY <1>6, <2>1, <2>2 DEF Delete
  <2>4. ChangedAt(source, to, n, gone)
    BY <1>0, <2>1, <2>3, ItemIsChanged
  <2>5. \A m \in Native(to) : to[m] # gone
    BY <2>1 DEF Native
  <2>6. Fitting(kind, to) /\ Minting(kind, to, minted)
        /\ \A m \in Native(to) : Kept(kind, source, to, m) \/ (m = n /\ to[m] = gone)
    BY <1>0, <2>4, <2>5, ItemStays
  <2>7. MovesTo(kind, ledger, run, source, minted, to, minted)
    BY <1>0, <2>5, <2>6 DEF MovesTo, Shift
  <2> QED
    BY <2>2, <2>3, <2>7
<1>7. MovesTo(kind, ledger, run, source, minted, source', minted')
  BY <1>2, <1>3, <1>4, <1>5, <1>6 DEF SourceMoves
<1> QED
  BY <1>7

\* What is on the ledger, on its way there, or to be there, is a row told of.
Echoes(F, L, jobs) ==
  \A f \in F : \E t : /\ Tells(L, jobs, t) /\ t.native = f.native /\ t.at = f.at
                      /\ t.digest = f.digest /\ (Stands(t) <=> Stands(f))

\* Of an identity the ledger does not know there is one row.
OneNewcomer(F, L) ==
  \A o, p \in F : Identity(o) = Identity(p) /\ (\A x \in L : x.native # o.native) => Id(p) = Id(o)

Newcomers(w) == \A v \in ToSet(w) : v.cursor = 0 => v.life \in {"observed", "absent"}

AllFit(k, L, jobs, src, d) ==
  \A t : Tells(L, jobs, t) => RowFits(k, d, t) /\ RowSuits(k, src, t)

\* A source that moved leaves the rows it was told of fitting.
LEMMA MovesSuit ==
  ASSUME NEW k, NEW L, NEW jobs, NEW src, NEW d \in Nat, NEW to, NEW e \in Nat,
         MovesTo(k, L, jobs, src, d, to, e), AllFit(k, L, jobs, src, d),
         \A t : Tells(L, jobs, t) => IsRow(t),
         \A p \in Runs : jobs[p] # Stopped =>
           Pending(L, jobs[p].writes) /\ Newcomers(jobs[p].writes)
  PROVE  AllFit(k, L, jobs, to, e)
<1> SUFFICES ASSUME NEW t, Tells(L, jobs, t) PROVE RowFits(k, e, t) /\ RowSuits(k, to, t)
  BY DEF AllFit
<1>1. RowFits(k, d, t) /\ RowSuits(k, src, t) /\ IsRow(t) /\ d <= e /\ t.digest \in Nat
  BY DEF AllFit, MovesTo, IsRow, Numbered
<1>2. RowFits(k, e, t)
  BY <1>1 DEF RowFits
<1>3. Shift(k, L, jobs, src, d, to, e)
  BY DEF MovesTo
<1>4. AtomKinds \cap RepositoryFiles = {}
  BY DEF AtomKinds, RepositoryFiles, Personal
<1>5. ASSUME NEW m \in Native(to), Kept(k, src, to, m), k \in AtomKinds
      PROVE  WordOf(k, to[m]) = WordOf(k, src[m])
  BY <1>5 DEF Kept, WordOf
<1>6. ASSUME Bears(t, to)
      PROVE  ~Replaced(t) /\ (k \in AtomKinds => t.atom = WordOf(k, to[t.native]))
  <2> DEFINE m == t.native
  <2>1. m \in Native(to) /\ t.digest = to[m].digest /\ ~t.at
    BY <1>6 DEF Bears
  <2>2. CASE Kept(k, src, to, m)
    <3>1. Bears(t, src)
      BY <2>1, <2>2 DEF Bears, Kept
    <3> QED
      BY <1>1, <1>5, <2>1, <2>2, <3>1 DEF RowSuits
  <2>3. CASE e = d + 1 /\ to[m].digest = e
    BY <1>1, <2>1, <2>3 DEF RowFits
  <2>4. CASE k \in RepositoryFiles /\ \A u : Tells(L, jobs, u) /\ u.native = m => Stands(u)
    <3>1. Stands(t)
      BY <2>4
    <3> QED
      BY <1>4, <2>4, <3>1 DEF Replaced, Stands
  <2>5. CASE k \in RepositoryFiles /\ \A o \in L : o.native # m
    <3>1. PICK p \in Runs : jobs[p] # Stopped /\ t \in ToSet(jobs[p].writes)
      BY <2>5 DEF Tells
    <3>2. IsWrite(t, L)
      BY <3>1 DEF Pending
    <3>3. t.cursor = 0
      BY <2>5, <3>2 DEF IsWrite, Id
    <3>4. t.life \in {"observed", "absent"}
      BY <3>1, <3>3 DEF Newcomers
    <3> QED
      BY <1>4, <2>5, <3>4 DEF Replaced
  <2> QED
    BY <1>3, <2>1, <2>2, <2>3, <2>4, <2>5 DEF Shift, Moved
<1>7. ASSUME k \notin RepositoryFiles, NEW n \in Native(to), t.digest = to[n].digest
      PROVE  t.native = n
  <2>1. t.digest <= d
    BY <1>1, <1>7 DEF RowFits
  <2>2. Kept(k, src, to, n)
    BY <1>1, <1>3, <1>7, <2>1 DEF Shift, Moved
  <2> QED
    BY <1>1, <1>7, <2>2 DEF RowSuits, Kept
<1> QED
  BY <1>2, <1>6, <1>7 DEF RowSuits

\* A source that moved leaves one row standing.
LEMMA MovesStand ==
  ASSUME NEW k, NEW L, NEW jobs, NEW src, NEW d \in Nat, NEW to, NEW e \in Nat,
         MovesTo(k, L, jobs, src, d, to, e), AllFit(k, L, jobs, src, d),
         \A t : Tells(L, jobs, t) => IsRow(t),
         NEW F, Echoes(F, L, jobs), OneNewcomer(F, L), OneStanding(F, src)
  PROVE  OneStanding(F, to)
<1> SUFFICES ASSUME NEW o \in F, NEW p \in F, Bears(o, to), Stands(p), Identity(o) = Identity(p)
             PROVE  Id(p) = Id(o)
  BY DEF OneStanding
<1> DEFINE m == o.native
<1>1. m \in Native(to) /\ o.digest = to[m].digest /\ p.native = m /\ p.at = o.at /\ ~o.at
  BY DEF Bears, Identity
<1>2. Shift(k, L, jobs, src, d, to, e)
  BY DEF MovesTo
<1>3. PICK t : Tells(L, jobs, t) /\ t.native = m /\ t.at = o.at /\ t.digest = o.digest
  BY DEF Echoes
<1>4. PICK u : Tells(L, jobs, u) /\ u.native = m /\ u.digest = p.digest
  BY <1>1 DEF Echoes
<1>5. CASE Kept(k, src, to, m)
  <2>1. Bears(o, src)
    BY <1>1, <1>5 DEF Bears, Kept
  <2> QED
    BY <2>1 DEF OneStanding
<1>6. CASE e = d + 1 /\ to[m].digest = e
  <2>1. t.digest <= d /\ t.digest \in Nat
    BY <1>1, <1>3 DEF AllFit, RowFits, IsRow, Numbered
  <2> QED
    BY <1>1, <1>3, <1>6, <2>1
<1>7. CASE \A x : Tells(L, jobs, x) /\ x.native = m => x.digest = to[m].digest
  <2>1. p.digest = o.digest
    BY <1>1, <1>4, <1>7
  <2> QED
    BY <1>1, <2>1 DEF Id
<1>8. CASE \A x \in L : x.native # m
  BY <1>8 DEF OneNewcomer
<1> QED
  BY <1>1, <1>2, <1>5, <1>6, <1>7, <1>8 DEF Shift, Moved

\* The rows of a ledger, and those due once all is written, echo what is told.
LEMMA LedgerEchoes ==
  ASSUME NEW L, NEW jobs PROVE Echoes(L, L, jobs) /\ OneNewcomer(L, L)
BY DEF Echoes, OneNewcomer, Tells

\* The rows to be are rows told of.
LEMMA DueEchoes ==
  ASSUME NEW L, IsLedger(L), NEW jobs, NEW p \in Runs, jobs[p] # Stopped,
         Pending(L, jobs[p].writes), InTurn(jobs[p].writes), Newcomers(jobs[p].writes)
  PROVE  Echoes(Due(L, jobs[p].writes), L, jobs) /\ OneNewcomer(Due(L, jobs[p].writes), L)
<1> DEFINE w == jobs[p].writes
           F == Due(L, w)
<1>1. \A f \in F : \E x : /\ x \in L \/ x \in ToSet(w)
                          /\ IsRow(x) /\ f = Bare(x)
  BY DEF Due, Untouched, IsLedger, Pending, IsWrite
<1>2. ASSUME NEW x, IsRow(x)
      PROVE  /\ Bare(x).native = x.native /\ Bare(x).at = x.at /\ Bare(x).digest = x.digest
             /\ (Stands(Bare(x)) <=> Stands(x)) /\ Id(Bare(x)) = Id(x)
             /\ Identity(Bare(x)) = Identity(x)
  BY <1>2, BareKeeps DEF Id
<1> HIDE DEF F
<1>3. Echoes(F, L, jobs)
  <2> SUFFICES ASSUME NEW f \in F
               PROVE  \E t : /\ Tells(L, jobs, t) /\ t.native = f.native /\ t.at = f.at
                             /\ t.digest = f.digest /\ (Stands(t) <=> Stands(f))
    BY DEF Echoes
  <2>1. PICK x : (x \in L \/ x \in ToSet(w)) /\ IsRow(x) /\ f = Bare(x)
    BY <1>1
  <2>2. Tells(L, jobs, x)
    BY <2>1 DEF Tells
  <2> QED
    BY <1>2, <2>1, <2>2
<1>4. OneNewcomer(F, L)
  <2> SUFFICES ASSUME NEW o \in F, NEW q \in F, Identity(o) = Identity(q),
                      \A x \in L : x.native # o.native
               PROVE  Id(q) = Id(o)
    BY DEF OneNewcomer
  <2>1. PICK x : (x \in L \/ x \in ToSet(w)) /\ IsRow(x) /\ o = Bare(x)
    BY <1>1
  <2>2. PICK y : (y \in L \/ y \in ToSet(w)) /\ IsRow(y) /\ q = Bare(y)
    BY <1>1
  <2>3. /\ x.native = o.native /\ y.native = o.native /\ Identity(x) = Identity(y)
        /\ Id(o) = Id(x) /\ Id(q) = Id(y)
    <3>1. Bare(x).native = x.native /\ Identity(o) = Identity(x) /\ Id(o) = Id(x)
      BY <1>2, <2>1
    <3>2. Bare(y).native = y.native /\ Identity(q) = Identity(y) /\ Id(q) = Id(y)
      BY <1>2, <2>2
    <3>3. Identity(x) = Identity(y)
      BY <3>1, <3>2
    <3> QED
      BY <2>1, <3>1, <3>2, <3>3 DEF Identity
  <2>4. x \in ToSet(w) /\ y \in ToSet(w)
    BY <2>1, <2>2, <2>3
  <2>5. ASSUME NEW v \in ToSet(w), v.native = o.native PROVE ~GivesUp(v)
    <3>1. IsWrite(v, L)
      BY DEF Pending
    <3>2. v.cursor = 0
      BY <2>5, <3>1 DEF IsWrite, Id
    <3> QED
      BY <3>2 DEF GivesUp
  <2> HIDE DEF w
  <2>6. Sequenced(w) /\ InTurn(w)
    BY DEF Pending, w
  <2>7. PICK S : w \in Seq(S)
    BY <2>6 DEF Sequenced
  <2>8. DOMAIN w = 1..Len(w) /\ Len(w) \in Nat
    BY <2>7
  <2>9. PICK i \in 1..Len(w) : x = w[i]
    BY <2>4, <2>8 DEF ToSet
  <2>10. PICK j \in 1..Len(w) : y = w[j]
    BY <2>4, <2>8 DEF ToSet
  <2>11. ~(i < j) /\ ~(j < i)
    BY <2>3, <2>4, <2>5, <2>6, <2>9, <2>10 DEF InTurn
  <2>12. i = j
    BY <2>8, <2>11
  <2> QED
    BY <2>3, <2>9, <2>10, <2>12
<1> QED
  BY <1>3, <1>4 DEF F

\* What an ingest under way has yet to write leaves one row standing.
PlansStand(L, jobs, src) ==
  \A p \in Runs : jobs[p] # Stopped =>
    /\ InTurn(jobs[p].writes) /\ Newcomers(jobs[p].writes)
    /\ OneStanding(Due(L, jobs[p].writes), src)

CurrentHolds ==
  kind \in OwnKeyed =>
    /\ Fitting(kind, source) /\ Minting(kind, source, minted)
    /\ AllFit(kind, ledger, run, source, minted)
    /\ OneStanding(ledger, source) /\ PlansStand(ledger, run, source)

\* An empty ledger fits.
LEMMA CurrentHoldsInit == IngestInit => CurrentHolds
<1> SUFFICES ASSUME IngestInit PROVE CurrentHolds
  OBVIOUS
<1>1. Native(source) = {} /\ ledger = {} /\ \A p \in Runs : run[p] = Stopped
  BY DEF IngestInit, Native
<1>2. \A t : ~Tells(ledger, run, t)
  BY <1>1 DEF Tells
<1> QED
  BY <1>1, <1>2 DEF CurrentHolds, Fitting, Minting, AllFit, OneStanding, PlansStand

\* All that is told of are rows.
LEMMA RowsAreTold ==
  IngestHolds => \A t : Tells(ledger, run, t) => IsRow(t)
BY DEF IngestHolds, Tells, IsLedger, IsIngest

\* A change of the source.
LEMMA CurrentHoldsMoves ==
  /\ OwnForms /\ Returns = FALSE /\ IngestHolds /\ SettledHolds /\ CurrentHolds /\ SourceMoves
  => CurrentHolds'
<1> SUFFICES ASSUME OwnForms, Returns = FALSE, IngestHolds, SettledHolds, CurrentHolds,
                    SourceMoves, kind' \in OwnKeyed
             PROVE  /\ Fitting(kind', source') /\ Minting(kind', source', minted')
                    /\ AllFit(kind', ledger', run', source', minted')
                    /\ OneStanding(ledger', source') /\ PlansStand(ledger', run', source')
  BY DEF CurrentHolds
<1>1. kind' = kind /\ ledger' = ledger /\ run' = run /\ minted' \in Nat /\ minted \in Nat
      /\ IsLedger(ledger)
  BY SourceMovesKeep DEF IngestHolds
<1>2. PICK to : to = source'
  OBVIOUS
<1>3. PICK e \in Nat : e = minted'
  BY <1>1
<1>4. /\ Fitting(kind, source) /\ Minting(kind, source, minted)
      /\ AllFit(kind, ledger, run, source, minted)
      /\ OneStanding(ledger, source) /\ PlansStand(ledger, run, source) /\ kind \in OwnKeyed
  BY <1>1 DEF CurrentHolds
<1>5. MovesTo(kind, ledger, run, source, minted, to, e)
  BY <1>2, <1>3, <1>4, SourceMovesFit
<1>6. kind \notin Ordered
  BY <1>4 DEF OwnKeyed, Ordered, Personal, RepositoryFiles, Exports
<1>7. \A p \in Runs : run[p] # Stopped =>
        Pending(ledger, run[p].writes) /\ Newcomers(run[p].writes)
  BY <1>4, <1>6 DEF SettledHolds, PlansStand
<1>8. AllFit(kind, ledger, run, to, e)
  BY <1>1, <1>4, <1>5, <1>7, RowsAreTold, MovesSuit
<1>9. OneStanding(ledger, to)
  BY <1>1, <1>4, <1>5, RowsAreTold, LedgerEchoes, MovesStand
<1>10. ASSUME NEW p \in Runs, run[p] # Stopped
       PROVE  OneStanding(Due(ledger, run[p].writes), to)
  <2>1. InTurn(run[p].writes) /\ Newcomers(run[p].writes)
        /\ OneStanding(Due(ledger, run[p].writes), source)
    BY <1>4, <1>10 DEF PlansStand
  <2>2. PICK F : F = Due(ledger, run[p].writes)
    OBVIOUS
  <2>3. Echoes(F, ledger, run) /\ OneNewcomer(F, ledger)
    BY <1>1, <1>7, <1>10, <2>1, <2>2, DueEchoes
  <2> QED
    BY <1>1, <1>4, <1>5, <2>1, <2>2, <2>3, RowsAreTold, MovesStand
<1>11. PlansStand(ledger, run, to)
  BY <1>4, <1>10 DEF PlansStand
<1>12. Fitting(kind, to) /\ Minting(kind, to, e)
  BY <1>5 DEF MovesTo
<1> QED
  BY <1>1, <1>2, <1>3, <1>8, <1>9, <1>11, <1>12

\* A row fits wherever it is placed on the ledger.
LEMMA PlacedFits ==
  ASSUME NEW v, IsRow(v), NEW c \in Nat, NEW k, NEW d, NEW src,
         RowFits(k, d, v) /\ RowSuits(k, src, v)
  PROVE  RowFits(k, d, Placed(v, c)) /\ RowSuits(k, src, Placed(v, c))
<1>1. PICK x : x = Placed(v, c)
  OBVIOUS
<1>2. /\ x.kind = v.kind /\ x.native = v.native /\ x.at = v.at /\ x.digest = v.digest
      /\ x.key = v.key /\ x.life = v.life /\ x.signer = v.signer /\ x.atom = v.atom
      /\ x.attrs = v.attrs
  BY <1>1 DEF Placed, IsRow
<1>3. (Bears(x, src) <=> Bears(v, src)) /\ (Replaced(x) <=> Replaced(v))
  BY <1>2 DEF Bears, Replaced
<1>4. RowFits(k, d, x) /\ RowSuits(k, src, x)
  BY <1>2, <1>3 DEF RowFits, RowSuits
<1> QED
  BY <1>1, <1>4

\* Every step keeps the ledger fitting its source.
LEMMA CurrentHoldsNext ==
  /\ OneRun /\ OwnForms /\ Returns = FALSE /\ IngestHolds /\ SettledHolds /\ CurrentHolds
  /\ [IngestNext]_ingestVars
  => CurrentHolds'
<1> SUFFICES ASSUME OneRun, OwnForms, Returns = FALSE, IngestHolds, SettledHolds, CurrentHolds,
                    [IngestNext]_ingestVars
             PROVE  CurrentHolds'
  OBVIOUS
<1>0. /\ kind \in Kinds /\ IsSource(source) /\ IsLedger(ledger) /\ minted \in Nat
      /\ clock \in Nat /\ cursor \in Nat /\ run = [p \in Runs |-> run[p]]
      /\ \A p \in Runs : run[p] # Stopped => IsIngest(run[p])
  BY DEF IngestHolds
<1>1. CASE SourceMoves
  BY <1>1, CurrentHoldsMoves
<1>2. CASE WorldMoves \/ UNCHANGED ingestVars
  <2>1. /\ kind' = kind /\ source' = source /\ minted' = minted /\ ledger' = ledger
        /\ run' = run
    BY <1>2, WorldMovesKeep DEF ingestVars
  <2> QED
    BY <2>1 DEF CurrentHolds
<1>3. kind \in OwnKeyed =>
        /\ Fitting(kind, source) /\ Minting(kind, source, minted)
        /\ AllFit(kind, ledger, run, source, minted)
        /\ OneStanding(ledger, source) /\ PlansStand(ledger, run, source) /\ kind \notin Ordered
  BY DEF CurrentHolds, OwnKeyed, Ordered, Personal, RepositoryFiles, Exports
<1>4. ASSUME NEW p \in Runs, NEW available \in BOOLEAN, NEW unitPresent \in BOOLEAN,
             BeginIngest(p, available, unitPresent), kind \in OwnKeyed
      PROVE  CurrentHolds'
  <2>1. UNCHANGED <<kind, source, minted, ledger>>
    BY <1>4 DEF BeginIngest
  <2>2. PICK w : /\ Reconciles(kind, source, ledger, clock, w)
                 /\ run'[p] # Stopped => run'[p].writes = w
    BY <1>4, IngestBegins
  <2>3. \A q \in Runs : q = p
    BY DEF OneRun
  <2>4. \A o \in ledger : RowFits(kind, minted, o) /\ RowSuits(kind, source, o)
    BY <1>3, <1>4 DEF AllFit, Tells
  <2>5. \A v \in ToSet(w) : /\ RowFits(kind, minted, v) /\ RowSuits(kind, source, v)
                            /\ v.cursor = 0 => v.life \in {"observed", "absent"}
    BY <1>0, <1>3, <1>4, <2>2, <2>4, WritesSuit
  <2>6. OneStanding(Due(ledger, w), source)
    BY <1>0, <1>3, <1>4, <2>2, ReconcilingStands
  <2>7. AllFit(kind, ledger, run', source, minted)
    BY <2>2, <2>3, <2>4, <2>5 DEF AllFit, Tells
  <2>8. PlansStand(ledger, run', source)
    BY <2>2, <2>3, <2>5, <2>6 DEF PlansStand, Newcomers, Reconciles
  <2> QED
    BY <1>3, <1>4, <2>1, <2>7, <2>8 DEF CurrentHolds
<1>5. ASSUME NEW p \in Runs, WriteRow(p), kind \in OwnKeyed PROVE CurrentHolds'
  <2> DEFINE w == run[p].writes
             v == Head(w)
  <2>1. UNCHANGED <<kind, source, minted>>
    BY <1>5 DEF WriteRow
  <2>2. /\ Sequenced(w) /\ w # <<>> /\ run[p] # Stopped /\ IsRow(v) /\ v \in ToSet(w)
        /\ ledger' = WrittenTo(ledger, v, cursor) /\ run'[p].writes = Tail(w)
    BY <1>5, RowIsWritten
  <2>3. Pending(ledger, w) /\ InTurn(w) /\ Newcomers(w) /\ OneStanding(Due(ledger, w), source)
    BY <1>3, <1>5, <2>2 DEF SettledHolds, PlansStand
  <2>4. OneStanding(WrittenTo(ledger, v, cursor), source) /\ InTurn(Tail(w))
    BY <1>0, <1>3, <1>5, <2>2, <2>3, WritingStands
  <2>5. Due(WrittenTo(ledger, v, cursor), Tail(w)) = Due(ledger, w)
    BY <1>0, <2>2, <2>3, WritingKeepsDue
  <2>6. \A t \in ToSet(Tail(w)) : t \in ToSet(w)
    BY <2>2, HeadAndTail
  <2>7. \A q \in Runs : q = p
    BY DEF OneRun
  <2> HIDE DEF v
  <2>8. \A t : Tells(ledger, run, t) => RowFits(kind, minted, t) /\ RowSuits(kind, source, t)
    BY <1>3, <1>5 DEF AllFit
  <2>9. \A t \in ToSet(w) : Tells(ledger, run, t)
    BY <2>2 DEF Tells
  <2>10. RowFits(kind, minted, Placed(v, cursor)) /\ RowSuits(kind, source, Placed(v, cursor))
    BY <1>0, <2>2, <2>8, <2>9, PlacedFits
  <2>11. \A t \in ledger' : RowFits(kind, minted, t) /\ RowSuits(kind, source, t)
    <3>1. \A t \in ledger' : t \in ledger \/ t = Placed(v, cursor) \/ t = v
      BY <1>0, <2>2, WrittenRows
    <3>2. \A t \in ledger : Tells(ledger, run, t)
      BY DEF Tells
    <3> QED
      BY <2>2, <2>8, <2>9, <2>10, <3>1, <3>2
  <2>12. AllFit(kind, ledger', run', source, minted)
    BY <2>2, <2>6, <2>7, <2>8, <2>9, <2>11 DEF AllFit, Tells
  <2>13. PlansStand(ledger', run', source)
    BY <2>2, <2>3, <2>4, <2>5, <2>6, <2>7 DEF PlansStand, Newcomers
  <2> QED
    BY <1>3, <1>5, <2>1, <2>2, <2>4, <2>12, <2>13 DEF CurrentHolds
<1>6. ASSUME NEW p \in Runs, FinishIngest(p) \/ Kill(p), kind \in OwnKeyed PROVE CurrentHolds'
  <2>1. UNCHANGED <<kind, source, minted, ledger>> /\ run' = [run EXCEPT ![p] = Stopped]
    BY <1>6 DEF FinishIngest, Kill
  <2>2. \A q \in Runs : run'[q] # Stopped => run'[q] = run[q]
    BY <1>0, <2>1
  <2>3. AllFit(kind, ledger, run', source, minted)
    BY <1>3, <1>6, <2>2 DEF AllFit, Tells
  <2>4. PlansStand(ledger, run', source)
    BY <1>3, <1>6, <2>2 DEF PlansStand
  <2> QED
    BY <1>3, <1>6, <2>1, <2>3, <2>4 DEF CurrentHolds
<1>7. CASE kind \notin OwnKeyed /\ ~SourceMoves /\ ~WorldMoves
  <2>1. kind' = kind
    BY <1>7 DEF IngestNext, ingestVars, BeginIngest, WriteRow, FinishIngest, Kill, SourceMoves,
                WorldMoves
  <2> QED
    BY <1>7, <2>1 DEF CurrentHolds
<1> QED
  BY <1>1, <1>2, <1>4, <1>5, <1>6, <1>7 DEF IngestNext, SourceMoves, WorldMoves

\* What a derivation says of one key.
SomeCurrent(S) == \E f \in S : f.fact = "current"
KeyedBy(S, n) == \A f \in S : f.key = n

\* Rows of a key of which one at most stands outside any branch.
Lone(C, n, o) ==
  /\ Rows(C) /\ KeyedBy(C, n) /\ o \in C
  /\ \A p \in C : Stands(p) /\ ~p.at => p = o

\* The history of a key is of that key, and not current.
LEMMA HistoryIsOver ==
  ASSUME NEW C, NEW W, NEW n, KeyedBy(C, n)
  PROVE  ~SomeCurrent(SettleHistory(C, W)) /\ KeyedBy(SettleHistory(C, W), n)
BY DEF SomeCurrent, KeyedBy, SettleHistory, Outcome

\* What the outcomes of a derivation say, and of which key.
LEMMA MarkSays ==
  ASSUME NEW o, NEW s, NEW d PROVE Mark(o, s, d).fact = NoFact /\ Mark(o, s, d).key = o.key
BY DEF Mark, Outcome

LEMMA HistorySays ==
  ASSUME NEW o, NEW s, NEW d, NEW f
  PROVE  PushHistory(o, s, d, f).fact = f /\ PushHistory(o, s, d, f).key = o.key
BY DEF PushHistory, Outcome

LEMMA FactSays ==
  ASSUME NEW o, NEW S, NEW s, NEW d, NEW f, NEW a
  PROVE  PushFact(o, S, s, d, f, a).fact = f /\ PushFact(o, S, s, d, f, a).key = o.key
BY DEF PushFact, Outcome

LEMMA WithdrawnSays ==
  ASSUME NEW o, NEW t
  PROVE  WithdrawRevoked(t, o).fact = "withdrawn" /\ WithdrawRevoked(t, o).key = o.key
BY FactSays DEF WithdrawRevoked

LEMMA CurrentSays ==
  ASSUME NEW o, NEW d PROVE Current(o, d).fact = "current" /\ Current(o, d).key = o.key
BY FactSays DEF Current

LEMMA SupersededSays ==
  ASSUME NEW o PROVE Superseded(o).fact = "superseded" /\ Superseded(o).key = o.key
BY HistorySays DEF Superseded

\* Of rows outside any branch, the one that stands is the head.
LEMMA LoneIsHead ==
  ASSUME NEW C, NEW n, NEW o, Lone(C, n, o), \A p \in C : ~p.at
  PROVE  /\ StandingIn(C) = IF Stands(o) THEN {o} ELSE {}
         /\ LastObserved({o}) = o /\ LastAsserted({o}) = o
<1>1. Rows({o})
  BY FS_Singleton DEF Lone, Rows, OneToAnId
<1>2. LastObserved({o}) \in {o} /\ LastAsserted({o}) \in {o}
  BY <1>1, LastObservedIsOne, LastAssertedIsOne
<1>3. StandingIn(C) = IF Stands(o) THEN {o} ELSE {}
  BY DEF Lone, StandingIn
<1> QED
  BY <1>2, <1>3

\* What the derivation of one head adds to its history.
LEMMA HistoryAndHead ==
  ASSUME NEW C, NEW n, NEW o, Lone(C, n, o), NEW W, NEW h, h.key = n, NEW D,
         D = SettleHistory(C, W) \cup (IF Stands(o) THEN {h} ELSE {})
  PROVE  KeyedBy(D, n) /\ (SomeCurrent(D) <=> Stands(o) /\ h.fact = "current")
<1>1. ~SomeCurrent(SettleHistory(C, W)) /\ KeyedBy(SettleHistory(C, W), n)
  BY HistoryIsOver DEF Lone
<1> QED
  BY <1>1 DEF SomeCurrent, KeyedBy

\* What the derivation of each family makes of the one row that stands.
LEMMA PersonalDecides ==
  ASSUME NEW C, NEW n, NEW o, Lone(C, n, o), \A p \in C : ~p.at
  PROVE  LET D == DerivePersonal(C)
         IN  /\ KeyedBy(D, n)
             /\ SomeCurrent(D) <=> Stands(o) /\ o.disp # "terminal" /\ o.atom # "observation"
<1> DEFINE D == DerivePersonal(C)
           W == {x \in C : x.disp = "current" /\ x.atom # "observation"}
           word == IF Has(o, "raw_withheld") THEN "expired_raw_withheld"
                   ELSE IF Has(o, "resumed_from") THEN "resumed"
                   ELSE IF Has(o, "edited") THEN "amended_new_observation" ELSE "current"
           h == IF o.disp = "terminal" \/ ~(o.atom # "observation")
                THEN Mark(o, "current", "terminal") ELSE Current(o, word)
<1>1. StandingIn(C) = IF Stands(o) THEN {o} ELSE {}
  BY LoneIsHead
<1>2. D = SettleHistory(C, W) \cup (IF Stands(o) THEN {h} ELSE {})
  <2>1. CASE Stands(o)
    <3>1. StandingIn(C) = {o}
      BY <1>1, <2>1
    <3> QED
      BY <2>1, <3>1 DEF DerivePersonal
  <2>2. CASE ~Stands(o)
    <3>1. StandingIn(C) = {}
      BY <1>1, <2>2
    <3> QED
      BY <2>2, <3>1 DEF DerivePersonal
  <2> QED
    BY <2>1, <2>2
<1>3. o.key = n
  BY DEF Lone, KeyedBy
<1>4. h.key = n /\ (h.fact = "current" <=> o.disp # "terminal" /\ o.atom # "observation")
  <2> HIDE DEF word
  <2>1. Mark(o, "current", "terminal").fact # "current" /\ Mark(o, "current", "terminal").key = n
    BY <1>3, MarkSays DEF NoFact
  <2>2. Current(o, word).fact = "current" /\ Current(o, word).key = n
    BY <1>3, CurrentSays
  <2> QED
    BY <2>1, <2>2
<1> HIDE DEF D, W, h
<1>5. KeyedBy(D, n) /\ (SomeCurrent(D) <=> Stands(o) /\ h.fact = "current")
  BY <1>2, <1>4, HistoryAndHead
<1> QED
  BY <1>4, <1>5 DEF D

LEMMA GitDecides ==
  ASSUME NEW C, NEW n, NEW o, Lone(C, n, o), \A p \in C : ~p.at, NEW now
  PROVE  LET D == DeriveGit(now, C)
         IN  /\ KeyedBy(D, n)
             /\ SomeCurrent(D) <=> /\ Stands(o) /\ o.atom = "merge" /\ ~Has(o, "reverted_by")
                                   /\ TrustedOrigin(o)
<1> DEFINE D == DeriveGit(now, C)
           W == {x \in C : x.atom = "merge" /\ WouldBeCurrent(x, now)}
           merged == IF Has(o, "reverted_by") THEN
                            PushFact(o, {}, "current", "reverted", "withdrawn",
                                     {<<"reverted", "reopened">>})
                     ELSE IF TrustedOrigin(o) THEN PushFact(o, {}, "current", "merged", "current", {})
                     ELSE PushFact(o, {}, "current", "unreviewed", "unverified", {})
           word == IF Has(o, "skew_bounded") THEN "skew_bounded"
                   ELSE IF Has(o, "reverts") THEN "revert"
                   ELSE IF Has(o, "reverted_by") THEN "reverted" ELSE "committed"
           h == CASE o.atom = "ref" -> PushFact(o, {}, "current", "ref", "evidence", {})
                  [] o.atom = "merge" -> merged
                  [] OTHER -> Mark(o, "current", word)
<1>1. (StandingIn(C) = IF Stands(o) THEN {o} ELSE {}) /\ LastObserved({o}) = o
  BY LoneIsHead
<1>2. D = SettleHistory(C, W) \cup (IF Stands(o) THEN {h} ELSE {})
  <2>1. CASE Stands(o)
    <3>1. StandingIn(C) = {o} /\ {x \in {o} : x # o} = {} /\ {o} # {}
      BY <1>1, <2>1
    <3>2. {Mark(x, "current", "supporting") : x \in {}} = {}
      OBVIOUS
    <3> QED
      BY <1>1, <2>1, <3>1, <3>2 DEF DeriveGit
  <2>2. CASE ~Stands(o)
    <3>1. StandingIn(C) = {} /\ {x \in {} : x # LastObserved({})} = {}
      BY <1>1, <2>2
    <3>2. {Mark(x, "current", "supporting") : x \in {}} = {}
      OBVIOUS
    <3> QED
      BY <2>2, <3>1, <3>2 DEF DeriveGit
  <2> QED
    BY <2>1, <2>2
<1>3. o.key = n
  BY DEF Lone, KeyedBy
<1>4. /\ h.key = n
      /\ h.fact = "current" <=> o.atom = "merge" /\ ~Has(o, "reverted_by") /\ TrustedOrigin(o)
  <2> HIDE DEF word
  <2>1. merged.key = n /\ (merged.fact = "current" <=> ~Has(o, "reverted_by") /\ TrustedOrigin(o))
    BY <1>3, FactSays
  <2> HIDE DEF merged
  <2>2. Mark(o, "current", word).fact # "current" /\ Mark(o, "current", word).key = n
    BY <1>3, MarkSays DEF NoFact
  <2>3. PICK ref : ref = PushFact(o, {}, "current", "ref", "evidence", {})
    OBVIOUS
  <2>4. ref.fact = "evidence" /\ ref.key = n
    BY <1>3, <2>3, FactSays
  <2> QED
    BY <2>1, <2>2, <2>3, <2>4
<1> HIDE DEF D, W, h
<1>5. KeyedBy(D, n) /\ (SomeCurrent(D) <=> Stands(o) /\ h.fact = "current")
  BY <1>2, <1>4, HistoryAndHead
<1> QED
  BY <1>4, <1>5 DEF D

LEMMA GithubDecides ==
  ASSUME NEW C, NEW n, NEW o, Lone(C, n, o), \A p \in C : ~p.at, NEW now
  PROVE  LET D == DeriveGithub(now, C)
         IN  /\ KeyedBy(D, n)
             /\ SomeCurrent(D) <=> Stands(o) /\ o.disp \in {"merged", "current"}
<1> DEFINE D == DeriveGithub(now, C)
           W == {x \in C : WouldBeCurrent(x, now) /\ x.disp = "merged"}
           asks == CASE o.disp = "merged" -> {<<"review-conflict", "closed">>}
                     [] o.disp = "disputed" -> {<<"review-conflict", "open">>}
                     [] o.disp = "reopened" -> {<<"reopened", "reopened">>}
                     [] OTHER -> {}
           fact == CASE o.disp = "merged" -> "current"
                     [] o.disp = "disputed" -> "conflict"
                     [] o.disp = "reopened" -> "open"
                     [] OTHER -> o.disp
           word == IF Has(o, "edited") THEN "amended_new_observation" ELSE o.disp
           h == PushFact(o, {}, "current", word, fact, asks)
<1>1. (StandingIn(C) = IF Stands(o) THEN {o} ELSE {}) /\ LastObserved({o}) = o
  BY LoneIsHead
<1>2. D = SettleHistory(C, W) \cup (IF Stands(o) THEN {h} ELSE {})
  <2>1. CASE Stands(o)
    <3>1. StandingIn(C) = {o} /\ {x \in {o} : x # o} = {} /\ {o} # {}
      BY <1>1, <2>1
    <3>2. {Superseded(x) : x \in {}} = {}
      OBVIOUS
    <3> QED
      BY <1>1, <2>1, <3>1, <3>2 DEF DeriveGithub
  <2>2. CASE ~Stands(o)
    <3>1. StandingIn(C) = {} /\ {x \in {} : x # LastObserved({})} = {}
      BY <1>1, <2>2
    <3>2. {Superseded(x) : x \in {}} = {}
      OBVIOUS
    <3> QED
      BY <2>2, <3>1, <3>2 DEF DeriveGithub
  <2> QED
    BY <2>1, <2>2
<1>3. o.key = n
  BY DEF Lone, KeyedBy
<1>4. h.key = n /\ (h.fact = "current" <=> o.disp \in {"merged", "current"})
  <2>1. fact = "current" <=> o.disp \in {"merged", "current"}
    OBVIOUS
  <2> HIDE DEF word, asks, fact
  <2> QED
    BY <1>3, <2>1, FactSays
<1> HIDE DEF D, W, h
<1>5. KeyedBy(D, n) /\ (SomeCurrent(D) <=> Stands(o) /\ h.fact = "current")
  BY <1>2, <1>4, HistoryAndHead
<1> QED
  BY <1>4, <1>5 DEF D

LEMMA ExportDecides ==
  ASSUME NEW C, NEW n, NEW o, Lone(C, n, o), \A p \in C : ~p.at, NEW t, NEW now
  PROVE  LET D == DeriveExport(t, now, C)
         IN  /\ KeyedBy(D, n)
             /\ SomeCurrent(D) <=> /\ Stands(o) /\ ~RevocationOf(t, o) /\ ~Expired(o, now)
                                   /\ WouldBeCurrent(o, now) \/ o.disp = "current"
<1> DEFINE D == DeriveExport(t, now, C)
           W == {x \in C : WouldBeCurrent(x, now)}
           h == IF RevocationOf(t, o) THEN WithdrawRevoked(t, o)
                ELSE IF Expired(o, now) THEN
                       PushFact(o, {}, "stale", "expired_raw_withheld", "withdrawn", {})
                ELSE IF WouldBeCurrent(o, now) THEN Current(o, o.disp)
                ELSE PushFact(o, {}, "current", o.disp, o.disp, {})
<1>1. (StandingIn(C) = IF Stands(o) THEN {o} ELSE {}) /\ LastAsserted({o}) = o
  BY LoneIsHead
<1>2. D = SettleHistory(C, W) \cup (IF Stands(o) THEN {h} ELSE {})
  <2>1. CASE Stands(o)
    <3>1. StandingIn(C) = {o} /\ {x \in {o} : x # o} = {} /\ {o} # {}
      BY <1>1, <2>1
    <3>2. {Superseded(x) : x \in {}} = {}
      OBVIOUS
    <3> QED
      BY <1>1, <2>1, <3>1, <3>2 DEF DeriveExport
  <2>2. CASE ~Stands(o)
    <3>1. StandingIn(C) = {} /\ {x \in {} : x # LastAsserted({})} = {}
      BY <1>1, <2>2
    <3>2. {Superseded(x) : x \in {}} = {}
      OBVIOUS
    <3> QED
      BY <2>2, <3>1, <3>2 DEF DeriveExport
  <2> QED
    BY <2>1, <2>2
<1>3. o.key = n
  BY DEF Lone, KeyedBy
<1>4. /\ h.key = n
      /\ h.fact = "current" <=> /\ ~RevocationOf(t, o) /\ ~Expired(o, now)
                                /\ WouldBeCurrent(o, now) \/ o.disp = "current"
  BY <1>3, FactSays, CurrentSays, WithdrawnSays
<1> HIDE DEF D, W, h
<1>5. KeyedBy(D, n) /\ (SomeCurrent(D) <=> Stands(o) /\ h.fact = "current")
  BY <1>2, <1>4, HistoryAndHead
<1> QED
  BY <1>4, <1>5 DEF D

LEMMA KindexDecides ==
  ASSUME NEW C, NEW n, NEW o, Lone(C, n, o), \A p \in C : ~p.at, NEW t, NEW now
  PROVE  LET D == DeriveKindex(t, now, C)
         IN  /\ KeyedBy(D, n)
             /\ SomeCurrent(D) <=>
                  /\ Stands(o) /\ ~RevocationOf(t, o) /\ ~Expired(o, now)
                  /\ o.disp \notin {"manifest_observation_expired", "retracted", "superseded"}
                  /\ ~Has(o, "contradicts") /\ ~Has(o, "superseded_by")
<1> DEFINE D == DeriveKindex(t, now, C)
           W == {x \in C : WouldBeCurrent(x, now) /\ ~Has(x, "contradicts")}
           h == IF RevocationOf(t, o) THEN WithdrawRevoked(t, o)
                ELSE IF Expired(o, now) \/ o.disp = "manifest_observation_expired" THEN
                       PushFact(o, {}, "stale", "expired_raw_withheld", "historical",
                                {<<"expired", "open">>})
                ELSE IF Has(o, "contradicts") THEN
                       PushFact(o, {}, "current", "conflicting_observations", "conflict",
                                {<<"conflict", "open">>})
                ELSE IF o.disp = "retracted" THEN
                       PushFact(o, {}, "retracted", "retracted_observation", "withdrawn",
                                {<<"withdrawn", "reopened">>})
                ELSE IF o.disp = "superseded" \/ Has(o, "superseded_by") THEN
                       PushFact(o, {}, "stale", "superseded", "superseded", {})
                ELSE Current(o, "current")
<1>1. (StandingIn(C) = IF Stands(o) THEN {o} ELSE {}) /\ LastObserved({o}) = o
  BY LoneIsHead
<1>2. D = SettleHistory(C, W) \cup (IF Stands(o) THEN {h} ELSE {})
  <2>1. CASE Stands(o)
    <3>1. StandingIn(C) = {o} /\ {x \in {o} : x # o} = {} /\ {o} # {}
      BY <1>1, <2>1
    <3>2. {Superseded(x) : x \in {}} = {}
      OBVIOUS
    <3> QED
      BY <1>1, <2>1, <3>1, <3>2 DEF DeriveKindex
  <2>2. CASE ~Stands(o)
    <3>1. StandingIn(C) = {} /\ {x \in {} : x # LastObserved({})} = {}
      BY <1>1, <2>2
    <3>2. {Superseded(x) : x \in {}} = {}
      OBVIOUS
    <3> QED
      BY <2>2, <3>1, <3>2 DEF DeriveKindex
  <2> QED
    BY <2>1, <2>2
<1>3. o.key = n
  BY DEF Lone, KeyedBy
<1>4. /\ h.key = n
      /\ h.fact = "current" <=>
           /\ ~RevocationOf(t, o) /\ ~Expired(o, now)
           /\ o.disp \notin {"manifest_observation_expired", "retracted", "superseded"}
           /\ ~Has(o, "contradicts") /\ ~Has(o, "superseded_by")
  BY <1>3, FactSays, CurrentSays, WithdrawnSays
<1> HIDE DEF D, W, h
<1>5. KeyedBy(D, n) /\ (SomeCurrent(D) <=> Stands(o) /\ h.fact = "current")
  BY <1>2, <1>4, HistoryAndHead
<1> QED
  BY <1>4, <1>5 DEF D

\* A copy on a branch is never current, and all rows are revoked or none.
LEMMA FileDecides ==
  ASSUME NEW C, NEW n, NEW o, Lone(C, n, o), NEW t, NEW now,
         \A p \in C : RevocationOf(t, p) <=> RevocationOf(t, o)
  PROVE  LET D == DeriveRepositoryFile(t, now, C)
         IN  /\ KeyedBy(D, n)
             /\ SomeCurrent(D) <=> /\ Stands(o) /\ ~o.at /\ HeadEligible(o)
                                   /\ HeadFact(o) = "current" /\ ~RevocationOf(t, o)
<1> DEFINE D == DeriveRepositoryFile(t, now, C)
           W == {x \in C : WouldBeCurrent(x, now)}
           alive == StandingIn(C)
           heads == RepositoryHead(alive)
           head == LastObserved(heads)
           isHead(x) == heads # {} /\ x = head
           revoked == \E x \in alive : RevocationOf(t, x)
           agreeing(x) == {p \in alive \ {x} : p.digest = x.digest}
           settle(x) ==
             CASE revoked /\ isHead(x) -> WithdrawRevoked(t, x)
               [] revoked /\ ~isHead(x) ->
                    PushHistory(x, "quarantined", "revoked_observation", "withdrawn")
               [] ~revoked /\ isHead(x) ->
                    PushFact(x, agreeing(x), "current",
                             IF Has(x, "renamed_from") THEN "amended_new_observation" ELSE x.disp,
                             HeadFact(x), {})
               [] ~revoked /\ heads = {} ->
                    PushFact(x, {}, "current", "unreviewed", "unverified", {})
               [] OTHER ->
                    IF head.digest = x.digest THEN Mark(x, "current", "supporting")
                    ELSE PushFact(x, {}, "current", "conflicting_observations", "conflict",
                                  {<<"conflict", "open">>})
<1>1. D = SettleHistory(C, W) \cup {settle(x) : x \in alive}
  BY DEF DeriveRepositoryFile
<1>2. ~SomeCurrent(SettleHistory(C, W)) /\ KeyedBy(SettleHistory(C, W), n)
  BY HistoryIsOver DEF Lone
<1>3. ASSUME NEW x \in C
      PROVE  /\ settle(x).key = n
             /\ settle(x).fact = "current" <=> ~revoked /\ isHead(x) /\ HeadFact(x) = "current"
  <2>1. x.key = n
    BY DEF Lone, KeyedBy
  <2>2. PICK word : word = IF Has(x, "renamed_from") THEN "amended_new_observation" ELSE x.disp
    OBVIOUS
  <2>3. PICK a : a = WithdrawRevoked(t, x)
    OBVIOUS
  <2>4. PICK b : b = PushHistory(x, "quarantined", "revoked_observation", "withdrawn")
    OBVIOUS
  <2>5. PICK c : c = PushFact(x, agreeing(x), "current", word, HeadFact(x), {})
    OBVIOUS
  <2>6. PICK d : d = PushFact(x, {}, "current", "unreviewed", "unverified", {})
    OBVIOUS
  <2>7. PICK e : e = IF head.digest = x.digest THEN Mark(x, "current", "supporting")
                     ELSE PushFact(x, {}, "current", "conflicting_observations", "conflict",
                                   {<<"conflict", "open">>})
    OBVIOUS
  <2>8. /\ a.fact = "withdrawn" /\ a.key = n /\ b.fact = "withdrawn" /\ b.key = n
        /\ c.fact = HeadFact(x) /\ c.key = n /\ d.fact = "unverified" /\ d.key = n
    BY <2>1, <2>3, <2>4, <2>5, <2>6, WithdrawnSays, HistorySays, FactSays
  <2>9. e.fact # "current" /\ e.key = n
    <3>1. CASE head.digest = x.digest
      BY <2>1, <2>7, <3>1, MarkSays DEF NoFact
    <3>2. CASE head.digest # x.digest
      BY <2>1, <2>7, <3>2, FactSays
    <3> QED
      BY <3>1, <3>2
  <2>10. settle(x) = CASE revoked /\ isHead(x) -> a
                       [] revoked /\ ~isHead(x) -> b
                       [] ~revoked /\ isHead(x) -> c
                       [] ~revoked /\ heads = {} -> d
                       [] OTHER -> e
    BY <2>2, <2>3, <2>4, <2>5, <2>6, <2>7
  <2>11. isHead(x) => heads # {}
    OBVIOUS
  <2>12. revoked \in BOOLEAN /\ isHead(x) \in BOOLEAN
    OBVIOUS
  <2> HIDE DEF settle, revoked, isHead, heads
  <2>13. CASE revoked /\ isHead(x)
    <3>1. settle(x) = a
      BY <2>10, <2>13
    <3> QED
      BY <2>8, <2>13, <3>1
  <2>14. CASE revoked /\ ~isHead(x)
    <3>1. settle(x) = b
      BY <2>10, <2>14
    <3> QED
      BY <2>8, <2>14, <3>1
  <2>15. CASE ~revoked /\ isHead(x)
    <3>1. settle(x) = c
      BY <2>10, <2>11, <2>15
    <3> QED
      BY <2>8, <2>15, <3>1
  <2>16. CASE ~revoked /\ ~isHead(x)
    <3>1. settle(x) = d \/ settle(x) = e
      BY <2>10, <2>16
    <3> QED
      BY <2>8, <2>9, <2>16, <3>1
  <2> QED
    BY <2>13, <2>14, <2>15, <2>16
<1> HIDE DEF settle
<1>4. \A x \in alive : x \in C
  BY DEF StandingIn
<1>5. KeyedBy(D, n)
  BY <1>1, <1>2, <1>3, <1>4 DEF KeyedBy
<1>6. SomeCurrent(D) <=> \E x \in alive : ~revoked /\ isHead(x) /\ HeadFact(x) = "current"
  BY <1>1, <1>2, <1>3, <1>4 DEF SomeCurrent
<1>7. heads = IF Stands(o) /\ ~o.at /\ HeadEligible(o) THEN {o} ELSE {}
  BY DEF RepositoryHead, StandingIn, Lone
<1>8. LastObserved({o}) = o
  <2>1. Rows({o})
    BY FS_Singleton DEF Lone, Rows, OneToAnId
  <2> QED
    BY <2>1, LastObservedIsOne
<1>9. Stands(o) => (revoked <=> RevocationOf(t, o)) /\ o \in alive
  BY <1>4 DEF StandingIn, Lone
<1>10. SomeCurrent(D) <=> /\ Stands(o) /\ ~o.at /\ HeadEligible(o)
                          /\ HeadFact(o) = "current" /\ ~RevocationOf(t, o)
  <2> HIDE DEF D, alive, heads, revoked
  <2>1. CASE Stands(o) /\ ~o.at /\ HeadEligible(o)
    <3>1. heads = {o} /\ head = o
      BY <1>7, <1>8, <2>1
    <3> HIDE DEF head
    <3> QED
      BY <1>6, <1>9, <2>1, <3>1
  <2>2. CASE ~(Stands(o) /\ ~o.at /\ HeadEligible(o))
    <3>1. heads = {}
      BY <1>7, <2>2
    <3> QED
      BY <1>6, <2>2, <3>1
  <2> QED
    BY <2>1, <2>2
<1> HIDE DEF D
<1> QED
  BY <1>5, <1>10 DEF D

\* What makes the standing row of an item current.
Upholds(k, t, now, o) ==
  \/ k \in Personal /\ o.disp # "terminal" /\ o.atom # "observation"
  \/ /\ k \in RepositoryFiles /\ HeadEligible(o) /\ HeadFact(o) = "current"
     /\ ~RevocationOf(t, o)
  \/ k = "git_history" /\ o.atom = "merge" /\ ~Has(o, "reverted_by") /\ TrustedOrigin(o)
  \/ k = "github_export" /\ o.disp \in {"merged", "current"}
  \/ /\ k \in Exports /\ ~RevocationOf(t, o) /\ ~Expired(o, now)
     /\ WouldBeCurrent(o, now) \/ o.disp = "current"
  \/ /\ k = "kindex" /\ ~RevocationOf(t, o) /\ ~Expired(o, now)
     /\ o.disp \notin {"manifest_observation_expired", "retracted", "superseded"}
     /\ ~Has(o, "contradicts") /\ ~Has(o, "superseded_by")

\* Rows nobody signed are revoked together.
LEMMA SameRevocation ==
  ASSUME NEW o, NEW p, o.kind = p.kind, o.signer = None, p.signer = None, NEW t
  PROVE  RevocationOf(t, p) <=> RevocationOf(t, o)
BY DEF RevocationOf

\* What a derivation makes of the one row that stands.
LEMMA CohortDecides ==
  ASSUME NEW k \in OwnKeyed, NEW C, NEW n, NEW o, Lone(C, n, o), NEW t, NEW now,
         \A p \in C : p.kind = k /\ p.signer = None /\ (p.at => k \in RepositoryFiles)
  PROVE  LET D == DeriveCohort(t, now, C)
         IN  /\ KeyedBy(D, n)
             /\ SomeCurrent(D) <=> Stands(o) /\ ~o.at /\ Upholds(k, t, now, o)
<1>1. FirstObserved(C) \in C
  BY FirstObservedIsOne DEF Lone
<1>2. FirstObserved(C).kind = k
  BY <1>1
<1>3. k \notin RepositoryFiles => \A p \in C : ~p.at
  OBVIOUS
<1>4. o \in C
  BY DEF Lone
<1>5. \A p \in C : RevocationOf(t, p) <=> RevocationOf(t, o)
  BY <1>4, SameRevocation
<1>6. CASE k \in Personal
  <2>1. DeriveCohort(t, now, C) = DerivePersonal(C)
    BY <1>2, <1>6 DEF DeriveCohort, Personal, RepositoryFiles, Exports
  <2>2. k \notin RepositoryFiles
    BY <1>6 DEF Personal, RepositoryFiles
  <2>3. Upholds(k, t, now, o) <=> o.disp # "terminal" /\ o.atom # "observation"
    BY <1>6 DEF Upholds, Personal, RepositoryFiles, Exports
  <2> QED
    BY <1>3, <1>4, <2>1, <2>2, <2>3, PersonalDecides
<1>7. CASE k \in RepositoryFiles
  <2>1. DeriveCohort(t, now, C) = DeriveRepositoryFile(t, now, C)
    BY <1>2, <1>7 DEF DeriveCohort, Personal, RepositoryFiles, Exports
  <2>3. Upholds(k, t, now, o) <=>
          HeadEligible(o) /\ HeadFact(o) = "current" /\ ~RevocationOf(t, o)
    BY <1>7 DEF Upholds, Personal, RepositoryFiles, Exports
  <2> QED
    BY <1>5, <2>1, <2>3, FileDecides
<1>8. CASE k = "git_history"
  <2>1. DeriveCohort(t, now, C) = DeriveGit(now, C)
    BY <1>2, <1>8 DEF DeriveCohort, Personal, RepositoryFiles, Exports
  <2>2. k \notin RepositoryFiles
    BY <1>8 DEF RepositoryFiles
  <2>3. Upholds(k, t, now, o) <=>
          o.atom = "merge" /\ ~Has(o, "reverted_by") /\ TrustedOrigin(o)
    BY <1>8 DEF Upholds, Personal, RepositoryFiles, Exports
  <2> QED
    BY <1>3, <1>4, <2>1, <2>2, <2>3, GitDecides
<1>9. CASE k = "github_export"
  <2>1. DeriveCohort(t, now, C) = DeriveGithub(now, C)
    BY <1>2, <1>9 DEF DeriveCohort, Personal, RepositoryFiles, Exports
  <2>2. k \notin RepositoryFiles
    BY <1>9 DEF RepositoryFiles
  <2>3. Upholds(k, t, now, o) <=> o.disp \in {"merged", "current"}
    BY <1>9 DEF Upholds, Personal, RepositoryFiles, Exports
  <2> QED
    BY <1>3, <1>4, <2>1, <2>2, <2>3, GithubDecides
<1>10. CASE k \in Exports
  <2>1. DeriveCohort(t, now, C) = DeriveExport(t, now, C)
    BY <1>2, <1>10 DEF DeriveCohort, Personal, RepositoryFiles, Exports
  <2>2. k \notin RepositoryFiles
    BY <1>10 DEF Exports, RepositoryFiles
  <2>3. Upholds(k, t, now, o) <=> /\ ~RevocationOf(t, o) /\ ~Expired(o, now)
                                  /\ WouldBeCurrent(o, now) \/ o.disp = "current"
    BY <1>10 DEF Upholds, Personal, RepositoryFiles, Exports
  <2> QED
    BY <1>3, <1>4, <2>1, <2>2, <2>3, ExportDecides
<1>11. CASE k = "kindex"
  <2>1. DeriveCohort(t, now, C) = DeriveKindex(t, now, C)
    BY <1>2, <1>11 DEF DeriveCohort, Personal, RepositoryFiles, Exports
  <2>2. k \notin RepositoryFiles
    BY <1>11 DEF RepositoryFiles
  <2>3. Upholds(k, t, now, o) <=>
          /\ ~RevocationOf(t, o) /\ ~Expired(o, now)
          /\ o.disp \notin {"manifest_observation_expired", "retracted", "superseded"}
          /\ ~Has(o, "contradicts") /\ ~Has(o, "superseded_by")
    BY <1>11 DEF Upholds, Personal, RepositoryFiles, Exports
  <2> QED
    BY <1>3, <1>4, <2>1, <2>2, <2>3, KindexDecides
<1> QED
  BY <1>6, <1>7, <1>8, <1>9, <1>10, <1>11 DEF OwnKeyed

\* What an ingest is told of authority: the repository's own key warrants it, and
\* is withdrawn only by a revocation on record.
Trusted(t) ==
  /\ t = [active |-> t.active, revoked |-> t.revoked, governing |-> t.governing,
          maintainers |-> t.maintainers, repoKeys |-> t.repoKeys, watermark |-> t.watermark,
          certificate |-> t.certificate, steward |-> t.steward]
  /\ t.maintainers = {} /\ t.repoKeys = {OwnKey} /\ t.certificate = TRUE
  /\ \E a \in t.active : a.scope = "repository"
  /\ \A a \in t.active : a.key = OwnKey
  /\ t.governing \subseteq {OwnKey}
  /\ OwnKey \in t.governing => \E r \in t.revoked : r.key = OwnKey

\* At first the repository's own key is trusted.
LEMMA TrustedInit == IngestInit => Trusted(trust)
<1> SUFFICES ASSUME IngestInit PROVE Trusted(trust)
  OBVIOUS
<1>1. PICK A : /\ A = {[scope |-> "repository", key |-> OwnKey, identity |-> "owner", cursor |-> 1],
                       [scope |-> "company", key |-> OwnKey, identity |-> "owner", cursor |-> 1]}
  OBVIOUS
<1>2. (\A a \in A : a.key = OwnKey) /\ (\E a \in A : a.scope = "repository")
  BY <1>1
<1>3. trust = [active |-> A, revoked |-> {}, governing |-> {}, maintainers |-> {},
               repoKeys |-> {OwnKey}, watermark |-> <<>>, certificate |-> TRUE,
               steward |-> "steward"]
  BY <1>1 DEF IngestInit
<1> QED
  BY <1>2, <1>3 DEF Trusted

\* No step lists another key, or withdraws this one without a revocation.
LEMMA TrustedNext == Trusted(trust) /\ [IngestNext]_ingestVars => Trusted(trust')
<1> SUFFICES ASSUME Trusted(trust), [IngestNext]_ingestVars PROVE Trusted(trust')
  OBVIOUS
<1>1. ASSUME RevokeKey(OwnKey) PROVE Trusted(trust')
  <2>1. PICK fresh : fresh = [key |-> OwnKey, cursor |-> Cardinality(trust.revoked) + 1,
                             effective |-> clock]
    OBVIOUS
  <2>2. fresh.key = OwnKey
    BY <2>1
  <2>3. trust' = [trust EXCEPT !.revoked = @ \cup {fresh}, !.governing = @ \cup {OwnKey}]
    BY <1>1, <2>1 DEF RevokeKey
  <2> QED
    BY <2>2, <2>3 DEF Trusted
<1>2. ASSUME RegisterAgain(OwnKey) PROVE Trusted(trust')
  BY <1>2 DEF RegisterAgain, Trusted
<1>3. ASSUME NEW p \in Runs, FinishIngest(p) PROVE Trusted(trust')
  <2>1. PICK marks : trust' = [trust EXCEPT !.watermark = marks]
    BY <1>3 DEF FinishIngest, Observed
  <2> QED
    BY <2>1 DEF Trusted
<1>4. CASE UNCHANGED trust
  BY <1>4
<1> QED
  BY <1>1, <1>2, <1>3, <1>4 DEF IngestNext, ingestVars, Edit, Reclassify, PutBack, Rename, Delete,
     ClockTicks, BeginIngest, WriteRow, Kill

\* An unsigned row of the repository is revoked while its key is.
LEMMA OwnKeyWarrants ==
  ASSUME AbsentIsApart, NEW t, Trusted(t), NEW o, o.signer = None, StoreFor(o.kind) = "codebase"
  PROVE  RevocationOf(t, o) <=> OwnKey \in t.governing
<1>1. t.governing # Unread
  BY DEF AbsentIsApart, Trusted
<1>2. RepositoryWarranted(t) <=> OwnKey \notin t.governing
  <2>1. {a.key : a \in {x \in t.active : x.scope = "repository"}} \cup t.maintainers = {OwnKey}
    BY DEF Trusted
  <2> QED
    BY <1>1, <2>1 DEF RepositoryWarranted, KeyRevoked
<1>3. RevocationOf(t, o) <=> /\ t.revoked # {} \/ t.governing \notin {Unread, {}}
                             /\ ~RepositoryWarranted(t)
                             /\ \E r \in t.revoked : r.key = OwnKey
  BY DEF RevocationOf, Trusted
<1> QED
  BY <1>2, <1>3 DEF Trusted

-----------------------------------------------------------------------------
\* A ledger at rest: every record of the source is held and agreed with, and
\* what stands is in the scan or beyond its window.
Reported(L, k, src) ==
  /\ \A r \in RecordsOf(k, src) : \E o \in L : Id(o) = Id(r) /\ Agrees(o, r)
  /\ \A o \in L : Stands(o) => \/ Identity(o) \in PresentIn(k, src)
                               \/ \E e \in PresentElsewhere(k, src) : e[1] = o.native

\* What is settled is reported.
LEMMA RestIsReported ==
  ASSUME NEW k, NEW src, NEW L, IsLedger(L), Settled(Due(L, <<>>), k, src)
  PROVE  Reported(L, k, src)
<1>1. Due(L, <<>>) = {Bare(o) : o \in L}
  BY DEF Due, Untouched, ToSet
<1>2. ASSUME NEW r \in RecordsOf(k, src) PROVE \E o \in L : Id(o) = Id(r) /\ Agrees(o, r)
  <2>1. PICK o \in L : Id(Bare(o)) = Id(r) /\ Agrees(Bare(o), r)
    BY <1>1 DEF Settled
  <2> QED
    BY <2>1, BareKeeps DEF IsLedger
<1>3. ASSUME NEW o \in L, Stands(o)
      PROVE  \/ Identity(o) \in PresentIn(k, src)
             \/ \E e \in PresentElsewhere(k, src) : e[1] = o.native
  <2>1. ~Lost(k, src, Due(L, <<>>), Bare(o))
    BY <1>1 DEF Settled
  <2>2. Stands(Bare(o)) /\ Identity(Bare(o)) = Identity(o) /\ Bare(o).native = o.native
    BY <1>3, BareKeeps DEF IsLedger
  <2> QED
    BY <2>1, <2>2 DEF Lost, StillElsewhere
<1> QED
  BY <1>2, <1>3 DEF Reported

\* The standing row of an item says what its record does.
Mirrors(o, k, i, n) ==
  /\ o.kind = k /\ o.signer = None /\ ~o.at /\ "reducer_owned" \notin o.attrs
  /\ o.life \in Lives /\ ~Replaced(o) /\ Agrees(o, MainRecord(k, i, n))
  /\ k \in AtomKinds => o.atom = WordOf(k, i)

\* A row that agrees with its record stands if the record is present.
LEMMA MirrorSays ==
  ASSUME NEW o, NEW k, NEW i, NEW n, Mirrors(o, k, i, n), NEW m, m = MainRecord(k, i, n)
  PROVE  /\ o.disp = m.disp /\ o.origin = m.origin /\ o.until = m.until
         /\ Stands(o) <=> m.present
         /\ Has(o, "reverted_by") <=> "reverted_by" \in m.attrs
         /\ Has(o, "contradicts") <=> "contradicts" \in m.attrs
         /\ Has(o, "superseded_by") <=> "superseded_by" \in m.attrs
         /\ Derivable(o) <=> m.disp # "CLOCK_SKEW"
<1>1. o.disp = m.disp /\ o.origin = m.origin /\ o.until = m.until
  BY DEF Mirrors, Agrees
<1>2. Stands(o) <=> m.present
  BY DEF Mirrors, Agrees, Lives, Replaced, Stands, WithdrawnLife
<1>3. \A name : name \notin {"renamed_from", "reducer_owned"} => (name \in o.attrs <=> name \in m.attrs)
  BY DEF Mirrors, Agrees
<1>4. Derivable(o) <=> m.disp # "CLOCK_SKEW"
  BY <1>1 DEF Derivable, Has, Mirrors
<1> QED
  BY <1>1, <1>2, <1>3, <1>4 DEF Has

\* What the standing row of an item is accepted for, kind by kind.
LEMMA TranscriptIsAccepted ==
  ASSUME kind \in Personal, NEW i, NEW n, NEW o, Mirrors(o, kind, i, n), Worded(kind, i),
         ~Unscanned(kind, i)
  PROVE  Derivable(o) /\ (Stands(o) /\ Upholds(kind, trust, clock, o) <=> Accepted(i))
<1>1. PICK m : m = MainRecord(kind, i, n)
  OBVIOUS
<1>2. PICK atom, disp : /\ disp = IF i.state = "terminal" THEN "terminal" ELSE "current"
                        /\ atom = IF i.state = "terminal" THEN "observation" ELSE "claim"
  OBVIOUS
<1>3. m = [Record(kind, n, i, atom, disp, "personal-host")
             EXCEPT !.scope = "host-session",
                    !.attrs = i.marks \cap {"edited", "resumed_from", "raw_withheld"}]
  BY <1>1, <1>2 DEF MainRecord, Personal, Exports
<1>4. m.disp = disp /\ m.present
  BY <1>3 DEF Record
<1>5. o.disp = disp /\ Stands(o) /\ Derivable(o)
  BY <1>1, <1>2, <1>4, MirrorSays
<1>6. o.atom = IF i.state = "terminal" THEN "observation" ELSE "claim"
  BY DEF Mirrors, AtomKinds, WordOf, Personal
<1>7. i.state \in {"line", "terminal"}
  BY DEF Worded, Unscanned
<1>8. Upholds(kind, trust, clock, o) <=> o.disp # "terminal" /\ o.atom # "observation"
  BY DEF Upholds, Personal, RepositoryFiles, Exports
<1>9. Accepted(i) <=> i.state = "line"
  BY DEF Accepted, Personal, Exports
<1> QED
  BY <1>2, <1>5, <1>6, <1>7, <1>8, <1>9

\* A file that only a branch holds is no head.
LEMMA OriginOfFile ==
  ASSUME AbsentIsApart, NEW k \in RepositoryFiles, NEW i, Worded(k, i), NEW o,
         o.origin = OriginTrust(i)
  PROVE  HeadEligible(o) <=> i.place # "branch"
<1>1. i.place \in {"dirty", "default", "merged-pr", "branch"}
  BY DEF Worded
<1>2. CASE i.place = "branch"
  <2>1. o.origin = "unreviewed-branch"
    BY <1>2 DEF OriginTrust
  <2> QED
    BY <1>2, <2>1 DEF HeadEligible, TrustedOrigin, AbsentIsApart
<1>3. CASE i.place = "dirty"
  BY <1>3 DEF OriginTrust, HeadEligible
<1>4. CASE i.place = "default"
  BY <1>4 DEF OriginTrust, HeadEligible, TrustedOrigin
<1>5. CASE i.place = "merged-pr"
  BY <1>5 DEF OriginTrust, HeadEligible, TrustedOrigin
<1> QED
  BY <1>1, <1>2, <1>3, <1>4, <1>5

LEMMA FileIsAccepted ==
  ASSUME AbsentIsApart, kind \in RepositoryFiles, Trusted(trust), NEW i, NEW n, NEW o,
         Mirrors(o, kind, i, n), Worded(kind, i), i.digest # 0
  PROVE  Derivable(o) /\ (Stands(o) /\ Upholds(kind, trust, clock, o) <=> Accepted(i))
<1>1. PICK m : m = MainRecord(kind, i, n)
  OBVIOUS
<1>2. StoreFor(o.kind) = "codebase" /\ o.signer = None
  BY DEF Mirrors, StoreFor, RepositoryFiles, Personal
<1>3. RevocationOf(trust, o) <=> ~OwnWarrant
  BY <1>2, OwnKeyWarrants DEF OwnWarrant
<1>4. Upholds(kind, trust, clock, o) <=>
        HeadEligible(o) /\ HeadFact(o) = "current" /\ ~RevocationOf(trust, o)
  BY DEF Upholds, Personal, RepositoryFiles, Exports
<1>5. CASE kind = "repo_code"
  <2>1. m = Record("repo_code", n, i, "claim", "current", OriginTrust(i))
    BY <1>1, <1>5 DEF MainRecord, Personal, Exports
  <2>2. m.disp = "current" /\ m.origin = OriginTrust(i) /\ m.present
    BY <2>1 DEF Record
  <2>3. o.disp = "current" /\ o.origin = OriginTrust(i) /\ Stands(o) /\ Derivable(o)
    BY <1>1, <2>2, MirrorSays
  <2>4. HeadFact(o) = "current"
    BY <2>3 DEF HeadFact
  <2>5. Accepted(i) <=> i.digest # 0 /\ i.place # "branch" /\ OwnWarrant
    BY <1>5 DEF Accepted, Exports
  <2> QED
    BY <1>3, <1>4, <2>3, <2>4, <2>5, OriginOfFile
<1>6. CASE kind = "docs_adr"
  <2>1. m = Record("docs_adr", n, i, "decision", AdrStatus(i), OriginTrust(i))
    BY <1>1, <1>6 DEF MainRecord, Personal, Exports
  <2>2. m.disp = AdrStatus(i) /\ m.origin = OriginTrust(i) /\ m.present
    BY <2>1 DEF Record
  <2>3. /\ AdrStatus(i) \in {"accepted", "rejected", "superseded", "proposed"}
        /\ AdrStatus(i) = "accepted" <=> i.state = "accepted"
    BY DEF AdrStatus
  <2>4. o.disp = AdrStatus(i) /\ o.origin = OriginTrust(i) /\ Stands(o) /\ Derivable(o)
    BY <1>1, <2>2, <2>3, MirrorSays
  <2>5. HeadFact(o) = "current" <=> i.state = "accepted"
    BY <2>3, <2>4 DEF HeadFact
  <2>6. Accepted(i) <=>
          i.digest # 0 /\ i.place # "branch" /\ i.state = "accepted" /\ OwnWarrant
    BY <1>6 DEF Accepted, Exports
  <2> QED
    BY <1>3, <1>4, <2>4, <2>5, <2>6, OriginOfFile
<1> QED
  BY <1>5, <1>6 DEF RepositoryFiles

LEMMA CommitIsAccepted ==
  ASSUME AbsentIsApart, kind = "git_history", NEW i, NEW n, NEW o, Mirrors(o, kind, i, n)
  PROVE  Derivable(o) /\ (Stands(o) /\ Upholds(kind, trust, clock, o) <=> Accepted(i))
<1>1. PICK m : m = MainRecord(kind, i, n)
  OBVIOUS
<1>2. PICK attrs : attrs = i.marks \cap {"reverted_by", "reverts", "skew_bounded"}
  OBVIOUS
<1>3. m = [Record("git_history", n, i, i.state, GitDisposition(i), GitOrigin(i))
             EXCEPT !.attrs = attrs]
  BY <1>1, <1>2 DEF MainRecord, Personal, Exports
<1>4. m.disp = GitDisposition(i) /\ m.origin = GitOrigin(i) /\ m.present /\ m.attrs = attrs
  BY <1>3 DEF Record
<1>5. GitDisposition(i) # "CLOCK_SKEW"
  BY DEF GitDisposition
<1>6. /\ o.origin = GitOrigin(i) /\ Stands(o) /\ Derivable(o)
      /\ Has(o, "reverted_by") <=> "reverted_by" \in attrs
  BY <1>1, <1>4, <1>5, MirrorSays
<1>7. "reverted_by" \in attrs <=> "reverted_by" \in i.marks
  BY <1>2
<1>8. TrustedOrigin(o) <=> i.place = "default"
  BY <1>6 DEF GitOrigin, TrustedOrigin, AbsentIsApart
<1>9. o.atom = i.state
  BY DEF Mirrors, AtomKinds, WordOf
<1>10. Upholds(kind, trust, clock, o) <=>
         o.atom = "merge" /\ ~Has(o, "reverted_by") /\ TrustedOrigin(o)
  BY DEF Upholds, Personal, RepositoryFiles, Exports
<1>11. Accepted(i) <=> i.state = "merge" /\ i.place = "default" /\ "reverted_by" \notin i.marks
  BY DEF Accepted, Exports
<1> QED
  BY <1>6, <1>7, <1>8, <1>9, <1>10, <1>11

LEMMA RequestIsAccepted ==
  ASSUME kind = "github_export", NEW i, NEW n, NEW o, Mirrors(o, kind, i, n)
  PROVE  Derivable(o) /\ (Stands(o) /\ Upholds(kind, trust, clock, o) <=> Accepted(i))
<1>1. PICK m : m = MainRecord(kind, i, n)
  OBVIOUS
<1>2. PICK attrs, here : attrs = i.marks \cap {"edited"} /\ here = ("newest snapshot" \in i.marks)
  OBVIOUS
<1>3. m = [Record("github_export", n, i, "decision", GithubDisposition(i), OriginTrust(i))
             EXCEPT !.present = here, !.attrs = attrs]
  BY <1>1, <1>2 DEF MainRecord, Personal, Exports
<1>4. m.disp = GithubDisposition(i) /\ m.present = here
  BY <1>3 DEF Record
<1>5. /\ GithubDisposition(i) \notin {"CLOCK_SKEW", "current"}
      /\ GithubDisposition(i) = "merged" <=> i.state = "merged"
  BY DEF GithubDisposition
<1>6. o.disp = GithubDisposition(i) /\ (Stands(o) <=> here) /\ Derivable(o)
  BY <1>1, <1>4, <1>5, MirrorSays
<1>7. Upholds(kind, trust, clock, o) <=> o.disp \in {"merged", "current"}
  BY DEF Upholds, Personal, RepositoryFiles, Exports
<1>8. Accepted(i) <=> i.state = "merged" /\ "newest snapshot" \in i.marks
  BY DEF Accepted, Exports
<1> QED
  BY <1>2, <1>5, <1>6, <1>7, <1>8

LEMMA ExportIsAccepted ==
  ASSUME AbsentIsApart, kind \in Exports, Trusted(trust), NEW i, NEW n, NEW o,
         Mirrors(o, kind, i, n), Worded(kind, i), ~Unscanned(kind, i)
  PROVE  Derivable(o) /\ (Stands(o) /\ Upholds(kind, trust, clock, o) <=> Accepted(i))
<1>1. PICK m : m = MainRecord(kind, i, n)
  OBVIOUS
<1>2. StoreFor(o.kind) = "codebase" /\ o.signer = None
  BY DEF Mirrors, StoreFor, Exports, Personal
<1>3. RevocationOf(trust, o) <=> ~OwnWarrant
  BY <1>2, OwnKeyWarrants DEF OwnWarrant
<1>4. PICK disp : disp = ExportDisposition(kind, i)
  OBVIOUS
<1>5. m = Record(kind, n, i, "claim", disp, "merged-default")
  BY <1>1, <1>4 DEF MainRecord, Personal, Exports
<1>6. m.disp = disp /\ m.origin = "merged-default" /\ m.until = 0 /\ m.present
  BY <1>5 DEF Record
<1>7. /\ disp \in IneligibleDispositions \cup {"accepted", "completed", "merged"}
      /\ disp \notin IneligibleDispositions <=> i.state \in {"completed", "merged", "accepted"}
  <2>1. i.state # "not JSON"
    BY DEF Unscanned
  <2>2. CASE kind = "issue_tracker"
    BY <1>4, <2>2 DEF ExportDisposition, Worded, IneligibleDispositions
  <2>3. CASE kind = "pull_request"
    BY <1>4, <2>3 DEF ExportDisposition, Worded, IneligibleDispositions
  <2>4. CASE kind = "chat_thread"
    BY <1>4, <2>4 DEF ExportDisposition, Worded, IneligibleDispositions
  <2>5. CASE kind = "document"
    BY <1>4, <2>1, <2>5 DEF ExportDisposition, Worded, IneligibleDispositions
  <2> QED
    BY <2>2, <2>3, <2>4, <2>5 DEF Exports
<1>8. disp \notin {"CLOCK_SKEW", "current"}
  BY <1>7 DEF IneligibleDispositions
<1>9. /\ o.disp = disp /\ o.origin = "merged-default" /\ o.until = 0
      /\ Stands(o) /\ Derivable(o)
  BY <1>1, <1>6, <1>8, MirrorSays
<1>10. ~Expired(o, clock)
  BY <1>9 DEF Expired
<1>11. WouldBeCurrent(o, clock) <=> disp \notin IneligibleDispositions
  BY <1>9, <1>10 DEF WouldBeCurrent, EligibleDisposition, HeadEligible, TrustedOrigin, Mirrors
<1>12. Upholds(kind, trust, clock, o) <=>
         /\ ~RevocationOf(trust, o) /\ ~Expired(o, clock)
         /\ WouldBeCurrent(o, clock) \/ o.disp = "current"
  BY DEF Upholds, Personal, RepositoryFiles, Exports
<1>13. Accepted(i) <=> i.state \in {"completed", "merged", "accepted"} /\ OwnWarrant
  BY DEF Accepted, Exports
<1> QED
  BY <1>3, <1>7, <1>8, <1>9, <1>10, <1>11, <1>12, <1>13

LEMMA NodeIsAccepted ==
  ASSUME AbsentIsApart, kind = "kindex", Trusted(trust), clock \in Nat, NEW i, NEW n, NEW o,
         Mirrors(o, kind, i, n), Worded(kind, i), ~Unscanned(kind, i)
  PROVE  Derivable(o) /\ (Stands(o) /\ Upholds(kind, trust, clock, o) <=> Accepted(i))
<1>1. PICK m : m = MainRecord(kind, i, n)
  OBVIOUS
<1>2. StoreFor(o.kind) = "codebase" /\ o.signer = None
  BY DEF Mirrors, StoreFor, Personal
<1>3. RevocationOf(trust, o) <=> ~OwnWarrant
  BY <1>2, OwnKeyWarrants DEF OwnWarrant
<1>4. PICK attrs : attrs = i.marks \cap {"contradicts", "superseded_by"}
  OBVIOUS
<1>5. m = [Record(kind, n, i, "claim", i.state, OriginTrust(i))
             EXCEPT !.until = i.until, !.parents = i.parents, !.attrs = attrs]
  BY <1>1, <1>4 DEF MainRecord, Personal, Exports
<1>6. m.disp = i.state /\ m.until = i.until /\ m.present /\ m.attrs = attrs
  BY <1>5 DEF Record
<1>7. /\ i.state \in {"accepted", "retracted", "superseded", "manifest_observation_expired"}
      /\ i.until \in Nat
      /\ i.marks \subseteq {"contradicts", "superseded_by"}
  BY DEF Worded, Unscanned
<1>8. /\ o.disp = i.state /\ o.until = i.until /\ Stands(o) /\ Derivable(o)
      /\ Has(o, "contradicts") <=> "contradicts" \in attrs
      /\ Has(o, "superseded_by") <=> "superseded_by" \in attrs
  BY <1>1, <1>6, <1>7, MirrorSays
<1>9. ~Has(o, "contradicts") /\ ~Has(o, "superseded_by") <=> i.marks = {}
  BY <1>4, <1>7, <1>8
<1>10. ~Expired(o, clock) <=> i.until = 0 \/ i.until > clock
  BY <1>7, <1>8 DEF Expired
<1>11. Upholds(kind, trust, clock, o) <=>
         /\ ~RevocationOf(trust, o) /\ ~Expired(o, clock)
         /\ o.disp \notin {"manifest_observation_expired", "retracted", "superseded"}
         /\ ~Has(o, "contradicts") /\ ~Has(o, "superseded_by")
  BY DEF Upholds, Personal, RepositoryFiles, Exports
<1>12. Accepted(i) <=>
         /\ i.state = "accepted" /\ OwnWarrant /\ (i.until = 0 \/ i.until > clock)
         /\ i.marks = {}
  BY DEF Accepted, Exports
<1> QED
  BY <1>3, <1>7, <1>8, <1>9, <1>10, <1>11, <1>12

\* The row of an item is current just when the item is accepted.
LEMMA ItemIsAccepted ==
  ASSUME AbsentIsApart, kind \in OwnKeyed, Trusted(trust), clock \in Nat, NEW i, NEW n, NEW o,
         Mirrors(o, kind, i, n), Worded(kind, i), ~Unscanned(kind, i), i.digest # 0
  PROVE  Derivable(o) /\ (Stands(o) /\ Upholds(kind, trust, clock, o) <=> Accepted(i))
<1>1. CASE kind \in Personal
  BY <1>1, TranscriptIsAccepted
<1>2. CASE kind \in RepositoryFiles
  BY <1>2, FileIsAccepted
<1>3. CASE kind = "git_history"
  BY <1>3, CommitIsAccepted
<1>4. CASE kind = "github_export"
  BY <1>4, RequestIsAccepted
<1>5. CASE kind \in Exports
  BY <1>5, ExportIsAccepted
<1>6. CASE kind = "kindex"
  BY <1>6, NodeIsAccepted
<1> QED
  BY <1>1, <1>2, <1>3, <1>4, <1>5, <1>6 DEF OwnKeyed

\* The rows a key is derived from, and what a verdict ledger of a source holds.
Cohort(L, n) == {o \in {x \in L : Derivable(x)} : o.key = n}

Resting(k, src, d, L) ==
  /\ k \in OwnKeyed /\ k \in Kinds /\ IsSource(src) /\ Fitting(k, src) /\ IsLedger(L)
  /\ \A o \in L : RowFits(k, d, o) /\ RowSuits(k, src, o)
  /\ OneStanding(L, src) /\ Reported(L, k, src)

\* The items a scan reads, and those beyond the window of the log.
Scanned(k, src, n) == n \in Native(src) /\ ~Unscanned(k, src[n])
BeyondWindow(src, n) == n \in Native(src) /\ "outside window" \in src[n].marks

\* The rows of a key are of one kind and nobody signed them.
LEMMA CohortIsPlain ==
  ASSUME NEW k, NEW src, NEW d, NEW L, Resting(k, src, d, L), NEW n, NEW C, C = Cohort(L, n)
  PROVE  /\ Rows(C) /\ KeyedBy(C, n)
         /\ \A p \in C : /\ p \in L /\ Derivable(p) /\ p.native = n /\ p.at \in BOOLEAN
                         /\ p.kind = k /\ p.signer = None /\ (p.at => k \in RepositoryFiles)
<1>1. C \subseteq L /\ \A p \in C : Derivable(p) /\ p.key = n
  BY DEF Cohort
<1>2. IsFiniteSet(C)
  BY <1>1, FS_Subset DEF Resting, IsLedger
<1>3. \A p \in C : Numbered(p) /\ Dated(p) /\ RowFits(k, d, p)
  BY <1>1 DEF Resting, IsLedger, IsRow
<1>4. OneToAnId(C)
  BY <1>1 DEF Resting, IsLedger, OneToAnId
<1>5. Rows(C) /\ KeyedBy(C, n)
  BY <1>1, <1>2, <1>3, <1>4 DEF Rows, KeyedBy
<1> QED
  BY <1>1, <1>3, <1>5 DEF RowFits, Numbered

\* The row a scanned item has, and that no other stands beside it.
LEMMA ScannedIsHeld ==
  ASSUME NEW k, NEW src, NEW d, NEW L, Resting(k, src, d, L), NEW n, Scanned(k, src, n)
  PROVE  \E o \in L : /\ Mirrors(o, k, src[n], n) /\ o.key = n
                      /\ \A p \in Cohort(L, n) : Stands(p) /\ ~p.at => p = o
<1> DEFINE i == src[n]
           m == MainRecord(k, i, n)
<1>1. n \in Native(src) /\ ~Unscanned(k, i) /\ i.subject = n
  BY DEF Scanned, Resting, Fitting, ItemFits
<1>2. m \in RecordsOf(k, src)
  BY <1>1, OwnRecords DEF Resting
<1>3. m.native = n /\ ~m.at /\ m.digest = i.digest
  BY MainSays DEF MainFits, Resting
<1>4. m.at \in BOOLEAN
  BY <1>2, RecordsAreScanned DEF AreRecords, ScannedFrom, Resting
<1>5. PICK o \in L : Id(o) = Id(m) /\ Agrees(o, m)
  BY <1>2 DEF Resting, Reported
<1>6. IsRow(o) /\ RowFits(k, d, o) /\ RowSuits(k, src, o)
  BY DEF Resting, IsLedger
<1>7. o.native = n /\ o.at = m.at /\ o.digest = i.digest
  BY <1>3, <1>5 DEF Id
<1>8. Bears(o, src)
  BY <1>1, <1>3, <1>7 DEF Bears
<1>9. Mirrors(o, k, i, n)
  BY <1>5, <1>6, <1>7, <1>8 DEF Mirrors, RowFits, RowSuits, Bears
<1>10. o.key = n
  BY <1>6, <1>7 DEF RowFits
<1>11. ASSUME NEW p \in Cohort(L, n), Stands(p), ~p.at PROVE p = o
  <2>1. p \in L /\ p.native = n /\ p.at \in BOOLEAN
    BY CohortIsPlain
  <2>2. Identity(p) = Identity(o)
    BY <1>3, <1>4, <1>7, <1>11, <2>1 DEF Identity
  <2>3. Id(p) = Id(o)
    BY <1>8, <1>11, <2>1, <2>2 DEF Resting, OneStanding
  <2> QED
    BY <2>1, <2>3 DEF Resting, IsLedger, OneToAnId
<1> QED
  BY <1>9, <1>10, <1>11

\* Of what is not scanned nothing stands, unless it is beyond the window.
LEMMA UnscannedIsOver ==
  ASSUME NEW k, NEW src, NEW d, NEW L, Resting(k, src, d, L), NEW n, ~Scanned(k, src, n),
         ~BeyondWindow(src, n), NEW p \in Cohort(L, n), ~p.at
  PROVE  ~Stands(p)
<1> SUFFICES ASSUME Stands(p) PROVE FALSE
  OBVIOUS
<1>1. p \in L /\ p.native = n /\ p.at \in BOOLEAN
  BY CohortIsPlain
<1>2. CASE Identity(p) \in PresentIn(k, src)
  <2>1. PICK r \in RecordsOf(k, src) : Identity(p) = Identity(r)
    BY <1>2 DEF PresentIn
  <2>2. r.native = n /\ ~r.at
    BY <1>1, <2>1 DEF Identity
  <2>3. n \in Native(src) /\ ~Unscanned(k, src[n])
    BY <2>2, OwnRecords DEF Resting
  <2> QED
    BY <2>3 DEF Scanned
<1>3. CASE \E e \in PresentElsewhere(k, src) : e[1] = p.native
  <2>1. PICK e \in PresentElsewhere(k, src) : e[1] = n
    BY <1>1, <1>3
  <2>2. PICK m \in Native(src) : "outside window" \in src[m].marks /\ e = <<m, GitOrigin(src[m])>>
    BY <2>1 DEF PresentElsewhere
  <2>3. m = n
    BY <2>1, <2>2
  <2> QED
    BY <2>2, <2>3 DEF BeyondWindow
<1> QED
  BY <1>1, <1>2, <1>3 DEF Resting, Reported

\* Commits of one key, whether or not they are in the window.
LEMMA GitIsKeyed ==
  ASSUME NEW C, Rows(C), NEW n, KeyedBy(C, n), NEW now
  PROVE  KeyedBy(DeriveGit(now, C), n)
<1> DEFINE alive == StandingIn(C)
           head == LastObserved(alive)
           others == {o \in alive : o # head}
           merged ==
             IF Has(head, "reverted_by") THEN
                    PushFact(head, others, "current", "reverted", "withdrawn",
                             {<<"reverted", "reopened">>})
             ELSE IF TrustedOrigin(head) THEN
                    PushFact(head, others, "current", "merged", "current", {})
             ELSE PushFact(head, others, "current", "unreviewed", "unverified", {})
           word == IF Has(head, "skew_bounded") THEN "skew_bounded"
                   ELSE IF Has(head, "reverts") THEN "revert"
                   ELSE IF Has(head, "reverted_by") THEN "reverted" ELSE "committed"
           verdict ==
             CASE head.atom = "ref" -> PushFact(head, others, "current", "ref", "evidence", {})
               [] head.atom = "merge" -> merged
               [] OTHER -> Mark(head, "current", word)
           W == {o \in C : o.atom = "merge" /\ WouldBeCurrent(o, now)}
<1>1. DeriveGit(now, C) = SettleHistory(C, W) \cup (IF alive = {} THEN {} ELSE {verdict})
                            \cup {Mark(o, "current", "supporting") : o \in others}
  BY DEF DeriveGit
<1>2. KeyedBy(SettleHistory(C, W), n)
  BY HistoryIsOver
<1>3. alive \subseteq C
  BY DEF StandingIn
<1>4. Rows(alive)
  BY <1>3, FS_Subset DEF Rows, OneToAnId
<1>5. alive # {} => head \in C
  BY <1>3, <1>4, LastObservedIsOne
<1>6. alive # {} => head.key = n
  BY <1>5 DEF KeyedBy
<1>7. merged.key = head.key
  BY FactSays
<1>8. verdict.key = head.key
  <2>1. PICK a : a = PushFact(head, others, "current", "ref", "evidence", {})
    OBVIOUS
  <2>2. PICK c : c = Mark(head, "current", word)
    OBVIOUS
  <2>3. a.key = head.key /\ c.key = head.key
    BY <2>1, <2>2, FactSays, MarkSays
  <2>4. verdict = CASE head.atom = "ref" -> a [] head.atom = "merge" -> merged [] OTHER -> c
    BY <2>1, <2>2
  <2> HIDE DEF verdict, merged, head
  <2> QED
    BY <1>7, <2>3, <2>4
<1> HIDE DEF verdict
<1>9. \A o \in others : Mark(o, "current", "supporting").key = n
  BY <1>3, MarkSays DEF KeyedBy
<1> HIDE DEF head, alive, W
<1>10. ASSUME NEW f \in DeriveGit(now, C) PROVE f.key = n
  BY <1>1, <1>2, <1>6, <1>8, <1>9 DEF KeyedBy
<1> QED
  BY <1>10 DEF KeyedBy

\* What is derived for a key is of that key; nothing is current of what is gone.
LEMMA CohortIsKeyed ==
  ASSUME NEW k, NEW src, NEW d, NEW L, Resting(k, src, d, L), NEW n, NEW C, C = Cohort(L, n),
         C # {}, NEW t, NEW now
  PROVE  /\ KeyedBy(DeriveCohort(t, now, C), n)
         /\ ~Scanned(k, src, n) /\ ~BeyondWindow(src, n) => ~SomeCurrent(DeriveCohort(t, now, C))
<1> DEFINE D == DeriveCohort(t, now, C)
<1>0. k \in OwnKeyed
  BY DEF Resting
<1>1. /\ Rows(C) /\ KeyedBy(C, n)
      /\ \A p \in C : /\ p \in L /\ Derivable(p) /\ p.native = n /\ p.at \in BOOLEAN
                      /\ p.kind = k /\ p.signer = None /\ (p.at => k \in RepositoryFiles)
  BY CohortIsPlain
<1>2. ASSUME NEW o, Lone(C, n, o)
      PROVE  KeyedBy(D, n) /\ (SomeCurrent(D) => Stands(o) /\ ~o.at)
  BY <1>0, <1>1, <1>2, CohortDecides
<1>3. CASE Scanned(k, src, n)
  <2>1. PICK o \in L : /\ Mirrors(o, k, src[n], n) /\ o.key = n
                       /\ \A p \in C : Stands(p) /\ ~p.at => p = o
    BY <1>3, ScannedIsHeld
  <2>2. CASE o \in C
    BY <1>1, <1>2, <1>3, <2>1, <2>2 DEF Lone
  <2>3. CASE o \notin C
    <3>1. PICK q : q \in C
      OBVIOUS
    <3>2. Lone(C, n, q)
      BY <1>1, <2>1, <2>3, <3>1 DEF Lone
    <3> QED
      BY <1>2, <1>3, <3>2
  <2> QED
    BY <2>2, <2>3
<1>4. CASE ~Scanned(k, src, n) /\ ~BeyondWindow(src, n)
  <2>1. \A p \in C : ~p.at => ~Stands(p)
    BY <1>4, UnscannedIsOver
  <2>2. PICK q : q \in C
    OBVIOUS
  <2>3. Lone(C, n, q)
    BY <1>1, <2>1, <2>2 DEF Lone
  <2> QED
    BY <1>2, <2>1, <2>2, <2>3
<1>5. CASE ~Scanned(k, src, n) /\ BeyondWindow(src, n)
  <2>1. CASE k = "git_history"
    <3>1. FirstObserved(C).kind = k
      BY <1>1, FirstObservedIsOne
    <3>2. D = DeriveGit(now, C)
      BY <2>1, <3>1 DEF DeriveCohort, Personal, RepositoryFiles, Exports
    <3> QED
      BY <1>1, <1>5, <3>2, GitIsKeyed
  <2>2. CASE k # "git_history"
    <3>1. \A p \in C : ~p.at => ~Stands(p)
      <4> SUFFICES ASSUME NEW p \in C, ~p.at, Stands(p) PROVE FALSE
        OBVIOUS
      <4>1. PresentElsewhere(k, src) = {}
        BY <2>2 DEF PresentElsewhere
      <4>2. Identity(p) \in PresentIn(k, src)
        BY <1>1, <4>1 DEF Resting, Reported
      <4>3. PICK r \in RecordsOf(k, src) : Identity(p) = Identity(r)
        BY <4>2 DEF PresentIn
      <4>4. r.native = n /\ ~r.at
        BY <1>1, <4>3 DEF Identity
      <4>5. n \in Native(src) /\ ~Unscanned(k, src[n])
        BY <4>4, OwnRecords DEF Resting
      <4> QED
        BY <1>5, <4>5 DEF Scanned
    <3>2. PICK q : q \in C
      OBVIOUS
    <3>3. Lone(C, n, q)
      BY <1>1, <3>1, <3>2 DEF Lone
    <3> QED
      BY <1>2, <1>5, <3>3
  <2> QED
    BY <2>1, <2>2
<1> QED
  BY <1>3, <1>4, <1>5

\* What the current facts and the accepted items of a verdict source come to.
LEMMA CurrentOfKey ==
  ASSUME NEW d, Resting(kind, source, d, ledger), NEW n, NEW C, C = Cohort(ledger, n)
  PROVE  (\E f \in CurrentFacts : f.key = n)
           <=> C # {} /\ SomeCurrent(DeriveCohort(trust, clock, C))
<1> DEFINE D(m) == DeriveCohort(trust, clock, Cohort(ledger, m))
           keys == {o.key : o \in {x \in ledger : Derivable(x)}}
<1>1. View = UNION {D(m) : m \in keys}
  BY DEF View, Derive, Cohort
<1>2. \A m \in keys : Cohort(ledger, m) # {}
  BY DEF Cohort
<1>3. C # {} => n \in keys
  BY DEF Cohort
<1>4. \A m \in keys : KeyedBy(D(m), m)
  BY <1>2, CohortIsKeyed
<1> HIDE DEF keys, D
<1>5. ASSUME NEW f \in CurrentFacts, f.key = n
      PROVE  C # {} /\ SomeCurrent(D(n))
  <2>1. f \in View /\ f.fact = "current"
    BY DEF CurrentFacts
  <2>2. PICK m \in keys : f \in D(m)
    BY <1>1, <2>1
  <2>3. m = n
    BY <1>4, <1>5, <2>2 DEF KeyedBy
  <2> QED
    BY <1>2, <2>1, <2>2, <2>3 DEF SomeCurrent
<1>6. ASSUME C # {}, SomeCurrent(D(n)) PROVE \E f \in CurrentFacts : f.key = n
  <2>1. PICK f \in D(n) : f.fact = "current"
    BY <1>6 DEF SomeCurrent
  <2>2. f \in View /\ f.key = n
    BY <1>1, <1>3, <1>4, <1>6, <2>1 DEF KeyedBy
  <2> QED
    BY <2>1, <2>2 DEF CurrentFacts
<1> QED
  BY <1>5, <1>6 DEF D

\* The accepted keys are those of accepted items a scan reads.
LEMMA AcceptedAreScanned ==
  ASSUME NEW d, Resting(kind, source, d, ledger), NEW n
  PROVE  n \in AcceptedKeys <=> Scanned(kind, source, n) /\ Accepted(source[n])
<1>1. kind \in Kinds /\ kind \in OwnKeyed /\ IsSource(source) /\ Fitting(kind, source)
  BY DEF Resting
<1>2. RecordsOf(kind, source) = UNION {ScanItem(kind, source, m) : m \in Native(source)}
  BY <1>1, RecordsAreOfItems
<1>3. ASSUME NEW m \in Native(source), NEW r \in ScanItem(kind, source, m)
      PROVE  r.key = m /\ Scanned(kind, source, m)
  <2>1. source[m].digest # 0
    BY <1>1 DEF Fitting, ItemFits
  <2>2. r \in RecordsOf(kind, source)
    BY <1>2
  <2>3. r.native = m
    BY <1>1, KindsAreKnown, ItemScan DEF ScannedFrom, IsSource
  <2>4. r.key = m
    BY <1>1, <2>2, <2>3, OwnRecords DEF RecordFits
  <2>5. ~Unscanned(kind, source[m])
    <3>1. CASE kind \in RepositoryFiles
      BY <1>1, <3>1, OwnRecords
    <3>2. CASE kind \notin RepositoryFiles
      BY <1>1, <2>1, <3>2, OwnScan
    <3> QED
      BY <3>1, <3>2
  <2> QED
    BY <2>4, <2>5 DEF Scanned
<1>4. ASSUME Scanned(kind, source, n)
      PROVE  n \in Native(source) /\ \E r \in ScanItem(kind, source, n) : r.key = n
  <2>1. n \in Native(source) /\ ~Unscanned(kind, source[n]) /\ source[n].subject = n
        /\ source[n].digest # 0
    BY <1>1, <1>4 DEF Scanned, Fitting, ItemFits
  <2>2. MainRecord(kind, source[n], n) \in ScanItem(kind, source, n)
    BY <1>1, <2>1, OwnScan
  <2>3. MainRecord(kind, source[n], n).key = n
    BY <1>1, <2>1, MainSays DEF MainFits
  <2> QED
    BY <2>1, <2>2, <2>3
<1>5. n \in AcceptedKeys <=> \E m \in Native(source) : /\ Accepted(source[m])
                                                       /\ \E r \in ScanItem(kind, source, m) :
                                                            r.key = n
  BY DEF AcceptedKeys
<1> QED
  BY <1>3, <1>4, <1>5

\* At rest, a key is current just when its item is accepted.
LEMMA AcceptedAtRest ==
  ASSUME AbsentIsApart, NEW d, Resting(kind, source, d, ledger), Trusted(trust), clock \in Nat,
         NEW n, ~BeyondWindow(source, n)
  PROVE  (\E f \in CurrentFacts : f.key = n) <=> n \in AcceptedKeys
<1> DEFINE C == Cohort(ledger, n)
           D == DeriveCohort(trust, clock, C)
<1>1. kind \in OwnKeyed /\ kind \in Kinds /\ Fitting(kind, source)
  BY DEF Resting
<1>2. (\E f \in CurrentFacts : f.key = n) <=> C # {} /\ SomeCurrent(D)
  BY CurrentOfKey
<1>3. n \in AcceptedKeys <=> Scanned(kind, source, n) /\ Accepted(source[n])
  BY AcceptedAreScanned
<1>4. CASE ~Scanned(kind, source, n)
  <2>1. C # {} => ~SomeCurrent(D)
    BY <1>4, CohortIsKeyed
  <2> QED
    BY <1>2, <1>3, <1>4, <2>1
<1>5. CASE Scanned(kind, source, n)
  <2>1. PICK o \in ledger : /\ Mirrors(o, kind, source[n], n) /\ o.key = n
                            /\ \A p \in C : Stands(p) /\ ~p.at => p = o
    BY <1>5, ScannedIsHeld
  <2>2. /\ Worded(kind, source[n]) /\ ~Unscanned(kind, source[n]) /\ source[n].digest # 0
    BY <1>1, <1>5 DEF Scanned, Fitting, ItemFits
  <2>3. /\ Derivable(o)
        /\ Stands(o) /\ Upholds(kind, trust, clock, o) <=> Accepted(source[n])
    BY <1>1, <2>1, <2>2, ItemIsAccepted
  <2>4. o \in C /\ ~o.at
    BY <2>1, <2>3 DEF Cohort, Mirrors
  <2>5. /\ Rows(C) /\ KeyedBy(C, n)
        /\ \A p \in C : p.kind = kind /\ p.signer = None /\ (p.at => kind \in RepositoryFiles)
    BY CohortIsPlain
  <2>6. Lone(C, n, o)
    BY <2>1, <2>4, <2>5 DEF Lone
  <2> HIDE DEF C
  <2>7. SomeCurrent(D) <=> Stands(o) /\ ~o.at /\ Upholds(kind, trust, clock, o)
    BY <1>1, <2>5, <2>6, CohortDecides
  <2> QED
    BY <1>2, <1>3, <1>5, <2>3, <2>4, <2>7
<1> QED
  BY <1>4, <1>5

\* CurrentIsAccepted of a state that satisfies the invariants.
LEMMA RestIsAccepted ==
  ASSUME AbsentIsApart, IngestHolds, SettledHolds, CurrentHolds, Trusted(trust), kind \in OwnKeyed
  PROVE  CurrentIsAccepted
<1> SUFFICES ASSUME AtRest, NEW key
             PROVE  \/ \E n \in Native(source) : /\ "outside window" \in source[n].marks
                                                 /\ source[n].subject = key
                    \/ (\E f \in CurrentFacts : f.key = key) <=> key \in AcceptedKeys
  BY DEF CurrentIsAccepted
<1>1. kind \notin Ordered
  BY DEF OwnKeyed, Ordered, Personal, RepositoryFiles, Exports
<1>2. rest = source /\ rest # Gone
  BY DEF AtRest, IngestHolds
<1>3. Settled(Due(ledger, <<>>), kind, source)
  BY <1>1, <1>2 DEF SettledHolds
<1>4. Reported(ledger, kind, source)
  BY <1>3, RestIsReported DEF IngestHolds
<1>5. \A o \in ledger : RowFits(kind, minted, o) /\ RowSuits(kind, source, o)
  BY DEF CurrentHolds, AllFit, Tells
<1>6. Resting(kind, source, minted, ledger)
  BY <1>4, <1>5 DEF Resting, CurrentHolds, IngestHolds
<1>7. CASE BeyondWindow(source, key)
  BY <1>6, <1>7 DEF BeyondWindow, Resting, Fitting, ItemFits
<1>8. CASE ~BeyondWindow(source, key)
  <2>1. clock \in Nat
    BY DEF IngestHolds
  <2> QED
    BY <1>6, <1>8, <2>1, AcceptedAtRest
<1> QED
  BY <1>7, <1>8

(* CurrentIsAccepted, for the sources whose items are keys of their own:   *)
(* when an ingest has come to rest, what is current is what the source     *)
(* itself says is accepted, of any number of items edited, renamed,        *)
(* deleted and ingested again, with kills between any two writes.          *)
THEOREM CurrentIsAcceptedAlways ==
  OneRun /\ Returns = FALSE /\ OwnForms /\ AbsentIsApart
    => (IngestSpec => [](kind \in OwnKeyed => CurrentIsAccepted))
<1> SUFFICES ASSUME OneRun, Returns = FALSE, OwnForms, AbsentIsApart
             PROVE  IngestSpec => [](kind \in OwnKeyed => CurrentIsAccepted)
  OBVIOUS
<1> DEFINE Holds == IngestHolds /\ SettledHolds /\ CurrentHolds /\ Trusted(trust)
           Goal == kind \in OwnKeyed => CurrentIsAccepted
<1>1. IngestInit => Holds
  BY IngestHoldsInit, SettledHoldsInit, CurrentHoldsInit, TrustedInit
<1>2. Holds /\ [IngestNext]_ingestVars => Holds'
  <2>1. Trusted(trust)' <=> Trusted(trust')
    BY DEF Trusted
  <2> QED
    BY <2>1, IngestHoldsNext, SettledHoldsNext, CurrentHoldsNext, TrustedNext
<1>3. Holds => Goal
  BY RestIsAccepted
<1> HIDE DEF Holds, Goal
<1>4. IngestSpec => []Goal
  BY <1>1, <1>2, <1>3, PTL DEF IngestSpec
<1> QED
  BY <1>4 DEF Goal
=============================================================================
