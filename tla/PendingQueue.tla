----------------------------- MODULE PendingQueue -----------------------------
(* One queued host prompt (crates/kinbase/src/session.rs, the pending        *)
(* observations).  A hook leaves the prompt in a private file and starts a   *)
(* detached worker; the worker claims the file by renaming it, classifies    *)
(* it, and removes it once its observation is recorded.  Every later hook    *)
(* and every Stop sweeps the directory: it requeues what a dead worker held, *)
(* restarts what no worker took, and drops what is too old.                  *)
(*                                                                           *)
(* No lock is held: the hook, the workers and the sweepers meet only in the  *)
(* three files of a prompt, <t>.jsonl (queued), <t>.working.jsonl (working)  *)
(* and <t>.meta.json, which each reads, rewrites, renames and removes one at *)
(* a time.  Prompts do not touch each other's files, so one is modelled.     *)
EXTENDS Naturals, FiniteSets

CONSTANTS
    Workers,       \* processes of detached workers (a process id is one use)
    Sweepers,      \* hooks and Stops that sweep
    Hook,          \* the hook that queues the prompt
    MaxClaims,     \* claims are counted up to this number
    Bounds,        \* PENDING_MAX_ATTEMPTS and how many processes may die, together
    Told           \* whether the history tells one end of a prompt from another

Actors == Workers \cup Sweepers \cup {Hook}

ASSUME QueueAssumption ==
    /\ Hook \notin Workers \cup Sweepers /\ Workers \cap Sweepers = {}
    /\ Bounds \subseteq [attempts : Nat \ {0}, crashes : Nat]
    /\ MaxClaims \in Nat /\ Told \in BOOLEAN

VARIABLES
    queued,     \* <t>.jsonl is there
    working,    \* <t>.working.jsonl is there
    meta,       \* <t>.meta.json, or NoMeta
    actor,      \* what each process does next, and the metadata it read
    expired,    \* the prompt is past its retention
    fate,       \* what became of the prompt first: fallback, recorded, ...
    audited,    \* the drop is in the audit log
    claims,     \* how often the prompt was claimed
    crashes,
    bound       \* the Bounds of this behaviour

files == <<queued, working, meta>>
vars  == <<files, actor, expired, fate, audited, claims, crashes, bound>>

MaxAttempts == bound.attempts

Nobody == "nobody"
NoMeta == [attempts |-> 0, pid |-> Nobody, fresh |-> FALSE, there |-> FALSE]
Fresh(attempts) == [attempts |-> attempts, pid |-> Nobody, fresh |-> TRUE, there |-> TRUE]

Idle == [pc |-> "idle", meta |-> NoMeta]

At(a, pc) == actor[a].pc = pc

\* The process goes on to its next step with the metadata it holds, or without.
Goto(a, pc) == actor' = [actor EXCEPT ![a].pc = pc]
Enter(a, pc) == actor' = [actor EXCEPT ![a] = [Idle EXCEPT !.pc = pc]]

\* The process reads the metadata and goes on.
ReadMeta(a, pc) == actor' = [actor EXCEPT ![a] = [pc |-> pc, meta |-> meta]]

Exit(a) == actor' = [actor EXCEPT ![a] = Idle]

Alive(w) == w \in Workers /\ ~At(w, "idle")

\* A process id no running process and no metadata names.
Unused == {w \in Workers : /\ ~Alive(w) /\ meta.pid # w
                           /\ \A a \in Actors : actor[a].meta.pid # w}

\* A worker is started for the prompt; `a` itself goes on as `after`.
Spawned(a, after) ==
    \E w \in Unused : actor' = [actor EXCEPT ![w] = [Idle EXCEPT !.pc = "spawned"],
                                             ![a] = after]

\* The first thing that decides what becomes of the prompt.
Fate(f) == fate' = IF fate # "open" THEN fate ELSE IF Told THEN f ELSE "settled"

-----------------------------------------------------------------------------
(* The hook: queue_hook_observation *)

\* Metadata first.
HookMeta ==
    /\ At(Hook, "start")
    /\ meta' = Fresh(0)
    /\ Goto(Hook, "event")
    /\ UNCHANGED <<queued, working, expired, fate, audited, claims, crashes>>

HookEvent ==
    /\ At(Hook, "event")
    /\ queued' = TRUE
    /\ Goto(Hook, "spawn")
    /\ UNCHANGED <<working, meta, expired, fate, audited, claims, crashes>>

\* No worker can be started: the files are removed and the prompt is recorded
\* by the hook itself, in the record_hook_observation_as that ends it.
HookSpawn ==
    /\ At(Hook, "spawn")
    /\ \/ Spawned(Hook, Idle) /\ UNCHANGED fate
       \/ Goto(Hook, "rmQueued") /\ Fate("fallback")
    /\ UNCHANGED <<files, expired, audited, claims, crashes>>

-----------------------------------------------------------------------------
(* Removal: remove_pending, three files in this order *)

RemoveQueued(a) ==
    /\ At(a, "rmQueued")
    /\ queued' = FALSE
    /\ Goto(a, "rmWorking")
    /\ UNCHANGED <<working, meta, expired, fate, audited, claims, crashes>>

RemoveWorking(a) ==
    /\ At(a, "rmWorking")
    /\ working' = FALSE
    /\ Goto(a, "rmMeta")
    /\ UNCHANGED <<queued, meta, expired, fate, audited, claims, crashes>>

\* Then a spent prompt is audited.
RemoveMeta(a) ==
    /\ At(a, "rmMeta")
    /\ meta' = NoMeta
    /\ IF actor[a].meta.attempts >= MaxAttempts THEN Goto(a, "audit") ELSE Exit(a)
    /\ UNCHANGED <<queued, working, expired, fate, audited, claims, crashes>>

Audit(a) ==
    /\ At(a, "audit")
    /\ audited' = Told
    /\ Exit(a)
    /\ UNCHANGED <<files, expired, fate, claims, crashes>>

-----------------------------------------------------------------------------
(* A worker: claim_pending, observe, finish_pending *)

\* Bug: the claim takes the prompt out of the directory.
ClaimByRemoval(w) ==
    /\ At(w, "spawned")
    /\ IF queued
       THEN /\ queued' = FALSE
            /\ claims' = IF claims < MaxClaims THEN claims + 1 ELSE claims
            /\ Goto(w, "readMeta")
            /\ UNCHANGED working
       ELSE Exit(w) /\ UNCHANGED <<queued, working, claims>>
    /\ UNCHANGED <<meta, expired, fate, audited, crashes>>

\* The rename is the claim; a worker that comes late ends.
Claim(w) ==
    /\ At(w, "spawned")
    /\ IF queued
       THEN /\ queued' = FALSE /\ working' = TRUE
            /\ claims' = IF claims < MaxClaims THEN claims + 1 ELSE claims
            /\ Goto(w, "readMeta")
       ELSE Exit(w) /\ UNCHANGED <<queued, working, claims>>
    /\ UNCHANGED <<meta, expired, fate, audited, crashes>>

\* Only then is the worker's process id put in the metadata, if it is there.
ClaimReadMeta(w) ==
    /\ At(w, "readMeta")
    /\ ReadMeta(w, IF meta.there THEN "writeMeta" ELSE "observe")
    /\ UNCHANGED <<files, expired, fate, audited, claims, crashes>>

\* The write may fail; the worker goes on without it.
ClaimWriteMeta(w) ==
    /\ At(w, "writeMeta")
    /\ meta' \in {[actor[w].meta EXCEPT !.pid = w], meta}
    /\ Enter(w, "observe")
    /\ UNCHANGED <<queued, working, expired, fate, audited, claims, crashes>>

\* The prompt is read from its working name.
ReadPrompt(w) ==
    /\ At(w, "observe")
    /\ Goto(w, IF working THEN "classify" ELSE "failRead")
    /\ UNCHANGED <<files, expired, fate, audited, claims, crashes>>

\* The observation is recorded, or the attempt fails.
Classify(w) ==
    /\ At(w, "classify")
    /\ \/ Fate("recorded") /\ Goto(w, "rmQueued")
       \/ Goto(w, "failRead") /\ UNCHANGED fate
    /\ UNCHANGED <<files, expired, audited, claims, crashes>>

-----------------------------------------------------------------------------
(* A failed attempt: record_failed_attempt, of a worker or of a sweeper *)

\* Bug: one attempt too many.
SpentOffByOne(attempts) == attempts > MaxAttempts

Spent(attempts) == attempts >= MaxAttempts

\* The attempt is counted on the metadata as it is now; without metadata the
\* files are removed, and with the attempts spent they are removed and audited.
FailRead(a) ==
    LET failed == Fresh(meta.attempts + 1) IN
    /\ At(a, "failRead")
    /\ IF ~meta.there
       THEN ReadMeta(a, "rmQueued") /\ UNCHANGED fate
       ELSE IF Spent(failed.attempts)
       THEN /\ actor' = [actor EXCEPT ![a] = [pc |-> "rmQueued", meta |-> failed]]
            /\ Fate("exhausted")
       ELSE /\ actor' = [actor EXCEPT ![a] = [pc |-> "failWrite", meta |-> failed]]
            /\ UNCHANGED fate
    /\ UNCHANGED <<files, expired, audited, claims, crashes>>

\* Without the write there is no requeue either.
FailWrite(a) ==
    /\ At(a, "failWrite")
    /\ \/ meta' = actor[a].meta /\ Enter(a, "failRename")
       \/ Exit(a) /\ UNCHANGED meta
    /\ UNCHANGED <<queued, working, expired, fate, audited, claims, crashes>>

\* Back to its queued name, if the working name is still there.
FailRename(a) ==
    /\ At(a, "failRename")
    /\ working' = FALSE
    /\ queued' = (queued \/ working)
    /\ Exit(a)
    /\ UNCHANGED <<meta, expired, fate, audited, claims, crashes>>

-----------------------------------------------------------------------------
(* A sweep: sweep_pending *)

\* pending_entries: a prompt in either name, with its metadata.
Sweep(s) ==
    /\ At(s, "idle")
    /\ queued \/ working
    /\ meta.there
    /\ ReadMeta(s, "look")
    /\ UNCHANGED <<files, expired, fate, audited, claims, crashes>>

\* A live worker holds it: leave it.  Past retention: remove it.
SkipHeld(s) ==
    /\ At(s, "look")
    /\ working /\ Alive(actor[s].meta.pid)
    /\ Exit(s)
    /\ UNCHANGED <<files, expired, fate, audited, claims, crashes>>

NotHeld(s) == At(s, "look") /\ ~(working /\ Alive(actor[s].meta.pid))

DropExpired(s) ==
    /\ NotHeld(s) /\ expired
    /\ Enter(s, "rmQueued")
    /\ Fate("expired")
    /\ UNCHANGED <<files, expired, audited, claims, crashes>>

\* A worker that died while it held the prompt spent an attempt.
WorkerLost(s) ==
    /\ NotHeld(s) /\ ~expired /\ working
    /\ Enter(s, "failRead")
    /\ UNCHANGED <<files, expired, fate, audited, claims, crashes>>

SkipRecent(s) ==
    /\ NotHeld(s) /\ ~expired /\ ~working /\ actor[s].meta.fresh
    /\ Exit(s)
    /\ UNCHANGED <<files, expired, fate, audited, claims, crashes>>

\* Bug: the time stamp is renewed and no worker is started.
RestampOnly(s) ==
    /\ NotHeld(s) /\ ~expired /\ ~working /\ ~actor[s].meta.fresh
    /\ meta' = [actor[s].meta EXCEPT !.fresh = TRUE]
    /\ Exit(s)
    /\ UNCHANGED <<queued, working, expired, fate, audited, claims, crashes>>

\* No worker took it in PENDING_STALE_SECONDS: the metadata read before is
\* written back with a new time stamp, and a worker started if one can be.
Restart(s) ==
    /\ NotHeld(s) /\ ~expired /\ ~working /\ ~actor[s].meta.fresh
    /\ meta' = [actor[s].meta EXCEPT !.fresh = TRUE]
    /\ IF Unused = {} THEN Exit(s) ELSE Spawned(s, Idle)
    /\ UNCHANGED <<queued, working, expired, fate, audited, claims, crashes>>

-----------------------------------------------------------------------------

\* PENDING_STALE_SECONDS pass since the last time stamp.
GrowsStale ==
    /\ meta.fresh
    /\ meta' = [meta EXCEPT !.fresh = FALSE]
    /\ actor' = [a \in Actors |-> IF At(a, "look") THEN [actor[a] EXCEPT !.meta.fresh = FALSE]
                                  ELSE actor[a]]
    /\ UNCHANGED <<queued, working, expired, fate, audited, claims, crashes, bound>>

\* PENDING_RETENTION_SECONDS pass since the prompt was queued.
Expire ==
    /\ queued \/ working
    /\ ~expired /\ expired' = TRUE
    /\ UNCHANGED <<files, actor, fate, audited, claims, crashes, bound>>

Crash(a) ==
    /\ ~At(a, "idle") /\ crashes < bound.crashes
    /\ crashes' = crashes + 1
    /\ Exit(a)
    /\ UNCHANGED <<files, expired, fate, audited, claims, bound>>

Init ==
    /\ queued = FALSE /\ working = FALSE /\ meta = NoMeta
    /\ actor = [a \in Actors |-> IF a = Hook THEN [Idle EXCEPT !.pc = "start"] ELSE Idle]
    /\ expired = FALSE /\ fate = "open" /\ audited = FALSE
    /\ claims = 0 /\ crashes = 0 /\ bound \in Bounds

HookStep == HookMeta \/ HookEvent \/ HookSpawn

\* What any process does once it has given the prompt up.
Settle(a) ==
    \/ RemoveQueued(a) \/ RemoveWorking(a) \/ RemoveMeta(a) \/ Audit(a)
    \/ FailRead(a) \/ FailWrite(a) \/ FailRename(a)

WorkerStep(w) ==
    Claim(w) \/ ClaimReadMeta(w) \/ ClaimWriteMeta(w) \/ ReadPrompt(w) \/ Classify(w)

SweeperStep(s) ==
    SkipHeld(s) \/ DropExpired(s) \/ WorkerLost(s) \/ SkipRecent(s) \/ Restart(s)

\* What one process does next.
Step(a) ==
    /\ UNCHANGED bound
    /\ \/ a = Hook /\ HookStep
       \/ a \in Workers /\ WorkerStep(a)
       \/ a \in Sweepers /\ (Sweep(a) \/ SweeperStep(a))
       \/ Settle(a)

Next ==
    \/ \E a \in Actors : Step(a) \/ Crash(a)
    \/ GrowsStale \/ Expire

Spec == Init /\ [][Next]_vars

\* A worker or sweeper that runs goes on, time passes, and further hooks and Stops
\* sweep; the hook that queued the prompt may stand still for good.
FairSpec == Spec /\ WF_vars(GrowsStale) /\ \A a \in Workers \cup Sweepers : WF_vars(Step(a))

-----------------------------------------------------------------------------
(* Properties *)

MetaType == [attempts : 0..MaxAttempts, pid : Workers \cup {Nobody},
             fresh : BOOLEAN, there : BOOLEAN]

Steps == {"idle", "start", "event", "spawn", "rmQueued", "rmWorking", "rmMeta",
          "audit", "spawned", "readMeta", "writeMeta", "observe", "classify",
          "failRead", "failWrite", "failRename", "look"}

\* Every variable holds values of its type; metadata on disk never shows the
\* last attempt as spent, such a prompt is dropped (record_failed_attempt).
TypeOK ==
    /\ queued \in BOOLEAN /\ working \in BOOLEAN
    /\ meta \in [attempts : 0..(MaxAttempts - 1), pid : Workers \cup {Nobody},
                 fresh : BOOLEAN, there : BOOLEAN]
    /\ actor \in [Actors -> [pc : Steps, meta : MetaType]]
    /\ expired \in BOOLEAN /\ audited \in BOOLEAN
    /\ fate \in {"open", "fallback", "recorded", "exhausted", "expired", "settled"}
    /\ claims \in 0..MaxClaims /\ crashes \in 0..bound.crashes

\* A prompt once claimed is on disk until its observation is recorded, its
\* attempts are spent, its retention is over or the hook takes it back, however
\* hook, workers and sweepers interleave and whichever of them dies
\* (claim_pending, finish_pending, sweep_pending).
PromptIsAccountedFor == claims > 0 /\ fate = "open" => queued \/ working

\* A queued prompt with its metadata does not stay queued: whoever should have
\* taken it, a later sweep starts a worker for it or drops it (sweep_pending).
StrandedIsRestarted == (queued /\ meta.there) ~> (~queued \/ ~meta.there)

\* A prompt has one worker at a time (cli.rs:364, "A queued host prompt is
\* claimed first (one worker at a time)").
OneWorkerAtATime ==
    Cardinality({w \in Workers : actor[w].pc \in {"observe", "classify"}}) <= 1

\* A prompt is claimed at most as often as its attempts allow (session.rs:41,
\* "A worker gets this many attempts at a prompt before it is dropped").
AttemptsAreBounded == claims <= MaxAttempts

\* A prompt dropped as spent had all its attempts (session.rs:41, the same).
AllAttemptsAreGiven == fate = "exhausted" => claims >= MaxAttempts

\* A spent prompt that is gone is in the audit log (session.rs:41, "before it
\* is dropped (and the drop audited)").
DropIsAudited ==
    fate = "exhausted" /\ (\A a \in Actors : At(a, "idle")) /\ ~queued /\ ~working
        => audited

\* A queued prompt has its metadata (session.rs:186, "a queued prompt is never
\* without it"): without it no sweep sees the prompt again.
QueuedHasMeta == queued => meta.there
=============================================================================
