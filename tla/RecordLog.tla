------------------------------- MODULE RecordLog -------------------------------
(* What a Personal ledger promises its callers, whatever replaces, truncates   *)
(* or indexes the file underneath: identities are only added, an append that   *)
(* was acknowledged is there, and a power cut loses only what had not reached  *)
(* the disk.                                                                   *)
CONSTANT Identities

VARIABLES
    held,           \* the identities a reader of the ledger finds
    acknowledged,   \* those whose append returned
    onDisk          \* those a power cut cannot take

logVars == <<held, acknowledged, onDisk>>

Init == held = {} /\ acknowledged = {} /\ onDisk = {}

\* A record is written, and its writer may hear of it at once.
Store(d) ==
    /\ held' = held \cup {d}
    /\ acknowledged' \in {acknowledged, acknowledged \cup {d}}
    /\ UNCHANGED onDisk

\* The append of a record that is there returns.
Acknowledge(d) ==
    /\ d \in held
    /\ acknowledged' = acknowledged \cup {d}
    /\ UNCHANGED <<held, onDisk>>

Persist ==
    /\ onDisk \subseteq onDisk' /\ onDisk' \subseteq held
    /\ UNCHANGED <<held, acknowledged>>

PowerCut ==
    /\ onDisk \subseteq held' /\ held' \subseteq held
    /\ onDisk \subseteq onDisk' /\ onDisk' \subseteq held'
    /\ acknowledged' = acknowledged \cap onDisk'

Next == Persist \/ (\E d \in Identities : Store(d) \/ Acknowledge(d)) \/ PowerCut

Spec == Init /\ [][Next]_logVars

-----------------------------------------------------------------------------
\* The promise as an invariant: nothing acknowledged or persisted is missing.
NothingIsMissing == acknowledged \cup onDisk \subseteq held
=============================================================================
