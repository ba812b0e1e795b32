----------------------------- MODULE PersonalLedger -----------------------------
(* One entity ledger of the Personal store (observations.jsonl and its like;  *)
(* crates/kinbase/src/store.rs), the persisted index of its identities        *)
(* (ledger_index.rs) and the dream pass that compacts it (dream.rs).          *)
(*                                                                            *)
(* Writers and readers are hooks, workers and Stops, each a process of its    *)
(* own.  A writer locks the file it opened and looks its record up in the     *)
(* index, under one transaction of the index, before it writes a line; a dream *)
(* copies the ledger without the lock, then under the lock copies the rest    *)
(* and renames the copy over the ledger.  The index is a projection: what it  *)
(* says is confirmed in the file, and it may be behind, absent or gone.       *)
(*                                                                            *)
(* A file is a sequence of lines, an offset the number of a line: records of  *)
(* equal length, the worst case for an index that remembers offsets.          *)
EXTENDS Naturals, Sequences, SequencesExt, FiniteSets, FiniteSetsExt

CONSTANTS
    Records, Identities, Tags,
    IdentityOf, TagOf,   \* a record's key fields and its tag field
    Writers, Readers,
    Budget,              \* HOOK_CATCH_UP_BYTES, in lines
    MaxAppends,          \* how many appends are made
    MaxFiles,            \* how many files are at the path, one after the other
    MaxTroubles          \* kills, power cuts, full disks and failed commits

ASSUME LedgerAssumption ==
    /\ IdentityOf \in [Records -> Identities] /\ TagOf \in [Records -> Tags]
    /\ \A r, s \in Records : IdentityOf[r] = IdentityOf[s] => TagOf[r] = TagOf[s]
    /\ Writers \cap Readers = {}
    /\ Budget \in Nat /\ MaxAppends \in Nat /\ MaxTroubles \in Nat /\ MaxFiles \in Nat \ {0}

Inodes == 1..MaxFiles

VARIABLES
    files,      \* the lines of each inode
    path,       \* the inode the ledger's name leads to
    flushed,    \* how many lines of each inode are on the disk
    diskPath,   \* the inode the name leads to on the disk
    index,      \* the index of this ledger: cursor, keys and tags
    writer, reader, dream,
    acked,      \* the identities whose append returned
    outlived,   \* the index has survived a power cut that took lines it had read
    appends, troubles

disk == <<flushed, diskPath, outlived>>
vars == <<files, path, disk, index, writer, reader, dream, acked, appends, troubles>>

-----------------------------------------------------------------------------
(* Lines and files *)

\* "record" and "torn" lines end in a newline, "bare" and "cut" ones do not (yet);
\* "torn" and "cut" ones do not parse, but spell their tag.
Lines == [rec : Records, form : {"record", "torn", "bare", "cut"},
          how : {"checked", "unchecked", "mended"}]

Terminated(l) == l.form \in {"record", "torn"}
Readable(l)   == l.form \in {"record", "bare"}

\* The number of whole lines: only the last line may be unterminated.
Whole(f) == IF f # <<>> /\ ~Terminated(Last(f)) THEN Len(f) - 1 ELSE Len(f)

End(l) == [l EXCEPT !.form = IF Readable(l) THEN "record" ELSE "torn"]

\* Bug: a record is written straight after a torn last line.
Glued(f) == f

\* An unterminated last line is terminated before a line is written after it.
Mended(f) ==
    IF Whole(f) = Len(f) THEN f ELSE Append(Front(f), [End(Last(f)) EXCEPT !.how = "mended"])

Written(f, r, form, how) == Append(Mended(f), [rec |-> r, form |-> form, how |-> how])

HeldIn(f) == {IdentityOf[f[k].rec] : k \in {n \in DOMAIN f : Readable(f[n])}}

Held   == HeldIn(files[path])
OnDisk == HeldIn(SubSeq(files[diskPath], 1, flushed[diskPath]))

-----------------------------------------------------------------------------
(* The index *)

NoLine == [rec |-> "none", form |-> "none"]

\* The bytes before an offset.
TailAt(f, n) == IF n = 0 THEN NoLine ELSE [rec |-> f[n].rec, form |-> f[n].form]

Blank == [inode |-> 0, length |-> 0, tail |-> NoLine,
          keys |-> [d \in Identities |-> 0], tags |-> {}]

\* Bug: a cursor of another file is taken for this one's.
FollowsAny(ix, i) == ix.length <= Len(files[i])

\* The cursor is of this very file and of what it still holds.
Follows(ix, i) ==
    /\ ix.inode = i /\ ix.length <= Len(files[i])
    /\ ix.tail = TailAt(files[i], ix.length)

\* An index that does not follow the file is read again from the start.
Base(ix, i) == IF Follows(ix, i) THEN ix ELSE Blank

TooFar(ix, i) == Len(files[i]) - Base(ix, i).length > Budget

FirstOf(lines) == IF lines = {} THEN 0 ELSE Min(lines)

\* Bug: lines that do not parse are not tagged.
CaughtUpReadable(ix, i) ==
    LET f == files[i]  new == Base(ix, i).length + 1 .. Whole(f) IN
    [inode |-> i, length |-> Whole(f), tail |-> TailAt(f, Whole(f)),
     keys |-> [d \in Identities |->
                 IF Base(ix, i).keys[d] # 0 THEN Base(ix, i).keys[d]
                 ELSE FirstOf({k \in new : f[k].form = "record" /\ IdentityOf[f[k].rec] = d})],
     tags |-> Base(ix, i).tags
                \cup {<<TagOf[f[k].rec], k>> : k \in {n \in new : f[n].form = "record"}}]

\* catch_up: every whole line after the cursor is indexed.
CaughtUp(ix, i) ==
    LET f == files[i]  new == Base(ix, i).length + 1 .. Whole(f) IN
    [inode |-> i, length |-> Whole(f), tail |-> TailAt(f, Whole(f)),
     keys |-> [d \in Identities |->
                 IF Base(ix, i).keys[d] # 0 THEN Base(ix, i).keys[d]
                 ELSE FirstOf({k \in new : f[k].form = "record" /\ IdentityOf[f[k].rec] = d})],
     tags |-> Base(ix, i).tags \cup {<<TagOf[f[k].rec], k>> : k \in new}]

\* The line the index names is there, whole, with this identity.
Confirmed(ix, i, d) ==
    /\ ix.keys[d] \in DOMAIN files[i]
    /\ files[i][ix.keys[d]].form = "record"
    /\ IdentityOf[files[i][ix.keys[d]].rec] = d

\* The caught-up index, rebuilt when it names a line the file does not confirm.
IndexForKey(ix, i, d) ==
    LET now == CaughtUp(ix, i) IN
    IF now.keys[d] # 0 /\ ~Confirmed(now, i, d) THEN CaughtUp(Blank, i) ELSE now

TaggedLines(ix, t) == {p[2] : p \in {q \in ix.tags : q[1] = t}}

TagsConfirmed(ix, i, t) ==
    \A k \in TaggedLines(ix, t) :
        k \in 1..Whole(files[i]) /\ TagOf[files[i][k].rec] = t

IndexForTag(ix, i, t) ==
    LET now == CaughtUp(ix, i) IN
    IF TagsConfirmed(now, i, t) THEN now ELSE CaughtUp(Blank, i)

\* The index with the line just written at the end of f.
Inserted(ix, i, f) ==
    LET n == Len(f)  d == IdentityOf[f[n].rec] IN
    [inode |-> i, length |-> n, tail |-> TailAt(f, n),
     keys |-> [ix.keys EXCEPT ![d] = IF @ = 0 THEN n ELSE @],
     tags |-> ix.tags \cup {<<TagOf[f[n].rec], n>>}]

-----------------------------------------------------------------------------
(* Locks *)

Idle == [pc |-> "idle", rec |-> "none", inode |-> 0, draft |-> Blank]

\* The exclusive lock of a file.
Locked(i) ==
    \/ \E w \in Writers : writer[w].pc \in {"unchecked", "written"} /\ writer[w].inode = i
    \/ dream.pc = "swapped" /\ dream.inode = i

\* The write transaction of the index database.
Indexing == \E w \in Writers : writer[w].pc = "written"

Trouble == troubles < MaxTroubles /\ troubles' = troubles + 1

-----------------------------------------------------------------------------
(* append_jsonl_with, for an indexed ledger *)

OpenLedger(w) ==
    /\ writer[w].pc = "idle" /\ appends < MaxAppends
    /\ \E r \in Records :
          writer' = [writer EXCEPT ![w] = [pc |-> "opened", rec |-> r, inode |-> path, draft |-> Blank]]
    /\ appends' = appends + 1
    /\ UNCHANGED <<files, path, disk, index, reader, dream, acked, troubles>>

\* Bug: the lock is taken for the ledger's, whatever is at the path by now.
HasLock(w) == writer[w].pc = "opened" /\ ~Locked(writer[w].inode)

\* The lock of a file that is still the one at the path.
HasLedger(w) == writer[w].pc = "opened" /\ ~Locked(writer[w].inode) /\ writer[w].inode = path

\* The file was replaced while the writer waited for its lock: open it again.
Reopen(w) ==
    /\ writer[w].pc = "opened" /\ ~Locked(writer[w].inode) /\ writer[w].inode # path
    /\ writer' = [writer EXCEPT ![w].inode = path]
    /\ UNCHANGED <<files, path, disk, index, reader, dream, acked, appends, troubles>>

Returns(w) ==
    /\ acked' = acked \cup {IdentityOf[writer[w].rec]}
    /\ writer' = [writer EXCEPT ![w] = Idle]

Wanted(w) == IdentityOf[writer[w].rec]
IndexFor(w) == IndexForKey(index, writer[w].inode, Wanted(w))

\* The index names a line the file does not confirm, and a rebuild is too long.
Forgotten(w) ==
    LET i == writer[w].inode  now == CaughtUp(index, i) IN
    /\ ~TooFar(index, i) /\ now.keys[Wanted(w)] # 0 /\ ~Confirmed(now, i, Wanted(w))
    /\ TooFar(Blank, i)

\* The index can answer within the hook's budget.
InBudget(w) == ~TooFar(index, writer[w].inode) /\ ~Forgotten(w)

\* Bug: the key found is believed without reading the line back.
PresentByIndex(w) == CaughtUp(index, writer[w].inode).keys[Wanted(w)] # 0

\* The record is there: the line the index names was read back.
Present(w) == IndexFor(w).keys[Wanted(w)] # 0 /\ Confirmed(IndexFor(w), writer[w].inode, Wanted(w))

AppendPresent(w) ==
    /\ HasLedger(w) /\ ~Indexing /\ InBudget(w)
    /\ Present(w)
    /\ index' = IndexFor(w)
    /\ Returns(w)
    /\ UNCHANGED <<files, path, disk, reader, dream, appends, troubles>>

\* The record is not: its line is written inside the transaction.
AppendChecked(w) ==
    /\ HasLedger(w) /\ ~Indexing /\ InBudget(w)
    /\ ~Present(w)
    /\ LET i == writer[w].inode  f == Written(files[i], writer[w].rec, "record", "checked") IN
          /\ files' = [files EXCEPT ![i] = f]
          /\ writer' = [writer EXCEPT ![w] = [@ EXCEPT !.pc = "written",
                                                   !.draft = Inserted(IndexFor(w), i, f)]]
    /\ UNCHANGED <<path, disk, index, reader, dream, acked, appends, troubles>>

\* The index is committed after the line.
CommitIndex(w) ==
    /\ writer[w].pc = "written"
    /\ index' = writer[w].draft
    /\ Returns(w)
    /\ UNCHANGED <<files, path, disk, reader, dream, appends, troubles>>

\* ... or is not, and the append returns all the same.
FailCommit(w) ==
    /\ writer[w].pc = "written" /\ Trouble
    /\ Returns(w)
    /\ UNCHANGED <<files, path, disk, index, reader, dream, appends>>

\* The index is too far behind, or is not locked in time: it is one database, and
\* appends to other ledgers hold it too.
AppendUnchecked(w) ==
    /\ HasLedger(w)
    /\ \/ ~Indexing /\ ~InBudget(w) /\ index' = (IF Forgotten(w) THEN Blank ELSE index)
       \/ UNCHANGED index
    /\ writer' = [writer EXCEPT ![w].pc = "unchecked"]
    /\ UNCHANGED <<files, path, disk, reader, dream, acked, appends, troubles>>

\* A full disk cuts the line short inside the transaction, which is rolled back;
\* the caller takes the error for one of the index and writes the line again.
CutChecked(w) ==
    /\ HasLedger(w) /\ ~Indexing /\ InBudget(w) /\ ~Present(w) /\ Trouble
    /\ \E form \in {"bare", "cut"} :
          files' = [files EXCEPT ![path] = Written(@, writer[w].rec, form, "checked")]
    /\ writer' = [writer EXCEPT ![w].pc = "unchecked"]
    /\ UNCHANGED <<path, disk, index, reader, dream, acked, appends>>

WriteUnchecked(w) ==
    /\ writer[w].pc = "unchecked"
    /\ files' = [files EXCEPT ![writer[w].inode] = Written(@, writer[w].rec, "record", "unchecked")]
    /\ Returns(w)
    /\ UNCHANGED <<path, disk, index, reader, dream, appends, troubles>>

\* The append fails; what it wrote stays.
CutUnchecked(w) ==
    /\ writer[w].pc = "unchecked" /\ Trouble
    /\ \E form \in {"bare", "cut"} :
          files' = [files EXCEPT ![writer[w].inode] = Written(@, writer[w].rec, form, "unchecked")]
    /\ writer' = [writer EXCEPT ![w] = Idle]
    /\ UNCHANGED <<path, disk, index, reader, dream, acked, appends>>

-----------------------------------------------------------------------------
(* read_records_tagged *)

NotReading == [pc |-> "idle", tag |-> "none", inode |-> 0, owed |-> {}, answer |-> {}]

\* What a reader of a tag is owed: the records of whole lines, each ended by the
\* append that wrote it.
Settled(l) == l.form = "record" /\ l.how # "mended"
Owed(f, t) ==
    {IdentityOf[f[k].rec] : k \in {n \in DOMAIN f : Settled(f[n]) /\ TagOf[f[n].rec] = t}}

\* `owed` remembers what the ledger held by then.
OpenRead(x) ==
    /\ reader[x].pc = "idle"
    /\ \E t \in Tags :
          reader' = [reader EXCEPT ![x] = [pc |-> "opened", tag |-> t, inode |-> path,
                                           owed |-> Owed(files[path], t), answer |-> {}]]
    /\ UNCHANGED <<files, path, disk, index, writer, dream, acked, appends, troubles>>

TaggedIdentities(i, t, lines) ==
    {IdentityOf[files[i][k].rec] : k \in
        {n \in lines : Readable(files[i][n]) /\ TagOf[files[i][n].rec] = t}}

UntagForgotten(x) ==
    LET i == reader[x].inode IN
    /\ ~TooFar(index, i) /\ ~TagsConfirmed(CaughtUp(index, i), i, reader[x].tag)
    /\ TooFar(Blank, i)

\* The lines the index names, under the shared lock of the file opened.
ReadTagged(x) ==
    /\ reader[x].pc = "opened" /\ ~Locked(reader[x].inode) /\ ~Indexing
    /\ ~TooFar(index, reader[x].inode) /\ ~UntagForgotten(x)
    /\ LET i == reader[x].inode  t == reader[x].tag IN
          /\ index' = IndexForTag(index, i, t)
          /\ reader' = [reader EXCEPT ![x] = [@ EXCEPT !.pc = "answered",
                           !.answer = TaggedIdentities(i, t, TaggedLines(index', t))]]
    /\ UNCHANGED <<files, path, disk, writer, dream, acked, appends, troubles>>

\* Without the index the ledger at the path is streamed, under no lock.
StreamLedger(x) ==
    /\ reader[x].pc = "opened"
    /\ \/ /\ ~Locked(reader[x].inode) /\ ~Indexing
          /\ TooFar(index, reader[x].inode) \/ UntagForgotten(x)
          /\ index' = (IF UntagForgotten(x) THEN Blank ELSE index)
       \/ UNCHANGED index
    /\ reader' = [reader EXCEPT ![x] = [@ EXCEPT !.pc = "answered",
                     !.answer = TaggedIdentities(path, reader[x].tag, DOMAIN files[path])]]
    /\ UNCHANGED <<files, path, disk, writer, dream, acked, appends, troubles>>

CloseRead(x) ==
    /\ reader[x].pc = "answered"
    /\ reader' = [reader EXCEPT ![x] = NotReading]
    /\ UNCHANGED <<files, path, disk, index, writer, dream, acked, appends, troubles>>

-----------------------------------------------------------------------------
(* The dream pass: compact, then refresh; at most one at a time (its lease) *)

Resting == [pc |-> "idle", inode |-> 0, copied |-> 0]

SameRecord(l, m) == Readable(l) /\ Readable(m) /\ IdentityOf[l.rec] = IdentityOf[m.rec]

\* In the new file every line is one the index has yet to read.
Copied(l) == [l EXCEPT !.how = IF @ = "mended" THEN "unchecked" ELSE @]

\* Filter::keep: the first record of each identity, and every line that does not parse.
Firsts(f) == {k \in DOMAIN f : \A j \in 1 .. k - 1 : ~SameRecord(f[j], f[k])}

\* The n-th number of a set.
Nth(S, n) == CHOOSE k \in S : Cardinality({j \in S : j <= k}) = n

Compacted(f) == [n \in 1 .. Cardinality(Firsts(f)) |-> Copied(f[Nth(Firsts(f), n)])]

\* Bug: what was appended since the copy is left behind.
CompactedUnlocked(f) == Compacted(SubSeq(f, 1, dream.copied))

\* The copy of a ledger: its whole lines, and a torn last line as it is.
Compaction(f) ==
    LET kept == Compacted(SubSeq(f, 1, Whole(f))) IN
    IF Whole(f) = Len(f) THEN kept
    ELSE Append(kept, [End(Last(f)) EXCEPT !.how = "unchecked"])

\* Nothing was dropped: the ledger is left alone.
NothingToDo(f) == Len(Compaction(f)) = Len(f)

\* The whole lines there are copied without the lock; writers go on.
CopyLedger ==
    /\ dream.pc = "idle" /\ path < MaxFiles
    /\ dream' = [pc |-> "copied", inode |-> path, copied |-> Whole(files[path])]
    /\ UNCHANGED <<files, path, disk, index, writer, reader, acked, appends, troubles>>

SkipSwap ==
    /\ dream.pc = "copied" /\ ~Locked(dream.inode) /\ dream.inode = path
    /\ NothingToDo(files[path])
    /\ dream' = [dream EXCEPT !.pc = "refresh"]
    /\ UNCHANGED <<files, path, disk, index, writer, reader, acked, appends, troubles>>

\* Bug: the copy is renamed over the ledger before it is synced.
SwapUnsynced ==
    /\ dream.pc = "copied" /\ ~Locked(dream.inode) /\ dream.inode = path
    /\ ~NothingToDo(files[path])
    /\ files' = [files EXCEPT ![path + 1] = Compaction(files[path])]
    /\ flushed' = [flushed EXCEPT ![path + 1] = 0]
    /\ path' = path + 1
    /\ dream' = [dream EXCEPT !.pc = "swapped"]
    /\ UNCHANGED <<diskPath, outlived, index, writer, reader, acked, appends, troubles>>

\* Under the lock the rest is copied, the copy is synced and renamed over the
\* ledger; the lock, of the old file, is kept until the directory is synced.
Swap ==
    /\ dream.pc = "copied" /\ ~Locked(dream.inode) /\ dream.inode = path
    /\ ~NothingToDo(files[path])
    /\ files' = [files EXCEPT ![path + 1] = Compaction(files[path])]
    /\ flushed' = [flushed EXCEPT ![path + 1] = Len(files'[path + 1])]
    /\ path' = path + 1
    /\ dream' = [dream EXCEPT !.pc = "swapped"]
    /\ UNCHANGED <<diskPath, outlived, index, writer, reader, acked, appends, troubles>>

SyncDirectory ==
    /\ dream.pc = "swapped"
    /\ diskPath' = path
    /\ dream' = [dream EXCEPT !.pc = "refresh"]
    /\ UNCHANGED <<files, path, flushed, outlived, index, writer, reader, acked, appends,
                   troubles>>

\* refresh: the index is caught up, however far behind it is.
Refresh ==
    /\ dream.pc = "refresh" /\ ~Locked(path) /\ ~Indexing
    /\ index' = CaughtUp(index, path)
    /\ dream' = Resting
    /\ UNCHANGED <<files, path, disk, writer, reader, acked, appends, troubles>>

-----------------------------------------------------------------------------
(* The kernel and the host *)

\* Whole lines, and the directory, reach the disk when the kernel pleases.
Flush ==
    /\ \/ /\ flushed[path] < Whole(files[path])
          /\ flushed' = [flushed EXCEPT ![path] = Whole(files[path])]
          /\ UNCHANGED diskPath
       \/ /\ diskPath # path /\ diskPath' = path
          /\ UNCHANGED flushed
    /\ UNCHANGED <<files, path, outlived, index, writer, reader, dream, acked, appends,
                   troubles>>

\* A process is killed; its locks and its transaction go with it.
Kill ==
    /\ Trouble
    /\ \/ /\ \E w \in Writers : writer[w].pc # "idle" /\ writer' = [writer EXCEPT ![w] = Idle]
          /\ UNCHANGED dream
       \/ /\ dream.pc # "idle" /\ dream' = Resting
          /\ UNCHANGED writer
    /\ UNCHANGED <<files, path, disk, index, reader, acked, appends>>

\* What a power cut leaves of a file: what was flushed, whatever else had reached
\* the disk by then, and perhaps a part of the next line.
Remains(i) ==
    LET f == files[i]  rest == flushed[i] .. Len(f) IN
    {SubSeq(f, 1, n) : n \in rest} \cup
    {Append(SubSeq(f, 1, n), [f[n + 1] EXCEPT !.form = IF Readable(f[n + 1]) THEN form ELSE "cut"]) :
        n \in rest \ {Len(f)}, form \in {"bare", "cut"}}

\* The cursor is past what a power cut left of the ledger, or of another file that
\* was not at the path yet.
Outlives(p, f) == index.inode > p \/ (index.inode = p /\ index.length > Whole(f))

\* Everything volatile is gone.  A rename not yet synced may be undone, and the
\* index, which is never synced, may be lost while the ledger is not or the reverse.
PowerCut ==
    /\ Trouble
    /\ \E p \in {path, diskPath} : \E f \in Remains(p) :
          /\ path' = p /\ diskPath' = p
          /\ files' = [i \in Inodes |-> IF i = p THEN f ELSE <<>>]
          /\ flushed' = [i \in Inodes |-> IF i = p THEN Whole(f) ELSE 0]
          /\ acked' = acked \cap HeldIn(SubSeq(f, 1, Whole(f)))
          /\ \/ index' = index /\ outlived' = (outlived \/ Outlives(p, f))
             \/ index' = Blank /\ UNCHANGED outlived
    /\ writer' = [w \in Writers |-> Idle] /\ reader' = [x \in Readers |-> NotReading]
    /\ dream' = Resting
    /\ UNCHANGED appends

-----------------------------------------------------------------------------
Init ==
    /\ files = [i \in Inodes |-> <<>>] /\ path = 1
    /\ flushed = [i \in Inodes |-> 0] /\ diskPath = 1
    /\ index = Blank
    /\ writer = [w \in Writers |-> Idle] /\ reader = [x \in Readers |-> NotReading]
    /\ dream = Resting
    /\ acked = {} /\ outlived = FALSE /\ appends = 0 /\ troubles = 0

Write(w) ==
    \/ OpenLedger(w) \/ Reopen(w)
    \/ AppendPresent(w) \/ AppendChecked(w) \/ CommitIndex(w) \/ FailCommit(w)
    \/ AppendUnchecked(w) \/ CutChecked(w) \/ WriteUnchecked(w) \/ CutUnchecked(w)

Read(x) == OpenRead(x) \/ ReadTagged(x) \/ StreamLedger(x) \/ CloseRead(x)

Dream == CopyLedger \/ SkipSwap \/ Swap \/ SyncDirectory \/ Refresh

Next ==
    \/ \E w \in Writers : Write(w)
    \/ \E x \in Readers : Read(x)
    \/ Dream
    \/ Flush \/ Kill \/ PowerCut

Spec == Init /\ [][Next]_vars

-----------------------------------------------------------------------------
(* Properties *)

Index == [inode : {0} \cup Inodes, length : Nat,
          tail : [rec : Records \cup {"none"}, form : {"record", "torn", "none"}],
          keys : [Identities -> Nat], tags : SUBSET (Tags \X Nat)]

TypeOK ==
    /\ files \in [Inodes -> Seq(Lines)] /\ path \in Inodes
    /\ \A i \in Inodes : \A n \in 1 .. Len(files[i]) - 1 : Terminated(files[i][n])
    /\ diskPath \in Inodes /\ diskPath <= path
    /\ \A i \in Inodes : flushed[i] \in 0 .. Len(files[i])
    /\ index \in Index
    /\ \A w \in Writers :
          /\ writer[w].pc \in {"idle", "opened", "unchecked", "written"}
          /\ writer[w].rec \in Records \cup {"none"} /\ writer[w].inode \in {0} \cup Inodes
          /\ writer[w].draft \in Index
    /\ \A x \in Readers :
          /\ reader[x].pc \in {"idle", "opened", "answered"}
          /\ reader[x].tag \in Tags \cup {"none"} /\ reader[x].inode \in {0} \cup Inodes
          /\ reader[x].owed \subseteq Identities /\ reader[x].answer \subseteq Identities
    /\ dream \in [pc : {"idle", "copied", "swapped", "refresh"}, inode : {0} \cup Inodes, copied : Nat]
    /\ acked \subseteq Identities /\ outlived \in BOOLEAN
    /\ appends \in 0 .. MaxAppends /\ troubles \in 0 .. MaxTroubles

\* An append that returned is in the ledger at the path, though the ledger may
\* have been replaced between the writer's open and its lock, or its record was
\* suppressed as one that is already there.
AcknowledgedIsHeld == acked \subseteq Held

\* What has reached the disk stays there: a power cut in the middle of a dream
\* finds the old ledger or the whole new one.
OnDiskStays == [][OnDisk \subseteq OnDisk']_vars

\* When the cursor follows the ledger, every line before it is in the index by
\* its tag and every record by its identity, whatever wrote, replaced or cut the
\* file before; but for a line some append terminated.
IndexIsComplete ==
    Follows(index, path) =>
        \A k \in 1 .. index.length :
            LET l == files[path][k] IN
            l.how # "mended" =>
                /\ <<TagOf[l.rec], k>> \in index.tags
                /\ l.form = "record" => index.keys[IdentityOf[l.rec]] # 0

\* catch_up's comment: a line that does not parse is tagged by what it spells,
\* so that it is "skipped with a signal, never silently absent".  It does not
\* hold: the cursor of the append that terminated a torn line passes over it, and
\* over a whole record that had only lost its newline.
EveryLineIsTagged ==
    Follows(index, path) =>
        \A k \in 1 .. index.length : <<TagOf[files[path][k].rec], k>> \in index.tags

\* An append that consulted the index never repeats a record.
CheckedIsNotRepeated ==
    \A j, k \in DOMAIN files[path] :
        j < k /\ SameRecord(files[path][j], files[path][k]) /\ files[path][k].how = "checked"
            => files[path][j].how = "mended"

\* A tagged read holds every record the ledger held on a line its append had ended
\* before the read opened it, also when the ledger was replaced under it.
AnswerIsComplete ==
    \A x \in Readers : reader[x].pc = "answered" => reader[x].owed \subseteq reader[x].answer

\* A reader is given all of what writers were told is there; but for a cursor that
\* outlived a power cut.
NothingIsLost == AcknowledgedIsHeld /\ (~outlived => AnswerIsComplete)

\* The index hides no line of the ledger, and lets none in twice, unless it is one
\* that outlived a power cut its lines did not.
IndexIsSound == ~outlived => IndexIsComplete /\ CheckedIsNotRepeated

\* The header of ledger_index.rs: an index that outlived a crash its ledger's tail
\* did not is told by an answer the ledger does not confirm, and rebuilt.  In no
\* run, for it does not hold: once as many lines of the same length are there
\* again, the last of them the same, the lines before it may be others, and what
\* the index still names is confirmed while what it does not is missed.
OutlivedIsRebuilt == AnswerIsComplete

\* The ledger, its index and its dream together keep the promise of a RecordLog.
Log == INSTANCE RecordLog WITH held <- Held, acknowledged <- acked, onDisk <- OnDisk
ImplementsRecordLog == Log!Spec
=============================================================================
