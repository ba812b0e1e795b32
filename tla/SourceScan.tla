----------------------------- MODULE SourceScan -----------------------------
(***************************************************************************)
(* What one adapter scan reads from a native source: the scan_* functions  *)
(* of lifecycle.rs.                                                        *)
(*                                                                         *)
(* A native item is a record                                               *)
(*   [subject, digest, state, place, copy, stamp, until, signer, owner,    *)
(*    parents, marks]                                                      *)
(* subject: what its logical key names (a path, a ticket, a question, a    *)
(* symbol, a command); digest: its bytes, 0 when the worktree holds none;  *)
(* state: the native status word; place: where Git finds it; copy: the     *)
(* bytes a divergent branch holds for the same path, 0 for none; marks:    *)
(* what else the adapter reads from it.  A source maps native identities   *)
(* (numbers) to items, Gone where there is none.                           *)
(*                                                                         *)
(* A scan yields records: observations still without their observation     *)
(* time, cursor and lifecycle, with `present` for snapshot exports.        *)
(***************************************************************************)
EXTENDS Derivation

CONSTANTS Gone,                 \* no item under this identity
          ConventionThreshold   \* CONVENTION_THRESHOLD: definitions that share a name

ASSUME ThresholdAssumption == ConventionThreshold \in Nat

Native(source) == {n \in DOMAIN source : source[n] # Gone}

(* Repository::origin_trust of a path.                                     *)
OriginTrust(item) ==
  CASE item.place = "dirty" -> "uncommitted-worktree"
    [] item.place = "default" -> "merged-default"
    [] item.place = "merged-pr" -> "approved-pr"
    [] OTHER -> "unreviewed-branch"

(* SourceRecord::new and the fields every adapter fills.                   *)
Record(kind, n, item, atom, disp, origin) ==
  [kind |-> kind, native |-> n, at |-> FALSE, digest |-> item.digest, key |-> item.subject,
   disp |-> disp, origin |-> origin, atom |-> atom, asserted |-> item.stamp, until |-> 0,
   signer |-> None, owner |-> None, scope |-> "repository", parents |-> {}, attrs |-> {},
   receipt |-> 0, present |-> TRUE]

(* A branch that is not part of the default lineage and holds other bytes  *)
(* for a path.                                                             *)
BranchCopy(kind, n, item, atom, disp) ==
  {[Record(kind, n, item, atom, disp, "unreviewed-branch") EXCEPT !.at = TRUE, !.digest = d]
     : d \in {item.copy} \ {0, item.digest}}

ScanRepoCode(n, item) ==
  {Record("repo_code", n, item, "claim", "current", OriginTrust(item)) : d \in {item.digest} \ {0}}
    \cup BranchCopy("repo_code", n, item, "claim", "current")

AdrStatus(item) ==
  IF item.state \in {"accepted", "rejected", "superseded"} THEN item.state ELSE "proposed"

ScanDocsAdr(n, item) ==
  {Record("docs_adr", n, item, "decision", AdrStatus(item), OriginTrust(item))
     : d \in {item.digest} \ {0}}
    \cup BranchCopy("docs_adr", n, item, "decision", AdrStatus(item))

(* Exported declarations: one key for a name, unless so many files use the *)
(* name that it is a convention.                                           *)
SymbolKey(source, n) ==
  IF Cardinality({m \in Native(source) : source[m].subject = source[n].subject})
       > ConventionThreshold
  THEN <<source[n].subject, n>> ELSE <<source[n].subject>>

ScanRepoSymbols(source, n) ==
  LET item == source[n]
  IN  IF "unreadable" \in item.marks THEN {}
      ELSE {[Record("repo_symbols", n, item, "interface", "current", OriginTrust(item))
               EXCEPT !.key = SymbolKey(source, n), !.asserted = 0]}

(* Command results: tests and runtime evidence.                            *)
ScanEnvelope(kind, n, item) ==
  LET failed == "exit_failed" \in item.marks
  IN  {[Record(kind, n, item, "observation",
               IF kind # "repo_tests" THEN "observed" ELSE IF failed THEN "failed" ELSE "passed",
               OriginTrust(item))
          EXCEPT !.until = item.until, !.owner = item.owner, !.receipt = item.stamp,
                 !.attrs = item.marks \cap {"exit_failed"}]}

(* Host transcripts.                                                       *)
ScanTranscript(kind, n, item) ==
  LET terminal == item.state = "terminal"
  IN  IF item.state = "not JSON" \/ "oversized" \in item.marks THEN {}
      ELSE {[Record(kind, n, item, IF terminal THEN "observation" ELSE "claim",
                    IF terminal THEN "terminal" ELSE "current", "personal-host")
               EXCEPT !.scope = "host-session",
                      !.attrs = item.marks \cap {"edited", "resumed_from", "raw_withheld"}]}

(* Exports: a line that is not a record with an id is skipped.             *)
ExportDisposition(kind, item) ==
  CASE kind = "issue_tracker" ->
         IF item.state = "completed" THEN "accepted"
         ELSE IF item.state = "canceled" THEN "rejected" ELSE "proposed"
    [] kind = "pull_request" -> IF item.state = "merged" THEN "accepted" ELSE "proposed"
    [] kind = "chat_thread" -> "proposed"
    [] kind = "document" -> IF item.state = "unstated" THEN "proposed" ELSE item.state

ScanExport(kind, n, item) ==
  IF item.state = "not JSON" THEN {}
  ELSE {Record(kind, n, item, "claim", ExportDisposition(kind, item), "merged-default")}

(* Git: commits in the window of the log, and refs.                        *)
GitOrigin(item) == IF item.place = "default" THEN "merged-default" ELSE "unreviewed-branch"

GitDisposition(item) ==
  IF item.state = "ref" THEN "ref"
  ELSE IF "reverted_by" \in item.marks THEN "reverted"
  ELSE IF "reverts" \in item.marks THEN "revert"
  ELSE IF item.state = "merge" THEN "merged" ELSE "committed"

ScanGit(n, item) ==
  IF "outside window" \in item.marks /\ item.state # "ref" THEN {}
  ELSE {[Record("git_history", n, item, item.state, GitDisposition(item), GitOrigin(item))
           EXCEPT !.attrs = item.marks \cap {"reverted_by", "reverts", "skew_bounded"}]}

(* Commits a branch still reaches outside the window, with the origin they *)
(* would carry now.                                                        *)
PresentElsewhere(kind, source) ==
  IF kind # "git_history" THEN {}
  ELSE {<<n, GitOrigin(source[n])>> :
          n \in {m \in Native(source) : /\ "outside window" \in source[m].marks
                                        /\ source[m].state # "ref"}}

(* GitHub: an item of an older snapshot only is read, and not present.     *)
GithubDisposition(item) ==
  CASE item.state = "open issue" -> "open"
    [] item.state = "closed issue" -> "closed"
    [] item.state = "reopened issue" -> "reopened"
    [] item.state = "merged" -> "merged"
    [] item.state = "closed" -> "rejected"
    [] item.state = "approved and refused" -> "disputed"
    [] item.state = "approved" -> "approved"
    [] OTHER -> "proposed"

ScanGithub(n, item) ==
  {[Record("github_export", n, item, "decision", GithubDisposition(item), OriginTrust(item))
      EXCEPT !.present = "newest snapshot" \in item.marks, !.attrs = item.marks \cap {"edited"}]}

(* Kindex: standing nodes for the team or the public, with their edges.    *)
ScanKindex(n, item) ==
  IF "not active" \in item.marks \/ "not for the team" \in item.marks THEN {}
  ELSE {[Record("kindex", n, item, "claim", item.state, OriginTrust(item))
           EXCEPT !.until = item.until, !.parents = item.parents,
                  !.attrs = item.marks \cap {"contradicts", "superseded_by"}]}

(* Signed answers; the key is the question.                                *)
ScanAnswer(n, item) ==
  {[Record("authority_answer", n, item, "decision", "answered", OriginTrust(item))
      EXCEPT !.signer = item.signer, !.scope = "company", !.parents = item.parents,
             !.attrs = item.marks \cap {"signature_valid", "late"}]}

-----------------------------------------------------------------------------
(* One scan of a source, and when it is refused.                           *)

ScanItem(kind, source, n) ==
  LET item == source[n]
  IN  CASE kind \in Personal -> ScanTranscript(kind, n, item)
        [] kind = "repo_code" -> ScanRepoCode(n, item)
        [] kind = "repo_symbols" -> ScanRepoSymbols(source, n)
        [] kind \in {"repo_tests", "runtime_evidence"} -> ScanEnvelope(kind, n, item)
        [] kind = "git_history" -> ScanGit(n, item)
        [] kind = "docs_adr" -> ScanDocsAdr(n, item)
        [] kind \in Exports -> ScanExport(kind, n, item)
        [] kind = "github_export" -> ScanGithub(n, item)
        [] kind = "kindex" -> ScanKindex(n, item)
        [] kind = "authority_answer" -> ScanAnswer(n, item)

(* A shallow or sparse view marks every record it yields.                  *)
Scan(kind, source, narrowed) ==
  LET records == UNION {ScanItem(kind, source, n) : n \in Native(source)}
  IN  {[r EXCEPT !.attrs = @ \cup IF narrowed THEN {"narrowed_view"} ELSE {}] : r \in records}

(* Adapters that refuse a source without a record rather than read it as   *)
(* emptied; an export refuses only lines it cannot read.                   *)
ScanRefused(kind, source) ==
  LET none == Scan(kind, source, FALSE) = {}
  IN  \/ kind \in {"docs_adr", "repo_tests", "runtime_evidence", "git_history", "github_export",
                   "kindex", "authority_answer"} /\ none
      \/ kind \in Exports /\ none /\ Native(source) # {}
=============================================================================
