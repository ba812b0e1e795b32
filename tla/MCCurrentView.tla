--------------------------- MODULE MCCurrentView ---------------------------
(* Small pools of evidence, one for each question asked of the readers.    *)
EXTENDS CurrentView

MCEntries == {<<"ann", "api">>, <<"ann", "ops">>, <<"bob", "api">>, <<"cy", "ops">>}
MCStewards == {"root"}

(* An accepted decision of the Company, at the first instant.              *)
Fact(id, stmt, signer, scope) ==
  [id |-> id, key |-> "k", stmt |-> stmt, store |-> "company", kind |-> "decision",
   scope |-> scope, disp |-> "accepted", standing |-> "present", prov |-> "human",
   governs |-> {}, under |-> {"p"}, signer |-> signer, asserted |-> 0, from |-> 0,
   until |-> 0, parents |-> {}, supersedes |-> {}, candidate |-> FALSE]

File(e) == [e EXCEPT !.store = "codebase"]

(* Two scopes disagree; someone answers for neither, for one, or for both. *)
Resolutions ==
  {Fact(1, "A", "ann", "api"), Fact(2, "B", "bob", "api"),
   [Fact(3, "C", "cy", "ops") EXCEPT !.parents = {1, 2}, !.standing = "ratified"],
   [Fact(4, "C", "bob", "api") EXCEPT !.parents = {1, 2}],
   [Fact(5, "C", "ann", "api") EXCEPT !.parents = {1, 2}, !.kind = "observation"],
   Fact(6, "B", "cy", "ops")}
Halves ==
  {Fact(1, "A", "ann", "api"), Fact(2, "B", "cy", "ops"),
   [Fact(3, "C", "bob", "api") EXCEPT !.parents = {1, 2}]}

(* The same statement from several keys and scopes.                        *)
Supports ==
  {Fact(1, "A", "ann", "api"), Fact(2, "A", "bob", "api"), Fact(3, "A", "ann", "ops"),
   [Fact(4, "B", "cy", "ops") EXCEPT !.key = "m"],
   [Fact(5, "C", "bob", "api") EXCEPT !.supersedes = {1}]}

(* A decision, and what an agent keeps observing.                          *)
Seen(id) == [File(Fact(id, "B", "bob", "api")) EXCEPT !.kind = "observation", !.prov = "agent",
                                                      !.standing = "prevalent"]
Volume ==
  {File(Fact(1, "A", "ann", "api")), Seen(2), Seen(3), Seen(4),
   [File(Fact(5, "C", "ann", "api")) EXCEPT !.kind = "observation", !.disp = "incident"]}

(* Notices and withdrawals.                                                *)
Actions ==
  {Fact(1, "A", "ann", "api"), [Fact(2, "A", "bob", "api") EXCEPT !.from = 1],
   [Fact(3, "-", "bob", "api") EXCEPT !.disp = "never_true", !.parents = {1}],
   [Fact(4, "-", "cy", "ops") EXCEPT !.disp = "misextraction", !.parents = {1}],
   [Fact(5, "-", "root", "api") EXCEPT !.disp = "support_withdrawn", !.parents = {2}]}
FileActions == {File(e) : e \in Actions}

(* Company direction and accepted code.                                    *)
DriftPool ==
  {[Fact(1, "A", "root", "architecture") EXCEPT !.kind = "constraint"],
   File(Fact(2, "B", "ann", "api")),
   [File(Fact(3, "A", "bob", "api")) EXCEPT !.kind = "observation"]}

Proposals ==
  DriftPool \cup {[File(Fact(0, "B", "ann", "api")) EXCEPT !.disp = "proposed"]}

(* A ruling nobody verified, over the path the evidence lies under.        *)
Ruled ==
  {File(Fact(1, "A", "ann", "api")),
   [File(Fact(2, "B", "bob", "api")) EXCEPT !.standing = "prevalent"],
   [File(Fact(3, "R", "dan", "api")) EXCEPT !.key = "r", !.kind = "directional",
      !.standing = "ratified", !.governs = {"p"}]}

Pool(reader, events, changes, records) ==
  [reader |-> reader, events |-> events, changes |-> changes, records |-> records]

MCPools ==
  {Pool("company", Resolutions, 0, 1), Pool("codebase", {File(e) : e \in Resolutions}, 1, 0),
   Pool("company", Supports, 2, 0), Pool("codebase", {File(e) : e \in Supports}, 1, 0),
   Pool("mixed", Supports, 1, 0), Pool("codebase", Volume, 0, 0), Pool("company", Actions, 1, 0),
   Pool("codebase", FileActions, 1, 0), Pool("mixed", DriftPool, 1, 1)}
HalvesOnly == {Pool("company", Halves, 0, 0)}
ProposalsOnly == {Pool("mixed", Proposals, 0, 0)}
RuledOnly == {Pool("codebase", Ruled, 0, 0)}
RecordsOnly == {Pool("codebase", FileActions, 0, 2)}
=============================================================================
