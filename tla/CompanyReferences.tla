--------------------------- MODULE CompanyReferences ---------------------------
(* What a repository trusts by the Company cache of its machine              *)
(* (crates/kinbase/src/repository.rs, build_trust, init,                     *)
(* resolve_company_references; company/cache.rs, certificates and pins).     *)
(*                                                                           *)
(* A certificate comes by `repo init` into a file and an index row, and by   *)
(* any snapshot into the row or, when the row names another, into a claim.   *)
(* A trust context pins the remote's URL to the certificate it verified.     *)
(* A Codebase fact copies the digest of a version of a Company fact; it is   *)
(* trusted while every reference it holds resolves in the context.           *)
(*                                                                           *)
(* One Company fact with its versions, numbered in order; the digest of a    *)
(* version is its number.  The cache rows under this are CompanyCache's.     *)
EXTENDS CompanyCache, SequencesExt, FiniteSetsExt

CONSTANTS
    CertifiedFor,  \* the repository each certificate is for
    MaxVersions,   \* bound: versions of the Company fact
    Criticality,   \* the class Company gives each version
    Relaxations,   \* the lists of relaxations a snapshot may carry
    References,    \* the references a Codebase fact may hold
    MaxReferences  \* bound: references in a fact

Classes == {"safety_critical", "advisory"}
Versions == 1..MaxVersions
Certificates == DOMAIN CertifiedFor

ASSUME ReferencesAssumption ==
    /\ CertifiedFor \in [1..Len(CertifiedFor) -> Repos]
    /\ MaxVersions \in 0..MaxChanges /\ MaxReferences \in Nat
    /\ Criticality \in [1..MaxChanges -> Classes]
    /\ Relaxations \subseteq Seq([repository : {"", "own", "other"}, fact : {"", "this", "other"},
                                 answers : BOOLEAN, parents : SUBSET Nat, until : Nat,
                                 class : Classes])
    /\ References \subseteq [known : BOOLEAN, digest : Nat, version : Nat, until : Nat,
                             class : Classes]

VARIABLES
    machine,  \* the certificates of the machine, as below
    brief     \* what a brief made of a Codebase fact, or NotAsked

-----------------------------------------------------------------------------
(* Certificates: install_certificate, write_snapshot, certificate_claims, pin *)

\* A machine: for each repository the file, the row and the claim (0 for none);
\* the certificate a `repo init` has put in the file and not yet in the row; the
\* one the URL is pinned to; and what contexts trusted and snapshots offered.
EmptyMachine ==
    [bound |-> [r \in Repos |-> [file |-> 0, index |-> 0, claim |-> 0]], init |-> 0, pin |-> 0,
     trusted |-> {}, offered |-> {}]

\* A snapshot's certificate goes into an empty row; another than the row's is
\* kept as a claim of its own, and nothing takes that back.
Indexed(held, c) ==
    IF held.index = c THEN held
    ELSE IF held.index = 0 THEN [held EXCEPT !.index = c]
    ELSE [held EXCEPT !.claim = c]

Snapshot(m, c) ==
    [m EXCEPT !.bound[CertifiedFor[c]] = Indexed(@, c), !.offered = @ \cup {c}]

\* Another certificate in the row or in the file refuses it, which opens an
\* identity Unknown and changes no trust.
InstallFile(m, c) ==
    LET held == m.bound[CertifiedFor[c]] IN
    IF {held.index, held.file} \subseteq {0, c}
    THEN [m EXCEPT !.bound[CertifiedFor[c]].file = c, !.init = c] ELSE m

\* INSERT OR IGNORE, after the file; the process may have died before it.
InstallIndex(m) ==
    IF m.init = 0 THEN m
    ELSE [m EXCEPT !.bound[CertifiedFor[m.init]].index = IF @ = 0 THEN m.init ELSE @, !.init = 0]

\* Bug: the row is not among the claims of the repository.
FileClaims(held) == {held.file} \ {0}

Claims(held) == {held.file, held.index, held.claim} \ {0}

\* Only the file is a source of trust, and only where all claims agree.
Verified(held) == held.file # 0 /\ Cardinality(Claims(held)) = 1

\* Bug: a URL pinned to another repository is pinned anew.
PinMoves(m, held) == Verified(held)

\* A URL pinned to another repository or certificate blocks.
PinHolds(m, held) == Verified(held) /\ m.pin \in {0, held.file}

\* What snapshots offered the repository of a certificate besides it
Rivals(m, c) == {d \in m.offered : CertifiedFor[d] = CertifiedFor[c]} \ {c}

\* build_trust of a worktree of the repository, with that URL
BuildTrust(m, r) ==
    LET held == m.bound[r]
        valid == PinHolds(m, held)
    IN [m EXCEPT !.pin = IF valid THEN held.file ELSE @,
                 !.trusted = IF valid THEN @ \cup {[certificate |-> held.file, rivals |-> Rivals(m, held.file)]}
                             ELSE @]

TakeSnapshot(c) == machine' = Snapshot(machine, c)
Install(c) == machine' = InstallFile(machine, c)
InstallRow == machine' = InstallIndex(machine)
Trust(r) == machine' = BuildTrust(machine, r)

-----------------------------------------------------------------------------
(* References: resolve_company_references *)

\* A reference copies the digest algorithm and a digest (0 for that of no
\* version), may name its version (0 for none), and was observed valid until
\* some instant.
\* A context: whether its certificate is valid and its clocks run, whether
\* Company answered it, and what a snapshot, if there is one, says: the versions
\* Company lists (the last is current) and the relaxations; and whether a
\* verified request of this repository asks for one.
Cached ==
    [valid : BOOLEAN, revocation : BOOLEAN, fact : BOOLEAN, reachable : {"yes", "no", "unasked"},
     present : {TRUE}, versions : SUBSET Versions, relaxations : Relaxations, requested : BOOLEAN]

ColdContext(valid, reachable) ==
    [valid |-> valid, revocation |-> FALSE, fact |-> FALSE, reachable |-> reachable,
     present |-> FALSE, versions |-> {}, relaxations |-> <<>>, requested |-> FALSE]

Contexts ==
    Cached \cup {ColdContext(valid, r) : valid \in BOOLEAN, r \in {"no", "unasked"}}

Live(versions) == IF versions = {} THEN 0 ELSE Max(versions)

\* A relaxation in force names a repository or answers a request; it names the
\* fact, or has the fact (0) or the event of its live version for a parent.
ForRepository(x, c) == IF x.repository # "" THEN x.repository = "own" ELSE x.answers /\ c.requested
ForFact(x, c) == IF x.fact # "" THEN x.fact = "this" ELSE x.parents \cap {0, Live(c.versions)} # {}

\* Bug: an expired relaxation stays in force.
NeverExpires(x, c, at) == ForRepository(x, c) /\ ForFact(x, c)

Applies(x, c, at) == x.until > at /\ ForRepository(x, c) /\ ForFact(x, c)

\* The class Company's criticality has here: the first relaxation's that holds.
EffectiveClass(c, reference, at) ==
    LET holds == {i \in DOMAIN c.relaxations : Applies(c.relaxations[i], c, at)} IN
    IF holds # {} THEN c.relaxations[Min(holds)].class
    ELSE IF Live(c.versions) = 0 THEN reference.class ELSE Criticality[Live(c.versions)]

\* The stricter of Company's class and the local one ("" where no maintainer
\* recorded one)
Class(c, reference, local, at) ==
    IF "safety_critical" \in {EffectiveClass(c, reference, at), local}
    THEN "safety_critical" ELSE "advisory"

\* The row of the truth table, and the owner of the Unknown it opens
Projected(c, reference, class, at) ==
    LET untrusted == IF class = "safety_critical" THEN "withheld" ELSE "excluded"
        current == c.fact /\ reference.until > at
    IN CASE ~c.valid -> [trust |-> "withheld", owner |-> "fact-owner"]
         [] c.valid /\ ~c.revocation -> [trust |-> untrusted, owner |-> "company-steward"]
         [] c.valid /\ c.revocation /\ ~current -> [trust |-> untrusted, owner |-> "fact-owner"]
         [] c.valid /\ c.revocation /\ current -> [trust |-> "trusted", owner |-> "none"]

\* digest_mismatch_attribution: whose it is to mend a reference whose digest is
\* not the live version's
Attributed(c, reference) ==
    LET named == IF reference.version # 0 THEN c.versions \cap {reference.version}
                 ELSE IF reference.digest \in c.versions THEN {reference.digest}
                 ELSE {Min(c.versions)}
    IN CASE named = {reference.digest} -> "client"
         [] named = {} -> IF c.reachable = "no" THEN "none" ELSE "company-steward"
         [] named \notin {{}, {reference.digest}} -> "company-steward"

\* Bug: any version Company still lists will do.
IsListed(c, reference) == reference.digest \in c.versions

\* The digest is the live version's.
IsLive(c, reference) == reference.digest = Live(c.versions)

\* Bug: a fact the snapshot does not name is always put down to the network.
NeverAccused(c) == TRUE

\* Whether a missing fact is for want of Company
CompanyUnavailable(c) == c.reachable = "no" \/ ~c.present

Resolved(c, reference, local, at) ==
    CASE ~reference.known -> [trust |-> "withheld", owner |-> "client"]
      [] reference.known /\ c.versions = {} ->
            [trust |-> "withheld",
             owner |-> IF CompanyUnavailable(c) THEN "none" ELSE "company-steward"]
      [] reference.known /\ c.versions # {} /\ IsLive(c, reference) ->
            Projected(c, reference, Class(c, reference, local, at), at)
      [] reference.known /\ c.versions # {} /\ ~IsLive(c, reference) ->
            [trust |-> "withheld", owner |-> Attributed(c, reference)]

\* Bug: a reference that resolves restores what one before it withheld.
LastDecides(fact, resolved) == resolved.trust

\* A reference that resolves leaves what those before it made of the fact;
\* another overwrites it.
Kept(fact, resolved) == IF resolved.trust = "trusted" THEN fact.trust ELSE resolved.trust

\* A reference with a digest of an unknown algorithm goes no further than the
\* client's Unknown; another sets the class of the fact, and opens one where no
\* maintainer recorded a local class.
After(fact, reference, c, local, at) ==
    LET resolved == Resolved(c, reference, local, at)
        unclassed == IF local = "" /\ reference.known THEN {"repository-maintainer"} ELSE {}
    IN [trust |-> Kept(fact, resolved),
        owners |-> fact.owners \cup {resolved.owner} \cup unclassed,
        class |-> IF reference.known THEN Class(c, reference, local, at) ELSE fact.class]

\* The references of a fact in turn; the class is that of the last.
FactOf(c, references, local, at) ==
    LET fact[n \in 0..Len(references)] ==
          IF n = 0 THEN [trust |-> "trusted", owners |-> {}, class |-> local]
          ELSE After(fact[n - 1], references[n], c, local, at)
    IN fact[Len(references)]

Locals == {"", "safety_critical"}
NotAsked == [trust |-> "unasked"]
Now == 0

\* A brief resolved the references of a fact, in whatever context it had.
Brief(c, references, local) ==
    LET fact == FactOf(c, references, local, Now)
    IN [context |-> c, references |-> references, local |-> local, trust |-> fact.trust,
        owners |-> fact.owners, class |-> fact.class]
Briefs ==
    {Brief(c, references, local) :
        c \in Contexts, references \in BoundedSeq(References, MaxReferences), local \in Locals}

-----------------------------------------------------------------------------
(* The machine: its cache, its certificates and its briefs *)

CacheIsNew == <<wall, commits, row>> = <<0, <<>>, None>> /\ \A p \in Procs : proc[p].pc = "idle"

MachineInit == Init /\ machine = EmptyMachine /\ brief \in {NotAsked} \cup Briefs

\* Bound: certificates, cache rows and briefs share no state here, so one
\* behaviour is about one of them.
Certifying == brief = NotAsked /\ CacheIsNew /\ UNCHANGED <<vars, brief>>
Caching == brief = NotAsked /\ machine = EmptyMachine /\ UNCHANGED <<machine, brief>>

MachineNext ==
    \/ Caching /\ Next
    \/ \E c \in Certificates : Certifying /\ (TakeSnapshot(c) \/ Install(c))
    \/ Certifying /\ InstallRow
    \/ \E r \in Repos : Certifying /\ Trust(r)

MachineSpec == MachineInit /\ [][MachineNext]_<<vars, machine, brief>>

-----------------------------------------------------------------------------
(* Properties *)

\* Whatever order snapshots, installs that die half way and readings come in,
\* the contexts of a URL that trust anything trust one certificate, and none
\* trusts it after a snapshot offered the repository another ("it never silently
\* repins", architecture.md; build_trust).
OneBinding ==
    \A t \in machine.trusted :
       /\ \A u \in machine.trusted : u.certificate = t.certificate
       /\ t.rivals = {}

\* A fact is trusted when the certificate is valid, both clocks run, and each of
\* its references, in any order, names the live version inside the window it
\* observed; and only then (the truth table of architecture.md).
TrustedIsResolved ==
    brief # NotAsked =>
       (brief.trust = "trusted" <=>
          \A i \in DOMAIN brief.references :
             /\ brief.context.valid /\ brief.context.revocation /\ brief.context.fact
             /\ brief.context.versions # {} /\ brief.references[i].known
             /\ brief.references[i].digest = Max(brief.context.versions)
             /\ brief.references[i].until > Now)

\* A reference of the class safety-critical, Company's or the maintainer's, that
\* does not resolve withholds the fact: it is excluded as an advisory one only
\* under a relaxation that has not expired ("expiry restores", verification.md).
ExcludedIsRelaxed ==
    brief # NotAsked /\ brief.trust = "excluded" =>
       /\ brief.local # "safety_critical"
       /\ \A i \in DOMAIN brief.references :
             \/ brief.references[i].digest = 0
             \/ Criticality[brief.references[i].digest] = "advisory"
             \/ \E x \in Range(brief.context.relaxations) :
                   x.until > Now /\ x.repository # "other"

SafetyFailsClosed == brief # NotAsked /\ Len(brief.references) = 1 => ExcludedIsRelaxed

\* A fact that is not trusted has an Unknown with an owner, unless Company could
\* not be asked ("withheld without accusation").
UntrustedIsOwned ==
    brief.trust \in {"withheld", "excluded"} =>
       brief.owners # {"none"} \/ brief.context.reachable = "no" \/ ~brief.context.present

\* The context of a process that shows what the cache row held, where changes
\* that govern everywhere are the versions of the fact
Shown(q) ==
    [valid |-> TRUE, revocation |-> q.trusted, fact |-> q.trusted, reachable |-> "unasked",
     present |-> q.seen # None, relaxations |-> <<>>, requested |-> FALSE,
     versions |-> IF q.seen = None THEN {}
                  ELSE {i \in q.seen.digest : commits[i].governs = Everywhere}]

\* However refreshes of several repositories overtake each other, a Codebase fact
\* is shown as trusted only while no version newer than the one it refers to was
\* committed before the revocation window (a brief that read one row).
ReliedIsCurrent ==
    \A p \in Procs : proc[p].pc = "shown" /\ ~proc[p].torn =>
       \A d \in DOMAIN commits :
          LET reference == [known |-> TRUE, digest |-> d, version |-> 0, until |-> MaxChanges + 1,
                            class |-> "safety_critical"]
          IN FactOf(Shown(proc[p]), <<reference>>, "", proc[p].at).trust = "trusted" =>
                \A i \in DOMAIN commits :
                   i > d /\ commits[i].governs = Everywhere =>
                      commits[i].at + RevocationFreshness > proc[p].at

\* What is shown as trusted is covered up to the window, rows and references alike.
ShownIsCurrent == ShownIsCovered /\ ReliedIsCurrent

\* A reference is trusted by the table, fails closed and leaves its owner asked.
TableIsFollowed == TrustedIsResolved /\ SafetyFailsClosed /\ UntrustedIsOwned

-----------------------------------------------------------------------------
(* What the documentation says and the code does not do *)

\* "Expired safety facts fail closed offline" (architecture.md): fails for a fact
\* whose safety-critical reference comes before an advisory one.
SafetyFailsClosedInAnyOrder == ExcludedIsRelaxed

\* "until the steward retires one" (cache.rs): fails, the claim a snapshot left
\* outlives the snapshots after it.
ClaimsFollowSnapshots ==
    \A c \in Certificates :
       LET later == Snapshot(Snapshot(machine, c), c).bound[CertifiedFor[c]]
       IN later.claim \in {0, c}
=============================================================================
