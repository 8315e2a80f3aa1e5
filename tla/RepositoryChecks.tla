-------------------------- MODULE RepositoryChecks --------------------------
(***************************************************************************)
(* What the pull-request CI demands of the content of the repository: the  *)
(* workload registry and the matrices derived from it, the provenance of   *)
(* every OxideBatch crate a workload consumes, the supply-chain scan of a  *)
(* workload, the qualification scopes of a change, and the rules for       *)
(* release workflows.  Every operator reads a tree t, a commit's content:  *)
(*   projects   the top-level directories (hidden ones are never looked    *)
(*              at) with what the checks read in them;                     *)
(*   workloads, fixtures, reserved   the arrays of workloads.json;         *)
(*   sourced    the root .cargo config replaces a source;                  *)
(*   deny       deny.toml exists;                                          *)
(*   drifted    the release files that lost a pinned setting;              *)
(*   publisher, workflows   what the release policy names, and the         *)
(*              workflows, each a sequence of jobs.                        *)
(***************************************************************************)
EXTENDS Naturals, Sequences, FiniteSets

CONSTANT ExactVersions   \* the version requirements of the form =x.y.z

-----------------------------------------------------------------------------
\* The registry: validate-workload-registry.py.

RangeOf(s) == {s[i] : i \in DOMAIN s}
Workloads(t) == RangeOf(t.workloads)
Fixtures(t) == RangeOf(t.fixtures)
Listed(t) == t.workloads \o t.fixtures
Entries(t) == RangeOf(Listed(t))

CargoDirs(t) == {d \in DOMAIN t.projects : t.projects[d].manifest}

\* The registry says whether there is an MSRV, Cargo.toml which it is.
MsrvAgrees(p, e) ==
    \/ e.msrv = "declared" /\ p.rust = "version"
    \/ e.msrv = "undeclared" /\ p.rust = "absent"

EntryAccepted(t, e) ==
    /\ e.path \in CargoDirs(t)
    /\ t.projects[e.path].contract = "executable"
    /\ MsrvAgrees(t.projects[e.path], e)

NamesAndPathsUnique(t) ==
    \A i \in DOMAIN Listed(t) : \A j \in DOMAIN Listed(t) :
        i # j => /\ Listed(t)[i].name # Listed(t)[j].name
                 /\ Listed(t)[i].path # Listed(t)[j].path

ReservedAccepted(t) ==
    /\ t.reserved \subseteq CargoDirs(t)
    /\ \A e \in Entries(t) : e.path \notin t.reserved

Registered(t) ==
    /\ t.workloads # <<>>
    /\ NamesAndPathsUnique(t)
    /\ \A e \in Entries(t) : EntryAccepted(t, e)
    /\ ReservedAccepted(t)
    /\ CargoDirs(t) = {e.path : e \in Entries(t)} \cup t.reserved

\* The three projections: discover-workloads.py, discover-msrv-workloads.py
\* and discover-supply-chain-workloads.py.

\* Mutant: fixtures are not fanned out.
AllEntriesOfWorkloads(t) == Workloads(t)

AllEntries(t) == Entries(t)
DeclaredEntries(t) == {e \in Entries(t) : e.msrv = "declared"}
RealWorkloads(t) == Workloads(t)

-----------------------------------------------------------------------------
\* Provenance: validate-oxidebatch-provenance.py.  A project's "first" are the
\* first-party dependencies its manifest names, in any table and target; its
\* "lock" are the first-party packages Cargo.lock resolves to.

ManifestAccepted(p) ==
    /\ ~p.overridden                    \* by [patch] or [replace]
    /\ \A d \in p.first : ~d.located /\ d.version \in ExactVersions
    /\ \A d \in p.first : \A e \in p.first : d.package = e.package => d.version = e.version
    /\ p.first # {}

Resolutions(p, d) == {l \in p.lock : l.package = d.package /\ l.version = d.version}

LockfileAccepted(p) ==
    /\ p.lockfile
    /\ \A d \in p.first :
         /\ Cardinality(Resolutions(p, d)) = 1
         /\ \A l \in Resolutions(p, d) : l.published   \* crates.io, with a checksum

\* A fixture may not have first-party packages, not even through another
\* crate or an inherited workspace dependency: the lockfile decides.
FixtureAccepted(p) ==
    /\ p.first = {}
    /\ p.lockfile
    /\ p.lock = {}

Provenance(t) ==
    /\ ~t.sourced
    /\ \A e \in Workloads(t) :
         LET p == t.projects[e.path]
         IN  ~p.sourced /\ ManifestAccepted(p) /\ LockfileAccepted(p)
    /\ \A e \in Fixtures(t) : FixtureAccepted(t.projects[e.path])

-----------------------------------------------------------------------------
\* The supply-chain scan: validate-supply-chain.py.

HookAccepted(p) ==
    /\ p.hook \in {"none", "executable"}    \* no symlink, plain file or directory
    /\ p.maven => p.hook # "none"

Scannable(t, p) == p.lockfile /\ HookAccepted(p) /\ t.deny

\* The exit code is cargo-deny's, and then the hook's.
ScanPasses(t, p, deny, hook) ==
    Scannable(t, p) /\ deny /\ (p.hook # "none" => hook)

-----------------------------------------------------------------------------
\* The qualification scopes of the kinds of path a change touches:
\* detect-pr-qualification-scope.py.

Scopes == {"jberet_clean", "jberet_crash", "pr4_semantic", "governance"}

ScopeRules ==
    { <<"benchmark java", {"jberet_clean", "pr4_semantic"}>>,
      <<"jberet sources or pom", {"jberet_clean", "jberet_crash", "pr4_semantic"}>>,
      <<"crash validators in java/ci", {"jberet_clean", "jberet_crash", "pr4_semantic"}>>,
      <<"clean or supply-chain validator", {"jberet_clean", "pr4_semantic"}>>,
      <<"crash-recovery validator", {"jberet_crash", "pr4_semantic"}>>,
      <<"workload sources", {"jberet_crash", "pr4_semantic"}>>,
      <<"other workload files", {"pr4_semantic"}>>,
      <<"jberet-clean.yml", {"jberet_clean", "governance"}>>,
      <<"jberet-crash.yml", {"jberet_crash", "governance"}>>,
      <<"pr4 workflow", {"pr4_semantic", "governance"}>>,
      <<"other workflow", {"governance"}>>,
      <<"policy file or script", {"governance"}>>,
      <<"elsewhere", {}>> }

ScopesOf(paths) == UNION {r[2] : r \in {x \in ScopeRules : x[1] \in paths}}

-----------------------------------------------------------------------------
\* The release rules: verify_release_codeql_policy.py.  A job "mutates" when
\* its text matches one of the recognised publication commands.

IsPublisher(w) == \E i \in DOMAIN w : w[i].mutates

\* Exactly one codeql-preflight job, which runs the gate and publishes
\* nothing; every publication job comes after it and needs it.
PublisherAccepted(w) ==
    \E k \in DOMAIN w :
      /\ w[k].name = "codeql-preflight" /\ w[k].runs /\ ~w[k].mutates
      /\ \A j \in DOMAIN w : w[j].name = "codeql-preflight" => j = k
      /\ \A i \in DOMAIN w :
           w[i].mutates => i > k /\ "codeql-preflight" \in w[i].needs

Publishers(t) == {n \in DOMAIN t.workflows : IsPublisher(t.workflows[n])}

\* The policy file, the scanner, the preflight workflow and this CI keep every
\* setting they are pinned to, and the only publisher is the configured one.
ReleasePolicy(t) ==
    /\ t.drifted = {}
    /\ IF Publishers(t) = {} THEN t.publisher = "not-implemented"
       ELSE /\ Publishers(t) = {t.publisher}
            /\ PublisherAccepted(t.workflows[t.publisher])
=============================================================================
