----------------------------- MODULE MergeGate -----------------------------
(***************************************************************************)
(* One run of the CI workflow (.github/workflows/ci.yml): discovery, the   *)
(* fan-out over the registered entries, the aggregate verdicts over the    *)
(* result artifacts, the supply-chain authority, the path-scoped           *)
(* qualifications and the Merge Gate.                                      *)
(*                                                                         *)
(* A job runs when the jobs it needs have ended, and any job may fail for  *)
(* reasons of its own; each such fault takes FaultCost of "left".  A matrix *)
(* job is one step that chooses what becomes of every shard: shards read   *)
(* nothing of each other, and nobody reads a shard before all have ended.  *)
(***************************************************************************)
EXTENDS EvidenceContract

CONSTANTS
    NoCheckout,     \* no CI run
    FaultCost       \* what a fault takes from the budget "left"

VARIABLES
    checkout,   \* what the run checked out: tree, history, objects, base
    event,      \* what triggered the run
    draft,      \* the pull request is a draft
    changed,    \* the kinds of path the pull request changes
    outputs,    \* what discovery handed to the other jobs
    job,        \* the result of each job
    artifacts,  \* the uploaded shard results
    passed,     \* the contracts and scans that ran and exited with 0
    left        \* how many more things may go wrong or change

ciVars == <<checkout, event, draft, changed, outputs, job, artifacts, passed>>

-----------------------------------------------------------------------------

Stages == {"ci", "msrv"}
Shards == [ci |-> "ci-shard", msrv |-> "msrv-shard"]
Aggregates == [ci |-> "workloads-ci", msrv |-> "workloads-msrv"]

AlwaysRequired == {"discover", "ci-shard", "msrv-shard",
                   "workloads-ci", "workloads-msrv", "supply-chain"}
Jobs == AlwaysRequired \cup Scopes \cup {"dependency-review", "merge-gate"}
Results == {"waiting", "success", "failure", "skipped"}

NoOutputs == [entries |-> {}, declared |-> {}, real |-> {}, scopes |-> {}]

NoRunYet ==
    /\ checkout = NoCheckout /\ event = "none" /\ draft = FALSE /\ changed = {}
    /\ outputs = NoOutputs /\ job = [j \in Jobs |-> "waiting"]
    /\ artifacts = {} /\ passed = {}

\* A trigger: a new run takes the place of the one in progress.
Begin(c, e, d, paths) ==
    /\ checkout' = c /\ event' = e /\ draft' = d /\ changed' = paths
    /\ outputs' = NoOutputs /\ job' = [j \in Jobs |-> "waiting"]
    /\ artifacts' = {} /\ passed' = {}

EndRun == Begin(NoCheckout, "none", FALSE, {})

Deferred == event = "pull_request" /\ draft
Waiting(j) == checkout # NoCheckout /\ job[j] = "waiting"
Ended(j) == job[j] # "waiting"

\* What happens and what goes wrong share one budget.
Costs(n) == left >= n /\ left' = left - n
Faults(n) == Costs(FaultCost * n)
Ends(j, ok) == job' = [job EXCEPT ![j] = IF ok THEN "success" ELSE "failure"]
Skips(j) == job' = [job EXCEPT ![j] = "skipped"]
Run == UNCHANGED <<checkout, event, draft, changed>>

-----------------------------------------------------------------------------
\* Discovery.

\* Without a base and a head to compare, every scope is enabled.
EnabledScopes(classified) ==
    IF event # "pull_request" THEN {}
    ELSE IF classified THEN ScopesOf(changed) ELSE Scopes

Projections(t, scopes) ==
    [entries |-> AllEntries(t), declared |-> DeclaredEntries(t),
     real |-> RealWorkloads(t), scopes |-> scopes]

\* On a draft only the matrices are computed; they need a valid registry.
RepositoryAccepted ==
    /\ Registered(checkout.tree)
    /\ Deferred \/ /\ Provenance(checkout.tree)
                   /\ Evidence(checkout)
                   /\ ReleasePolicy(checkout.tree)

Discover ==
    /\ Waiting("discover")
    /\ \E ok \in BOOLEAN, classified \in BOOLEAN :
         /\ Faults((IF ok THEN 0 ELSE 1) + (IF classified THEN 0 ELSE 1))
         /\ Ends("discover", ok /\ RepositoryAccepted)
         /\ outputs' = IF ok /\ RepositoryAccepted
                       THEN Projections(checkout.tree, EnabledScopes(classified))
                       ELSE NoOutputs
    /\ UNCHANGED <<artifacts, passed>> /\ Run

-----------------------------------------------------------------------------
\* The fan-out.

\* What becomes of a shard:
\*   passed     the contract exits with 0 and the result is uploaded
\*   failed     the contract exits with another code, recorded and uploaded
\*   no result  a step before the contract fails: there is no exit code, and
\*              write-shard-result.py refuses to record one
\*   no upload  the contract exits with 0, its result is lost
\*   broken     the contract exits with 0 and is recorded; a later step fails
Outcomes == {"passed", "failed", "no result", "no upload", "broken"}

Matrix(stage) == IF stage = "ci" THEN outputs.entries ELSE outputs.declared

\* write-shard-result.py: an exit code is always a validation.
Recorded(stage, name, outcome) ==
    [workload |-> name, stage |-> stage, source |-> "shard", outcome |-> "validated",
     status |-> IF outcome = "failed" THEN "failure" ELSE "success"]

ShardSucceeds(outcome) == outcome = "passed"

RunShards(stage) ==
    LET names == {e.name : e \in Matrix(stage)}
        j     == Shards[stage]
    IN  /\ Waiting(j) /\ Ended("discover")
        /\ IF Deferred \/ job["discover"] # "success"
           THEN Skips(j) /\ UNCHANGED <<artifacts, passed, left>>
           ELSE \E result \in [names -> Outcomes] :
                  /\ Faults(Cardinality({n \in names : result[n] # "passed"}))
                  /\ Ends(j, names # {} /\ \A n \in names : ShardSucceeds(result[n]))
                  /\ passed' = passed \cup
                       {<<stage, n>> : n \in {x \in names :
                           result[x] \in {"passed", "no upload", "broken"}}}
                  /\ artifacts' = artifacts \cup
                       {Recorded(stage, n, result[n]) : n \in {x \in names :
                           result[x] \in {"passed", "failed", "broken"}}}
        /\ UNCHANGED outputs /\ Run

-----------------------------------------------------------------------------
\* The aggregates: aggregate_verdict.py over the downloaded results.

\* Mutant: an entry without an MSRV needs an MSRV run.
AlwaysValidated(stage, e) == "validated"

RequiredOutcome(stage, e) ==
    IF stage = "msrv" /\ e.msrv # "declared" THEN "not-applicable" ELSE "validated"

Verdict(stage, expected, results, discovered, upstream) ==
    /\ discovered
    /\ expected # {}
    /\ \A r \in results : r.status # "unreadable"
    /\ \A r \in results : \A s \in results : r.workload = s.workload => r = s
    /\ \A r \in results : \E e \in expected : e.name = r.workload
    /\ \A e \in expected : \E r \in results :
         /\ r.workload = e.name
         /\ r.status = "success"
         /\ r.outcome = RequiredOutcome(stage, e)
    /\ upstream

\* synthesize-msrv-not-applicable.py: every undeclared entry gets an explicit
\* result; a result that is there already, or one it cannot read, stops it.
Disposition(e) ==
    [workload |-> e.name, stage |-> "msrv", source |-> "synthetic",
     status |-> "success", outcome |-> "not-applicable"]

Undeclared(expected) == {e \in expected : e.msrv # "declared"}

MaySynthesize(expected, results) ==
    /\ expected # {}
    /\ \A r \in results : r.status # "unreadable"
    /\ \A e \in Undeclared(expected) : \A r \in results : r.workload # e.name

\* A download brings the results of the stage, or fails, or garbles one.
Downloads(stage) ==
    LET all == {r \in artifacts : r.stage = stage}
    IN  {all} \cup (IF left < FaultCost THEN {} ELSE
           {{}} \cup {(all \ {r}) \cup {[r EXCEPT !.status = "unreadable"]} : r \in all})

\* A failed download, or a refused synthesis, fails the job by itself; the
\* verdict is computed all the same.
Aggregate(stage) ==
    LET j   == Aggregates[stage]
        all == {r \in artifacts : r.stage = stage}
    IN  /\ Waiting(j) /\ Ended("discover") /\ Ended(Shards[stage])
        /\ IF Deferred THEN Ends(j, TRUE) /\ UNCHANGED left
           ELSE IF job["discover"] # "success" THEN Ends(j, FALSE) /\ UNCHANGED left
           ELSE \E got \in Downloads(stage) :
                  LET synthesized == stage = "msrv" /\ MaySynthesize(outputs.entries, got)
                      results == IF synthesized
                                 THEN got \cup {Disposition(e) : e \in Undeclared(outputs.entries)}
                                 ELSE got
                  IN  /\ Faults(IF got = all THEN 0 ELSE 1)
                      /\ Ends(j, /\ stage = "msrv" => synthesized
                                 /\ Verdict(stage, outputs.entries, results, TRUE,
                                            job[Shards[stage]] = "success"))
        /\ UNCHANGED <<outputs, artifacts, passed>> /\ Run

-----------------------------------------------------------------------------
\* The jobs that only the gate reads: the supply-chain authority
\* (run-supply-chain-authority.py), the dependency review and the scoped
\* workflows.  They read nothing but discovery's outputs, so they take one step.

GateOnly == Scopes \cup {"supply-chain", "dependency-review"}
Result(ok) == IF ok THEN "success" ELSE "failure"

Scanned == {e \in outputs.real : Scannable(checkout.tree, checkout.tree.projects[e.path])}

\* cargo-deny or the hook finds something against the workloads in unsafe.
SupplyChain(unsafe) ==
    IF Deferred \/ job["discover"] # "success" THEN "skipped"
    ELSE Result(/\ {e.name : e \in outputs.real} = {e.name : e \in RealWorkloads(checkout.tree)}
                /\ outputs.real # {}
                /\ \A e \in outputs.real :
                     ScanPasses(checkout.tree, checkout.tree.projects[e.path],
                                e.name \notin unsafe, e.name \notin unsafe))

DependencyReview(bad) ==
    IF event # "pull_request" THEN "skipped"
    ELSE Result("dependency-review" \notin bad)

Qualify(s, bad) ==
    IF job["discover"] # "success" \/ s \notin outputs.scopes THEN "skipped"
    ELSE Result(s \notin bad)

SideJobs ==
    /\ \A j \in GateOnly : Waiting(j)
    /\ Ended("discover")
    /\ \E unsafe \in SUBSET {e.name : e \in outputs.real},
          bad \in SUBSET (outputs.scopes \cup {"dependency-review"}) :
         /\ (Deferred \/ event # "pull_request") => "dependency-review" \notin bad
         /\ Faults(Cardinality(unsafe) + Cardinality(bad))
         /\ job' = [j \in Jobs |-> CASE j = "supply-chain" -> SupplyChain(unsafe)
                                    [] j = "dependency-review" -> DependencyReview(bad)
                                    [] j \in Scopes -> Qualify(j, bad)
                                    [] OTHER -> job[j]]
         /\ passed' = IF SupplyChain(unsafe) = "skipped" THEN passed
                      ELSE passed \cup {<<"supply-chain", e.name>> :
                                          e \in {x \in Scanned : x.name \notin unsafe}}
    /\ UNCHANGED <<outputs, artifacts>> /\ Run

-----------------------------------------------------------------------------
\* The gate.

GateAccepts ==
    /\ ~Deferred
    /\ \A j \in AlwaysRequired : job[j] = "success"
    /\ \A s \in Scopes :
         job[s] = IF s \in outputs.scopes THEN "success" ELSE "skipped"
    /\ job["dependency-review"] = IF event = "pull_request" THEN "success" ELSE "skipped"

Gate ==
    /\ Waiting("merge-gate")
    /\ \A j \in Jobs \ {"merge-gate"} : Ended(j)
    /\ Ends("merge-gate", GateAccepts)
    /\ UNCHANGED <<outputs, artifacts, passed, left>> /\ Run

CIStep ==
    \/ Discover
    \/ \E s \in Stages : RunShards(s)
    \/ \E s \in Stages : Aggregate(s)
    \/ SideJobs
    \/ Gate

-----------------------------------------------------------------------------

\* GateSound: a green Merge Gate means that every top-level Cargo project that
\* is not reserved ran its own CI contract, its MSRV contract too if its
\* manifest declares a rust-version, that every workload was scanned, and that
\* a ready pull request had its dependencies and every touched scope qualified
\* -- read off the tree, whatever discovery, shards and artifacts made of it.
Exercised(t) ==
    \A d \in CargoDirs(t) \ t.reserved :
      \E e \in Entries(t) :
        /\ e.path = d
        /\ <<"ci", e.name>> \in passed
        /\ t.projects[d].rust # "absent" => <<"msrv", e.name>> \in passed

GateSound ==
    job["merge-gate"] = "success" =>
      /\ Exercised(checkout.tree)
      /\ \A e \in Workloads(checkout.tree) : <<"supply-chain", e.name>> \in passed
      /\ event = "pull_request" =>
           /\ ~draft
           /\ job["dependency-review"] = "success"
           /\ \A s \in ScopesOf(changed) : job[s] = "success"
=============================================================================
