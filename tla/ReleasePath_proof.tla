------------------------- MODULE ReleasePath_proof -------------------------
(***************************************************************************)
(* The theorems of ReleasePath: what a green Merge Gate means, that main   *)
(* stays sound, what a passed preflight says about its commit, and that    *)
(* evidence on main stays valid, for every tree, edit, budget, scan and    *)
(* order of jobs.                                                          *)
(***************************************************************************)
EXTENDS ReleasePath, SequenceTheorems, FiniteSetTheorems, WellFoundedInduction, TLAPS

-----------------------------------------------------------------------------
(* The gate.                                                               *)

\* What discovery knows when it has succeeded.
DiscoveryHolds ==
    /\ RepositoryAccepted
    /\ outputs.entries = AllEntries(checkout.tree)
    /\ outputs.declared = DeclaredEntries(checkout.tree)
    /\ outputs.real = RealWorkloads(checkout.tree)
    /\ event = "pull_request" => ScopesOf(changed) \subseteq outputs.scopes

ShardsRan(s) == \A e \in Matrix(s) : <<s, e.name>> \in passed

AllScanned == \A e \in Workloads(checkout.tree) : <<"supply-chain", e.name>> \in passed

\* The inductive invariant of a run of CI.
GateInv ==
    /\ job \in [Jobs -> Results]
    /\ \A s \in Stages : Ended(Shards[s]) => Ended("discover")
    /\ job["discover"] = "success" => DiscoveryHolds
    /\ \A s \in Stages : job[Shards[s]] = "success" => ShardsRan(s)
    /\ job["supply-chain"] = "success" => AllScanned
    /\ job["merge-gate"] = "success" => GateAccepts

\* Every scope a change touches is one of the four.
LEMMA ScopesAreKnown == ASSUME NEW paths PROVE ScopesOf(paths) \subseteq Scopes
<1> DEFINE Known(p) == p[2] \subseteq Scopes
<1>1. \A a, s : s \subseteq Scopes => Known(<<a, s>>)
  OBVIOUS
<1>2. /\ {"jberet_clean", "pr4_semantic"} \subseteq Scopes
      /\ {"jberet_clean", "jberet_crash", "pr4_semantic"} \subseteq Scopes
      /\ {"jberet_crash", "pr4_semantic"} \subseteq Scopes
      /\ {"pr4_semantic"} \subseteq Scopes
      /\ {"jberet_clean", "governance"} \subseteq Scopes
      /\ {"jberet_crash", "governance"} \subseteq Scopes
      /\ {"pr4_semantic", "governance"} \subseteq Scopes
      /\ {"governance"} \subseteq Scopes
      /\ {} \subseteq Scopes
  BY DEF Scopes
<1> HIDE DEF Known
<1>3. \A p \in ScopeRules : Known(p)
  BY <1>1, <1>2, Zenon DEF ScopeRules
<1> QED BY <1>3 DEF ScopesOf, Known

\* A new run knows nothing yet.
LEMMA BeginHolds ==
  ASSUME NEW c, NEW e, NEW d, NEW paths, Begin(c, e, d, paths)
  PROVE  GateInv'
<1>1. job' \in [Jobs -> Results] /\ \A j \in Jobs : job'[j] = "waiting"
  BY DEF Begin, Results
<1>2. {"discover", "ci-shard", "msrv-shard", "supply-chain", "merge-gate"} \subseteq Jobs
  BY DEF Jobs, AlwaysRequired
<1>3. \A s \in Stages : Shards[s] \in {"ci-shard", "msrv-shard"}
  BY DEF Stages, Shards
<1> QED BY <1>1, <1>2, <1>3 DEF GateInv, Ended

LEMMA InitHolds == NoRunYet => GateInv
<1> SUFFICES ASSUME NoRunYet PROVE GateInv OBVIOUS
<1>1. job \in [Jobs -> Results] /\ \A j \in Jobs : job[j] = "waiting"
  BY DEF NoRunYet, Results
<1>2. {"discover", "ci-shard", "msrv-shard", "supply-chain", "merge-gate"} \subseteq Jobs
  BY DEF Jobs, AlwaysRequired
<1>3. \A s \in Stages : Shards[s] \in {"ci-shard", "msrv-shard"}
  BY DEF Stages, Shards
<1> QED BY <1>1, <1>2, <1>3 DEF GateInv, Ended

\* Once the gate is green every job has ended, and no step of CI is left.
LEMMA GreenIsFinal ==
  ASSUME GateInv, job["merge-gate"] = "success", NEW j \in Jobs
  PROVE  ~Waiting(j)
<1>1. GateAccepts BY DEF GateInv
<1>2. CASE j \in AlwaysRequired
  BY <1>1, <1>2 DEF GateAccepts, Waiting
<1>3. CASE j \in Scopes
  BY <1>1, <1>3 DEF GateAccepts, Waiting
<1>4. CASE j = "dependency-review"
  BY <1>1, <1>4 DEF GateAccepts, Waiting
<1>5. CASE j = "merge-gate"
  BY <1>5 DEF Waiting
<1> QED BY <1>2, <1>3, <1>4, <1>5 DEF Jobs

LEMMA DiscoverHolds == ASSUME GateInv, Discover PROVE GateInv'
<1> DEFINE accepted(ok) == ok /\ RepositoryAccepted
<1>1. PICK ok \in BOOLEAN, classified \in BOOLEAN :
        /\ Ends("discover", accepted(ok))
        /\ outputs' = IF accepted(ok)
                      THEN Projections(checkout.tree, EnabledScopes(classified))
                      ELSE NoOutputs
  BY DEF Discover
<1>2. Waiting("discover") /\ UNCHANGED <<artifacts, passed>> /\ Run
  BY DEF Discover
<1>3. /\ "discover" \in Jobs /\ "supply-chain" \in Jobs /\ "merge-gate" \in Jobs
      /\ \A s \in Stages : Shards[s] \in Jobs /\ Shards[s] # "discover"
  BY DEF Jobs, AlwaysRequired, Stages, Shards
<1>4. /\ job' \in [Jobs -> Results]
      /\ job'["discover"] = IF accepted(ok) THEN "success" ELSE "failure"
      /\ \A j \in Jobs : j # "discover" => job'[j] = job[j]
  BY <1>1, <1>3 DEF Ends, GateInv, Results
<1>5. \A s \in Stages : job'[Shards[s]] = "waiting"
  BY <1>2, <1>3, <1>4 DEF GateInv, Ended, Waiting
<1>6. job'["merge-gate"] # "success"
  BY <1>2, <1>3, <1>4, GreenIsFinal
<1>7. AllScanned' <=> AllScanned
  BY <1>2 DEF AllScanned, Run
<1>8. RepositoryAccepted' <=> RepositoryAccepted
  BY <1>2 DEF RepositoryAccepted, Run, Deferred
<1>9. accepted(ok) => DiscoveryHolds'
  <2> SUFFICES ASSUME accepted(ok) PROVE DiscoveryHolds' OBVIOUS
  <2>1. outputs' = Projections(checkout.tree, EnabledScopes(classified))
    BY <1>1
  <2>2. event = "pull_request" => ScopesOf(changed) \subseteq EnabledScopes(classified)
    BY ScopesAreKnown DEF EnabledScopes
  <2>3. checkout' = checkout /\ event' = event /\ changed' = changed
    BY <1>2 DEF Run
  <2> QED BY <2>1, <2>2, <2>3, <1>8 DEF DiscoveryHolds, Projections
<1> QED
  BY <1>3, <1>4, <1>5, <1>6, <1>7, <1>9 DEF GateInv, Ended

LEMMA ShardsHold ==
  ASSUME GateInv, NEW stage \in Stages, RunShards(stage) PROVE GateInv'
<1> DEFINE j == Shards[stage]
           names == {e.name : e \in Matrix(stage)}
<1>1. /\ Waiting(j) /\ Ended("discover") /\ UNCHANGED outputs /\ Run
  BY DEF RunShards
<1>2. /\ j \in {"ci-shard", "msrv-shard"} /\ {"ci-shard", "msrv-shard"} \subseteq Jobs
      /\ "discover" \in Jobs /\ "supply-chain" \in Jobs /\ "merge-gate" \in Jobs
      /\ \A s \in Stages : Shards[s] \in Jobs /\ (s # stage => Shards[s] # j)
  BY DEF Jobs, AlwaysRequired, Stages, Shards
<1>3. /\ job' \in [Jobs -> Results] /\ job'[j] # "waiting"
      /\ \A k \in Jobs : k # j => job'[k] = job[k]
      /\ passed \subseteq passed'
      /\ job'[j] = "success" => \A n \in names : <<stage, n>> \in passed'
  <2>1. CASE Deferred \/ job["discover"] # "success"
    <3>1. Skips(j) /\ UNCHANGED passed
      BY <2>1 DEF RunShards
    <3> QED BY <1>2, <3>1 DEF Skips, GateInv, Results
  <2>2. CASE ~(Deferred \/ job["discover"] # "success")
    <3>1. PICK result \in [names -> Outcomes] :
            /\ Ends(j, names # {} /\ \A n \in names : ShardSucceeds(result[n]))
            /\ passed' = passed \cup
                 {<<stage, n>> : n \in {x \in names :
                     result[x] \in {"passed", "no upload", "broken"}}}
      BY <2>2 DEF RunShards
    <3>2. job' = [job EXCEPT ![j] = IF names # {} /\ \A n \in names : ShardSucceeds(result[n])
                                    THEN "success" ELSE "failure"]
      BY <3>1 DEF Ends
    <3>3. job'[j] = "success" => \A n \in names : result[n] = "passed"
      BY <1>2, <3>2 DEF GateInv, ShardSucceeds
    <3> QED BY <1>2, <3>1, <3>2, <3>3 DEF GateInv, Results
  <2> QED BY <2>1, <2>2
<1>4. Matrix(stage)' = Matrix(stage) /\ \A s \in Stages : Matrix(s)' = Matrix(s)
  BY <1>1 DEF Matrix
<1>5. \A s \in Stages : job'[Shards[s]] = "success" => ShardsRan(s)'
  <2> SUFFICES ASSUME NEW s \in Stages, job'[Shards[s]] = "success" PROVE ShardsRan(s)'
    OBVIOUS
  <2>1. CASE s = stage
    BY <1>3, <1>4, <2>1 DEF ShardsRan
  <2>2. CASE s # stage
    <3>1. ShardsRan(s)
      BY <1>2, <1>3, <2>2 DEF GateInv
    <3> QED BY <1>3, <1>4, <3>1 DEF ShardsRan
  <2> QED BY <2>1, <2>2
<1>6. job'["merge-gate"] # "success"
  BY <1>1, <1>2, <1>3, GreenIsFinal
<1>7. job["discover"] = "success" => DiscoveryHolds'
  BY <1>1 DEF GateInv, DiscoveryHolds, RepositoryAccepted, Deferred, Run
<1>8. job["supply-chain"] = "success" => AllScanned'
  BY <1>1, <1>3 DEF GateInv, AllScanned, Run
<1>9. \A s \in Stages : Ended(Shards[s])' => Ended("discover")'
  BY <1>1, <1>2, <1>3 DEF Ended
<1> QED
  BY <1>2, <1>3, <1>5, <1>6, <1>7, <1>8, <1>9 DEF GateInv

LEMMA AggregateHolds ==
  ASSUME GateInv, NEW stage \in Stages, Aggregate(stage) PROVE GateInv'
<1> DEFINE j == Aggregates[stage]
<1>1. /\ Waiting(j) /\ UNCHANGED <<outputs, passed>> /\ Run
      /\ \E ok \in BOOLEAN : Ends(j, ok)
  <2>1. \E ok : Ends(j, ok)
    BY Zenon DEF Aggregate
  <2> QED BY <2>1, Zenon DEF Aggregate, Ends
<1>2. /\ j \in Jobs /\ j # "discover" /\ j # "supply-chain" /\ j # "merge-gate"
      /\ "discover" \in Jobs /\ "supply-chain" \in Jobs /\ "merge-gate" \in Jobs
      /\ \A s \in Stages : Shards[s] \in Jobs /\ Shards[s] # j
  BY DEF Jobs, AlwaysRequired, Stages, Shards, Aggregates
<1>3. /\ job' \in [Jobs -> Results]
      /\ \A k \in Jobs : k # j => job'[k] = job[k]
  BY <1>1, <1>2 DEF Ends, GateInv, Results
<1>4. job'["merge-gate"] # "success"
  BY <1>1, <1>2, <1>3, GreenIsFinal
<1>5. /\ job["discover"] = "success" => DiscoveryHolds'
      /\ job["supply-chain"] = "success" => AllScanned'
  BY <1>1 DEF GateInv, DiscoveryHolds, RepositoryAccepted, Deferred, AllScanned, Run
<1>6. \A s \in Stages : job[Shards[s]] = "success" => ShardsRan(s)'
  BY <1>1 DEF GateInv, ShardsRan, Matrix
<1>7. \A s \in Stages : Ended(Shards[s])' => Ended("discover")'
  BY <1>2, <1>3 DEF GateInv, Ended
<1> QED
  BY <1>2, <1>3, <1>4, <1>5, <1>6, <1>7 DEF GateInv

\* The authority passes only if it has scanned every workload of the tree.
LEMMA ScannedAll ==
  ASSUME NEW unsafe, SupplyChain(unsafe) = "success",
         NEW e \in Workloads(checkout.tree)
  PROVE  <<"supply-chain", e.name>> \in
           {<<"supply-chain", x.name>> : x \in {y \in Scanned : y.name \notin unsafe}}
<1>1. /\ {x.name : x \in outputs.real} = {x.name : x \in RealWorkloads(checkout.tree)}
      /\ \A x \in outputs.real :
           ScanPasses(checkout.tree, checkout.tree.projects[x.path],
                      x.name \notin unsafe, x.name \notin unsafe)
  BY DEF SupplyChain, Result
<1>2. PICK x \in outputs.real : x.name = e.name
  BY <1>1 DEF RealWorkloads
<1>3. x \in Scanned /\ x.name \notin unsafe
  BY <1>1, <1>2 DEF ScanPasses, Scanned
<1> QED BY <1>2, <1>3

LEMMA SideJobsHold == ASSUME GateInv, SideJobs PROVE GateInv'
<1>1. PICK unsafe, bad :
        /\ job' = [j \in Jobs |-> CASE j = "supply-chain" -> SupplyChain(unsafe)
                                   [] j = "dependency-review" -> DependencyReview(bad)
                                   [] j \in Scopes -> Qualify(j, bad)
                                   [] OTHER -> job[j]]
        /\ passed' = IF SupplyChain(unsafe) = "skipped" THEN passed
                     ELSE passed \cup {<<"supply-chain", e.name>> :
                                         e \in {x \in Scanned : x.name \notin unsafe}}
  BY Zenon DEF SideJobs
<1>2. /\ \A j \in GateOnly : Waiting(j)
      /\ UNCHANGED outputs /\ Run
  BY DEF SideJobs
<1>3. /\ "discover" \in Jobs /\ "supply-chain" \in Jobs /\ "merge-gate" \in Jobs
      /\ {"discover", "merge-gate"} \cap (GateOnly \cup Scopes) = {}
      /\ \A s \in Stages : Shards[s] \in Jobs \ (GateOnly \cup Scopes)
      /\ {"supply-chain", "dependency-review"} \subseteq GateOnly
  BY DEF Jobs, AlwaysRequired, Stages, Shards, GateOnly, Scopes
<1>4. /\ \A j \in Jobs \ (GateOnly \cup Scopes) : job'[j] = job[j]
      /\ job'["supply-chain"] = SupplyChain(unsafe)
  <2>1. job'["supply-chain"] = SupplyChain(unsafe)
    <3> DEFINE verdict == [j \in Jobs |-> CASE j = "supply-chain" -> SupplyChain(unsafe)
                                  [] j = "dependency-review" -> DependencyReview(bad)
                                  [] j \in Scopes -> Qualify(j, bad)
                                  [] OTHER -> job[j]]
    <3>1. verdict["supply-chain"] = SupplyChain(unsafe)
      BY <1>3 DEF Scopes
    <3> QED BY <1>1, <3>1
  <2>2. ASSUME NEW j \in Jobs \ (GateOnly \cup Scopes) PROVE job'[j] = job[j]
    <3>1. j # "supply-chain" /\ j # "dependency-review" /\ j \notin Scopes
      BY <1>3
    <3> QED BY <1>1, <3>1
  <2> QED BY <2>1, <2>2
<1>5. job' \in [Jobs -> Results]
  <2>1. /\ SupplyChain(unsafe) \in Results
        /\ DependencyReview(bad) \in Results
        /\ \A s : Qualify(s, bad) \in Results
    BY DEF SupplyChain, DependencyReview, Qualify, Result, Results
  <2>2. \A j \in Jobs : job[j] \in Results
    BY DEF GateInv
  <2> QED BY <1>1, <2>1, <2>2
<1>6. passed \subseteq passed'
  BY <1>1
<1>7. job'["merge-gate"] # "success"
  BY <1>2, <1>3, <1>4, GreenIsFinal
<1>8. job["discover"] = "success" => DiscoveryHolds'
  BY <1>2 DEF GateInv, DiscoveryHolds, RepositoryAccepted, Deferred, Run
<1>9. \A s \in Stages : job[Shards[s]] = "success" => ShardsRan(s)'
  BY <1>2, <1>6 DEF GateInv, ShardsRan, Matrix
<1>10. job'["supply-chain"] = "success" => AllScanned'
  <2> SUFFICES ASSUME SupplyChain(unsafe) = "success", NEW e \in Workloads(checkout.tree)
               PROVE  <<"supply-chain", e.name>> \in passed'
    BY <1>2, <1>4 DEF AllScanned, Run
  <2> QED BY <1>1, ScannedAll
<1>11. \A s \in Stages : Ended(Shards[s])' => Ended("discover")'
  BY <1>3, <1>4 DEF GateInv, Ended
<1> QED
  BY <1>3, <1>4, <1>5, <1>7, <1>8, <1>9, <1>10, <1>11 DEF GateInv

LEMMA GateHolds == ASSUME GateInv, Gate PROVE GateInv'
<1>1. /\ Ends("merge-gate", GateAccepts)
      /\ UNCHANGED <<outputs, artifacts, passed>> /\ Run
  BY DEF Gate
<1>2. /\ "merge-gate" \in Jobs
      /\ AlwaysRequired \subseteq Jobs \ {"merge-gate"} /\ Scopes \subseteq Jobs \ {"merge-gate"}
      /\ "dependency-review" \in Jobs \ {"merge-gate"}
      /\ "discover" \in Jobs \ {"merge-gate"} /\ "supply-chain" \in Jobs \ {"merge-gate"}
      /\ \A s \in Stages : Shards[s] \in Jobs \ {"merge-gate"}
  BY DEF Jobs, AlwaysRequired, Stages, Shards, Scopes
<1>3. /\ job' \in [Jobs -> Results]
      /\ \A j \in Jobs \ {"merge-gate"} : job'[j] = job[j]
      /\ job'["merge-gate"] = "success" => GateAccepts
  BY <1>1, <1>2 DEF Ends, GateInv, Results
<1>4. GateAccepts => GateAccepts'
  BY <1>1, <1>2, <1>3 DEF GateAccepts, Deferred, Run
<1>5. /\ job["discover"] = "success" => DiscoveryHolds'
      /\ job["supply-chain"] = "success" => AllScanned'
  BY <1>1 DEF GateInv, DiscoveryHolds, RepositoryAccepted, Deferred, AllScanned, Run
<1>6. \A s \in Stages : job[Shards[s]] = "success" => ShardsRan(s)'
  BY <1>1 DEF GateInv, ShardsRan, Matrix
<1>7. \A s \in Stages : Ended(Shards[s])' => Ended("discover")'
  BY <1>2, <1>3 DEF GateInv, Ended
<1> QED
  BY <1>2, <1>3, <1>4, <1>5, <1>6, <1>7 DEF GateInv

\* Nothing else changes a run but a new run.
LEMMA StepHolds == ASSUME GateInv, [Next]_vars PROVE GateInv'
<1>1. CASE CI
  <2>1. CIStep BY <1>1 DEF CI
  <2> QED
    BY <2>1, DiscoverHolds, ShardsHold, AggregateHolds, SideJobsHold, GateHolds DEF CIStep
<1>2. CASE UNCHANGED ciVars
  BY <1>2 DEF ciVars, GateInv, DiscoveryHolds, RepositoryAccepted, Deferred, ShardsRan, Matrix,
              AllScanned, GateAccepts, Ended
<1>3. CASE \E c, e, d, paths : Begin(c, e, d, paths)
  BY <1>3, BeginHolds
<1>4. PathStep => (\E c, e, d, paths : Begin(c, e, d, paths)) \/ UNCHANGED ciVars
  <2>1. ASSUME NEW edit, NEW d, Push(edit, d)
        PROVE  \E c, e, x, paths : Begin(c, e, x, paths)
    BY <2>1, Zenon DEF Push, Trigger
  <2>2. ReadyForReview => \E c, e, x, paths : Begin(c, e, x, paths)
    BY Zenon DEF ReadyForReview, Trigger
  <2>3. UpdateBranch => \E c, e, x, paths : Begin(c, e, x, paths)
    BY Zenon DEF UpdateBranch, Trigger
  <2>4. RunByHand => \E c, e, x, paths : Begin(c, e, x, paths)
    BY Zenon DEF RunByHand
  <2>5. ForgetRun \/ Merge \/ Close => \E c, e, x, paths : Begin(c, e, x, paths)
    BY Zenon DEF ForgetRun, Merge, Close, EndRun
  <2>6. DeleteBranches => UNCHANGED ciVars
    BY DEF DeleteBranches
  <2>7. ASSUME NEW edit, MergeAnother(edit) PROVE UNCHANGED ciVars
    BY <2>7 DEF MergeAnother
  <2> QED
    BY <2>1, <2>2, <2>3, <2>4, <2>5, <2>6, <2>7 DEF PathStep
<1>5. Release \/ Scanning \/ Disturb => UNCHANGED ciVars
  BY DEF Release, Scanning, Disturb
<1>6. CASE UNCHANGED vars
  BY <1>2, <1>6 DEF vars
<1> QED BY <1>1, <1>2, <1>3, <1>4, <1>5, <1>6 DEF Next

\* What the gate has accepted is exercised.
LEMMA AcceptedIsExercised == GateInv => GateSound
<1> SUFFICES ASSUME GateInv, job["merge-gate"] = "success"
             PROVE  /\ Exercised(checkout.tree)
                    /\ AllScanned
                    /\ event = "pull_request" =>
                         /\ ~draft
                         /\ job["dependency-review"] = "success"
                         /\ \A s \in ScopesOf(changed) : job[s] = "success"
  BY DEF GateSound, AllScanned
<1>1. GateAccepts /\ ~Deferred /\ \A j \in AlwaysRequired : job[j] = "success"
  BY DEF GateInv, GateAccepts
<1>2. /\ DiscoveryHolds /\ AllScanned
      /\ \A s \in Stages : ShardsRan(s)
  BY <1>1 DEF GateInv, AlwaysRequired, Stages, Shards
<1>3. Exercised(checkout.tree)
  <2> DEFINE t == checkout.tree
  <2> SUFFICES ASSUME NEW d \in CargoDirs(t) \ t.reserved
               PROVE  \E e \in Entries(t) :
                        /\ e.path = d
                        /\ <<"ci", e.name>> \in passed
                        /\ t.projects[d].rust # "absent" => <<"msrv", e.name>> \in passed
    BY DEF Exercised
  <2>1. Registered(t)
    BY <1>2 DEF DiscoveryHolds, RepositoryAccepted
  <2>2. PICK e \in Entries(t) : e.path = d
    BY <2>1 DEF Registered
  <2>3. <<"ci", e.name>> \in passed
    BY <1>2, <2>2 DEF DiscoveryHolds, ShardsRan, Matrix, Stages, AllEntries
  <2>4. ASSUME t.projects[d].rust # "absent" PROVE <<"msrv", e.name>> \in passed
    <3>1. e \in DeclaredEntries(t)
      BY <2>1, <2>2, <2>4 DEF Registered, EntryAccepted, MsrvAgrees, DeclaredEntries
    <3> QED BY <1>2, <3>1 DEF DiscoveryHolds, ShardsRan, Matrix, Stages
  <2> QED BY <2>2, <2>3, <2>4
<1>4. ASSUME event = "pull_request"
      PROVE  /\ ~draft
             /\ job["dependency-review"] = "success"
             /\ \A s \in ScopesOf(changed) : job[s] = "success"
  BY <1>1, <1>2, <1>4, ScopesAreKnown DEF GateAccepts, Deferred, DiscoveryHolds
<1> QED BY <1>2, <1>3, <1>4

\* The invariant holds of every behaviour.
THEOREM GateInvariance == Spec => []GateInv
<1>1. Init => GateInv
  BY InitHolds DEF Init
<1>2. GateInv /\ [Next]_vars => GateInv'
  BY StepHolds
<1> QED BY <1>1, <1>2, PTL DEF Spec

\* A green Merge Gate means what GateSound says, whatever the registry, the
\* shards, their artifacts and the budget of faults.
THEOREM GateSoundness == Spec => []GateSound
  BY GateInvariance, AcceptedIsExercised, PTL

-----------------------------------------------------------------------------
(* main.                                                                   *)

\* The validators against what a sound tree is.
LEMMA AcceptedIsSound ==
  ASSUME NEW t, Registered(t), Provenance(t), ReleasePolicy(t)
  PROVE  SoundTree(t)
<1>1. ASSUME NEW d \in CargoDirs(t) \ t.reserved
      PROVE  \E i \in DOMAIN Listed(t) : \A j \in DOMAIN Listed(t) :
               (Listed(t)[j].path = d \/ Listed(t)[j].name = Listed(t)[i].name) <=> j = i
  <2>1. PICK e \in Entries(t) : e.path = d
    BY DEF Registered
  <2>2. PICK i \in DOMAIN Listed(t) : Listed(t)[i] = e
    BY DEF Entries, RangeOf
  <2>3. \A j \in DOMAIN Listed(t) : j # i => /\ Listed(t)[j].name # Listed(t)[i].name
                                           /\ Listed(t)[j].path # Listed(t)[i].path
    BY <2>2 DEF Registered, NamesAndPathsUnique
  <2> QED BY <2>1, <2>2, <2>3
<1>2. ASSUME NEW e \in Workloads(t), NEW d \in t.projects[e.path].first
      PROVE  LET p == t.projects[e.path]
             IN  /\ d.version \in ExactVersions
                 /\ \E l \in Resolutions(p, d) : l.published
                 /\ \A l \in Resolutions(p, d) : l.published
  <2> DEFINE p == t.projects[e.path]
  <2>1. ManifestAccepted(p) /\ LockfileAccepted(p)
    BY DEF Provenance
  <2>2. Cardinality(Resolutions(p, d)) = 1 /\ \A l \in Resolutions(p, d) : l.published
    BY <2>1 DEF LockfileAccepted
  <2>3. Resolutions(p, d) # {}
    BY <2>2, FS_EmptySet
  <2> QED BY <2>1, <2>2, <2>3 DEF ManifestAccepted
<1>3. ~t.sourced /\ \A e \in Fixtures(t) : t.projects[e.path].lock = {}
  BY DEF Provenance, FixtureAccepted
<1>4. ASSUME NEW w \in RangeOf(t.workflows), NEW i \in DOMAIN w, w[i].mutates
      PROVE  \E k \in DOMAIN w :
               k < i /\ w[k].name = "codeql-preflight" /\ w[k].runs /\ w[k].name \in w[i].needs
  <2>1. PICK n \in DOMAIN t.workflows : t.workflows[n] = w
    BY DEF RangeOf
  <2>2. n \in Publishers(t)
    BY <1>4, <2>1 DEF Publishers, IsPublisher
  <2>3. PublisherAccepted(w)
    BY <2>1, <2>2 DEF ReleasePolicy
  <2> QED BY <1>4, <2>3 DEF PublisherAccepted
<1> QED BY <1>1, <1>2, <1>3, <1>4 DEF SoundTree

\* What appending does to a sequence of which nothing else is known.
LEMMA Appended ==
  ASSUME NEW s, s \in Seq(RangeOf(s)), NEW x
  PROVE  /\ Append(s, x) \in Seq(RangeOf(Append(s, x)))
         /\ Len(s) \in Nat /\ DOMAIN s = 1..Len(s)
         /\ Len(Append(s, x)) = Len(s) + 1
         /\ DOMAIN Append(s, x) = 1..(Len(s) + 1)
         /\ Append(s, x)[Len(s) + 1] = x
         /\ \A i \in 1..Len(s) : Append(s, x)[i] = s[i]
<1> DEFINE S == RangeOf(s) \cup {x}
           a == Append(s, x)
<1>1. s \in Seq(S)
  BY DEF RangeOf
<1>2. a \in Seq(S) /\ Len(a) = Len(s) + 1 /\ a[Len(s) + 1] = x
      /\ \A i \in 1..Len(s) : a[i] = s[i]
  BY <1>1, AppendProperties
<1>3. a \in Seq(RangeOf(a))
  BY <1>2 DEF RangeOf
<1> QED BY <1>1, <1>2, <1>3

\* main consists of commits, and what the pull request's run looked at is what
\* a squash would put onto the main it was started on.
MainRecorded ==
    /\ commits \in Seq(RangeOf(commits))
    /\ main \in Seq(DOMAIN commits) /\ main # <<>>

PullRequestTested ==
    branch.open =>
      /\ event = "pull_request"
      /\ checkout.base \in Nat /\ checkout.base <= Len(main)
      /\ checkout.base = Len(main) => checkout.tree = Rebased(branch.edits, MainTree)

MainInv == MainRecorded /\ MainSound /\ PullRequestTested

\* A commit that is not merged leaves main as it is.
LEMMA CommitKeepsMain ==
  ASSUME MainInv, NEW t, commits' = Append(commits, t), UNCHANGED main
  PROVE  MainRecorded' /\ MainSound' /\ MainTree' = MainTree
<1>1. /\ commits' \in Seq(RangeOf(commits'))
      /\ DOMAIN commits \subseteq DOMAIN commits'
      /\ \A c \in DOMAIN commits : commits'[c] = commits[c]
  BY Appended DEF MainInv, MainRecorded
<1>2. main' \in Seq(DOMAIN commits') /\ main' # <<>>
  BY <1>1 DEF MainInv, MainRecorded
<1>3. \A c \in OnMain : c \in DOMAIN commits
  BY DEF MainInv, MainRecorded, OnMain, RangeOf
<1>4. MainHead \in DOMAIN commits /\ MainHead' = MainHead
  BY DEF MainInv, MainRecorded, MainHead
<1> QED
  BY <1>1, <1>2, <1>3, <1>4 DEF MainInv, MainRecorded, MainSound, OnMain, RangeOf, MainTree

\* A merge of a sound tree keeps main sound, and makes it longer.
LEMMA MergeKeepsMain ==
  ASSUME MainInv, NEW t, SoundTree(t),
         commits' = Append(commits, t), main' = Append(main, Len(commits'))
  PROVE  MainRecorded' /\ MainSound' /\ Len(main) \in Nat /\ Len(main') = Len(main) + 1
<1>1. /\ commits' \in Seq(RangeOf(commits'))
      /\ DOMAIN commits = 1..Len(commits) /\ Len(commits) \in Nat
      /\ DOMAIN commits' = 1..(Len(commits) + 1) /\ Len(commits') = Len(commits) + 1
      /\ \A c \in DOMAIN commits : commits'[c] = commits[c]
      /\ commits'[Len(commits')] = t
  BY Appended DEF MainInv, MainRecorded
<1>2. main \in Seq(DOMAIN commits') /\ Len(commits') \in DOMAIN commits'
  BY <1>1 DEF MainInv, MainRecorded
<1>3. /\ main' \in Seq(DOMAIN commits') /\ main' # <<>> /\ Len(main') = Len(main) + 1
      /\ \A i \in 1..Len(main) : main'[i] = main[i]
      /\ main'[Len(main) + 1] = Len(commits')
  BY <1>2, AppendProperties
<1>4. \A i \in DOMAIN main' : SoundTree(commits'[main'[i]])
  <2> SUFFICES ASSUME NEW i \in DOMAIN main' PROVE SoundTree(commits'[main'[i]]) OBVIOUS
  <2>1. DOMAIN main = 1..Len(main) /\ DOMAIN main' = 1..(Len(main) + 1) /\ Len(main) \in Nat
    BY <1>2, <1>3
  <2>2. CASE i = Len(main) + 1
    BY <1>1, <1>3, <2>2
  <2>3. CASE i \in 1..Len(main)
    <3>1. main[i] \in OnMain /\ main[i] \in DOMAIN commits
      BY <2>1, <2>3 DEF OnMain, RangeOf, MainInv, MainRecorded
    <3> QED BY <1>1, <1>3, <2>3, <3>1 DEF MainInv, MainSound
  <2>4. i = Len(main) + 1 \/ i \in 1..Len(main)
    BY <2>1
  <2> QED BY <2>2, <2>3, <2>4
<1>5. MainSound'
  BY <1>4 DEF MainSound, OnMain, RangeOf
<1> QED BY <1>1, <1>2, <1>3, <1>5 DEF MainRecorded

LEMMA MainInit == ASSUME Init PROVE MainInv
<1>1. commits = <<FirstTree>> /\ main = <<1>> /\ ~branch.open
  BY DEF Init, NoBranch
<1>2. commits \in Seq(RangeOf(commits)) /\ DOMAIN commits = {1} /\ commits[1] = FirstTree
  BY <1>1 DEF RangeOf
<1>3. main \in Seq(DOMAIN commits) /\ main # <<>> /\ OnMain = {1}
  BY <1>1, <1>2 DEF OnMain, RangeOf
<1> QED
  BY <1>1, <1>2, <1>3, FirstTreeAssumption DEF MainInv, MainRecorded, MainSound, PullRequestTested

\* A step of CI reads the checkout.
LEMMA CIKeepsCheckout == CIStep => UNCHANGED <<checkout, event>>
  BY DEF CIStep, Discover, RunShards, Aggregate, SideJobs, Gate, Run

\* What a trigger hands to the run.
LEMMA Triggered ==
  ASSUME NEW b, NEW all, Trigger(b, all), Len(main) \in Nat
  PROVE  /\ event' = "pull_request" /\ checkout'.base = Len(main)
         /\ checkout'.tree = Rebased(b.edits, MainTree)
  BY DEF Trigger, Begin, CheckoutOf

\* After a trigger the run looks at what a squash would make of the branch.
LEMMA TriggerIsTested ==
  ASSUME NEW b, NEW all, Trigger(b, all), Len(main) \in Nat,
         branch' = b, UNCHANGED main, MainTree' = MainTree
  PROVE  PullRequestTested'
<1>1. /\ event' = "pull_request" /\ checkout'.base = Len(main)
      /\ checkout'.tree = Rebased(b.edits, MainTree)
  BY Triggered
<1>2. Rebased(b.edits, MainTree) = Rebased(branch.edits, MainTree)'
  BY DEF Rebased
<1> QED BY <1>1, <1>2 DEF PullRequestTested

LEMMA MainStep == ASSUME GateInv, MainInv, [Next]_vars PROVE MainInv'
<1> USE DEF MainInv
<1>0. Len(main) \in Nat
  BY DEF MainRecorded
<1>1. ASSUME UNCHANGED <<commits, main, branch, checkout, event>> PROVE MainInv'
  BY <1>1 DEF MainRecorded, MainSound, OnMain, PullRequestTested, MainTree, MainHead, Rebased
<1>2. CI => MainInv'
  BY <1>1, CIKeepsCheckout DEF CI, pathVars
<1>3. Release \/ Scanning \/ Disturb => MainInv'
  BY <1>1 DEF Release, Scanning, Disturb, pathVars, ciVars
<1>4. ASSUME NEW edit, NEW d, Push(edit, d) PROVE MainInv'
  <2>1. \E t : commits' = Append(commits, t)
    BY <1>4, Zenon DEF Push
  <2>2. UNCHANGED main
    BY <1>4 DEF Push
  <2>3. PICK b : branch' = b /\ Trigger(b, commits')
    BY <1>4, Zenon DEF Push
  <2>4. MainRecorded' /\ MainSound' /\ MainTree' = MainTree
    BY <2>1, <2>2, CommitKeepsMain
  <2> QED BY <1>0, <2>2, <2>3, <2>4, TriggerIsTested
<1>5. ReadyForReview => MainInv'
  <2> SUFFICES ASSUME ReadyForReview PROVE MainInv' OBVIOUS
  <2>1. Trigger(branch', commits) /\ UNCHANGED <<commits, main>>
    BY DEF ReadyForReview
  <2>2. MainRecorded' /\ MainSound' /\ MainTree' = MainTree
    BY <2>1 DEF MainRecorded, MainSound, OnMain, MainTree, MainHead
  <2> QED BY <1>0, <2>1, <2>2, TriggerIsTested
<1>6. UpdateBranch => MainInv'
  <2> SUFFICES ASSUME UpdateBranch PROVE MainInv' OBVIOUS
  <2>1. \E t : commits' = Append(commits, t)
    BY Zenon DEF UpdateBranch
  <2>2. UNCHANGED main
    BY DEF UpdateBranch
  <2>3. PICK b : branch' = b /\ Trigger(b, commits')
    BY Zenon DEF UpdateBranch
  <2>4. MainRecorded' /\ MainSound' /\ MainTree' = MainTree
    BY <2>1, <2>2, CommitKeepsMain
  <2> QED BY <1>0, <2>2, <2>3, <2>4, TriggerIsTested
<1>7. ASSUME ~branch'.open, UNCHANGED <<commits, main>> PROVE MainInv'
  BY <1>7 DEF MainRecorded, MainSound, OnMain, PullRequestTested
<1>8. RunByHand => MainInv'
  BY <1>7 DEF RunByHand, pathVars
<1>9. ForgetRun => MainInv'
  <2> SUFFICES ASSUME ForgetRun PROVE MainInv' OBVIOUS
  <2>1. ~branch.open
    BY DEF ForgetRun, PullRequestTested
  <2> QED BY <1>7, <2>1 DEF ForgetRun, pathVars
<1>10. Close => MainInv'
  BY <1>7 DEF Close, NoBranch
<1>11. DeleteBranches => MainInv'
  BY <1>1 DEF DeleteBranches, ciVars
<1>12. Merge => MainInv'
  <2> SUFFICES ASSUME Merge PROVE MainInv' OBVIOUS
  <2> DEFINE t == Rebased(branch.edits, MainTree)
  <2>1. /\ commits' = Append(commits, t) /\ main' = Append(main, Len(commits'))
        /\ ~branch'.open
    BY DEF Merge, NoBranch
  <2>2. checkout.tree = t /\ job["merge-gate"] = "success"
    BY DEF Merge, Mergeable, PullRequestTested
  <2>3. GateAccepts
    BY <2>2 DEF GateInv
  <2>4. RepositoryAccepted /\ ~Deferred
    BY <2>3 DEF GateInv, GateAccepts, AlwaysRequired, DiscoveryHolds
  <2>5. SoundTree(t)
    BY <2>2, <2>4, AcceptedIsSound DEF RepositoryAccepted
  <2> QED BY <2>1, <2>5, MergeKeepsMain DEF PullRequestTested
<1>13. ASSUME NEW edit, MergeAnother(edit) PROVE MainInv'
  <2>1. PICK t : /\ Registered(t) /\ Provenance(t) /\ ReleasePolicy(t)
                 /\ commits' = Append(commits, t)
    BY <1>13, Zenon DEF MergeAnother
  <2>2. /\ main' = Append(main, Len(commits'))
        /\ UNCHANGED <<branch, checkout, event>>
    BY <1>13 DEF MergeAnother, ciVars
  <2>3. MainRecorded' /\ MainSound' /\ Len(main') = Len(main) + 1
    BY <2>1, <2>2, AcceptedIsSound, MergeKeepsMain
  <2>4. PullRequestTested'
    BY <1>0, <2>2, <2>3 DEF PullRequestTested
  <2> QED BY <2>3, <2>4
<1>14. PathStep => MainInv'
  BY <1>4, <1>5, <1>6, <1>8, <1>9, <1>10, <1>11, <1>12, <1>13 DEF PathStep
<1>15. UNCHANGED vars => MainInv'
  BY <1>1 DEF vars, ciVars, pathVars
<1> QED BY <1>2, <1>3, <1>14, <1>15 DEF Next

\* The invariant of main, beside that of the gate.
THEOREM MainInvariance == Spec => []MainInv
<1>1. Init => GateInv /\ MainInv
  BY InitHolds, MainInit DEF Init
<1>2. GateInv /\ MainInv /\ [Next]_vars => GateInv' /\ MainInv'
  BY StepHolds, MainStep
<1> QED BY <1>1, <1>2, PTL DEF Spec

\* Every tree on main is sound, whatever edits are proposed and merged, in
\* whatever order, and however long after their run.
THEOREM MainSoundness == Spec => []MainSound
<1>1. MainInv => MainSound
  BY DEF MainInv
<1> QED BY <1>1, MainInvariance, PTL

-----------------------------------------------------------------------------
(***************************************************************************)
(* The preflight: what a passed one says about its commit stays true,      *)
(* whatever scans start, end, expire or run again between its calls and    *)
(* after it.  The invariant follows one preflight: which runs its numbers  *)
(* name, what it has proved so far, and that a scan that had failed before *)
(* it began makes it reject.                                               *)
(***************************************************************************)

Proofs == {NoProofs} \cup [Languages -> Sarifs]

ScanRecord ==
    [event : {"schedule", "workflow_dispatch"}, sha : Nat, head : Nat, attempt : {1, 2},
     status : {"queued", "running", "completed"},
     conclusion : {"none", "success", "failure", "cancelled"},
     proofs : Proofs, kept : BOOLEAN]

\* Runs and requests, and that a scheduled scan looks at the head.
ScansInv ==
    /\ scans \in Seq(ScanRecord)
    /\ requested \in Seq(Nat)
    /\ \A i \in DOMAIN scans :
         scans[i].event # "workflow_dispatch" => scans[i].sha = scans[i].head

\* What becomes of a scan in a step: it names the same commit, its attempts do
\* not go back, and it keeps its outcome and its proofs unless it runs again.
Stays(i) ==
    /\ i \in DOMAIN scans'
    /\ scans'[i].event = scans[i].event
    /\ scans'[i].sha = scans[i].sha
    /\ scans'[i].head = scans[i].head
    /\ scans'[i].attempt # 1 \/
         /\ scans[i].attempt = 1
         /\ Completed(scans[i]) =>
              /\ Completed(scans'[i])
              /\ scans'[i].conclusion = scans[i].conclusion
              /\ scans'[i].proofs = scans[i].proofs

ScansMove == ScansInv' /\ \A i \in DOMAIN scans : Stays(i)

\* A scan the preflight has looked through, unless it was run again since.
Verified(i, sha) ==
    /\ scans[i].sha = sha
    /\ scans[i].attempt = 1 =>
         /\ Completed(scans[i]) /\ scans[i].conclusion = "success"
         /\ \A l \in Languages : Accepts(scans[i].proofs[l], Required)

PfRecord ==
    [pc : {"idle", "list", "decide", "available", "inspect", "dispatch", "find",
           "poll", "state", "done"},
     sha : Nat,
     listing : SUBSET [id : Nat, event : {"schedule", "workflow_dispatch"}, sha : Nat,
                       head : Nat, status : {"queued", "running", "completed"},
                       conclusion : {"none", "success", "failure", "cancelled"},
                       attempt : {1, 2}],
     before : SUBSET Nat, todo : SUBSET Nat, valid : Nat, selected : Nat, polls : Nat,
     result : {"none", "passed", "rejected"}, failed : SUBSET Nat]

\* The runs the preflight remembers are runs.
Located ==
    /\ \A r \in pf.listing : r.id \in DOMAIN scans
    /\ pf.todo \subseteq DOMAIN scans
    /\ pf.selected # 0 => pf.selected \in DOMAIN scans
    /\ pf.pc \in {"inspect", "state"} => pf.selected # 0

\* Ancestry was proved, and main only grows.
OfMain == (pf.pc \notin {"idle", "done"} \/ pf.result = "passed") => pf.sha \in OnMain

\* A scan that had failed is listed as failed or as run again, which is
\* ambiguous; whoever gets past the decision started without one.
FailuresCaught ==
    /\ pf.pc = "list" =>
         \A i \in pf.failed : /\ i \in DOMAIN scans
                              /\ Exact(scans[i], pf.sha)
                              /\ Failed(scans[i]) \/ scans[i].attempt # 1
    /\ pf.pc = "decide" /\ pf.failed # {} => Ambiguous(pf.listing)
    /\ pf.pc \notin {"idle", "list", "decide", "done"} => pf.failed = {}

\* What it has counted, and what it says in the end.
Established ==
    /\ pf.valid > 0 => \E i \in DOMAIN scans : Verified(i, pf.sha)
    /\ pf.result = "passed" =>
         /\ pf.pc = "done" /\ pf.failed = {}
         /\ \E i \in DOMAIN scans : Verified(i, pf.sha)

PfInv == pf \in PfRecord /\ Located /\ OfMain /\ FailuresCaught /\ Established

-----------------------------------------------------------------------------
(* The scans.                                                              *)

LEMMA NewScanTyped ==
  ASSUME NEW e \in {"schedule", "workflow_dispatch"}, NEW sha \in Nat, NEW head \in Nat
  PROVE  NewScan(e, sha, head) \in ScanRecord
  BY DEF NewScan, ScanRecord, Proofs

\* A step that changes one scan and keeps what it must.
LEMMA OneScanMoves ==
  ASSUME ScansInv, NEW i \in DOMAIN scans, NEW s \in ScanRecord,
         scans' = [scans EXCEPT ![i] = s], requested' \in Seq(Nat),
         s.event = scans[i].event, s.sha = scans[i].sha, s.head = scans[i].head,
         s.attempt # 1 \/ (s.attempt = scans[i].attempt /\
                            (Completed(scans[i]) => /\ Completed(s)
                                                    /\ s.conclusion = scans[i].conclusion
                                                    /\ s.proofs = scans[i].proofs))
  PROVE  ScansMove
<1>1. /\ scans' \in Seq(ScanRecord) /\ DOMAIN scans' = DOMAIN scans
      /\ \A k \in DOMAIN scans : scans'[k] = IF k = i THEN s ELSE scans[k]
  BY DEF ScansInv
<1>2. ScansInv'
  BY <1>1 DEF ScansInv
<1>3. \A k \in DOMAIN scans : Stays(k)
  BY <1>1 DEF Stays, ScansInv, ScanRecord
<1> QED BY <1>2, <1>3 DEF ScansMove

\* A new run cancels the ones that wait and takes the next number.
LEMMA EnterMoves ==
  ASSUME ScansInv, NEW s \in ScanRecord, Enter(s), requested' \in Seq(Nat),
         s.event # "workflow_dispatch" => s.sha = s.head
  PROVE  ScansMove
<1> DEFINE old == [i \in DOMAIN scans |->
                     IF i \in Group(s.sha) /\ scans[i].status = "queued"
                     THEN [scans[i] EXCEPT !.status = "completed", !.conclusion = "cancelled"]
                     ELSE scans[i]]
<1>1. Len(scans) \in Nat /\ DOMAIN scans = 1..Len(scans)
      /\ \A i \in DOMAIN scans : scans[i] \in ScanRecord
  BY DEF ScansInv
<1>2. \A i \in DOMAIN scans :
        /\ old[i] \in ScanRecord
        /\ old[i].event = scans[i].event /\ old[i].sha = scans[i].sha
        /\ old[i].head = scans[i].head /\ old[i].attempt = scans[i].attempt
        /\ Completed(scans[i]) => old[i] = scans[i]
  BY <1>1 DEF ScanRecord, Completed
<1>4. scans' = Append(old, s) /\ old \in [1..Len(scans) -> ScanRecord]
  BY <1>1, <1>2 DEF Enter
<1> HIDE DEF old
<1>3. old \in Seq(ScanRecord) /\ Len(old) = Len(scans)
  <2>1. old \in Seq(ScanRecord)
    BY <1>1, <1>4, IsASeq
  <2> QED BY <1>1, <1>4, <2>1, LenProperties
<1>5. /\ scans' \in Seq(ScanRecord) /\ DOMAIN scans' = 1..(Len(scans) + 1)
      /\ \A i \in 1..Len(scans) : scans'[i] = old[i]
      /\ scans'[Len(scans) + 1] = s
  BY <1>1, <1>3, <1>4, AppendProperties
<1>6. \A i \in DOMAIN scans' :
        scans'[i].event # "workflow_dispatch" => scans'[i].sha = scans'[i].head
  <2> SUFFICES ASSUME NEW i \in DOMAIN scans'
               PROVE  scans'[i].event # "workflow_dispatch" => scans'[i].sha = scans'[i].head
    OBVIOUS
  <2>1. CASE i = Len(scans) + 1
    BY <1>5, <2>1
  <2>2. CASE i \in 1..Len(scans)
    <3>1. i \in DOMAIN scans /\ scans'[i] = old[i]
      BY <1>1, <1>5, <2>2
    <3> QED BY <1>2, <3>1 DEF ScansInv
  <2> QED BY <1>1, <1>5, <2>1, <2>2
<1>7. \A i \in DOMAIN scans : Stays(i)
  <2> SUFFICES ASSUME NEW i \in DOMAIN scans PROVE Stays(i) OBVIOUS
  <2>1. i \in DOMAIN scans' /\ scans'[i] = old[i]
    BY <1>1, <1>5
  <2>2. scans[i].attempt \in {1, 2}
    BY <1>1 DEF ScanRecord
  <2> QED BY <1>2, <2>1, <2>2 DEF Stays
<1> QED BY <1>5, <1>6, <1>7 DEF ScansMove, ScansInv

\* What anybody but the preflight does to the scans.
ScansStep ==
    \/ ScanStep
    \/ \E head \in Nat : StartRequested(head)
    \/ \E head \in Nat : Schedule(head)
    \/ \E sha \in Nat, head \in Nat : DispatchByHand(sha, head)
    \/ \E i \in DOMAIN scans : Expire(i) \/ Rerun(i)

LEMMA ScansStepMoves == ASSUME ScansInv, ScansStep PROVE ScansMove
<1>0. /\ requested \in Seq(Nat)
      /\ \A i \in DOMAIN scans : scans[i] \in ScanRecord
  BY DEF ScansInv
<1>1. ASSUME NEW i \in DOMAIN scans, StartScan(i) PROVE ScansMove
  <2> DEFINE s == [scans[i] EXCEPT !.status = "running"]
  <2>1. s \in ScanRecord /\ scans' = [scans EXCEPT ![i] = s] /\ ~Completed(scans[i])
        /\ requested' = requested
    BY <1>0, <1>1 DEF StartScan, ScanRecord, Completed
  <2>2. /\ s.event = scans[i].event /\ s.sha = scans[i].sha /\ s.head = scans[i].head
        /\ s.attempt = scans[i].attempt
    BY <1>0 DEF ScanRecord
  <2> HIDE DEF s
  <2> QED BY <1>0, <2>1, <2>2, OneScanMoves
<1>2. ASSUME NEW i \in DOMAIN scans, FinishScan(i) PROVE ScansMove
  <2>1. PICK proofs \in [Languages -> Sarifs], required \in SUBSET Required :
          scans' = [scans EXCEPT ![i].status = "completed", ![i].proofs = proofs,
                      ![i].kept = TRUE,
                      ![i].conclusion =
                         IF \A l \in Languages : Accepts(proofs[l], required)
                         THEN "success" ELSE "failure"]
    BY <1>2, Zenon DEF FinishScan
  <2> DEFINE c == IF \A l \in Languages : Accepts(proofs[l], required)
                  THEN "success" ELSE "failure"
             s == [scans[i] EXCEPT !.status = "completed", !.proofs = proofs,
                                   !.kept = TRUE, !.conclusion = c]
  <2>2. c \in {"success", "failure"}
    OBVIOUS
  <2>3. scans' = [scans EXCEPT ![i].status = "completed", ![i].proofs = proofs,
                      ![i].kept = TRUE, ![i].conclusion = c]
    BY <2>1
  <2> HIDE DEF c
  <2>4. scans' = [scans EXCEPT ![i] = s]
    BY <2>3
  <2>5. s \in ScanRecord /\ ~Completed(scans[i]) /\ requested' = requested
    <3>1. proofs \in Proofs
      BY DEF Proofs
    <3>2. s \in ScanRecord
      BY <1>0, <2>2, <3>1 DEF ScanRecord
    <3>3. scans[i].status = "running" /\ requested' = requested
      BY <1>2, Zenon DEF FinishScan
    <3> QED BY <3>2, <3>3 DEF Completed
  <2>6. /\ s.event = scans[i].event /\ s.sha = scans[i].sha /\ s.head = scans[i].head
        /\ s.attempt = scans[i].attempt
    BY <1>0 DEF ScanRecord
  <2> HIDE DEF s
  <2> QED BY <1>0, <2>4, <2>5, <2>6, OneScanMoves
<1>3. ASSUME NEW i \in DOMAIN scans, Expire(i) PROVE ScansMove
  <2> DEFINE s == [scans[i] EXCEPT !.kept = FALSE]
  <2>1. s \in ScanRecord /\ scans' = [scans EXCEPT ![i] = s] /\ requested' = requested
    BY <1>0, <1>3 DEF Expire, ScanRecord
  <2>2. /\ s.event = scans[i].event /\ s.sha = scans[i].sha /\ s.head = scans[i].head
        /\ s.attempt = scans[i].attempt /\ s.proofs = scans[i].proofs
        /\ s.conclusion = scans[i].conclusion /\ s.status = scans[i].status
    BY <1>0 DEF ScanRecord
  <2> HIDE DEF s
  <2> QED BY <1>0, <2>1, <2>2, OneScanMoves DEF Completed
<1>4. ASSUME NEW i \in DOMAIN scans, Rerun(i) PROVE ScansMove
  <2> DEFINE s == [scans[i] EXCEPT !.attempt = 2, !.status = "queued", !.conclusion = "none"]
  <2>1. s \in ScanRecord /\ scans' = [scans EXCEPT ![i] = s] /\ requested' = requested
    BY <1>0, <1>4 DEF Rerun, ScanRecord
  <2>2. /\ s.event = scans[i].event /\ s.sha = scans[i].sha /\ s.head = scans[i].head
        /\ s.attempt # 1
    BY <1>0 DEF ScanRecord
  <2> HIDE DEF s
  <2> QED BY <1>0, <2>1, <2>2, OneScanMoves
<1>5. ASSUME NEW head \in Nat, StartRequested(head) PROVE ScansMove
  <2>1. /\ Enter(NewScan("workflow_dispatch", Head(requested), head))
        /\ requested # <<>> /\ requested' = Tail(requested)
    BY <1>5 DEF StartRequested
  <2>2. Head(requested) \in Nat /\ requested' \in Seq(Nat)
    BY <1>0, <2>1, HeadTailProperties
  <2>3. NewScan("workflow_dispatch", Head(requested), head).event = "workflow_dispatch"
    BY DEF NewScan
  <2> QED BY <2>1, <2>2, <2>3, NewScanTyped, EnterMoves
<1>6. ASSUME NEW head \in Nat, Schedule(head) PROVE ScansMove
  <2>1. Enter(NewScan("schedule", head, head)) /\ requested' = requested
    BY <1>6 DEF Schedule
  <2>2. NewScan("schedule", head, head).sha = NewScan("schedule", head, head).head
    BY DEF NewScan
  <2> QED BY <1>0, <2>1, <2>2, NewScanTyped, EnterMoves
<1>7. ASSUME NEW sha \in Nat, NEW head \in Nat, DispatchByHand(sha, head) PROVE ScansMove
  <2>1. Enter(NewScan("workflow_dispatch", sha, head)) /\ requested' = requested
    BY <1>7 DEF DispatchByHand
  <2>2. NewScan("workflow_dispatch", sha, head).event = "workflow_dispatch"
    BY DEF NewScan
  <2> QED BY <1>0, <2>1, <2>2, NewScanTyped, EnterMoves
<1> QED BY <1>1, <1>2, <1>3, <1>4, <1>5, <1>6, <1>7 DEF ScansStep, ScanStep

-----------------------------------------------------------------------------
(* The preflight.                                                          *)

LEMMA RowTyped ==
  ASSUME ScansInv, NEW i \in DOMAIN scans
  PROVE  /\ Row(i) \in [id : Nat, event : {"schedule", "workflow_dispatch"}, sha : Nat,
                        head : Nat, status : {"queued", "running", "completed"},
                        conclusion : {"none", "success", "failure", "cancelled"},
                        attempt : {1, 2}]
         /\ Row(i).id = i /\ i \in Nat \ {0}
<1>1. scans[i] \in ScanRecord /\ i \in Nat \ {0}
  BY DEF ScansInv
<1> QED BY <1>1 DEF Row, ScanRecord

LEMMA ListingTyped ==
  ASSUME ScansInv, NEW sha
  PROVE  /\ Listing(sha) \in SUBSET
              [id : Nat, event : {"schedule", "workflow_dispatch"}, sha : Nat,
               head : Nat, status : {"queued", "running", "completed"},
               conclusion : {"none", "success", "failure", "cancelled"}, attempt : {1, 2}]
         /\ \A r \in Listing(sha) : r.id \in DOMAIN scans /\ r.id # 0
  BY RowTyped DEF Listing

\* A dispatched run names its candidate, a scheduled one its head.
LEMMA ExactNames ==
  ASSUME ScansInv, NEW i \in DOMAIN scans, NEW sha, Exact(scans[i], sha)
  PROVE  scans[i].sha = sha
  BY DEF ScansInv, Exact

\* What a step of the scans, or of main, leaves of the preflight's knowledge.
LEMMA PfStays ==
  ASSUME PfInv, ScansMove, UNCHANGED pf, OnMain \subseteq OnMain'
  PROVE  PfInv'
<1>1. \A i \in DOMAIN scans : Verified(i, pf.sha) => i \in DOMAIN scans' /\ Verified(i, pf.sha)'
  BY DEF ScansMove, Stays, Verified
<1>2. \A i \in DOMAIN scans :
        Exact(scans[i], pf.sha) /\ (Failed(scans[i]) \/ scans[i].attempt # 1) =>
          /\ Exact(scans'[i], pf.sha)
          /\ Failed(scans'[i]) \/ scans'[i].attempt # 1
  BY DEF ScansMove, Stays, Exact, Failed
<1>3. \A i \in DOMAIN scans : i \in DOMAIN scans'
  BY DEF ScansMove, Stays
<1>4. pf' \in PfRecord
  BY DEF PfInv
<1>5. Located'
  BY <1>3 DEF PfInv, Located
<1>6. OfMain'
  BY DEF PfInv, OfMain
<1>7. FailuresCaught'
  BY <1>2, <1>3 DEF PfInv, FailuresCaught, Ambiguous, Active, Done
<1>8. Established'
  BY <1>1 DEF PfInv, Established
<1> QED BY <1>4, <1>5, <1>6, <1>7, <1>8 DEF PfInv

\* Whatever it knew, a rejection is the end.
LEMMA RejectKeeps ==
  ASSUME PfInv, UNCHANGED <<scans, main>>,
         pf' = [pf EXCEPT !.pc = "done", !.result = "rejected"]
  PROVE  PfInv'
<1>1. pf' \in PfRecord /\ pf'.pc = "done" /\ pf'.result = "rejected"
      /\ pf'.listing = pf.listing /\ pf'.todo = pf.todo /\ pf'.selected = pf.selected
      /\ pf'.sha = pf.sha /\ pf'.valid = pf.valid
  BY DEF PfInv, PfRecord
<1> QED BY <1>1 DEF PfInv, Located, OfMain, FailuresCaught, Established, Verified

\* It passes with a scan it has looked through.
LEMMA PassKeeps ==
  ASSUME PfInv, UNCHANGED <<scans, main>>, pf.pc \in {"available", "inspect"},
         \E i \in DOMAIN scans : Verified(i, pf.sha),
         pf' = [pf EXCEPT !.pc = "done", !.result = "passed"]
  PROVE  PfInv'
<1>1. pf' \in PfRecord /\ pf'.pc = "done" /\ pf'.result = "passed"
      /\ pf'.listing = pf.listing /\ pf'.todo = pf.todo /\ pf'.selected = pf.selected
      /\ pf'.sha = pf.sha /\ pf'.valid = pf.valid /\ pf'.failed = pf.failed
  BY DEF PfInv, PfRecord
<1>2. pf.sha \in OnMain /\ pf.failed = {}
  BY DEF PfInv, OfMain, FailuresCaught
<1> QED
  BY <1>1, <1>2 DEF PfInv, Located, OfMain, FailuresCaught, Established, Verified, OnMain

\* A step between two calls, after the decision: no result yet, a run it knows.
LEMMA GoesOn ==
  ASSUME PfInv, UNCHANGED <<scans, main>>, pf' \in PfRecord,
         pf.pc \notin {"idle", "list", "decide", "done"},
         pf'.pc \notin {"idle", "list", "decide", "done"},
         pf'.sha = pf.sha, pf'.listing = pf.listing, pf'.failed = pf.failed,
         pf'.result = pf.result, pf'.todo \subseteq pf.todo,
         pf'.selected # 0 => pf'.selected \in DOMAIN scans,
         pf'.pc \in {"inspect", "state"} => pf'.selected # 0,
         pf'.valid > 0 => \E i \in DOMAIN scans : Verified(i, pf.sha)
  PROVE  PfInv'
<1>1. Located'
  BY DEF PfInv, Located
<1>2. OfMain'
  BY DEF PfInv, OfMain, OnMain
<1>3. FailuresCaught'
  BY DEF PfInv, FailuresCaught
<1>4. Established'
  BY DEF PfInv, Established, Verified
<1> QED BY <1>1, <1>2, <1>3, <1>4 DEF PfInv

\* The smallest of some numbers.
LEMMA SmallestOf ==
  ASSUME NEW S, S \in SUBSET Nat, S # {}
  PROVE  \E k \in S : \A j \in S : k <= j
<1>1. \E k \in S : \A j \in S : <<j, k>> \notin OpToRel(<, Nat)
  BY NatLessThanWellFounded, WFMin
<1>2. \A j \in S, k \in S : <<j, k>> \notin OpToRel(<, Nat) => k <= j
  BY DEF OpToRel
<1> QED BY <1>1, <1>2

LEMMA StartKeeps ==
  ASSUME ScansInv, PfInv, MainRecorded, UNCHANGED main,
         NEW c \in DOMAIN commits, StartPreflight(c, OnMain)
  PROVE  PfInv'
<1> DEFINE failed == {i \in DOMAIN scans : Exact(scans[i], c) /\ Failed(scans[i])}
<1>1. /\ scans' = scans
      /\ pf' = [Idle EXCEPT !.pc = IF c \in OnMain THEN "list" ELSE "done",
                            !.result = IF c \in OnMain THEN "none" ELSE "rejected",
                            !.sha = c, !.failed = failed]
  BY Zenon DEF StartPreflight, Goes, Others
<1>2. c \in Nat /\ DOMAIN scans \subseteq Nat
  BY Appended DEF MainRecorded, ScansInv
<1>3. failed \in SUBSET Nat
  BY <1>2
<1>4. /\ pf' \in PfRecord /\ pf'.sha = c /\ pf'.failed = failed /\ pf'.valid = 0
      /\ pf'.selected = 0 /\ pf'.listing = {} /\ pf'.todo = {} /\ pf'.result # "passed"
      /\ pf'.pc \in {"list", "done"} /\ (pf'.pc = "list" => c \in OnMain)
  <2> HIDE DEF failed
  <2> QED BY <1>1, <1>2, <1>3 DEF Idle, PfRecord
<1>5. \A i \in failed : i \in DOMAIN scans /\ Exact(scans[i], c) /\ Failed(scans[i])
  OBVIOUS
<1> HIDE DEF failed
<1>6. Located' /\ Established'
  BY <1>4 DEF Located, Established
<1>7. OfMain'
  BY <1>4 DEF OfMain, OnMain
<1>8. FailuresCaught'
  BY <1>1, <1>4, <1>5 DEF FailuresCaught
<1> QED BY <1>4, <1>6, <1>7, <1>8 DEF PfInv

\* The first listing shows every scan that had failed, as failed or as run
\* again.
LEMMA ListKeeps == ASSUME ScansInv, PfInv, UNCHANGED main, List PROVE PfInv'
<1> DEFINE rows == Listing(pf.sha)
<1>1. /\ scans' = scans /\ pf.pc = "list"
      /\ pf' = [pf EXCEPT !.pc = "decide", !.listing = rows, !.before = DOMAIN scans]
  BY DEF List, Goes, Others, At
<1>2. \A r \in rows : r.id \in DOMAIN scans
  BY ListingTyped
<1>3. pf.failed # {} => Ambiguous(rows)
  <2> SUFFICES ASSUME NEW i \in pf.failed PROVE Ambiguous(rows) OBVIOUS
  <2>1. /\ i \in DOMAIN scans /\ Exact(scans[i], pf.sha)
        /\ Failed(scans[i]) \/ scans[i].attempt # 1
    BY <1>1 DEF PfInv, FailuresCaught
  <2>2. Row(i) \in rows
    BY <2>1 DEF Listing
  <2>3. Failed(Row(i)) \/ Row(i).attempt # 1
    BY <2>1 DEF Row, Failed, Completed
  <2> QED BY <2>2, <2>3 DEF Ambiguous
<1>4. rows \in SUBSET [id : Nat, event : {"schedule", "workflow_dispatch"}, sha : Nat,
               head : Nat, status : {"queued", "running", "completed"},
               conclusion : {"none", "success", "failure", "cancelled"}, attempt : {1, 2}]
      /\ DOMAIN scans \in SUBSET Nat
  BY ListingTyped DEF ScansInv
<1> HIDE DEF rows
<1>5. /\ pf' \in PfRecord /\ pf'.pc = "decide" /\ pf'.listing = rows
      /\ pf'.sha = pf.sha /\ pf'.failed = pf.failed /\ pf'.todo = pf.todo
      /\ pf'.selected = pf.selected /\ pf'.valid = pf.valid /\ pf'.result = pf.result
  BY <1>1, <1>4 DEF PfInv, PfRecord
<1>6. Located'
  BY <1>1, <1>2, <1>5 DEF PfInv, Located
<1>7. OfMain'
  BY <1>1, <1>5 DEF PfInv, OfMain, OnMain
<1>8. FailuresCaught'
  BY <1>3, <1>5 DEF FailuresCaught, Ambiguous, Active, Done
<1>9. Established'
  BY <1>1, <1>5 DEF PfInv, Established, Verified
<1> QED BY <1>5, <1>6, <1>7, <1>8, <1>9 DEF PfInv

LEMMA DecideKeeps == ASSUME ScansInv, PfInv, UNCHANGED main, Decide PROVE PfInv'
<1> DEFINE ids == {r.id : r \in Done(pf.listing)}
           one == (CHOOSE r \in Active(pf.listing) : TRUE).id
<1>0. scans' = scans /\ pf.pc = "decide" /\ pf.result # "passed" /\ pf \in PfRecord
  BY DEF Decide, Goes, Reject, Others, At, PfInv, Established
<1>1. CASE Ambiguous(pf.listing)
  BY <1>0, <1>1, RejectKeeps DEF Decide, Reject, Goes
<1>2. ASSUME ~Ambiguous(pf.listing), pf'.failed = pf.failed, pf' \in PfRecord,
             pf'.pc \in {"poll", "available", "dispatch"}, pf'.sha = pf.sha,
             pf'.valid = pf.valid, pf'.result = pf.result, pf'.listing = pf.listing,
             pf'.todo \subseteq DOMAIN scans, pf'.selected # 0 => pf'.selected \in DOMAIN scans
      PROVE  PfInv'
  <2>1. Located'
    BY <1>0, <1>2 DEF PfInv, Located
  <2>2. OfMain'
    BY <1>0, <1>2 DEF PfInv, OfMain, OnMain
  <2>3. FailuresCaught'
    BY <1>0, <1>2 DEF PfInv, FailuresCaught
  <2>4. Established'
    BY <1>0, <1>2 DEF PfInv, Established, Verified
  <2> QED BY <1>2, <2>1, <2>2, <2>3, <2>4 DEF PfInv
<1>3. CASE ~Ambiguous(pf.listing) /\ Active(pf.listing) # {}
  <2>1. pf' = [pf EXCEPT !.pc = "poll", !.selected = one]
    BY <1>3 DEF Decide, Goes
  <2>2. one \in DOMAIN scans /\ one \in Nat
    BY <1>0, <1>3 DEF Active, PfInv, Located, PfRecord
  <2> HIDE DEF one
  <2>3. /\ pf' \in PfRecord /\ pf'.pc = "poll" /\ pf'.selected = one
        /\ pf'.sha = pf.sha /\ pf'.failed = pf.failed /\ pf'.todo = pf.todo
        /\ pf'.valid = pf.valid /\ pf'.result = pf.result /\ pf'.listing = pf.listing
    BY <1>0, <2>1, <2>2 DEF PfRecord
  <2> QED BY <1>2, <1>3, <2>2, <2>3 DEF PfInv, Located
<1>4. CASE ~Ambiguous(pf.listing) /\ Active(pf.listing) = {}
  <2> DEFINE next == IF Done(pf.listing) = {} THEN "dispatch" ELSE "available"
  <2>1. pf' = [pf EXCEPT !.todo = ids, !.pc = next]
    BY <1>4 DEF Decide, Goes
  <2>2. ids \subseteq DOMAIN scans /\ ids \in SUBSET Nat
    BY <1>0 DEF Done, PfInv, Located, PfRecord
  <2>3. next \in {"dispatch", "available"}
    OBVIOUS
  <2> HIDE DEF next, ids
  <2>4. /\ pf' \in PfRecord /\ pf'.pc = next /\ pf'.todo = ids
        /\ pf'.sha = pf.sha /\ pf'.failed = pf.failed /\ pf'.selected = pf.selected
        /\ pf'.valid = pf.valid /\ pf'.result = pf.result /\ pf'.listing = pf.listing
    BY <1>0, <2>1, <2>2, <2>3 DEF PfRecord
  <2> QED BY <1>2, <1>4, <2>2, <2>3, <2>4 DEF PfInv, Located
<1> QED BY <1>1, <1>3, <1>4

LEMMA AvailableKeeps == ASSUME ScansInv, PfInv, UNCHANGED main, Available PROVE PfInv'
<1>0. scans' = scans /\ pf.pc = "available" /\ pf \in PfRecord
  BY DEF Available, Goes, Reject, Pass, Others, At, PfInv
<1>1. CASE pf.todo = {} /\ pf.valid > 0
  <2>1. pf' = [pf EXCEPT !.pc = "done", !.result = "passed"]
    BY <1>1 DEF Available, Pass, Goes
  <2> QED BY <1>0, <1>1, <2>1, PassKeeps DEF PfInv, Established
<1>2. CASE pf.todo = {} /\ ~(pf.valid > 0)
  <2>1. pf' = [pf EXCEPT !.pc = "dispatch"]
    BY <1>2 DEF Available, Goes
  <2>2. /\ pf' \in PfRecord /\ pf'.pc = "dispatch" /\ pf'.selected = pf.selected
        /\ pf'.sha = pf.sha /\ pf'.failed = pf.failed /\ pf'.todo = pf.todo
        /\ pf'.valid = pf.valid /\ pf'.result = pf.result /\ pf'.listing = pf.listing
    BY <1>0, <2>1 DEF PfRecord
  <2> QED BY <1>0, <1>2, <2>2, GoesOn DEF PfInv, Located
<1>3. CASE pf.todo # {}
  <2>1. PICK i : /\ i = CHOOSE k \in pf.todo : \A j \in pf.todo : k <= j
                 /\ IF ~Trusted(scans[i], pf.sha) THEN Reject
                    ELSE Goes([pf EXCEPT !.selected = i, !.todo = @ \ {i},
                                 !.pc = IF scans[i].kept THEN "inspect" ELSE "available"])
    BY <1>3, Zenon DEF Available
  <2>2. i \in pf.todo
    <3>1. pf.todo \in SUBSET Nat /\ pf.todo # {}
      BY <1>0, <1>3 DEF PfRecord
    <3>2. \E k \in pf.todo : \A j \in pf.todo : k <= j
      BY <3>1, SmallestOf
    <3> QED BY <2>1, <3>2
  <2>3. i \in DOMAIN scans /\ i \in Nat /\ i # 0
    BY <2>2 DEF PfInv, Located, ScansInv
  <2>4. CASE ~Trusted(scans[i], pf.sha)
    BY <1>0, <2>1, <2>4, RejectKeeps DEF Reject, Goes
  <2>5. CASE Trusted(scans[i], pf.sha)
    <3> DEFINE next == IF scans[i].kept THEN "inspect" ELSE "available"
    <3>1. pf' = [pf EXCEPT !.selected = i, !.todo = @ \ {i}, !.pc = next]
      BY <2>1, <2>5 DEF Goes
    <3>2. next \in {"inspect", "available"}
      OBVIOUS
    <3> HIDE DEF next
    <3>3. /\ pf' \in PfRecord /\ pf'.pc = next /\ pf'.selected = i
          /\ pf'.sha = pf.sha /\ pf'.failed = pf.failed /\ pf'.todo \subseteq pf.todo
          /\ pf'.valid = pf.valid /\ pf'.result = pf.result /\ pf'.listing = pf.listing
      BY <1>0, <2>3, <3>1, <3>2 DEF PfRecord
    <3> QED BY <1>0, <2>3, <3>2, <3>3, GoesOn DEF PfInv, Established
  <2> QED BY <2>4, <2>5
<1> QED BY <1>1, <1>2, <1>3

\* Only a trusted scan whose every language was accepted counts.
LEMMA InspectKeeps == ASSUME ScansInv, PfInv, UNCHANGED main, Inspect(OnMain) PROVE PfInv'
<1>0. scans' = scans /\ pf.pc = "inspect" /\ pf \in PfRecord
  BY DEF Inspect, Goes, Reject, Pass, Others, At, PfInv
<1>1. CASE ~Proven(pf.selected, pf.sha, OnMain)
  BY <1>0, <1>1, RejectKeeps DEF Inspect, Reject, Goes
<1>2. CASE Proven(pf.selected, pf.sha, OnMain)
  <2>1. pf.selected \in DOMAIN scans
    BY <1>0 DEF PfInv, Located
  <2>2. Verified(pf.selected, pf.sha)
    BY <1>2, <2>1, ExactNames DEF Proven, Trusted, Verified
  <2>3. CASE pf.polls > 0
    <3>1. pf' = [pf EXCEPT !.pc = "done", !.result = "passed"]
      BY <1>2, <2>3 DEF Inspect, Pass, Goes
    <3> QED BY <1>0, <2>1, <2>2, <3>1, PassKeeps
  <2>4. CASE ~(pf.polls > 0)
    <3>1. pf' = [pf EXCEPT !.pc = "available", !.valid = @ + 1]
      BY <1>2, <2>4 DEF Inspect, Goes
    <3>2. pf.valid + 1 \in Nat
      BY <1>0 DEF PfRecord
    <3>3. /\ pf' \in PfRecord /\ pf'.pc = "available" /\ pf'.selected = pf.selected
          /\ pf'.sha = pf.sha /\ pf'.failed = pf.failed /\ pf'.todo = pf.todo
          /\ pf'.result = pf.result /\ pf'.listing = pf.listing
      BY <1>0, <3>1, <3>2 DEF PfRecord
    <3> QED BY <1>0, <2>1, <2>2, <3>3, GoesOn
  <2> QED BY <2>3, <2>4
<1> QED BY <1>1, <1>2

LEMMA AdoptKnows ==
  ASSUME ScansInv, PfInv
  PROVE  /\ Adopt(Listing(pf.sha)) \in Nat
         /\ Adopt(Listing(pf.sha)) # 0 => Adopt(Listing(pf.sha)) \in DOMAIN scans
<1>1. pf.selected \in Nat /\ (pf.selected # 0 => pf.selected \in DOMAIN scans)
  BY DEF PfInv, PfRecord, Located
<1>2. \A r \in New(Listing(pf.sha)) : r.id \in DOMAIN scans /\ r.id \in Nat
  BY ListingTyped DEF New, ScansInv
<1> QED BY <1>1, <1>2 DEF Adopt

LEMMA FindKeeps == ASSUME ScansInv, PfInv, UNCHANGED main, Find PROVE PfInv'
<1> DEFINE rows == Listing(pf.sha)
<1>0. scans' = scans /\ pf.pc = "find" /\ pf \in PfRecord
  BY DEF Find, Goes, Reject, Others, At, PfInv
<1>1. CASE Cardinality(New(rows)) > 1
  BY <1>0, <1>1, RejectKeeps DEF Find, Reject, Goes
<1>2. CASE ~(Cardinality(New(rows)) > 1)
  <2>1. pf' = [pf EXCEPT !.pc = "poll", !.selected = Adopt(rows)]
    BY <1>2 DEF Find, Goes
  <2>2. Adopt(rows) \in Nat /\ (Adopt(rows) # 0 => Adopt(rows) \in DOMAIN scans)
    BY AdoptKnows
  <2> HIDE DEF rows
  <2>3. /\ pf' \in PfRecord /\ pf'.pc = "poll" /\ pf'.selected = Adopt(rows)
        /\ pf'.sha = pf.sha /\ pf'.failed = pf.failed /\ pf'.todo = pf.todo
        /\ pf'.valid = pf.valid /\ pf'.result = pf.result /\ pf'.listing = pf.listing
    BY <1>0, <2>1, <2>2 DEF PfRecord
  <2> QED BY <1>0, <2>2, <2>3, GoesOn DEF PfInv, Established
<1> QED BY <1>1, <1>2

LEMMA PollKeeps == ASSUME ScansInv, PfInv, UNCHANGED main, Poll(OnMain) PROVE PfInv'
<1> DEFINE rows == Listing(pf.sha)
<1>0. scans' = scans /\ pf.pc = "poll" /\ pf \in PfRecord
  BY DEF Poll, Goes, Reject, Others, At, PfInv
<1>1. CASE pf.polls = MaxPolls \/ pf.sha \notin OnMain \/ Unclear(rows)
  BY <1>0, <1>1, RejectKeeps DEF Poll, Reject, Goes
<1>2. CASE ~(pf.polls = MaxPolls \/ pf.sha \notin OnMain \/ Unclear(rows))
  <2> DEFINE next == IF Adopt(rows) = 0 THEN "poll" ELSE "state"
  <2>1. pf' = [pf EXCEPT !.polls = @ + 1, !.selected = Adopt(rows), !.pc = next]
    BY <1>2 DEF Poll, Goes
  <2>2. Adopt(rows) \in Nat /\ (Adopt(rows) # 0 => Adopt(rows) \in DOMAIN scans)
    BY AdoptKnows
  <2>3. next \in {"poll", "state"} /\ (next = "state" => Adopt(rows) # 0)
    OBVIOUS
  <2> HIDE DEF rows, next
  <2>4. pf.polls + 1 \in Nat
    BY <1>0 DEF PfRecord
  <2>5. /\ pf' \in PfRecord /\ pf'.pc = next /\ pf'.selected = Adopt(rows)
        /\ pf'.sha = pf.sha /\ pf'.failed = pf.failed /\ pf'.todo = pf.todo
        /\ pf'.valid = pf.valid /\ pf'.result = pf.result /\ pf'.listing = pf.listing
    BY <1>0, <2>1, <2>2, <2>3, <2>4 DEF PfRecord
  <2> QED BY <1>0, <2>2, <2>3, <2>5, GoesOn DEF PfInv, Established
<1> QED BY <1>1, <1>2

LEMMA StateKeeps == ASSUME ScansInv, PfInv, UNCHANGED main, State PROVE PfInv'
<1> DEFINE s == scans[pf.selected]
<1>0. scans' = scans /\ pf.pc = "state" /\ pf \in PfRecord
  BY DEF State, Goes, Reject, Others, At, PfInv
<1>1. CASE ~Exact(s, pf.sha) \/ s.attempt # 1 \/ Failed(s)
  BY <1>0, <1>1, RejectKeeps DEF State, Reject, Goes
<1>2. CASE ~(~Exact(s, pf.sha) \/ s.attempt # 1 \/ Failed(s))
  <2> DEFINE next == IF Completed(s) THEN "inspect" ELSE "poll"
  <2>1. pf' = [pf EXCEPT !.pc = next]
    BY <1>2 DEF State, Goes
  <2>2. next \in {"inspect", "poll"}
    OBVIOUS
  <2> HIDE DEF next
  <2>3. /\ pf' \in PfRecord /\ pf'.pc = next /\ pf'.selected = pf.selected
        /\ pf'.sha = pf.sha /\ pf'.failed = pf.failed /\ pf'.todo = pf.todo
        /\ pf'.valid = pf.valid /\ pf'.result = pf.result /\ pf'.listing = pf.listing
    BY <1>0, <2>1, <2>2 DEF PfRecord
  <2> QED BY <1>0, <2>2, <2>3, GoesOn DEF PfInv, Located, Established
<1> QED BY <1>1, <1>2

\* A request names the candidate; nobody has seen its run yet.
LEMMA DispatchKeeps ==
  ASSUME ScansInv, PfInv, UNCHANGED main, Dispatch \/ DispatchUnanswered
  PROVE  PfInv' /\ ScansInv'
<1>0. /\ scans' = scans /\ pf.pc = "dispatch" /\ pf \in PfRecord
      /\ requested' = Append(requested, pf.sha)
  BY DEF Dispatch, DispatchUnanswered, At, PfInv
<1>1. ScansInv'
  BY <1>0 DEF ScansInv, PfRecord
<1>2. CASE DispatchUnanswered
  BY <1>0, <1>1, <1>2, RejectKeeps DEF DispatchUnanswered
<1>3. CASE Dispatch
  <2>1. pf' = [pf EXCEPT !.pc = "find", !.selected = 0]
    BY <1>3 DEF Dispatch
  <2>2. /\ pf' \in PfRecord /\ pf'.pc = "find" /\ pf'.selected = 0
        /\ pf'.sha = pf.sha /\ pf'.failed = pf.failed /\ pf'.todo = pf.todo
        /\ pf'.valid = pf.valid /\ pf'.result = pf.result /\ pf'.listing = pf.listing
    BY <1>0, <2>1 DEF PfRecord
  <2> QED BY <1>0, <1>1, <2>2, GoesOn DEF PfInv, Established
<1> QED BY <1>2, <1>3

-----------------------------------------------------------------------------
(* The whole path.                                                         *)

LEMMA PfStep ==
  ASSUME ScansInv, PfInv, UNCHANGED main, PreflightStep(OnMain) \/ Trouble
  PROVE  PfInv' /\ ScansInv'
<1>1. CASE Dispatch \/ DispatchUnanswered
  BY <1>1, DispatchKeeps
<1>2. CASE ApiFails
  <2>1. UNCHANGED <<scans, requested>>
        /\ pf' = [pf EXCEPT !.pc = "done", !.result = "rejected"]
    BY <1>2 DEF ApiFails, Reject, Goes, Others
  <2> QED BY <2>1, RejectKeeps DEF ScansInv
<1>3. ASSUME List \/ Decide \/ Available \/ Inspect(OnMain) \/ Find \/ Poll(OnMain) \/ State
      PROVE  PfInv' /\ ScansInv'
  <2>1. UNCHANGED <<scans, requested>>
    BY <1>3 DEF List, Decide, Available, Inspect, Find, Poll, State, Goes, Reject, Pass, Others
  <2> QED BY <1>3, <2>1, ListKeeps, DecideKeeps, AvailableKeeps, InspectKeeps, FindKeeps,
             PollKeeps, StateKeeps DEF ScansInv
<1> QED BY <1>1, <1>2, <1>3 DEF PreflightStep, Trouble

\* Commits are numbers, and main only grows.
LEMMA MainGrows ==
  ASSUME MainInv, [Next]_vars
  PROVE  OnMain \subseteq OnMain' /\ MainHead \in Nat /\ OnMain \subseteq Nat
<1>1. MainHead \in Nat /\ OnMain \subseteq Nat
  <2>1. DOMAIN commits \subseteq Nat
    BY Appended DEF MainInv, MainRecorded
  <2> QED BY <2>1 DEF MainInv, MainRecorded, MainHead, OnMain, RangeOf
<1>2. main' = main \/ \E c \in Nat : main' = Append(main, c)
  <2>1. CASE UNCHANGED main
    BY <2>1
  <2>2. ASSUME NEW t, commits' = Append(commits, t), main' = Append(main, Len(commits'))
        PROVE  \E c \in Nat : main' = Append(main, c)
    <3>1. Len(commits') \in Nat
      BY <2>2, Appended DEF MainInv, MainRecorded
    <3> QED BY <2>2, <3>1
  <2>3. CASE Merge
    BY <2>2, <2>3, Zenon DEF Merge
  <2>4. ASSUME NEW edit, MergeAnother(edit) PROVE \E c \in Nat : main' = Append(main, c)
    <3>1. /\ \E t : commits' = Append(commits, t)
          /\ main' = Append(main, Len(commits'))
      BY <2>4, Zenon DEF MergeAnother
    <3> QED BY <2>2, <3>1
  <2>5. CASE CI \/ Release \/ Scanning \/ Disturb \/ UNCHANGED vars
    BY <2>1, <2>5 DEF CI, Release, Scanning, Disturb, pathVars, vars
  <2>6. ASSUME NEW edit, NEW d, Push(edit, d) PROVE UNCHANGED main
    BY <2>6 DEF Push
  <2>7. CASE ReadyForReview \/ UpdateBranch \/ RunByHand \/ ForgetRun \/ Close \/ DeleteBranches
    BY <2>1, <2>7 DEF ReadyForReview, UpdateBranch, RunByHand, ForgetRun, Close,
                      DeleteBranches, pathVars
  <2> QED BY <2>3, <2>4, <2>5, <2>6, <2>7 DEF Next, PathStep
<1>3. OnMain \subseteq OnMain'
  <2>1. CASE main' = main
    BY <2>1 DEF OnMain
  <2>2. ASSUME NEW c \in Nat, main' = Append(main, c) PROVE OnMain \subseteq OnMain'
    <3>1. main \in Seq(Nat)
      BY Appended DEF MainInv, MainRecorded
    <3>2. /\ DOMAIN main \subseteq DOMAIN main'
          /\ \A i \in DOMAIN main : main'[i] = main[i]
      BY <2>2, <3>1
    <3> QED BY <3>2 DEF OnMain, RangeOf
  <2> QED BY <1>2, <2>1, <2>2
<1> QED BY <1>1, <1>3

LEMMA ReleaseStep ==
  ASSUME MainInv, ScansInv, PfInv, [Next]_vars
  PROVE  ScansInv' /\ PfInv'
<1>1. OnMain \subseteq OnMain' /\ MainHead \in Nat /\ OnMain \subseteq Nat
  BY MainGrows
<1>2. ASSUME ScansStep, UNCHANGED pf PROVE ScansInv' /\ PfInv'
  <2>1. ScansMove
    BY <1>2, ScansStepMoves
  <2> QED BY <1>1, <1>2, <2>1, PfStays DEF ScansMove
<1>3. ASSUME UNCHANGED pfVars PROVE ScansInv' /\ PfInv'
  <2>1. ScansInv'
    BY <1>3 DEF pfVars, ScansInv
  <2>2. \A i \in DOMAIN scans : scans[i].attempt # 1 \/ scans[i].attempt = 1
    OBVIOUS
  <2>3. ScansMove
    BY <1>3, <2>1, <2>2 DEF pfVars, ScansMove, Stays
  <2> QED BY <1>1, <1>3, <2>1, <2>3, PfStays DEF pfVars
<1>4. CASE CI \/ PathStep \/ UNCHANGED vars
  <2>1. UNCHANGED pfVars
    BY <1>4 DEF CI, PathStep, Push, ReadyForReview, UpdateBranch, RunByHand, ForgetRun, Merge,
                Close, MergeAnother, DeleteBranches, vars
  <2> QED BY <1>3, <2>1
<1>5. CASE Release
  <2>1. UNCHANGED main
    BY <1>5 DEF Release, pathVars
  <2>2. CASE PreflightStep(OnMain) \/ Trouble
    BY <2>1, <2>2, PfStep
  <2>3. ASSUME NEW c \in DOMAIN commits, StartPreflight(c, OnMain)
        PROVE  ScansInv' /\ PfInv'
    <3>1. UNCHANGED <<scans, requested>>
      BY <2>3, Zenon DEF StartPreflight, Goes, Others
    <3> QED BY <2>1, <2>3, <3>1, StartKeeps DEF ScansInv, MainInv
  <2> QED BY <1>5, <2>2, <2>3 DEF Release, Preflight
<1>6. CASE Scanning
  <2>1. ScansStep /\ UNCHANGED pf
    BY <1>1, <1>6 DEF Scanning, ScansStep, ScanStep, StartScan, FinishScan, StartRequested
  <2> QED BY <1>2, <2>1
<1>7. CASE Disturb
  <2>1. ScansStep /\ UNCHANGED pf
    BY <1>1, <1>7 DEF Disturb, ScanEvents, ScansStep, Schedule, DispatchByHand, Expire, Rerun
  <2> QED BY <1>2, <2>1
<1> QED BY <1>4, <1>5, <1>6, <1>7 DEF Next

LEMMA ReleaseInit == ASSUME Init PROVE ScansInv /\ PfInv
<1>1. scans = <<>> /\ requested = <<>> /\ pf = Idle
  BY DEF Init
<1>2. ScansInv
  BY <1>1 DEF ScansInv
<1>3. PfInv
  BY <1>1 DEF PfInv, PfRecord, Idle, Located, OfMain, FailuresCaught, Established
<1> QED BY <1>2, <1>3

\* What the preflight establishes, on a main that is sound.
LEMMA PassedIsSound == ASSUME MainSound, PfInv PROVE ReleaseSound
<1> SUFFICES ASSUME pf.result = "passed"
             PROVE  /\ pf.sha \in OnMain /\ SoundTree(commits[pf.sha])
                    /\ pf.failed = {}
                    /\ \E i \in DOMAIN scans :
                         /\ scans[i].sha = pf.sha
                         /\ scans[i].attempt = 1 =>
                              /\ scans[i].conclusion = "success"
                              /\ \A l \in Languages :
                                   /\ Required \subseteq scans[i].proofs[l].rules
                                   /\ \A f \in scans[i].proofs[l].findings :
                                        \A x \in f.scores : x < High
  BY DEF ReleaseSound
<1>1. pf.sha \in OnMain /\ pf.failed = {}
  BY DEF PfInv, OfMain, Established
<1>2. PICK i \in DOMAIN scans : Verified(i, pf.sha)
  BY DEF PfInv, Established
<1> QED BY <1>1, <1>2 DEF MainSound, Verified, Accepts

\* The invariant of the preflight, beside that of main.
THEOREM ReleaseInvariance == Spec => [](MainInv /\ ScansInv /\ PfInv)
<1>1. Init => GateInv /\ MainInv /\ ScansInv /\ PfInv
  BY InitHolds, MainInit, ReleaseInit DEF Init
<1>2. GateInv /\ MainInv /\ ScansInv /\ PfInv /\ [Next]_vars
        => GateInv' /\ MainInv' /\ ScansInv' /\ PfInv'
  BY StepHolds, MainStep, ReleaseStep
<1> QED BY <1>1, <1>2, PTL DEF Spec

\* A candidate that passes is a sound commit of main with an accepted scan of
\* its own, for any number of scans, languages, polls and reruns.
THEOREM ReleaseSoundness == Spec => []ReleaseSound
<1>1. MainInv /\ PfInv => ReleaseSound
  BY PassedIsSound DEF MainInv
<1> QED BY <1>1, ReleaseInvariance, PTL
-----------------------------------------------------------------------------
(* The evidence.                                                           *)

\* The commits that claims of a tree name as their producers.
Producers(t) ==
    {t.projects[d].claim.producer :
       d \in {x \in DOMAIN t.projects : t.projects[x].claim # NoEvidence}}

\* Directories that replace a source where provenance does not look.
HiddenSources(t) ==
    {d \in DOMAIN t.projects :
       t.projects[d].sourced /\ \A e \in Workloads(t) : e.path # d}

\* What is asked of the trees: the registry's arrays are sequences.
ArraysAreListed(AllTrees) ==
    \A t \in AllTrees : /\ t.workloads \in Seq(RangeOf(t.workloads))
                        /\ t.fixtures \in Seq(RangeOf(t.fixtures))

\* What is asked of the edits: a commit cannot name itself or a later one as
\* the producer of its evidence, and it replaces sources of workloads only.
EditsAreHonest(AllTrees) ==
    \A edit \in Edits : \A t \in AllTrees, made \in [id : Nat, base : Nat, from : AllTrees] :
      LET s == Applied(edit, t, made)
      IN  /\ s \in AllTrees
          /\ Producers(s) \subseteq Producers(t) \cup {made.base}
          /\ HiddenSources(t) = {} => HiddenSources(s) = {}

\* What is asked of the start: main holds an accepted tree.
FirstCheckout ==
    [tree |-> FirstTree, history |-> <<FirstTree>>, objects |-> [k \in {1} |-> FirstTree]]
StartIsAccepted(AllTrees) ==
    /\ FirstTree \in AllTrees
    /\ Provenance(FirstTree) /\ Evidence(FirstCheckout)
    /\ HiddenSources(FirstTree) = {} /\ Producers(FirstTree) \subseteq {1}

\* The part of a claim that only its own tree decides.
HoldsByItself(t, e, m) ==
    LET p == t.projects[e.path]
    IN  /\ WellFormed(m) /\ m.workload = e.name
        /\ RecordsAccepted(p, m)
        /\ m.excluded = Artifacts(m) /\ m.digest = m.entries
        /\ ManifestAccepted(m.entries) /\ LockfileAccepted(m.entries)
        /\ m.crates = {<<d.package, d.version>> : d \in m.entries.first}
        /\ RetentionAccepted(p, m) /\ VerifierAccepted(p, m)

\* A producer that is still there is the one that was recorded.
ProducerFits(e, m, t) == ClosureAt(t, e.path) = m.entries /\ ~ SourceReplaced(t, e.path)

Reachable == OnMain \cup refs

Claimed ==
    \A e \in Retaining(MainTree) :
      LET m == MainTree.projects[e.path].claim IN
      /\ e.path \in DOMAIN MainTree.projects
      /\ HoldsByItself(MainTree, e, m)
      /\ \A k \in Reachable : k = m.producer => ProducerFits(e, m, commits[k])

\* No tree on main replaces a source, of whatever project.
NothingReplaced(t) == ~ t.sourced /\ \A d \in DOMAIN t.projects : ~ t.projects[d].sourced
Unreplaced == \A c \in OnMain : NothingReplaced(commits[c])

\* Claims name commits of the past, those of main none of the open branch.
Past(AllTrees) ==
    /\ commits \in Seq(AllTrees)
    /\ \A c \in DOMAIN commits :
         HiddenSources(commits[c]) = {} /\ Producers(commits[c]) \subseteq 1..Len(commits)
    /\ refs \subseteq DOMAIN commits
    /\ \A k \in RangeOf(branch.ids) : k \notin OnMain /\ k \notin Producers(MainTree)

BranchRecorded(AllTrees) ==
    /\ DOMAIN branch = DOMAIN NoBranch
    /\ branch.ids \in Seq(DOMAIN commits)
    /\ branch.edits \in Seq(Edits \X [id : Nat, base : DOMAIN commits, from : AllTrees])

\* The run of the pull request saw every commit that a squash leaves.
Seen ==
    branch.open /\ checkout.base = Len(main) =>
      \A k \in Reachable \cup RangeOf(branch.ids) :
        k \in DOMAIN checkout.objects /\ checkout.objects[k] = commits[k]

EvidenceInv(AllTrees) == Claimed /\ Unreplaced /\ Past(AllTrees) /\ BranchRecorded(AllTrees) /\ Seen

\* What a recursion over the edits of a branch computes, step by step.
LEMMA RebasedIs ==
  ASSUME NEW edits, NEW t, Len(edits) \in Nat
  PROVE  \E f : /\ f[0] = t
                /\ \A k \in 1..Len(edits) :
                     f[k] = Applied(edits[k][1], f[k - 1], edits[k][2])
                /\ Rebased(edits, t) = f[Len(edits)]
<1> DEFINE n == Len(edits)
           Next1(g, k) == IF k = 0 THEN t ELSE Applied(edits[k][1], g[k - 1], edits[k][2])
           Solves(g, m) == g = [k \in 0..m |-> Next1(g, k)]
           Unsolved == {m \in 0..n : ~ \E g : Solves(g, m)}
<1>1. Unsolved = {}
  <2> SUFFICES ASSUME Unsolved # {} PROVE FALSE OBVIOUS
  <2>1. Unsolved \in SUBSET Nat
    OBVIOUS
  <2>2. PICK m \in Unsolved : \A j \in Unsolved : m <= j
    BY <2>1, SmallestOf
  <2>3. m \in 0..n /\ ~ \E g : Solves(g, m)
    OBVIOUS
  <2>4. CASE m = 0
    <3> DEFINE g == [k \in 0..0 |-> t]
    <3>1. Solves(g, 0)
      OBVIOUS
    <3> QED BY <2>3, <2>4, <3>1
  <2>5. CASE m # 0
    <3>1. m - 1 \in 0..n /\ m \in 1..n
      BY <2>3, <2>5
    <3>2. m - 1 \notin Unsolved
      <4>1. ~ m <= m - 1
        BY <2>3
      <4> QED BY <2>2, <4>1
    <3>3. PICK h : Solves(h, m - 1)
      BY <3>1, <3>2
    <3> DEFINE g == [k \in 0..m |-> IF k = m THEN Applied(edits[m][1], h[m - 1], edits[m][2])
                                    ELSE h[k]]
    <3>4. \A k \in 0..(m - 1) : g[k] = h[k] /\ h[k] = Next1(h, k)
      BY <3>1, <3>3
    <3>5. ASSUME NEW k \in 0..m PROVE g[k] = Next1(g, k)
      <4>1. CASE k = m
        BY <3>1, <3>4, <4>1
      <4>2. CASE k # m
        <5>1. k \in 0..(m - 1)
          BY <3>1, <4>2
        <5>2. k # 0 => k - 1 \in 0..(m - 1) /\ g[k - 1] = h[k - 1]
          BY <3>1, <3>4, <5>1
        <5> QED BY <3>4, <5>1, <5>2
      <4> QED BY <4>1, <4>2
    <3> HIDE DEF Next1
    <3>6. Solves(g, m)
      BY <3>5
    <3> QED BY <2>3, <3>6
  <2> QED BY <2>4, <2>5
<1> DEFINE after == CHOOSE g : Solves(g, n)
<1>2. Solves(after, n)
  <2>1. \E g : Solves(g, n)
    BY <1>1
  <2> QED BY <2>1
<1>3. Rebased(edits, t) = after[n]
  BY Zenon DEF Rebased
<1> HIDE DEF after
<1>4. after[0] = t /\ \A k \in 1..n : after[k] = Applied(edits[k][1], after[k - 1], edits[k][2])
  BY <1>2
<1> QED BY <1>3, <1>4

\* A squash is a tree like any other: it names as producers what the tree below
\* and the edits name, and hides no source that was not hidden before.
LEMMA RebasedKeeps ==
  ASSUME NEW AllTrees, EditsAreHonest(AllTrees), NEW t \in AllTrees, NEW edits,
         edits \in Seq(Edits \X [id : Nat, base : Nat, from : AllTrees])
  PROVE  /\ Rebased(edits, t) \in AllTrees
         /\ Producers(Rebased(edits, t))
              \subseteq Producers(t) \cup {edits[i][2].base : i \in DOMAIN edits}
         /\ HiddenSources(t) = {} => HiddenSources(Rebased(edits, t)) = {}
<1> DEFINE n == Len(edits)
           Bases == {edits[i][2].base : i \in DOMAIN edits}
           Kept(s) == /\ s \in AllTrees /\ Producers(s) \subseteq Producers(t) \cup Bases
                      /\ HiddenSources(t) = {} => HiddenSources(s) = {}
<1>1. n \in Nat /\ DOMAIN edits = 1..n
  OBVIOUS
<1>2. \A i \in 1..n : /\ edits[i][1] \in Edits
                      /\ edits[i][2] \in [id : Nat, base : Nat, from : AllTrees]
                      /\ edits[i][2].base \in Bases
  <2> DEFINE Mades == [id : Nat, base : Nat, from : AllTrees]
  <2>1. \A x \in Edits \X Mades : x[1] \in Edits /\ x[2] \in Mades
    OBVIOUS
  <2>2. \A i \in 1..n : edits[i] \in Edits \X Mades
    BY <1>1
  <2> HIDE DEF Mades
  <2>3. \A i \in 1..n : edits[i][1] \in Edits /\ edits[i][2] \in Mades
    BY <2>1, <2>2
  <2>4. \A i \in 1..n : edits[i][2].base \in Bases
    BY <1>1
  <2> QED BY <2>3, <2>4 DEF Mades
<1>3. PICK f : /\ f[0] = t
               /\ \A k \in 1..n : f[k] = Applied(edits[k][1], f[k - 1], edits[k][2])
               /\ Rebased(edits, t) = f[n]
  BY <1>1, RebasedIs
<1>4. \A s, edit, made : /\ Kept(s) /\ edit \in Edits /\ made.base \in Bases
                         /\ made \in [id : Nat, base : Nat, from : AllTrees]
                         => Kept(Applied(edit, s, made))
  <2> SUFFICES ASSUME NEW s, NEW edit, NEW made, Kept(s), edit \in Edits, made.base \in Bases,
                      made \in [id : Nat, base : Nat, from : AllTrees]
               PROVE  Kept(Applied(edit, s, made))
    BY Zenon
  <2> DEFINE u == Applied(edit, s, made)
  <2>1. /\ u \in AllTrees
        /\ Producers(u) \subseteq Producers(s) \cup {made.base}
        /\ HiddenSources(s) = {} => HiddenSources(u) = {}
    BY DEF EditsAreHonest
  <2>2. /\ s \in AllTrees /\ Producers(s) \subseteq Producers(t) \cup Bases
        /\ HiddenSources(t) = {} => HiddenSources(s) = {}
    OBVIOUS
  <2> HIDE DEF u, Bases
  <2>3. Producers(u) \subseteq Producers(t) \cup Bases
    BY <2>1, <2>2
  <2> QED BY <2>1, <2>2, <2>3 DEF u
<1>5. Kept(t)
  OBVIOUS
<1> DEFINE Lost == {k \in 0..n : ~ Kept(f[k])}
<1> HIDE DEF Kept, Bases
<1>6. Lost = {}
  <2> SUFFICES ASSUME Lost # {} PROVE FALSE OBVIOUS
  <2>1. Lost \in SUBSET Nat
    OBVIOUS
  <2>2. PICK k \in Lost : \A j \in Lost : k <= j
    BY <2>1, SmallestOf
  <2>3. k \in 0..n /\ ~ Kept(f[k])
    OBVIOUS
  <2>4. k # 0
    BY <1>3, <1>5, <2>3
  <2>5. k \in 1..n /\ k - 1 \in 0..n /\ ~ k <= k - 1
    BY <1>1, <2>3, <2>4
  <2>6. Kept(f[k - 1])
    BY <2>2, <2>5
  <2>7. Kept(Applied(edits[k][1], f[k - 1], edits[k][2]))
    BY <1>2, <1>4, <2>5, <2>6
  <2>8. f[k] = Applied(edits[k][1], f[k - 1], edits[k][2])
    BY <1>3, <2>5
  <2> QED BY <2>3, <2>7, <2>8
<1>7. Kept(Rebased(edits, t))
  BY <1>1, <1>3, <1>6
<1> QED BY <1>7 DEF Kept, Bases

\* What the acceptance of a claim says of its tree and of its producer.
LEMMA AcceptedClaim ==
  ASSUME NEW c, NEW e, NEW m, ClaimAccepted(c, e, m)
  PROVE  /\ HoldsByItself(c.tree, e, m)
         /\ m.producer \in DOMAIN c.objects => ProducerFits(e, m, c.objects[m.producer])
<1>1. HoldsByItself(c.tree, e, m)
  BY DEF ClaimAccepted, ClosureAccepted, SubjectAccepted, HoldsByItself
<1>2. ASSUME m.producer \in DOMAIN c.objects PROVE ProducerFits(e, m, c.objects[m.producer])
  <2>1. ProducerAvailable(c, m)
    BY <1>2 DEF ProducerAvailable
  <2>2. ClosureAt(c.objects[m.producer], e.path) = m.entries
    BY <2>1 DEF ClaimAccepted, ClosureAccepted, ProducerAgrees
  <2>3. ~ SourceReplaced(c.objects[m.producer], e.path)
    BY <2>1 DEF ClaimAccepted, SubjectAccepted, ContextTree
  <2> QED BY <2>2, <2>3 DEF ProducerFits
<1> QED BY <1>1, <1>2

\* The other way around, on the checkout of main.
LEMMA ClaimStays ==
  ASSUME MainRecorded, Unreplaced, NEW e, NEW m,
         MainTree.projects[e.path].claim = m,
         HoldsByItself(MainTree, e, m),
         \A k \in Reachable : k = m.producer => ProducerFits(e, m, commits[k]),
         Representations(CheckoutOf(MainTree, commits, <<>>, refs), e.path, m.entries) # {}
  PROVE  ClaimAccepted(CheckoutOf(MainTree, commits, <<>>, refs), e, m)
<1> DEFINE c == CheckoutOf(MainTree, commits, <<>>, refs)
           reps == Representations(c, e.path, m.entries)
<1>1. c.tree = MainTree /\ DOMAIN c.objects = Reachable
      /\ \A k \in Reachable : c.objects[k] = commits[k]
  <2>1. RangeOf(<<>>) = {}
    BY DEF RangeOf
  <2> QED BY <2>1 DEF CheckoutOf, Reachable
<1>2. ASSUME NEW i \in DOMAIN c.history PROVE NothingReplaced(c.history[i])
  <2>1. Len(main) \in Nat /\ DOMAIN main = 1..Len(main) /\ MainHead \in OnMain
    BY DEF MainRecorded, MainHead, OnMain, RangeOf
  <2>2. DOMAIN c.history = 1..(Len(main) + 1)
    BY <2>1 DEF CheckoutOf
  <2>3. c.history[i] = IF i <= Len(main) THEN commits[main[i]] ELSE MainTree
    BY <2>1, <2>2 DEF CheckoutOf
  <2>4. i <= Len(main) => main[i] \in OnMain
    BY <2>1, <2>2 DEF OnMain, RangeOf
  <2> QED BY <2>1, <2>3, <2>4 DEF Unreplaced, MainTree
<1>3. ProducerAvailable(c, m) => ProducerFits(e, m, c.objects[m.producer])
  BY <1>1 DEF ProducerAvailable
<1>4. ClosureAccepted(c, e.path, m)
  BY <1>3 DEF ClosureAccepted, ProducerAgrees, ProducerFits, HoldsByItself
<1>5. ~ SourceReplaced(ContextTree(c, e.path, m), e.path)
  <2>1. CASE ProducerAvailable(c, m)
    BY <1>3, <2>1 DEF ContextTree, ProducerFits
  <2>2. CASE ~ ProducerAvailable(c, m)
    <3>1. reps \in SUBSET Nat /\ reps \subseteq DOMAIN c.history
      <4>1. DOMAIN c.history = 1..(Len(main) + 1) /\ Len(main) \in Nat
        BY DEF CheckoutOf, MainRecorded
      <4> QED BY <4>1 DEF Representations
    <3>2. \E i \in reps : \A j \in reps : i <= j
      BY <3>1, SmallestOf
    <3> DEFINE first == CHOOSE i \in reps : \A j \in reps : i <= j
    <3>3. first \in DOMAIN c.history
      BY <3>1, <3>2
    <3>4. ContextTree(c, e.path, m) = c.history[first]
      BY <2>2 DEF ContextTree
    <3> QED BY <1>2, <3>3, <3>4 DEF NothingReplaced, SourceReplaced
  <2> QED BY <2>1, <2>2
<1>6. SubjectAccepted(c, e.path, m)
  BY <1>5 DEF SubjectAccepted, HoldsByItself
<1> HIDE DEF c
<1>7. ClaimAccepted(c, e, m)
  BY <1>1, <1>4, <1>6 DEF ClaimAccepted, HoldsByItself
<1> QED BY <1>7 DEF c

\* What provenance looks at, and what it does not look at.
LEMMA AcceptedReplacesNothing ==
  ASSUME NEW t, Provenance(t), HiddenSources(t) = {}
  PROVE  NothingReplaced(t)
BY DEF Provenance, HiddenSources, NothingReplaced

\* The invariant decides the property.
LEMMA ClaimedSurvives ==
  ASSUME NEW AllTrees, MainInv, EvidenceInv(AllTrees)
  PROVE  EvidenceSurvives
<1> DEFINE c == CheckoutOf(MainTree, commits, <<>>, refs)
<1> SUFFICES ASSUME NEW e \in Retaining(MainTree),
                    Representations(c, e.path, MainTree.projects[e.path].claim.entries) # {}
             PROVE  ClaimAccepted(c, e, MainTree.projects[e.path].claim)
  BY DEF EvidenceSurvives
<1>1. MainRecorded /\ Unreplaced /\ Claimed
  BY DEF MainInv, EvidenceInv
<1> QED BY <1>1, ClaimStays DEF Claimed

\* What a commit on top of those there are changes.
LEMMA CommitAdded ==
  ASSUME NEW AllTrees, MainRecorded, Past(AllTrees), NEW t \in AllTrees,
         HiddenSources(t) = {}, Producers(t) \subseteq 1..Len(commits),
         commits' = Append(commits, t)
  PROVE  /\ Len(commits) \in Nat /\ DOMAIN commits = 1..Len(commits)
         /\ commits' \in Seq(AllTrees) /\ Len(commits') = Len(commits) + 1
         /\ DOMAIN commits' = 1..(Len(commits) + 1)
         /\ \A k \in DOMAIN commits : k \in DOMAIN commits' /\ commits'[k] = commits[k]
         /\ commits'[Len(commits) + 1] = t
         /\ \A k \in DOMAIN commits' :
              HiddenSources(commits'[k]) = {} /\ Producers(commits'[k]) \subseteq 1..Len(commits')
<1>1. /\ Len(commits) \in Nat /\ DOMAIN commits = 1..Len(commits)
      /\ commits' \in Seq(AllTrees) /\ Len(commits') = Len(commits) + 1
      /\ DOMAIN commits' = 1..(Len(commits) + 1)
      /\ \A k \in 1..Len(commits) : commits'[k] = commits[k]
      /\ commits'[Len(commits) + 1] = t
  <2>1. commits \in Seq(AllTrees)
    BY DEF Past
  <2> QED BY <2>1, AppendProperties
<1>2. 1..Len(commits) \subseteq 1..Len(commits')
  BY <1>1
<1>3. ASSUME NEW k \in DOMAIN commits'
      PROVE  HiddenSources(commits'[k]) = {} /\ Producers(commits'[k]) \subseteq 1..Len(commits')
  <2>1. CASE k = Len(commits) + 1
    BY <1>1, <1>2, <2>1
  <2>2. CASE k \in DOMAIN commits
    <3>1. HiddenSources(commits[k]) = {} /\ Producers(commits[k]) \subseteq 1..Len(commits)
      BY <2>2 DEF Past
    <3> QED BY <1>1, <1>2, <2>2, <3>1
  <2>3. k = Len(commits) + 1 \/ k \in DOMAIN commits
    BY <1>1
  <2> QED BY <2>1, <2>2, <2>3
<1> QED BY <1>1, <1>2, <1>3

\* Commits that are on main, reachable or of the branch are commits.
LEMMA KnownCommits ==
  ASSUME NEW AllTrees, MainRecorded, Past(AllTrees), BranchRecorded(AllTrees)
  PROVE  /\ Reachable \subseteq DOMAIN commits /\ OnMain \subseteq DOMAIN commits
         /\ RangeOf(branch.ids) \subseteq DOMAIN commits
         /\ MainHead \in OnMain /\ DOMAIN commits = 1..Len(commits) /\ Len(commits) \in Nat
         /\ DOMAIN commits \subseteq Nat
         /\ \A k \in DOMAIN commits : commits[k] \in AllTrees
<1>1. OnMain \subseteq DOMAIN commits /\ MainHead \in OnMain
  BY DEF MainRecorded, OnMain, RangeOf, MainHead
<1>2. RangeOf(branch.ids) \subseteq DOMAIN commits
  BY DEF BranchRecorded, RangeOf
<1>3. commits \in Seq(AllTrees) /\ refs \subseteq DOMAIN commits
  BY DEF Past
<1>4. /\ DOMAIN commits = 1..Len(commits) /\ Len(commits) \in Nat
      /\ \A k \in DOMAIN commits : commits[k] \in AllTrees
  BY <1>3
<1> QED BY <1>1, <1>2, <1>3, <1>4 DEF Reachable

\* The workloads are listed.
LEMMA WorkloadsAreEntries ==
  ASSUME NEW AllTrees, ArraysAreListed(AllTrees), NEW t \in AllTrees
  PROVE  Workloads(t) \subseteq Entries(t)
<1> DEFINE W == t.workloads
           F == t.fixtures
           S == RangeOf(W) \cup RangeOf(F)
<1>1. W \in Seq(RangeOf(W)) /\ F \in Seq(RangeOf(F))
  BY DEF ArraysAreListed
<1> HIDE DEF W, F
<1>2. W \in Seq(S) /\ F \in Seq(S)
  BY <1>1
<1>3. \A i \in DOMAIN W : i \in DOMAIN (W \o F) /\ (W \o F)[i] = W[i]
  <2> HIDE DEF S
  <2> QED BY <1>2
<1>4. \A x \in RangeOf(W) : x \in RangeOf(W \o F)
  BY <1>3 DEF RangeOf
<1> QED BY <1>4 DEF Workloads, Entries, Listed, W, F

\* A new tree on main keeps the evidence, when a run that saw every commit that
\* is left has accepted it.
LEMMA MainAdvances ==
  ASSUME NEW AllTrees, ArraysAreListed(AllTrees), MainInv, EvidenceInv(AllTrees),
         NEW t \in AllTrees, NEW c,
         HiddenSources(t) = {}, Producers(t) \subseteq 1..Len(commits),
         Provenance(t), Evidence(c), c.tree = t,
         commits' = Append(commits, t), main' = Append(main, Len(commits')),
         refs' \subseteq DOMAIN commits,
         \A k \in OnMain \cup refs' : k \in DOMAIN c.objects /\ c.objects[k] = commits[k]
  PROVE  /\ Claimed' /\ Unreplaced' /\ MainTree' = t
         /\ OnMain' = OnMain \cup {Len(commits) + 1}
<1>0. MainRecorded /\ Claimed /\ Unreplaced /\ Past(AllTrees) /\ BranchRecorded(AllTrees)
  BY DEF MainInv, EvidenceInv
<1>1. /\ Len(commits) \in Nat /\ DOMAIN commits = 1..Len(commits)
      /\ Len(commits') = Len(commits) + 1
      /\ \A k \in DOMAIN commits : commits'[k] = commits[k]
      /\ commits'[Len(commits) + 1] = t
  BY <1>0, CommitAdded
<1>2. /\ Len(main') = Len(main) + 1 /\ Len(main) \in Nat /\ DOMAIN main = 1..Len(main)
      /\ DOMAIN main' = 1..(Len(main) + 1)
      /\ \A i \in 1..Len(main) : main'[i] = main[i]
      /\ main'[Len(main) + 1] = Len(commits) + 1
  <2>1. main \in Seq(Nat)
    BY <1>0, <1>1 DEF MainRecorded
  <2> QED BY <1>1, <2>1, AppendProperties
<1>3. MainHead' = Len(commits) + 1 /\ MainTree' = t
  BY <1>1, <1>2 DEF MainHead, MainTree
<1>4. OnMain' = OnMain \cup {Len(commits) + 1}
  <2>1. \A k : k \in OnMain' <=> \E i \in 1..(Len(main) + 1) : main'[i] = k
    BY <1>2 DEF OnMain, RangeOf
  <2>2. \A k : k \in OnMain <=> \E i \in 1..Len(main) : main[i] = k
    BY <1>2 DEF OnMain, RangeOf
  <2>3. \A i : i \in 1..(Len(main) + 1) <=> i \in 1..Len(main) \/ i = Len(main) + 1
    BY <1>2
  <2>4. \A k : k \in OnMain' <=> k \in OnMain \/ k = Len(commits) + 1
    BY <1>2, <2>1, <2>2, <2>3
  <2> QED BY <2>4
<1>5. OnMain \subseteq DOMAIN commits
  BY <1>0, KnownCommits
<1>6. Unreplaced'
  <2>1. NothingReplaced(t)
    BY AcceptedReplacesNothing
  <2> QED BY <1>0, <1>1, <1>4, <1>5, <2>1 DEF Unreplaced
<1>7. Claimed'
  <2> SUFFICES ASSUME NEW e \in Retaining(t)
               PROVE  LET m == t.projects[e.path].claim IN
                      /\ e.path \in DOMAIN t.projects /\ HoldsByItself(t, e, m)
                      /\ \A k \in Reachable' : k = m.producer => ProducerFits(e, m, commits'[k])
    BY <1>3 DEF Claimed
  <2> DEFINE m == t.projects[e.path].claim
  <2>1. ClaimAccepted(c, e, m)
    BY DEF Evidence
  <2>2. /\ HoldsByItself(t, e, m)
        /\ m.producer \in DOMAIN c.objects => ProducerFits(e, m, c.objects[m.producer])
    BY <2>1, AcceptedClaim
  <2>3. e.path \in DOMAIN t.projects /\ m # NoEvidence
    <3>1. e \in Entries(t)
      <4>1. e \in Workloads(t)
        BY DEF Retaining
      <4> QED BY <4>1, WorkloadsAreEntries
    <3> QED BY <3>1 DEF Evidence, Registered, EntryAccepted, CargoDirs, Retaining
  <2>4. m.producer \in 1..Len(commits)
    BY <2>3 DEF Producers
  <2>5. ASSUME NEW k \in Reachable', k = m.producer PROVE ProducerFits(e, m, commits'[k])
    <3>1. k \in OnMain \cup refs'
      BY <1>1, <1>4, <2>4, <2>5 DEF Reachable
    <3>2. k \in DOMAIN commits /\ commits'[k] = commits[k]
      BY <1>1, <2>4, <2>5
    <3> QED BY <2>2, <2>5, <3>1, <3>2
  <2> QED BY <2>2, <2>3, <2>5
<1> QED BY <1>3, <1>4, <1>6, <1>7

\* A run that is triggered sees every commit there is.
LEMMA TriggerSees ==
  ASSUME NEW b, NEW all, Trigger(b, all), branch' = b, commits' = all, UNCHANGED <<main, refs>>
  PROVE  Seen'
<1>1. checkout'.objects = [k \in OnMain \cup RangeOf(b.ids) \cup refs |-> all[k]]
  BY DEF Trigger, Begin, CheckoutOf
<1>2. OnMain' = OnMain /\ Reachable' = OnMain \cup refs
  BY DEF OnMain, Reachable
<1>3. (RangeOf(branch.ids))' = RangeOf(b.ids)
  BY DEF RangeOf
<1> QED BY <1>1, <1>2, <1>3 DEF Seen

\* The edits of a branch stay recorded as there are more commits.
LEMMA EditsStay ==
  ASSUME NEW AllTrees, NEW S, NEW T, S \subseteq T, NEW edits,
         edits \in Seq(Edits \X [id : Nat, base : S, from : AllTrees])
  PROVE  edits \in Seq(Edits \X [id : Nat, base : T, from : AllTrees])
<1> DEFINE A == [id : Nat, base : S, from : AllTrees]
           B == [id : Nat, base : T, from : AllTrees]
<1>1. A \subseteq B
  OBVIOUS
<1> HIDE DEF A, B
<1>2. Edits \X A \subseteq Edits \X B
  BY <1>1
<1> DEFINE C == Edits \X A
           D == Edits \X B
<1>3. edits \in Seq(C) /\ C \subseteq D
  BY <1>2 DEF A
<1> HIDE DEF C, D
<1>4. edits \in Seq(D)
  BY <1>3
<1> QED BY <1>4 DEF D, B

\* Main as it was, with more commits or fewer branches.
LEMMA SameClaims ==
  ASSUME NEW AllTrees, MainInv, EvidenceInv(AllTrees), UNCHANGED main,
         DOMAIN commits \subseteq DOMAIN commits',
         \A k \in DOMAIN commits : commits'[k] = commits[k],
         \A k \in refs' : k \in refs \/ (k \in DOMAIN commits /\ k \notin Producers(MainTree))
  PROVE  Claimed' /\ Unreplaced' /\ MainTree' = MainTree /\ OnMain' = OnMain
<1>0. MainRecorded /\ Claimed /\ Unreplaced /\ Past(AllTrees) /\ BranchRecorded(AllTrees)
  BY DEF MainInv, EvidenceInv
<1>1. /\ OnMain \subseteq DOMAIN commits /\ MainHead \in DOMAIN commits
      /\ Reachable \subseteq DOMAIN commits
  BY <1>0, KnownCommits
<1>2. OnMain' = OnMain /\ MainHead' = MainHead
  BY DEF OnMain, MainHead
<1>3. MainTree' = MainTree
  BY <1>1, <1>2 DEF MainTree
<1>4. Unreplaced'
  BY <1>0, <1>1, <1>2 DEF Unreplaced
<1>5. Claimed'
  <2> SUFFICES ASSUME NEW e \in Retaining(MainTree)
               PROVE  LET m == MainTree.projects[e.path].claim IN
                      /\ e.path \in DOMAIN MainTree.projects /\ HoldsByItself(MainTree, e, m)
                      /\ \A k \in Reachable' : k = m.producer => ProducerFits(e, m, commits'[k])
    BY <1>3 DEF Claimed
  <2> DEFINE m == MainTree.projects[e.path].claim
  <2>1. /\ e.path \in DOMAIN MainTree.projects /\ HoldsByItself(MainTree, e, m)
        /\ \A k \in Reachable : k = m.producer => ProducerFits(e, m, commits[k])
    BY <1>0 DEF Claimed
  <2>2. m.producer \in Producers(MainTree)
    BY <2>1 DEF Producers, Retaining
  <2>3. ASSUME NEW k \in Reachable', k = m.producer PROVE ProducerFits(e, m, commits'[k])
    <3>1. k \in Reachable
      BY <1>2, <2>2, <2>3 DEF Reachable
    <3> QED BY <1>1, <2>1, <2>3, <3>1
  <2> QED BY <2>1, <2>3
<1> QED BY <1>2, <1>3, <1>4, <1>5

\* A commit of a branch.
LEMMA BranchCommit ==
  ASSUME NEW AllTrees, MainInv, EvidenceInv(AllTrees), NEW t \in AllTrees,
         HiddenSources(t) = {}, Producers(t) \subseteq 1..Len(commits),
         commits' = Append(commits, t), UNCHANGED <<main, refs>>,
         DOMAIN branch' = DOMAIN NoBranch,
         branch'.ids = Append(branch.ids, Len(commits) + 1),
         branch'.edits \in Seq(Edits \X [id : Nat, base : DOMAIN commits, from : AllTrees]),
         Seen'
  PROVE  EvidenceInv(AllTrees)'
<1>0. MainRecorded /\ Claimed /\ Unreplaced /\ Past(AllTrees) /\ BranchRecorded(AllTrees)
  BY DEF MainInv, EvidenceInv
<1>1. /\ Len(commits) \in Nat /\ DOMAIN commits = 1..Len(commits)
      /\ commits' \in Seq(AllTrees) /\ Len(commits') = Len(commits) + 1
      /\ DOMAIN commits' = 1..(Len(commits) + 1)
      /\ \A k \in DOMAIN commits : k \in DOMAIN commits' /\ commits'[k] = commits[k]
      /\ \A k \in DOMAIN commits' :
           HiddenSources(commits'[k]) = {} /\ Producers(commits'[k]) \subseteq 1..Len(commits')
  BY <1>0, CommitAdded
<1>2. /\ OnMain \subseteq DOMAIN commits /\ refs \subseteq DOMAIN commits
      /\ MainHead \in DOMAIN commits
  BY <1>0, KnownCommits DEF Reachable
<1>3. Claimed' /\ Unreplaced' /\ MainTree' = MainTree /\ OnMain' = OnMain
  BY <1>1, SameClaims
<1>4. Producers(MainTree) \subseteq 1..Len(commits)
  BY <1>0, <1>2 DEF Past, MainTree
<1>5. /\ branch'.ids \in Seq(DOMAIN commits')
      /\ \A k \in RangeOf(branch'.ids) : k \in RangeOf(branch.ids) \/ k = Len(commits) + 1
  <2> DEFINE ids == branch.ids
  <2>1. ids \in Seq(DOMAIN commits) /\ DOMAIN commits \subseteq DOMAIN commits'
        /\ Len(commits) + 1 \in DOMAIN commits'
    BY <1>0, <1>1 DEF BranchRecorded
  <2> HIDE DEF ids
  <2>2. ids \in Seq(DOMAIN commits')
    BY <2>1
  <2>3. /\ Append(ids, Len(commits) + 1) \in Seq(DOMAIN commits')
        /\ \A i \in DOMAIN Append(ids, Len(commits) + 1) :
             \/ Append(ids, Len(commits) + 1)[i] = Len(commits) + 1
             \/ i \in DOMAIN ids /\ Append(ids, Len(commits) + 1)[i] = ids[i]
    BY <2>1, <2>2
  <2> QED BY <2>3 DEF RangeOf, ids
<1>6. Past(AllTrees)'
  <2>1. refs' \subseteq DOMAIN commits'
    BY <1>1, <1>2
  <2>2. ASSUME NEW k \in RangeOf(branch'.ids) PROVE k \notin OnMain' /\ k \notin Producers(MainTree)
    <3>1. CASE k = Len(commits) + 1
      <4>1. k \notin 1..Len(commits)
        BY <1>1, <3>1
      <4> QED BY <1>1, <1>2, <1>3, <1>4, <4>1
    <3>2. CASE k \in RangeOf(branch.ids)
      BY <1>0, <1>3, <3>2 DEF Past
    <3> QED BY <1>5, <3>1, <3>2
  <2>3. (RangeOf(branch.ids))' = RangeOf(branch'.ids)
    BY DEF RangeOf
  <2> QED BY <1>1, <1>3, <2>1, <2>2, <2>3 DEF Past
<1>7. BranchRecorded(AllTrees)'
  <2>1. DOMAIN commits \subseteq DOMAIN commits'
    BY <1>1
  <2>2. branch'.edits \in Seq(Edits \X [id : Nat, base : DOMAIN commits', from : AllTrees])
    BY <2>1, EditsStay
  <2> QED BY <1>5, <2>2 DEF BranchRecorded
<1> QED BY <1>3, <1>6, <1>7 DEF EvidenceInv

\* What an edit makes of a commit.
LEMMA EditOf ==
  ASSUME NEW AllTrees, EditsAreHonest(AllTrees), MainRecorded, Past(AllTrees),
         BranchRecorded(AllTrees), NEW edit \in Edits, NEW base \in DOMAIN commits
  PROVE  LET made == Made(Len(commits) + 1, base)
             t == Applied(edit, commits[base], made)
         IN  /\ made \in [id : Nat, base : DOMAIN commits, from : AllTrees]
             /\ t \in AllTrees /\ HiddenSources(t) = {} /\ Producers(t) \subseteq 1..Len(commits)
             /\ Producers(t) \subseteq Producers(commits[base]) \cup {base}
<1> DEFINE made == Made(Len(commits) + 1, base)
           t == Applied(edit, commits[base], made)
<1>1. /\ Len(commits) \in Nat /\ DOMAIN commits = 1..Len(commits) /\ commits[base] \in AllTrees
      /\ base \in Nat
  BY KnownCommits
<1>2. /\ made \in [id : Nat, base : DOMAIN commits, from : AllTrees]
      /\ made \in [id : Nat, base : Nat, from : AllTrees] /\ made.base = base
  BY <1>1 DEF Made
<1> HIDE DEF made
<1>3. /\ t \in AllTrees /\ Producers(t) \subseteq Producers(commits[base]) \cup {base}
      /\ HiddenSources(commits[base]) = {} => HiddenSources(t) = {}
  BY <1>1, <1>2 DEF EditsAreHonest
<1> HIDE DEF t
<1>4. HiddenSources(commits[base]) = {} /\ Producers(commits[base]) \subseteq 1..Len(commits)
  BY DEF Past
<1>5. Producers(t) \subseteq 1..Len(commits)
  BY <1>1, <1>3, <1>4
<1> QED BY <1>2, <1>3, <1>4, <1>5 DEF made, t

\* What a squash of the branch onto main would be.
LEMMA SquashOf ==
  ASSUME NEW AllTrees, EditsAreHonest(AllTrees), MainRecorded, Past(AllTrees),
         BranchRecorded(AllTrees)
  PROVE  LET t == Rebased(branch.edits, MainTree)
         IN  t \in AllTrees /\ HiddenSources(t) = {} /\ Producers(t) \subseteq 1..Len(commits)
<1> DEFINE t == Rebased(branch.edits, MainTree)
           S == Edits \X [id : Nat, base : DOMAIN commits, from : AllTrees]
<1>1. /\ Len(commits) \in Nat /\ DOMAIN commits = 1..Len(commits) /\ MainTree \in AllTrees
      /\ MainHead \in DOMAIN commits /\ DOMAIN commits \subseteq Nat
  BY KnownCommits DEF MainTree
<1>2. branch.edits \in Seq(S)
  BY DEF BranchRecorded
<1>3. branch.edits \in Seq(Edits \X [id : Nat, base : Nat, from : AllTrees])
  BY <1>1, <1>2, EditsStay
<1>4. \A i \in DOMAIN branch.edits : branch.edits[i][2].base \in DOMAIN commits
  <2>1. \A x \in S : x[2].base \in DOMAIN commits
    OBVIOUS
  <2>2. \A i \in DOMAIN branch.edits : branch.edits[i] \in S
    <3> HIDE DEF S
    <3> QED BY <1>2
  <2> QED BY <2>1, <2>2
<1>5. /\ t \in AllTrees
      /\ Producers(t) \subseteq Producers(MainTree)
                                  \cup {branch.edits[i][2].base : i \in DOMAIN branch.edits}
      /\ HiddenSources(MainTree) = {} => HiddenSources(t) = {}
  BY <1>1, <1>3, RebasedKeeps
<1>6. HiddenSources(MainTree) = {} /\ Producers(MainTree) \subseteq 1..Len(commits)
  BY <1>1 DEF Past, MainTree
<1> HIDE DEF t
<1>7. Producers(t) \subseteq 1..Len(commits)
  BY <1>1, <1>4, <1>5, <1>6
<1> QED BY <1>5, <1>6, <1>7 DEF t

LEMMA PushKeepsEvidence ==
  ASSUME NEW AllTrees, EditsAreHonest(AllTrees), MainInv, EvidenceInv(AllTrees),
         NEW edit \in Edits, NEW d, Push(edit, d)
  PROVE  EvidenceInv(AllTrees)'
<1>0. MainRecorded /\ Past(AllTrees) /\ BranchRecorded(AllTrees)
  BY DEF MainInv, EvidenceInv
<1> DEFINE base == IF branch.ids = <<>> THEN MainHead ELSE branch.ids[Len(branch.ids)]
           made == Made(Len(commits) + 1, base)
           t == Applied(edit, commits[base], made)
<1>1. base \in DOMAIN commits
  <2>1. MainHead \in DOMAIN commits
    BY <1>0, KnownCommits
  <2>2. branch.ids \in Seq(DOMAIN commits)
    BY <1>0 DEF BranchRecorded
  <2> QED BY <2>1, <2>2
<1>2. /\ commits' = Append(commits, t) /\ UNCHANGED <<main, refs>>
      /\ DOMAIN branch' = DOMAIN NoBranch
      /\ branch'.ids = Append(branch.ids, Len(commits) + 1)
      /\ branch'.edits = Append(branch.edits, <<edit, made>>)
      /\ Trigger(branch', commits')
  BY DEF Push, NoBranch
<1> HIDE DEF base
<1>3. /\ made \in [id : Nat, base : DOMAIN commits, from : AllTrees]
      /\ t \in AllTrees /\ HiddenSources(t) = {} /\ Producers(t) \subseteq 1..Len(commits)
  BY <1>0, <1>1, EditOf
<1> HIDE DEF made, t
<1>4. branch'.edits \in Seq(Edits \X [id : Nat, base : DOMAIN commits, from : AllTrees])
  <2> DEFINE S == Edits \X [id : Nat, base : DOMAIN commits, from : AllTrees]
  <2>1. branch.edits \in Seq(S) /\ <<edit, made>> \in S
    BY <1>0, <1>3 DEF BranchRecorded
  <2> HIDE DEF S
  <2>2. Append(branch.edits, <<edit, made>>) \in Seq(S)
    BY <2>1, AppendProperties
  <2> QED BY <1>2, <2>2 DEF S
<1>5. Seen'
  BY <1>2, TriggerSees
<1> QED BY <1>2, <1>3, <1>4, <1>5, BranchCommit

LEMMA UpdateKeepsEvidence ==
  ASSUME NEW AllTrees, EditsAreHonest(AllTrees), MainInv, EvidenceInv(AllTrees), UpdateBranch
  PROVE  EvidenceInv(AllTrees)'
<1>0. MainRecorded /\ Past(AllTrees) /\ BranchRecorded(AllTrees)
  BY DEF MainInv, EvidenceInv
<1> DEFINE t == Rebased(branch.edits, MainTree)
<1>1. t \in AllTrees /\ HiddenSources(t) = {} /\ Producers(t) \subseteq 1..Len(commits)
  BY <1>0, SquashOf
<1>2. /\ commits' = Append(commits, t) /\ UNCHANGED <<main, refs>>
      /\ branch' = [branch EXCEPT !.base = Len(main), !.ids = Append(@, Len(commits) + 1)]
      /\ Trigger(branch', commits')
  BY DEF UpdateBranch
<1> HIDE DEF t
<1>3. /\ DOMAIN branch' = DOMAIN NoBranch
      /\ branch'.ids = Append(branch.ids, Len(commits) + 1) /\ branch'.edits = branch.edits
  <2>1. DOMAIN branch = {"open", "base", "edits", "ids", "draft"}
    BY <1>0 DEF BranchRecorded, NoBranch
  <2> QED BY <1>2, <2>1 DEF NoBranch
<1>4. branch'.edits \in Seq(Edits \X [id : Nat, base : DOMAIN commits, from : AllTrees])
  BY <1>0, <1>3 DEF BranchRecorded
<1>5. Seen'
  BY <1>2, TriggerSees
<1> QED BY <1>1, <1>2, <1>3, <1>4, <1>5, BranchCommit

\* The branch leaves, or stays as it is, and main with its commits as well.
LEMMA QuietKeepsEvidence ==
  ASSUME NEW AllTrees, MainInv, EvidenceInv(AllTrees), UNCHANGED <<commits, main>>,
         \/ /\ DOMAIN branch' = DOMAIN branch
            /\ branch'.ids = branch.ids /\ branch'.edits = branch.edits
            /\ refs' \in {refs, {}}
         \/ branch' = NoBranch /\ refs' = refs \cup RangeOf(branch.ids),
         Seen'
  PROVE  EvidenceInv(AllTrees)'
<1>0. /\ MainRecorded /\ Claimed /\ Unreplaced /\ Past(AllTrees) /\ BranchRecorded(AllTrees)
  BY DEF MainInv, EvidenceInv
<1>1. \A k \in refs' : \/ k \in refs
                       \/ k \in DOMAIN commits /\ k \notin Producers(MainTree)
  BY <1>0, KnownCommits DEF Past
<1>2. Claimed' /\ Unreplaced' /\ MainTree' = MainTree /\ OnMain' = OnMain
  BY <1>1, SameClaims
<1>3. \/ /\ DOMAIN branch' = DOMAIN branch
         /\ branch'.ids = branch.ids /\ branch'.edits = branch.edits
         /\ (RangeOf(branch.ids))' = RangeOf(branch.ids)
      \/ /\ branch' = NoBranch /\ branch'.ids = <<>> /\ branch'.edits = <<>>
         /\ (RangeOf(branch.ids))' = {}
  BY DEF NoBranch, RangeOf
<1>4. Past(AllTrees)'
  <2>1. refs' \subseteq DOMAIN commits
    BY <1>0, KnownCommits DEF Reachable
  <2>2. \A k \in (RangeOf(branch.ids))' : k \notin OnMain' /\ k \notin Producers(MainTree')
    BY <1>0, <1>2, <1>3 DEF Past
  <2> QED BY <1>0, <2>1, <2>2 DEF Past
<1>5. BranchRecorded(AllTrees)'
  <2>1. CASE branch' = NoBranch /\ branch'.ids = <<>> /\ branch'.edits = <<>>
    BY <2>1 DEF BranchRecorded
  <2>2. CASE /\ DOMAIN branch' = DOMAIN branch
             /\ branch'.ids = branch.ids /\ branch'.edits = branch.edits
    BY <1>0, <2>2 DEF BranchRecorded
  <2> QED BY <1>3, <2>1, <2>2
<1> QED BY <1>2, <1>4, <1>5 DEF EvidenceInv

LEMMA MergeKeepsEvidence ==
  ASSUME NEW AllTrees, EditsAreHonest(AllTrees), ArraysAreListed(AllTrees),
         GateInv, MainInv, EvidenceInv(AllTrees), Merge
  PROVE  EvidenceInv(AllTrees)'
<1>0. MainRecorded /\ Past(AllTrees) /\ BranchRecorded(AllTrees) /\ Seen
  BY DEF MainInv, EvidenceInv
<1> DEFINE t == Rebased(branch.edits, MainTree)
<1>1. t \in AllTrees /\ HiddenSources(t) = {} /\ Producers(t) \subseteq 1..Len(commits)
  BY <1>0, SquashOf
<1>2. /\ commits' = Append(commits, t) /\ main' = Append(main, Len(commits'))
      /\ branch' = NoBranch /\ refs' = refs \cup RangeOf(branch.ids)
  BY DEF Merge
<1>3. /\ branch.open /\ checkout.base = Len(main) /\ checkout.tree = t
      /\ job["merge-gate"] = "success"
  BY DEF Merge, Mergeable, MainInv, PullRequestTested
<1> HIDE DEF t
<1>4. Provenance(t) /\ Evidence(checkout)
  <2>1. GateAccepts
    BY <1>3 DEF GateInv
  <2>2. RepositoryAccepted /\ ~ Deferred
    BY <2>1 DEF GateInv, GateAccepts, AlwaysRequired, DiscoveryHolds
  <2> QED BY <1>3, <2>2 DEF RepositoryAccepted
<1>5. refs' \subseteq DOMAIN commits
  BY <1>0, <1>2, KnownCommits DEF Reachable
<1>6. \A k \in OnMain \cup refs' : k \in DOMAIN checkout.objects /\ checkout.objects[k] = commits[k]
  BY <1>0, <1>2, <1>3 DEF Seen, Reachable
<1>7. Claimed' /\ Unreplaced'
  BY <1>1, <1>2, <1>3, <1>4, <1>5, <1>6, MainAdvances
<1>8. /\ ~ branch'.open /\ branch'.ids = <<>> /\ branch'.edits = <<>>
      /\ (RangeOf(branch.ids))' = {} /\ DOMAIN branch' = DOMAIN NoBranch
  BY <1>2 DEF NoBranch, RangeOf
<1>9. Past(AllTrees)'
  <2>1. /\ commits' \in Seq(AllTrees) /\ DOMAIN commits \subseteq DOMAIN commits'
        /\ \A k \in DOMAIN commits' :
             HiddenSources(commits'[k]) = {} /\ Producers(commits'[k]) \subseteq 1..Len(commits')
    BY <1>0, <1>1, <1>2, CommitAdded
  <2> QED BY <1>5, <1>8, <2>1 DEF Past
<1>10. BranchRecorded(AllTrees)' /\ Seen'
  BY <1>8 DEF BranchRecorded, Seen
<1> QED BY <1>7, <1>9, <1>10 DEF EvidenceInv

LEMMA AnotherKeepsEvidence ==
  ASSUME NEW AllTrees, EditsAreHonest(AllTrees), ArraysAreListed(AllTrees),
         MainInv, EvidenceInv(AllTrees), NEW edit \in Edits, MergeAnother(edit)
  PROVE  EvidenceInv(AllTrees)'
<1>0. /\ MainRecorded /\ Past(AllTrees) /\ BranchRecorded(AllTrees) /\ Seen
      /\ PullRequestTested
  BY DEF MainInv, EvidenceInv
<1> DEFINE made == Made(Len(commits) + 1, MainHead)
           t == Applied(edit, MainTree, made)
           c == CheckoutOf(t, commits, <<>>, refs)
<1>1. /\ MainHead \in OnMain /\ MainHead \in DOMAIN commits
      /\ DOMAIN commits = 1..Len(commits) /\ Len(commits) \in Nat
      /\ OnMain \subseteq DOMAIN commits /\ refs \subseteq DOMAIN commits
  BY <1>0, KnownCommits DEF Reachable
<1>2. /\ t \in AllTrees /\ HiddenSources(t) = {} /\ Producers(t) \subseteq 1..Len(commits)
      /\ Producers(t) \subseteq Producers(MainTree) \cup {MainHead}
  <2>1. t = Applied(edit, commits[MainHead], made)
    BY DEF MainTree
  <2> QED BY <1>0, <1>1, <2>1, EditOf DEF MainTree
<1>3. /\ commits' = Append(commits, t) /\ main' = Append(main, Len(commits'))
      /\ UNCHANGED <<branch, refs, checkout>> /\ branch.open
      /\ Provenance(t) /\ Evidence(c)
  BY DEF MergeAnother, ciVars
<1>4. c.tree = t /\ DOMAIN c.objects = OnMain \cup refs
      /\ \A k \in OnMain \cup refs : c.objects[k] = commits[k]
  <2>1. RangeOf(<<>>) = {}
    BY DEF RangeOf
  <2> QED BY <2>1 DEF CheckoutOf
<1> HIDE DEF t, c, made
<1>5. /\ Claimed' /\ Unreplaced' /\ MainTree' = t
      /\ OnMain' = OnMain \cup {Len(commits) + 1}
  BY <1>1, <1>2, <1>3, <1>4, MainAdvances
<1>6. /\ commits' \in Seq(AllTrees) /\ DOMAIN commits \subseteq DOMAIN commits'
      /\ \A k \in DOMAIN commits' :
           HiddenSources(commits'[k]) = {} /\ Producers(commits'[k]) \subseteq 1..Len(commits')
  BY <1>0, <1>2, <1>3, CommitAdded
<1>7. Past(AllTrees)'
  <2>1. (RangeOf(branch.ids))' = RangeOf(branch.ids) /\ RangeOf(branch.ids) \subseteq DOMAIN commits
    BY <1>0, <1>3, KnownCommits DEF RangeOf
  <2>2. ASSUME NEW k \in RangeOf(branch.ids) PROVE k \notin OnMain' /\ k \notin Producers(MainTree')
    <3>1. k \in 1..Len(commits) /\ k # Len(commits) + 1
      BY <1>1, <2>1
    <3>2. k \notin OnMain /\ k \notin Producers(MainTree) /\ k # MainHead
      BY <1>0, <1>1 DEF Past
    <3> QED BY <1>2, <1>5, <3>1, <3>2
  <2> QED BY <1>1, <1>3, <1>6, <2>1, <2>2 DEF Past
<1>8. BranchRecorded(AllTrees)'
  <2>1. branch.edits \in Seq(Edits \X [id : Nat, base : DOMAIN commits', from : AllTrees])
    BY <1>0, <1>6, EditsStay DEF BranchRecorded
  <2>2. branch.ids \in Seq(DOMAIN commits')
    BY <1>0, <1>6 DEF BranchRecorded
  <2> QED BY <1>0, <1>3, <2>1, <2>2 DEF BranchRecorded
<1>9. Seen'
  <2>1. main \in Seq(Nat)
    BY <1>0, <1>1 DEF MainRecorded
  <2>2. Len(main') = Len(main) + 1 /\ Len(main) \in Nat
    BY <1>1, <1>3, <2>1
  <2>3. checkout.base \in Nat /\ checkout.base <= Len(main)
    BY <1>0, <1>3 DEF PullRequestTested
  <2> QED BY <1>3, <2>2, <2>3 DEF Seen
<1> QED BY <1>5, <1>7, <1>8, <1>9 DEF EvidenceInv

LEMMA EvidenceStep ==
  ASSUME NEW AllTrees, EditsAreHonest(AllTrees), ArraysAreListed(AllTrees),
         GateInv, MainInv, EvidenceInv(AllTrees), [Next]_vars
  PROVE  EvidenceInv(AllTrees)'
<1>0. Seen /\ BranchRecorded(AllTrees)
  BY DEF EvidenceInv
<1>1. ASSUME UNCHANGED <<commits, main, branch, checkout>>, refs' \in {refs, {}}
      PROVE  EvidenceInv(AllTrees)'
  <2>1. Seen'
    BY <1>0, <1>1 DEF Seen, Reachable, OnMain, RangeOf
  <2> QED BY <1>1, <2>1, QuietKeepsEvidence
<1>2. ASSUME UNCHANGED <<commits, main, branch, refs>>, ~ branch.open
      PROVE  EvidenceInv(AllTrees)'
  <2>1. Seen'
    BY <1>2 DEF Seen
  <2> QED BY <1>2, <2>1, QuietKeepsEvidence
<1>3. CASE CI \/ Release \/ Scanning \/ Disturb \/ UNCHANGED vars
  <2>1. UNCHANGED <<commits, main, branch, refs, checkout>>
    BY <1>3, CIKeepsCheckout
       DEF CI, Release, Scanning, Disturb, vars, pathVars, ciVars
  <2> QED BY <1>1, <2>1
<1>4. ASSUME NEW edit \in Edits, NEW d \in BOOLEAN, Push(edit, d) PROVE EvidenceInv(AllTrees)'
  BY <1>4, PushKeepsEvidence
<1>5. CASE ReadyForReview
  <2>1. /\ UNCHANGED <<commits, main, refs>> /\ Trigger(branch', commits')
        /\ branch' = [branch EXCEPT !.draft = FALSE]
    BY <1>5 DEF ReadyForReview
  <2>2. Seen'
    BY <2>1, TriggerSees
  <2>3. /\ DOMAIN branch' = DOMAIN branch
        /\ branch'.ids = branch.ids /\ branch'.edits = branch.edits
    <3>1. DOMAIN branch = {"open", "base", "edits", "ids", "draft"}
      BY <1>0 DEF BranchRecorded, NoBranch
    <3> QED BY <2>1, <3>1
  <2> QED BY <2>1, <2>2, <2>3, QuietKeepsEvidence
<1>6. CASE UpdateBranch
  BY <1>6, UpdateKeepsEvidence
<1>7. CASE RunByHand
  BY <1>2, <1>7 DEF RunByHand, pathVars
<1>8. CASE ForgetRun
  <2>1. ~ branch.open
    BY <1>8 DEF ForgetRun, MainInv, PullRequestTested
  <2> QED BY <1>2, <1>8, <2>1 DEF ForgetRun, pathVars
<1>9. CASE Merge
  BY <1>9, MergeKeepsEvidence
<1>10. CASE Close
  <2>1. /\ UNCHANGED <<commits, main>> /\ branch' = NoBranch
        /\ refs' = refs \cup RangeOf(branch.ids)
    BY <1>10 DEF Close
  <2>2. Seen'
    BY <2>1 DEF Seen, NoBranch
  <2> QED BY <2>1, <2>2, QuietKeepsEvidence
<1>11. CASE DeleteBranches
  BY <1>1, <1>11 DEF DeleteBranches, ciVars
<1>12. ASSUME NEW edit \in Edits, MergeAnother(edit) PROVE EvidenceInv(AllTrees)'
  BY <1>12, AnotherKeepsEvidence
<1>13. PathStep => EvidenceInv(AllTrees)'
  BY <1>4, <1>5, <1>6, <1>7, <1>8, <1>9, <1>10, <1>11, <1>12 DEF PathStep
<1> QED BY <1>3, <1>13 DEF Next

LEMMA EvidenceInit ==
  ASSUME NEW AllTrees, ArraysAreListed(AllTrees), StartIsAccepted(AllTrees), Init
  PROVE  EvidenceInv(AllTrees)
<1>1. /\ commits = <<FirstTree>> /\ main = <<1>> /\ branch = NoBranch /\ refs = {}
      /\ FirstTree \in AllTrees
  BY DEF Init, StartIsAccepted
<1>2. /\ branch.ids = <<>> /\ branch.edits = <<>> /\ ~ branch.open
      /\ RangeOf(branch.ids) = {}
  BY <1>1 DEF NoBranch, RangeOf
<1>3. /\ commits \in Seq(AllTrees) /\ DOMAIN commits = {1} /\ Len(commits) = 1
      /\ commits[1] = FirstTree
  BY <1>1
<1>4. OnMain = {1} /\ MainHead = 1 /\ MainTree = FirstTree /\ Reachable = {1}
  BY <1>1, <1>3 DEF OnMain, RangeOf, MainHead, MainTree, Reachable
<1>5. Past(AllTrees)
  BY <1>1, <1>2, <1>3 DEF Past, StartIsAccepted
<1>6. Unreplaced
  <2>1. NothingReplaced(FirstTree)
    BY AcceptedReplacesNothing DEF StartIsAccepted
  <2> QED BY <1>3, <1>4, <2>1 DEF Unreplaced
<1>7. Claimed
  <2> SUFFICES ASSUME NEW e \in Retaining(FirstTree)
               PROVE  LET m == FirstTree.projects[e.path].claim IN
                      /\ e.path \in DOMAIN FirstTree.projects /\ HoldsByItself(FirstTree, e, m)
                      /\ \A k \in Reachable : k = m.producer => ProducerFits(e, m, commits[k])
    BY <1>4 DEF Claimed
  <2> DEFINE m == FirstTree.projects[e.path].claim
  <2>1. /\ FirstCheckout.tree = FirstTree /\ DOMAIN FirstCheckout.objects = {1}
        /\ FirstCheckout.objects[1] = FirstTree
    BY DEF FirstCheckout
  <2>2. ClaimAccepted(FirstCheckout, e, m) /\ Registered(FirstTree)
    BY <2>1 DEF StartIsAccepted, Evidence
  <2>3. /\ HoldsByItself(FirstTree, e, m)
        /\ m.producer = 1 => ProducerFits(e, m, FirstTree)
    BY <2>1, <2>2, AcceptedClaim
  <2>4. e.path \in DOMAIN FirstTree.projects
    <3>1. e \in Entries(FirstTree)
      BY <1>1, WorkloadsAreEntries DEF Retaining
    <3> QED BY <2>2, <3>1 DEF Registered, EntryAccepted, CargoDirs
  <2> QED BY <1>3, <1>4, <2>3, <2>4
<1>8. BranchRecorded(AllTrees) /\ Seen
  BY <1>1, <1>2 DEF BranchRecorded, Seen
<1> QED BY <1>5, <1>6, <1>7, <1>8 DEF EvidenceInv

\* Evidence that main retains stays valid through squashes, deleted branches,
\* merges of others and the work that follows, for any trees, edits and order of
\* steps: no claim names a later commit as its producer, and no directory that is
\* not a workload replaces a source, where neither provenance nor the closure
\* looks.
THEOREM EvidenceStays ==
  ASSUME NEW AllTrees, ArraysAreListed(AllTrees), EditsAreHonest(AllTrees),
         StartIsAccepted(AllTrees)
  PROVE  Spec => []EvidenceSurvives
<1>1. Init => GateInv /\ MainInv /\ EvidenceInv(AllTrees)
  BY InitHolds, MainInit, EvidenceInit DEF Init
<1>2. GateInv /\ MainInv /\ EvidenceInv(AllTrees) /\ [Next]_vars
        => GateInv' /\ MainInv' /\ EvidenceInv(AllTrees)'
  BY StepHolds, MainStep, EvidenceStep
<1>3. MainInv /\ EvidenceInv(AllTrees) => EvidenceSurvives
  BY ClaimedSurvives
<1> QED BY <1>1, <1>2, <1>3, PTL DEF Spec
=============================================================================
