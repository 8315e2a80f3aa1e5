---------------------------- MODULE ReleasePath ----------------------------
(***************************************************************************)
(* From a commit to a release candidate: a pull request and its CI run     *)
(* (MergeGate), the squash merge onto main, the evidence that main         *)
(* retains, and the CodeQL preflight of a commit (CodeqlPreflight).        *)
(*                                                                         *)
(* The rules of the main branch are those .github/repository-settings-     *)
(* policy.json requires: pull requests only, squash only, the Merge Gate   *)
(* green for the head commit on top of the current main.  main only grows. *)
(* Another pull request may be merged at any time.  A preflight and a pull *)
(* request share nothing but main, so they take turns.                     *)
(***************************************************************************)
EXTENDS MergeGate, CodeqlPreflight

CONSTANTS
    FirstTree,          \* what main holds at the start
    Edits,              \* what a commit may do
    Applied(_, _, _),   \* the tree after an edit of a tree, and what the edit knew
    Touches(_),         \* the kinds of path an edit changes
    MaxEvents,          \* the budget: an edit or another's merge takes one of
                        \* it, opening a pull request as a draft two
    MaxCommits          \* the preflight of longer histories is not looked at

VARIABLES
    commits,    \* the content of every commit, by number
    main,       \* the commits of main, oldest first
    branch,     \* the pull request: base, edits, commits
    refs        \* the commits of branches that were merged and not yet deleted

pathVars == <<commits, main, branch, refs>>
pfVars == <<scans, requested, pf>>
vars == <<ciVars, left, pathVars, pfVars>>

-----------------------------------------------------------------------------

NoBranch == [open |-> FALSE, base |-> 0, edits |-> <<>>, ids |-> <<>>, draft |-> FALSE]

Trees(ids) == [i \in DOMAIN ids |-> commits[ids[i]]]
MainHead == main[Len(main)]
MainTree == commits[MainHead]
OnMain == RangeOf(main)

\* What an edit knows: the number of its commit, and the commit it was made on.
\* What it recorded of that commit stays as it is wherever it is merged.
Made(id, base) == [id |-> id, base |-> base, from |-> commits[base]]

\* The changes of a pull request on top of t.
Rebased(edits, t) ==
    LET after[n \in 0..Len(edits)] ==
          IF n = 0 THEN t
          ELSE Applied(edits[n][1], after[n - 1], edits[n][2])
    IN  after[Len(edits)]

\* actions/checkout with the full history of every branch, at the commit that
\* merges the pull request into main.
CheckoutOf(tree, all, ids, kept) ==
    [tree |-> tree, base |-> Len(main),
     history |-> [i \in 1..(Len(main) + Len(ids) + 1) |->
                    IF i <= Len(main) THEN all[main[i]]
                    ELSE IF i <= Len(main) + Len(ids) THEN all[ids[i - Len(main)]]
                    ELSE tree],
     objects |-> [k \in OnMain \cup RangeOf(ids) \cup kept |-> all[k]]]

ChangedBy(edits) == UNION {Touches(edits[i][1]) : i \in DOMAIN edits}

\* A push to the pull request starts a run in place of the previous one.
Trigger(b, all) ==
    Begin(CheckoutOf(Rebased(b.edits, MainTree), all, b.ids, refs),
          "pull_request", b.draft, ChangedBy(b.edits))

Init ==
    /\ NoRunYet
    /\ left = MaxEvents
    /\ commits = <<FirstTree>> /\ main = <<1>> /\ branch = NoBranch /\ refs = {}
    /\ scans = <<>> /\ requested = <<>> /\ pf = Idle

\* A commit, the first one opens the pull request.
Push(edit, d) ==
    /\ pf = Idle
    /\ branch.open => d = branch.draft
    /\ branch.open \/ checkout = NoCheckout
    /\ Costs(IF d /\ ~branch.open THEN 2 ELSE 1)
    /\ LET base == IF branch.ids = <<>> THEN MainHead ELSE branch.ids[Len(branch.ids)]
           id   == Len(commits) + 1
           b    == [open |-> TRUE, base |-> IF branch.open THEN branch.base ELSE Len(main),
                    edits |-> Append(branch.edits, <<edit, Made(id, base)>>),
                    ids |-> Append(branch.ids, id), draft |-> d]
       IN  /\ commits' = Append(commits, Applied(edit, commits[base], Made(id, base)))
           /\ branch' = b
           /\ Trigger(b, commits')
    /\ UNCHANGED <<main, refs, pfVars>>

ReadyForReview ==
    /\ branch.open /\ branch.draft
    /\ branch' = [branch EXCEPT !.draft = FALSE]
    /\ Trigger(branch', commits)
    /\ UNCHANGED <<left, commits, main, refs, pfVars>>

\* main is merged into a branch that fell behind.
UpdateBranch ==
    /\ branch.open /\ branch.base < Len(main)
    /\ LET id == Len(commits) + 1
           b  == [branch EXCEPT !.base = Len(main), !.ids = Append(@, id)]
       IN  /\ commits' = Append(commits, Rebased(branch.edits, MainTree))
           /\ branch' = b
           /\ Trigger(b, commits')
    /\ UNCHANGED <<left, main, refs, pfVars>>

\* Somebody runs CI by hand on main.
RunByHand ==
    /\ pf = Idle /\ ~branch.open /\ checkout = NoCheckout
    /\ Costs(1)
    /\ Begin(CheckoutOf(MainTree, commits, <<>>, refs), "workflow_dispatch", FALSE, {})
    /\ UNCHANGED <<pathVars, pfVars>>

ForgetRun ==
    /\ event = "workflow_dispatch" /\ Ended("merge-gate")
    /\ EndRun
    /\ UNCHANGED <<left, pathVars, pfVars>>

\* Mutant: a green run counts whatever main has become since.
GreenIsEnough == ~branch.draft /\ job["merge-gate"] = "success"

\* ruleset.strict_required_status_checks and ruleset.required_status_contexts.
Mergeable ==
    /\ ~branch.draft /\ job["merge-gate"] = "success"
    /\ checkout.base = Len(main)

\* The squash: main gets the tree, not the commits.
Merge ==
    /\ branch.open /\ Mergeable
    /\ commits' = Append(commits, Rebased(branch.edits, MainTree))
    /\ main' = Append(main, Len(commits'))
    /\ refs' = refs \cup RangeOf(branch.ids)
    /\ branch' = NoBranch
    /\ EndRun
    /\ UNCHANGED <<left, pfVars>>

Close ==
    /\ branch.open /\ Ended("merge-gate")
    /\ branch' = NoBranch /\ refs' = refs \cup RangeOf(branch.ids)
    /\ EndRun
    /\ UNCHANGED <<left, commits, main, pfVars>>

\* Another pull request, on top of the same main and green itself.
MergeAnother(edit) ==
    /\ branch.open
    /\ Costs(1)
    /\ LET t == Applied(edit, MainTree, Made(Len(commits) + 1, MainHead))
           c == CheckoutOf(t, commits, <<>>, refs)
       IN  /\ Registered(t) /\ Provenance(t) /\ Evidence(c) /\ ReleasePolicy(t)
           /\ commits' = Append(commits, t)
    /\ main' = Append(main, Len(commits'))
    /\ UNCHANGED <<ciVars, branch, refs, pfVars>>

\* Merged branches are deleted, and their commits with them.
DeleteBranches ==
    /\ refs # {} /\ checkout = NoCheckout
    /\ refs' = {}
    /\ UNCHANGED <<ciVars, left, commits, main, branch, pfVars>>

-----------------------------------------------------------------------------
\* The preflight of any commit, and what happens to the scans.

Quiet ==
    /\ ~branch.open /\ checkout = NoCheckout /\ refs = {}
    /\ Len(commits) <= MaxCommits

Preflight ==
    \/ Quiet /\ \E c \in DOMAIN commits : StartPreflight(c, OnMain)
    \/ PreflightStep(OnMain)

Trouble == ApiFails \/ DispatchUnanswered

ScanEvents ==
    \/ Schedule(MainHead)
    \/ \E c \in OnMain : DispatchByHand(c, MainHead)
    \/ \E i \in DOMAIN scans : Expire(i) \/ Rerun(i)

PathStep ==
    \/ \E edit \in Edits, d \in BOOLEAN : Push(edit, d)
    \/ ReadyForReview \/ UpdateBranch \/ RunByHand \/ ForgetRun
    \/ Merge \/ Close \/ DeleteBranches
    \/ \E edit \in Edits : MergeAnother(edit)

CI == CIStep /\ UNCHANGED <<pathVars, pfVars>>
Release == (Preflight \/ Trouble) /\ UNCHANGED <<ciVars, left, pathVars>>
Scanning == (ScanStep \/ StartRequested(MainHead)) /\ UNCHANGED <<ciVars, left, pathVars>>
Disturb == Quiet /\ ScanEvents /\ Faults(1) /\ UNCHANGED <<ciVars, pathVars>>

Next == CI \/ PathStep \/ Release \/ Scanning \/ Disturb

\* GitHub runs the jobs that may run, and the preflight's calls are answered.
\* Every step of CI changes a job, every step of the preflight changes pf.
Fairness ==
    /\ WF_job(CI)
    /\ WF_pf(PreflightStep(OnMain) /\ UNCHANGED <<ciVars, left, pathVars>>)

Spec == Init /\ [][Next]_vars
FairSpec == Spec /\ Fairness

-----------------------------------------------------------------------------
\* What the path promises.

\* Every Cargo project that is not reserved is registered once, under a name
\* of its own; a workload resolves each OxideBatch crate it names to one
\* published package, a fixture to none; nothing is published before the
\* CodeQL preflight.  Said of the tree, without the validators.
SoundTree(t) ==
    /\ \A d \in CargoDirs(t) \ t.reserved :
         \E i \in DOMAIN Listed(t) : \A j \in DOMAIN Listed(t) :
           (Listed(t)[j].path = d \/ Listed(t)[j].name = Listed(t)[i].name) <=> j = i
    /\ \A e \in Workloads(t) : \A d \in t.projects[e.path].first :
         /\ d.version \in ExactVersions
         /\ \E l \in Resolutions(t.projects[e.path], d) : l.published
         /\ \A l \in Resolutions(t.projects[e.path], d) : l.published
    /\ \A e \in Fixtures(t) : t.projects[e.path].lock = {}
    /\ ~t.sourced
    /\ \A w \in RangeOf(t.workflows) : \A i \in DOMAIN w :
         w[i].mutates => \E k \in DOMAIN w :
           k < i /\ w[k].name = "codeql-preflight" /\ w[k].runs /\ w[k].name \in w[i].needs

\* What main holds at the start is sound.
ASSUME FirstTreeAssumption == SoundTree(FirstTree)

\* MainSound: whatever pull requests are merged, in whatever order and however
\* long after their run, every tree on main is sound
\* (strict_required_status_checks in repository-settings-policy.json, the
\* discover job of ci.yml).
MainSound == \A c \in OnMain : SoundTree(commits[c])

\* EvidenceSurvives: evidence on main stays valid through squashes, deleted
\* branches and the work that follows, as long as main has ever held the files
\* it describes (find_reachable_closure_representation and the producer check
\* of validate_historical_closure in validate-evidence.py).
EvidenceSurvives ==
    LET c == CheckoutOf(MainTree, commits, <<>>, refs)
    IN  \A e \in Retaining(MainTree) :
          LET m == MainTree.projects[e.path].claim
          IN  Representations(c, e.path, m.entries) # {} => ClaimAccepted(c, e, m)

\* ReleaseSound: a candidate the preflight lets through is a sound commit of
\* main, no scan of it had failed when the preflight began, and a scan of that
\* very commit found nothing High with all reviewed rules in place, unless it
\* was run again since (verify_live in release_codeql_preflight.py).
ReleaseSound ==
    pf.result = "passed" =>
      /\ pf.sha \in OnMain /\ SoundTree(commits[pf.sha])
      /\ pf.failed = {}
      /\ \E i \in DOMAIN scans :
           /\ scans[i].sha = pf.sha
           /\ scans[i].attempt = 1 =>
                /\ scans[i].conclusion = "success"
                /\ \A l \in Languages :
                     /\ Required \subseteq scans[i].proofs[l].rules
                     /\ \A f \in scans[i].proofs[l].findings :
                          \A x \in f.scores : x < High

\* SoundHeadPasses: the run of a sound and ready head that nothing else goes
\* wrong with turns the Merge Gate green: the jobs of ci.yml never wait for
\* each other, and the authorities agree on what a sound repository is.
SoundHead ==
    /\ checkout # NoCheckout /\ checkout.base = Len(main) /\ ~Deferred
    /\ RepositoryAccepted
    /\ \A e \in Workloads(checkout.tree) :
         Scannable(checkout.tree, checkout.tree.projects[e.path])
    /\ \E e \in Entries(checkout.tree) : e.msrv = "declared"

SoundHeadPasses ==
    (left = 0 /\ (\A j \in Jobs : Waiting(j)) /\ SoundHead)
      ~> job["merge-gate"] = "success"

\* PreflightEnds: the preflight ends, also when the scan it asked for is never
\* listed or never completes (the deadline of verify_live).
PreflightEnds == At("list") ~> At("done")
=============================================================================
