# A verification project for oxide-batch-workloads

The repository holds example workloads for the *oxide-batch* framework, the
tools that qualify them, and the authorities that decide what may enter `main`
and be released: a restartable PostgreSQL to PostgreSQL transform with an
endurance harness, a locally partitioned transform with a recovery
qualification, a CSV import, cross-framework benchmarks, and the scripts and
workflows of the CI. The framework is an external dependency; what it does is
modelled from how the workloads configure, decorate and call it and from what
their tests record about it. GitHub is external too; what it does is modelled
from what the scripts ask of it and from the settings policy of the repository.

Contents: [inventory](#inventory), [modules](#modules-and-how-they-correspond-to-the-code),
[runs](#runs-what-each-checks-and-shows), [bounds](#bounds), [fairness](#fairness),
[proofs](#what-is-proved), [findings](#findings),
[what is not modelled](#what-is-not-modelled), [plan](#plan).

## Inventory

| component | state | operations | hard behaviour | what makes it correct |
|---|---|---|---|---|
| transform (`postgres-postgres/src/{job,failpoint,source_digest,writer,processor}.rs`) | source table and its SHARE lock, destination rows keyed by (import, digest, customer), job instances, executions, checkpoints | `run`, `recover`, `reset`, armed failpoints | processes killed between any two steps; recovery of an execution whose process is alive; two reader modes in one namespace; writers racing the digest | rows and checkpoint move together; no gap, no duplicate; COMPLETED is the whole source; the guard is given up |
| `verify` (`verify.rs`) | none, reads both tables under the guard | ordered merge comparison | source and destination streams that end at different times | every mismatch is counted, at most 100 are kept |
| `seed` (`generator.rs`) | source table | batches, autocommitted | killed half-way | a half-seeded source is another digest |
| endurance iteration (`endurance.rs`, `endurance/crash.rs`) | child processes, pause marker, database | clean iterations; iterations with a SIGKILL before or after the business commit, a relaunch, a recovery and a continuation | marker timeout, reaping, the dead client's server session, exact database state after the kill | the crash is where the plan says, the expected exits are what the transform does, no child survives |
| evidence store (`endurance/evidence.rs`) | `campaign.json`, `events.jsonl`, one file per iteration or failure | open, append, write success or failure | killed between two file-system calls | one terminal record per iteration, never overwritten |
| resume (`endurance/resume.rs`) | none, reads the evidence | reconcile to Ready or one of three blocked verdicts | torn lines, leftover temporaries, gaps, conflicts, failed reads that pass for inconsistent evidence | Ready only behind a gapless run of successes |
| drivers (`endurance/{progress,batch,guarded_batch,campaign}.rs`) | frontier, elapsed time | one step, batches, guarded batches, the acceptance loop | evidence read before and after a guard process; clock | nothing executes unless the evidence says Ready |
| sampler (`endurance/sampling.rs`) | queue of boundaries, failure, stop | record, sample, stop, join | a task next to the iteration | every boundary is sampled or the failure is reported |
| summary (`endurance/summary.rs`) | none | verdict with reason codes | inconsistent evidence | accepted iff no reason |
| local partition (`postgres-local-partition/src`) | partitions, workers, admission barrier, pools | run, qualify, verify, recover, measure | a 30 s barrier between workers; restart with fewer partitions than workers; a source nothing locks | every partition's rows from the planned source; the barrier never starves |
| CSV import (`csv-postgres/src`) | input file, destination, executions | run, recover, verify | file hashed and read at different times | same contract as the transform |
| recovery qualification (`postgres-local-partition/{ci/validate-recovery.py,src/qualification.rs}`) | case, marker file, what was found after the kill | crash cases at both boundaries, source mutation, cancellation | a kill while sibling workers run; a stop that catches workers at any point; the admission barrier after a relaunch | no case raises unless too few partitions were left for the workers |
| registry and discovery (`.github/scripts/validate-workload-registry.py`, `discover-*.py`, `detect-pr-qualification-scope.py`) | none, reads a checkout | rules, three projections, qualification scopes | two pull requests that are each right | every Cargo project is registered once |
| provenance and supply chain (`validate-oxidebatch-provenance.py`, `run-supply-chain-authority.py`, `validate-supply-chain.py`) | none | manifests and lockfiles against each other, scan of a workload, completeness | a crate resolved from elsewhere; a scan that did not run | what `main` consumes is published at an exact version |
| retained evidence (`.github/scripts/validate-evidence.py`) | none, reads tree, history and objects | records, semantic closure, producer, retention, verifier | a squash drops the commits the evidence names | evidence stays valid as `main` grows |
| CI run and Merge Gate (`.github/workflows/ci.yml`, `aggregate_verdict.py`, `write-shard-result.py`) | jobs, shard artifacts | discovery, matrices, aggregates, scopes, gate | a shard skipped, lost or garbled; a job skipped because another failed | green means everything was exercised and accepted |
| CodeQL and preflight (`codeql.yml`, `tools/ci/release_codeql_preflight.py`, `verify_release_codeql_policy.py`, `release-codeql-verdict.py`) | scans, one preflight | list, reuse, join or dispatch, poll, inspect, recheck | scans start, end, are run again and lose artifacts between two API answers | a candidate that passes is on `main` and has a clean scan of its own |
| recurring audits (`run-*-audit.py`, `report-*-audit.py`, `audit_issue.py`) | one issue each | detect, hand over, list, create, update, close | paged listings that move, lost answers, people | at most one owned issue; it says what is wrong |
| label automation (`reconcile-labels.py`, `validate-label-taxonomy.py`) | labels of issues and pull requests | event runs, backfill, check | a run works on a stale copy | every open item ends with its labels |
| benchmarks (`postgres-postgres/benchmark`), `fixture-heterogeneous`, `deploy/s10`, workflow text policy | – | – | – | – |

Interaction: the endurance harness starts the transform's commands as child
processes and reads its database; the drivers call one iteration, which writes
evidence, which resume reads; the sampler task runs beside the iteration and
gets its phases; the transform's processes meet only in the database. The recovery qualification
starts, kills and relaunches the program of the local partition and reads its
state through `recoveryctl`. The registry feeds the matrices of the CI run; its
aggregates and the Merge Gate read what discovery and the shards leave behind; a
squash merge writes `main`, whose commits are what the evidence contract, the
scheduled scans and the preflight look at. The two audits share the tracker with
the label automation, and the hardening audit judges the labels of everything on it.

## Modules and how they correspond to the code

**`RestartableTransform`** – the commands `run`, `recover` and `reset` as
processes over one database. A source *content* stands for its SHA-256 digest and
a row remembers the content it came from, so that "the row belongs to its
digest" can be said. `guard` is the set of sessions holding `LOCK TABLE … IN
SHARE MODE`; `exec` and `attempts` are the framework's job repository, with
status and checkpoint position; `proc` the local state of each command: its
place in the code (`pc`), its identity, cursor, open chunk transaction and
armed failpoint. `LockSource`, `ComputeDigest`, `Launch`, `WriteChunk`,
`CommitChunk`, `Complete`, `FinishRun` follow `job.rs::run` and
`launch_and_finish`; `UnlockForRecovery`, `FindExecution`, `MarkFailed` are the
three transactions of `recover`; `TruncateProjection`, `TruncateSource` the two
statements of `reset` with PostgreSQL's lock queue. `Crash` is a kill at any of
these points. What belongs to the framework (which instance may be launched,
what progress is inherited, whether a superseded execution may still commit) is
marked external; the last is not settled by this repository and is the constant
`FencesStaleCommits`, checked both ways.

**`ExactlyOnceImport`** – what the transform promises: per scope a growing
prefix of the source is delivered, a scope is announced when it is whole, and a
truncation gives the promise up. `RestartableTransform` implements it.

**`RestartableTransform_proof`, `RestartableTransform_safety`** – the proofs.

**`EnduranceIteration`** – composes `RestartableTransform` with the orchestrator
of a clean or crash iteration. The orchestrator's `pc` follows
`execute_crash_iteration_unix`: spawn with an armed failpoint, wait for the
marker, SIGKILL, reap, observe, compare with the crash contract, then the four
phases that must fail or succeed and the cleanup. The children *are* the
transform's processes. A killed child's server session stays (`dead`) with its
locks and its open transaction until `SessionEnds`; a signalled child may still
take steps before it dies. `troubles` records everything that went wrong by
itself, which lets an invariant say that nothing else makes an iteration fail.
The marker file's removal is left out: its name holds a nonce.

**`EnduranceIteration_proof`** – its proofs.

**`EnduranceEvidence`** – the evidence store, its reader and the five driver
commands. `log` is what a reader extracts from `events.jsonl`: which sequences
have an event, how many terminal events each has, and whether the last line is
whole, cut (a prefix at the end) or torn (continued by the next append).
`files` are the terminal artifacts. Each write is a step, and a kill may fall
between and inside them. An open (`OpenFails`), an append, an artifact write
(`WriteFails`) and a look at the evidence may meet an I/O error. A look that
fails has no error of its own: `reconcile_resume_status` turns whatever it
cannot read, and a workload binary other than the recorded one, into
inconsistent evidence at frontier 0 (`Looks`), so that a campaign may stop with
a disagreement over evidence that is perfectly sound. `imported` is the
transform's part: the sequences whose import is complete.

**`EnduranceLedger`** – the abstract specification of that evidence while one
controller works: iterations are recorded in order, each at most once, and
whatever is not a recorded success ends the progress.

**`EnduranceEvidence_proof`** – the proofs, of the ledger too.

**`ResourceSampler`** – `execute_sampled_recorded_iteration`: the iteration's
phases (the scripts of a clean and of a crash iteration), the mutex sections of
`SamplerState`, the sampler task's rounds, its failures, and the finalisation.

**`ResourceSampler_proof`** – its proofs.

**`LocalPartition`** – the commands, the workers of a run with the admission
gate and the occupancy counter, the two durable boundaries of a partition (its
upsert, its result in the framework), stop requests, recovery, and a source that
other sessions may change.

**`LocalPartition_proof`** – its proofs, and those of the campaign below.

**`RecoveryCampaign`** – extends it with who drives the program: an operator, or
one case of `validate-recovery.py`. `harness` is the script's place and what it
read after the kill; `marker` the ready marker; `framework` the execution
numbers the assertions compare. `Armed`, `Paused` and `Held` are the
qualification controls (`pause_if_configured`, `hold_if_configured`), the
watcher turns the stop file into a request. Every assertion of the script is an
`Asserts` whose failure is the step `raised`. The launcher hands out partitions
in plan order; in a case the 5 s hold of a worker outlasts the harness's 20 ms
polls, and the database does not fail.

**`RepositoryChecks`** – the checks over one tree as operators: registry rules
and projections, scopes of a change, first-party provenance, the scan of a
workload, the release policy. A tree is a record of projects, registry entries
and workflows. Names are atoms; a version requirement is a member of
`ExactVersions` or not.

**`EvidenceContract`** – `validate-evidence.py` over a checkout: the records of a
manifest, the closure at its recorded commit, a reachable representation of that
closure, the producer, retention and the canonical verifier.

**`MergeGate`** – one run of `ci.yml` over a checkout: every job is an action
that waits for its `needs`; matrix jobs choose the fate of every shard (passed,
failed, result lost, result garbled); the aggregates recompute the expected
entries from the tree; the gate reads results only. Any job may fail for reasons
of its own, at a cost in the event budget.

**`CodeqlPreflight`** – the life of a scan (queued, running, ended, run again,
expired), the SARIF verdict of one language, and the preflight with one action
for each answer of the API. `polls` stands for the deadline.

**`ReleasePath`** – composes them: pull requests, squashes onto a main that
moves, deleted branches, CI runs, scans and the preflight of a commit. Commits
are numbered; `Applied` is what an edit does to a tree. A pull request and a
preflight take turns, since they share only `main`, which only grows.

**`ReleasePath_proof`** – its proofs.

**`LabelReconciliation`** – the rules of `reconcile-labels.py` as an operator
from labels, title and paths to the labels an item should carry.

**`AuditIssues`** – both audits as jobs over one tracker. A run detects, hands
its artifact over, lists the issues page by page (newest first, while others
open issues), then creates, updates, comments on or closes. `claim` records what
a report that succeeded said until a person disturbs it. Label runs work on a
copy read earlier; the backfill walks the pages. A call may fail with or without
having been done.

**`MC…`** – instances for TLC: model values, small tables and symmetry sets.

## Runs: what each checks and shows

| run | module | question | properties |
|---|---|---|---|
| `transform_restart` | RestartableTransform | crashes, errors, commits of unknown outcome, recoveries, restarts and resets of two processes, with superseded commits refused | types; rows are what the checkpoints say; one unfinished execution; resumption exactly behind the delivered rows; finished stays finished; implements `ExactlyOnceImport` |
| `transform_mutation` | " | both reader modes in one namespace while the source changes between three contents, one of them with a row the processor rejects; superseded commits not refused | modes never interleave; rows come from their digest; COMPLETED is the whole source |
| `transform_reset_deadlock` | " | *violation*: does the guard get released next to a `reset`? | `GuardIsReleased` |
| `iteration` | EnduranceIteration | clean and crash iterations with observer failures, late markers, dying children, errors and a foreign writer | an accepted crash iteration crashed at the boundary and was recovered; the relaunch leaves no trace; no child survives; the iteration ends and frees the source |
| `evidence_single` | EnduranceEvidence | one controller at a time, killed and restarted, with I/O errors of opens, writes and looks | runs once and in order; accepted means delivered; a campaign that rejects its own step leaves the frontier it expected or the next, ready to go on from unless the log is torn; implements `EnduranceLedger`; campaigns end |
| `evidence_overlap` | " | two controllers on one evidence root, one of them by hand, and a clock set back | the frontier is delivered; a success is recorded once |
| `sampler` | ResourceSampler | both kinds of iteration with failures of each part | every boundary sampled, attribution of periodic samples, reported failures, termination |
| `partition_restart` | LocalPartition | two processes qualify and recover one run name, with crashes, errors, slow workers and stops; the source changes between commands | done means projected; completed rows come from the plan |
| `partition_campaign` | RecoveryCampaign | an operator with all four commands while the source changes at any time, or one case of the recovery qualification | what qualify and verify accept has its recorded source; a case raises only short of workers; every command and case ends |
| `partition_admission` | LocalPartition | *violation*: is a recovered run that is relaunched again and again ever complete? | `RelaunchCompletes` |
| `audits` | AuditIssues | both audits, people, label runs and a backfill on one tracker, with failing calls and tools | types; one owned issue; a report that succeeded holds; clean means everything was read; once all is quiet the issues say what is wrong |
| `release_path` | ReleasePath | pull requests that work, record evidence, add workloads or break a rule; a moving main; scans and a preflight | a green gate tested everything; every tree on main is sound; evidence survives squashes; a passed candidate is sound and scanned; a sound head passes; the preflight ends |

Each property of a passing run has a mutant in `PROJECT.json`: a plausible bug
in one definition (a dropped guard, an off-by-one, a missing wait) under which
TLC finds the property violated. The `TypeOK` of the evidence, the sampler and
the iteration only say what the variables hold; no run spends time on them.
That of `LocalPartition` is proved.

Some properties state their own limits, and these limits are facts about the code:

* `SoundTree` speaks of package and version, which is what the provenance check
  compares, not of the bytes of a crate.
* `SoundHeadPasses` excludes a registry in which no entry declares an MSRV: its
  matrix is empty, `msrv-shard` is then skipped and its aggregate fails.
* `EvidenceSurvives` asks for a tree with the recorded closure somewhere in the
  history of main. A pull request that records evidence and then changes the
  closure loses that tree in the squash; the contract then refuses, as it should.
  It also fails of a repository that adopts a directory as a workload which used
  to replace a source while it was none: once the branch is deleted, the contract
  looks at the oldest tree with the recorded closure, and the closure of that
  directory does not tell that its Cargo configuration was another one
  (`historical_provenance`; provenance looks at the configuration of workloads
  only). An instance with such a directory shows it; the repository has none,
  and the theorem asks for that.
* `ReleaseSound` excuses a scan that was run again after the preflight looked:
  GitHub replaces the outcome in place.
* `RaisesOnlyShortOfWorkers` excepts what `partition_admission` shows.

## Bounds

* Transform: two processes (every conflict in the code is between two sessions:
  a run and its recovery, a run and its successor, two modes, a run and a
  reset); two or three rows in chunks of one or two, so that a chunk may be
  first, inner or last and the failpoint sits on the second; `MaxAttempts`
  bounds the executions of an instance: three let an execution be superseded,
  resumed, superseded again; the mutation run needs one.
* Iteration: two processes, since a dead session may linger beside one live
  child; three rows, failpoint at chunk two, so the crash is neither at the start
  nor at the end and the two boundaries differ by one commit; `MaxAttempts` 2,
  as a third execution is never asked for in one iteration.
* Evidence: `MaxSeq` 2 or 3 sequences, one more than the minimum of completed iterations;
  `MaxClock` ticks as many as the minimum elapsed time; batches of one and two.
  Logs count terminal events up to two, since only none, one and several are told apart.
* Sampler: `MaxPeriodic` 2 periodic samples, which may fall anywhere in the script.
* Partition: three partitions on two workers, so that one slot is reused and the
  remaining work may be narrower than the workers; `MaxMutations` 2. With
  `MutateAlways` former contents do not come back: the digests the code compares
  cannot tell a source that changed and changed back.

* Campaign: three partitions on two workers, so that the target of the kill is
  the last one and zero, one or two others are done when it happens.
* Audits: `MaxEvents` 2 counts what is broken at the start, changes of the
  repository, acts of people, failed calls and manual runs: every pair of them
  meets at every point of every run. Pages hold two items and the tracker starts
  with one, so an item opened meanwhile moves the page boundary.
* Release: `MaxEvents` 3, of which a pull request uses one for each edit, another
  merge one, and a fault of CI (`FaultCost`) or opening as a draft two: two edits
  and a moving main, or one edit and a fault. `MaxCommits` 3 bounds the
  histories whose candidates are looked at; `MaxScans` 2 lets a second scan
  appear while the first is inspected; `MaxPolls` 2 lets a poll miss and a later
  one hit. A second fault of CI, and a second disturbance of the scans (an
  expired scan beside a new scheduled one), are left to the proof.

Deadlock checking is off only where everything ends: one iteration, a case of
the recovery qualification, a release path whose budget is spent, and the reset
violation run.

## Fairness

* `FairSpec` of the transform: a process that is neither paused nor killed keeps
  taking its next step. The operating system schedules it, and a lock it waits
  for is granted when it is free.
* `FairIterationSpec`: the orchestrator, its children, their server sessions
  and the verifier keep going. Children are awaited without a timeout in
  `run_child`; only the marker has one, and no fairness is assumed for it.
* `FairSpec` of the evidence: a controller keeps going; its child and its guard
  process end, since the code waits for them without a limit.
* Sampler: both tasks run; the runtime schedules them.
* Partition: `FairSpec` for commands and workers, with the 30 s admission
  timeout as a step that comes in the end; `OperatedSpec` adds an operator who
  keeps recovering and relaunching, with finitely many crashes. In the campaign
  the command, its workers, the watcher and the harness each keep going.
* Audits: both have a schedule, and GitHub goes on with jobs it has started;
  nothing makes a person act or a backfill start.
* Release: a job whose needs have ended is run, and the preflight goes on to its
  next answer or its deadline. No fairness is assumed of scans, which may never start.

## What is proved

### The transform

TLAPS proves for every value of the constants of `RestartableTransform`
(any number of processes, imports, contents, chunk sizes, failpoints and
attempts, both values of `FencesStaleCommits`), from `ConstantsAssumption` only:

| theorem | states |
|---|---|
| `TypeCorrect` | `Spec => []TypeOK` |
| `Invariance` | `Spec => []IInv` |
| `DigestIntegrity` | `[]RowsComeFromTheirDigest` |
| `SingleUnfinished` | `[]OnlyLatestIsUnfinished` |
| `NoSplitState` | `[]BusinessRowsMatchCheckpoints` |
| `CompletionMeansDelivery` | `[]CompletedMeansWholeSource` |
| `ModeExclusion` | `[]ModesNeverInterleave` |
| `ResumeExactness` | `[]ResumesBehindDeliveredRows` |
| `FinishIsFinal` | `FinishedStaysFinished` |
| `ExactlyOnceRefinement` | `Spec => ImplementsExactlyOnceImport` |

None of the safety properties is inductive: that a commit extends a prefix needs
to know where its chunk starts, which needs the cursor, which needs that nobody
else moved the checkpoint. The invariant `IInv` is the conjunction of

* `GuardInv` – from the digest to the end of the launch a process holds the
  guard, so the source, its identity and its snapshot agree;
* `OwnerInv` – an execution belongs to one process, and its status is in
  progress or was closed by recovery;
* `CursorInv` – the checkpoint of an owned execution is its process's cursor,
  and an open chunk is exactly the rows behind it;
* `BoundInv` – checkpoints stay within the source, and COMPLETED reached its end;
* `DisjointInv` – open chunks of a scope are disjoint from each other and from its rows;
* `PrefixInv` – the rows of a scope are a prefix as long as its furthest checkpoint;
* `ModesInv` – at most one instance of a scope has a checkpoint above 0;
* `FenceInv` – with fencing, the latest execution has the furthest checkpoint;
* `TypeOK`, `OnlyLatestIsUnfinished`, `RowsComeFromTheirDigest`.

Each part is shown to be kept by each action in a lemma of its own, with frame
lemmas for the actions that do not touch what the part talks about; the
theorems then follow from `IInv`. Each part was first model-checked.

The refinement maps a commit to a delivery (the rows are a prefix by `PrefixInv`,
and the chunk starts where they end by `CursorInv`), a completion to an
announcement (its checkpoint is the end of the source by `BoundInv`, so that the
scope is whole), the second TRUNCATE of `reset` to a wipe, and every other step
to a stutter, among them a commit or a completion in a scope whose promise a
reset has ended.

### The endurance iteration

`EnduranceIteration_proof`, from `ConstantsAssumption` and `IterationAssumption`
(the crash chunk lies inside the canonical source, the verifier is no process of
the transform), for any number of processes, plans, contents, failures and
attempts:

| theorem | states |
|---|---|
| `IterationTypes` | `IterationSpec => []IterationTypeOK` |
| `NoChildSurvives` | `[]NoSurvivor` |
| `RecoveryAccepted` | `[]AcceptedMeansRecovered` |
| `RelaunchHarmless` | `RelaunchChangesNothing` |

What an accepted iteration shows was established by processes that are gone by
then, so the invariant carries it through every phase and past every way a
child may end:

* `ChildInv` – whoever can act is the child the orchestrator waits for, a signal
  is on its way to nobody else, and the orchestrator ends without waiting for its
  child only after it has signalled it;
* `JobInv` – every child works on the import and with the reader of the plan;
* `FirstInv` – until the crash is observed there is one execution at most, so the
  observed one is the first, even if the source was changed meanwhile;
* `PastInv` – behind the observation the first execution stays at the planned
  boundary, in progress or closed by recovery, and nobody who can act owns it
  (`Crashed`);
* `SourceInv` – while nobody else writes the source, all children work on one
  job instance;
* `PhaseInv` – then each phase leaves what the next one needs: the relaunch never
  gets past the launcher, a recovery that succeeds has closed the crashed
  execution, a continuation that succeeds has completed a second one at the end
  of the source;
* `CleanedInv` – after the cleanup nobody writes new rows;
* `FiniteInv` – rows can be counted, which the observation does.

A lingering session (`dead`) holds a process that cannot act: that its open chunk
is rolled back and never committed is the model of what PostgreSQL does to it. The
liveness of the iteration is checked with `FairIterationSpec`, which implies
`IterationSpec`. `Inv` was checked by TLC on the instance of `iteration` first.

### The endurance evidence

`EnduranceEvidence_proof`, from `EvidenceAssumption`, for any bounds, floors,
batch sizes, commands and failures:

| theorem | states | for |
|---|---|---|
| `TypeCorrect` | `[]TypeOK` | any processes |
| `SuccessOnce` | `[]SuccessIsUnique` | any processes |
| `FrontierDelivered` | `[]FrontierIsDelivered` | any processes |
| `OnceInOrder` | `[]RunsOnceInOrder` | one controller |
| `AcceptedDelivered` | `[]AcceptedMeansDelivered` | one controller |
| `RejectedStepLosesNothing` | `[]DisagreementLosesNothing` | one controller |
| `LedgerRefinement` | `Spec => ImplementsLedger` | one controller |

*One controller* is the hypothesis `Procs = {c}, "recorded" \notin Commands`: one
process at a time, killed and started again as often as one likes, that takes its
sequences from `resume.rs` and not from a person (`run-recorded` names one).
Nothing in the code keeps two controllers apart, and with two of them the four
last statements are false; `evidence_overlap` and the first three theorems say
what is left then.

With any number of processes it is enough that a process between the end of
its import and its announcement is the only one there for its sequence
(`WinInv`): the database completes an import once, and write_success's look at
the artifact is not needed for it.

With one, `SingleInv` follows the frontier `n` through the code:

* `RecordInv` – up to `n` every sequence ran once, behind `n + 1` there is no trace
  of anything, and `n + 1` ran at most once and not without leaving a lifecycle
  line or a torn log;
* `WorkInv` – at each place of an iteration, what evidence of `n + 1` exists;
* `CampaignInv` – what the campaign read, when it is Ready, is still the frontier,
  and it goes on only over a log that is not torn and over no left-over file; from
  the announcement of a step on, and after it rejected the step, the frontier is
  where it was or one further, and the next sequence is untouched unless the log
  tore (`Rejected`).

It is not enough to say that what ran is recorded: the invariant has to know
that a killed iteration leaves something that the next reader calls incomplete.
The ledger's refinement needs in addition `QuietInv`: an iteration is begun over
undamaged evidence, and no temporary file is there until it fails. Both were
checked by TLC on the instance of `evidence_single` first.

### The sampler

`ResourceSampler_proof`, from `SamplerAssumption`, for both kinds of iteration,
any failures and any number of periodic samples:

| theorem | states |
|---|---|
| `TypeCorrect` | `Spec => []TypeOK` |
| `SamplerFailureReported` | `Spec => []SamplerFailureIsReported` |
| `SuccessLeavesNothing` | `Spec => []NothingLeft`: a successful iteration leaves no request queued or taken, and its terminal sample is written |
| `PeriodicNamed` | `Spec => []PeriodicNamesLatestRole` |
| `FullySampled` | `Spec => []SuccessIsFullySampled` |

* `EndInv` – only the sampler makes itself fail, and nobody asks a sampler that
  has not failed to stop before the last request is queued; so a sampler that
  fails after that request is still there when the iteration asks for its error.
* `TerminalInv` – the terminal request is queued, taken or written, from the moment
  it is made.
* `NamesInv` – the process that is active for the observer is the latest start
  written, taken or queued, and the one the sampler sees is the latest start
  written or taken. The two differ while requests wait, which is why a periodic
  sample must take the sampler's.
* `SentInv` – the boundary samples written, the requests taken and the requests
  queued are together, in this order, the boundaries of the phases that are over.
  Nothing the sampler does changes that sequence, and each phase of the iteration
  appends its request to it.
* `TargetInv` – when the crash marker is observed, the active process is the crash
  target, whose start is the phase before. The observer reads it in one critical
  section and queues the request in a later one; `SentInv` needs the role in that
  request to be the crash target's.

The boundary samples of a file, and the boundaries of a script's first phases,
are recursive functions. What they do when a sample or a phase is added does not
need induction by an operator: a least number for which a statement fails is
taken from a set (`SmallestOf`), which shows that such a function exists
(`CollectsExists`), is the only one, whatever follows (`CollectsAgree`), and
returns a sequence (`CollectsType`).

### The local partition

`LocalPartition_proof`, from `PartitionAssumption` (the partitions are finitely
many and at least as many as the workers), for any number of processes,
partitions, workers and contents:

| theorem | states |
|---|---|
| `PartitionTypes` | `Spec => []TypeOK`: also that the occupancy never exceeds the worker budget |
| `ResultsHaveRows` | `Spec => []DoneMeansProjected` |
| `CompletionFollowsPlan` | `Spec => []CompletedRowsFromPlan`, when the source changes only between commands (`MutateAlways = FALSE`) |
| `QualifiedFollowsPlan` | `Spec => []QualifiedMeansRecordedSource`, under the same condition |
| `QualifiedAlone` | the same conclusion for one process (`Procs = {c}`), whenever the source changes |
| `QualifiedInCampaign` | `CampaignSpec => []QualifiedMeansRecordedSource`, also from `CampaignAssumption` |
| `CasesAccept` | `CampaignSpec => []RaisesOnlyShortOfWorkers`, when the launcher starts what it may start within the admission timeout (`"slow" \notin Failures`) |

The second needs that a worker that has returned has written. The third needs
more: workers that are not finished belong to a run in progress, such a run has
a plan, a command that identified the source works with it as it still is, and
what has returned or is done was written from the plan's digest (`Planned`). A
worker compares the plan with its own digest, and its digest is the source, so
that it cannot write anything else over a finished partition. That the source
may only change between commands is what an unlocked reader depends on; without
it the third conclusion is false.

What `qualify` and `verify` accept holds without it, for two reasons.

* While the source stays as it is during commands, every one of their reads sees
  the same content, and it is the plan's (`ConfirmedRun`, beside `Planned`).
* When it changes at any time, what counts is that a former content does not come
  back (`ReadOnce`): rows only come from contents the source has or has had, so
  that rows equal to the content read last cannot have come from a later one, and
  a baseline that is still the source was the source at every read in between.
  A comparison that succeeds therefore ties the rows to the identity that
  `verify_framework` compared with the plan. This needs a single process: the
  superseded worker of a second one may still write after the comparison, and
  with two processes the conclusion is false.

A campaign has one process, but a case of the recovery qualification also changes
the source *back*. It does so while nothing runs and before anything is verified
(`CaseInv`), so that the cases need the first argument only, and the operator the
second (`CampaignInv`).

That no assertion of a case fails (`CasesAccept`) is an argument about the whole
script, for any order of admission, target and number of workers. `ScriptInv` says
for each of its steps where the program under test is:

* `GateInv`: until the barrier opens all started workers wait at it and hold a
  slot each, so that with as many partitions left as there are workers there is
  always one more to start, and no wait times out. A slow launcher breaks this,
  and so does a run that has fewer partitions left: the exception in the property;
* `RunInv`: a run goes on where the killed one stopped, none of its workers fails,
  and the executions and attempts it writes down are one more than what was found;
* `CrashInv`: the target is handed out behind the first workers, so that one of
  them has finished when it starts (its slot came from there), and it stays
  inside its boundary until the kill;
* `CancelInv`: the stop finds all workers behind the barrier and before their
  rows, so that none of them writes and all of them stop;
* `AfterKillInv`: what the inspection found, what the refused, the recovering and
  the continuing command leave of it, and what the last comparison reads.

### The release path

`ReleasePath_proof`, for any trees, edits, entries, shard
fates, numbers of faults, scans, languages and polls, from `FirstTreeAssumption`
(what `main` holds at the start is sound) and `PreflightAssumption`:

| theorem | states |
|---|---|
| `GateInvariance`, `GateSoundness` | `Spec => []GateInv`, `Spec => []GateSound`: a green Merge Gate means that every entry, declared MSRV, scan and touched scope was exercised and accepted |
| `MainInvariance`, `MainSoundness` | `Spec => []MainInv`, `Spec => []MainSound`: every tree on main is sound |
| `ReleaseInvariance`, `ReleaseSoundness` | `Spec => []PfInv`, `Spec => []ReleaseSound` |
| `EvidenceStays` | `Spec => []EvidenceSurvives`, from the hypotheses below |

`GateInv` says for each job what its success proves about the checkout: the
gate itself reads results only, so its meaning is the sum of those. `MainInv`
adds that a run tests the merge of its pull request with the main it records:
when main has moved the merge is refused, when it has not the tested tree is the
squashed one. The heart of the argument is `SoundTree`, which is said of a tree
without the validators and shown to follow from what they accept. `PfInv` says
which runs the preflight knows of, that a scan which had failed when it began
makes it reject, and that a run counted as valid was completed, successful and
accepted when looked at (`Verified`); every step of a scan keeps that or makes
it a later attempt (`Stays`).

`EvidenceStays` is about any set of trees that the edits do not leave, and asks of
it that the registry's arrays are sequences, that `main` starts with accepted
evidence, that an edit names no producer but the commit it was made on (a commit
cannot contain its own number) beside those it found, and that it replaces the
sources of workloads only. Its invariant (`EvidenceInv`, model-checked first)
separates what a claim owes to its own tree, which no merge can change, from what
it owes to the commits that can be reached: those only become fewer, or are newer
than any claim on main (`Past`). What the run saw holds every commit that the
squash leaves (`Seen`), so that a producer that is still there has been compared;
and when it is gone, the oldest representation is a tree of main, none of which
replaces a source (`Unreplaced`). What the edits of a branch come to on another
main is a recursive function (`Rebased`): that it has a solution, and that it
keeps what every edit keeps, is shown by a smallest counterexample.

### The audits

`AuditIssues_proof`, from `AuditConstants` and `PeopleAssumption` (a label GitHub
knows, a marker that names an audit), for any workloads, page size, backlog,
items people open, retitle, relabel, close and reopen, and any number of events:

| theorem | states |
|---|---|
| `TypeCorrect` | `Spec => []TypeOK` |
| `CleanReadsAll` | `Spec => []CleanMeansAllRead` |
| `CreatesOneIssue` | `Spec => []OneOwnedIssue` |
| `ReportsDescribe` | `Spec => []ReportHolds`, when no item that people write carries both markers (`OneMarkerWritten`) |

* `ReadInv` – a drift run that met no failure so far has read exactly the
  controls before its place (`ReadBy`); clean is then everything.
* `OwnInv` – an issue an audit created is in what its run has found, or at least
  `page * PageSize` items are newer than it (`Listing`). An item opened during
  the listing only makes it older, so that the next page shows it or something
  behind that page is left; a short page is the last one (`PageParts`). A run
  that acts therefore knows every issue its audit created, and creates one only
  when there is none. That the listing asks for every state is what makes this
  independent of who closes the issue.
* `HoldInv` – the same of every issue with the marker, whoever wrote it, as long as
  nobody disturbed the audit, and with the state the listing showed: so the
  update that leaves `state` out for an issue listed open still leaves it open.

The hypothesis of `ReportsDescribe` is needed: an item that quotes both markers is
rewritten by one audit after the other has listed it, and loses its marker; TLC
finds that on an instance with such an item.

### Model-checked only

* Liveness, which rests on fairness and so on ENABLED, out of the prover's reach:
  `CampaignEnds`, `IterationEnds`, `EverythingEnds`, `IterationEndsAndReleases`,
  `AuditsSettle`, `SoundHeadPasses` and `PreflightEnds`.

Every other property of a passing run is stated by a theorem above.

## Findings

* `reset` truncates `customer_projection` before `source_customer`
  (`job.rs:144`) and waits for the source lock of a run in flight; that run's next
  INSERT waits for the projection. The run's lock is held by a session of its
  own, idle in its transaction, so PostgreSQL sees no cycle to break and both
  commands hang. `transform_reset_deadlock` shows it.
* The admission gate of a restarted run is as wide as `--workers`
  (`postgres-local-partition/src/main.rs`), also when fewer partitions are left:
  the workers wait until the admission timeout and fail, however often the run
  is recovered and relaunched. `partition_admission` shows the lasso.

## What is not modelled

* The framework's inside: its flow graph, retries of its own, its connection
  pools and its schema; the models contain the boundaries the workloads see.
* Row contents, arithmetic and digests as bytes: contents stand for them.
* `verify`'s merge as an algorithm, the summary verdict, the CSV workload, the
  partition measurements: see what is left.
* A controller of `EnduranceIteration` that dies itself (its orphan child is in
  `EnduranceEvidence`), and two orchestrators on one import.
* A superseded worker of the local partition whose process outlives its
  recovery, and a statement that runs on in the server after its client was
  killed: recovery is issued for a dead process, as the qualification does.
* `seed` as a process: its batches are source writes.
* The identities, latencies and worker-point evidence the recovery qualification
  writes down beside its assertions.
* Two CI runs of one commit with the same check names (a manual run beside a
  pull request's), and two preflights at a time.
* The wording of workflow files: the policy scripts that compare them line by
  line stand in the models as a set of drifted files.
* `exists` in `EvidenceStore::open` and `write_success`, which takes a file that
  cannot be looked up for an absent one: `campaign.json` would be written anew
  with a later start.
* Benchmarks, Java implementations and deployment assets: they decide nothing
  about these programs' state.

## Plan

Done: the transform with its abstract specification, its safety proofs and its
refinement; the evidence with its ledger and the proofs of both; the sampler with
its proofs; the local partition with its proofs and its recovery qualification;
the iteration composed with the transform, with its proofs; the repository's
authorities from a pull request to a release candidate with their proofs; the
audits with their proofs, and the label automation.

Left, in this order:

1. `EnduranceSummary`: the verdict and its reason codes over the evidence state,
   with the rule that an accepted summary implies an accepted campaign;
2. `CsvImport`: the file as a source without a guard, hashed and read at
   different times, with the same checkpoint contract;
3. `OrderedMerge`: `verify` as a function over two sorted sequences against its
   definition as a set difference;
4. superseded workers in `LocalPartition`, two orchestrators and a dying
   controller in `EnduranceIteration`.
