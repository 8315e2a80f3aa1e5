------------------------ MODULE RestartableTransform ------------------------
(***************************************************************************)
(* The restartable PostgreSQL to PostgreSQL transform of                   *)
(* postgres-postgres: the `run`, `recover` and `reset` commands as         *)
(* processes that share one database, with the source-stability guard, the *)
(* chunk transactions, the fault injection and the framework's job         *)
(* repository.  Any process may be killed between any two steps.           *)
(*                                                                         *)
(* A source content stands for its digest.  Its rows are the customers     *)
(* 1..RowCount[c], read in that order by both readers.  A destination row  *)
(* is a pair <<customer, content>> that remembers which source content the *)
(* row was transformed from.                                               *)
(*                                                                         *)
(* The job launcher, the chunk transaction manager and the job repository  *)
(* belong to the external framework; they are modelled from the way the    *)
(* workload configures, decorates and calls them and from what its tests   *)
(* record about them.                                                      *)
(***************************************************************************)
EXTENDS Naturals

CONSTANTS
    Imports,       \* import names
    Contents,      \* the contents app_source.source_customer can have
    Empty,         \* the content a TRUNCATE leaves
    RowCount,      \* [Contents -> Nat]
    BlankRow,      \* [Contents -> Nat], the customer with a blank name, or 0
    Modes,         \* the reader modes in use
    Procs,         \* operating-system processes, reused after they exit
    Commands,      \* the commands operators issue
    Failures,      \* the failures that happen to them
    ChunkSizes,    \* the values given to --chunk-size
    FailPoints,    \* the failpoints a run may be armed with
    MaxAttempts,   \* bound on the executions of one job instance
    FencesStaleCommits  \* whether a chunk commit of a superseded execution
                        \* is refused by the framework

FailPoint == [chunk : Nat, mode : {"during-write", "after-business-commit"},
              pause : BOOLEAN]

ASSUME ConstantsAssumption ==
    /\ Imports # {}
    /\ Modes \subseteq {"cursor", "paging"} /\ Modes # {}
    /\ Empty \in Contents
    /\ RowCount \in [Contents -> Nat]
    /\ BlankRow \in [Contents -> Nat]
    /\ RowCount[Empty] = 0
    /\ Commands \subseteq {"run", "recover", "reset"}
    /\ Failures \subseteq {"crash", "error"}
    /\ ChunkSizes \subseteq Nat \ {0}
    /\ FailPoints \subseteq FailPoint
    /\ MaxAttempts \in Nat
    /\ FencesStaleCommits \in BOOLEAN

VARIABLES
    source,    \* the committed content of app_source.source_customer
    guard,     \* the processes that hold LOCK TABLE ... IN SHARE MODE on it
    rows,      \* the committed rows of customer_projection, per scope
    attempts,  \* the number of executions of a job instance
    exec,      \* status and checkpoint position of each execution
    proc,      \* the processes
    wiped      \* history: the scopes that lost committed rows to a reset

vars == <<source, guard, rows, attempts, exec, proc, wiped>>

-----------------------------------------------------------------------------
(* Identity.                                                               *)

\* The identifying parameters of a job instance.
Keys == Imports \X Contents \X Modes

\* The destination namespace: the first two columns of the primary key.
Scopes == Imports \X Contents

Content(k) == k[2]
Mode(k) == k[3]
Scope(k) == <<k[1], k[2]>>

\* The first n rows of content c, transformed from c.
Prefix(c, n) == (1..n) \X {c}

InProgress == {"STARTED", "UNKNOWN"}
Statuses == InProgress \union {"NONE", "COMPLETED", "FAILED"}

NoExecution == [status |-> "NONE", position |-> 0]

-----------------------------------------------------------------------------
(* Processes.                                                              *)

NoFailPoint == [chunk |-> 0, mode |-> "during-write", pause |-> FALSE]

IdleProc(k) ==
    [pc |-> "idle", job |-> k, attempt |-> 0, cursor |-> 0, tx |-> {}, reads |-> 0,
     snapshot |-> Empty, size |-> 1, fail |-> NoFailPoint, ordinal |-> 0,
     seen |-> "NONE"]

SomeKey == CHOOSE k \in Keys : TRUE

\* The points of `run` at which launch_chunk is in progress.
Executing == {"chunk", "written", "paused", "failing", "uncertain"}

\* A started process goes from one point to the next.
At(p, point) == proc[p].pc = point
Goto(p, point) == proc' = [proc EXCEPT ![p].pc = point]

\* The process is gone: its connections drop, so the guard is released and
\* the open chunk transaction is rolled back.
Exit(p) ==
    /\ proc' = [proc EXCEPT ![p] = IdleProc(SomeKey)]
    /\ guard' = guard \ {p}

Latest(k) == exec[k][attempts[k]]

SetStatus(k, a, status) ==
    exec' = [exec EXCEPT ![k][a].status = status]

\* `reset` holds ACCESS EXCLUSIVE on customer_projection while it waits for
\* the source table, and PostgreSQL queues later requests behind it.
ResetHoldsProjection == \E q \in Procs : At(q, "resetTruncate")

Init ==
    /\ source = Empty
    /\ guard = {}
    /\ rows = [s \in Scopes |-> {}]
    /\ attempts = [k \in Keys |-> 0]
    /\ exec = [k \in Keys |-> [a \in 1..MaxAttempts |-> NoExecution]]
    /\ proc = [p \in Procs |-> IdleProc(SomeKey)]
    /\ wiped = {}

-----------------------------------------------------------------------------
(* The source table.                                                       *)

\* An autocommitted statement of `seed` or of any other session changes the
\* source.  It conflicts with SHARE MODE, and queues behind a waiting TRUNCATE.
WriteSource(c) ==
    /\ guard = {}
    /\ ~ResetHoldsProjection
    /\ source' = c
    /\ UNCHANGED <<guard, rows, attempts, exec, proc, wiped>>

\* Mutant: the digest is computed without the SHARE lock.
SkipLock(p, from, to) ==
    /\ At(p, from)
    /\ Goto(p, to)
    /\ UNCHANGED <<source, guard, rows, attempts, exec, wiped>>

\* lock_source_for_stable_read: SHARE locks are compatible with each other.
LockSource(p, from, to) ==
    /\ At(p, from)
    /\ ~ResetHoldsProjection
    /\ guard' = guard \union {p}
    /\ Goto(p, to)
    /\ UNCHANGED <<source, rows, attempts, exec, wiped>>

\* source_digest::compute inside the guard transaction: the content becomes
\* part of the identity.
ComputeDigest(p, from, to) ==
    /\ At(p, from)
    /\ proc' = [proc EXCEPT ![p].job = <<@[1], source, @[3]>>, ![p].pc = to]
    /\ UNCHANGED <<source, guard, rows, attempts, exec, wiped>>

-----------------------------------------------------------------------------
(* run                                                                     *)

StartRun(p) ==
    /\ "run" \in Commands
    /\ At(p, "idle")
    /\ \E i \in Imports, m \in Modes, n \in ChunkSizes, f \in FailPoints :
          proc' = [proc EXCEPT ![p] =
                     [IdleProc(<<i, Empty, m>>) EXCEPT
                        !.pc = "runLock", !.size = n, !.fail = f]]
    /\ UNCHANGED <<source, guard, rows, attempts, exec, wiped>>

\* Mutant: an execution in progress does not keep a second one from starting.
RestartableUnlessCompleted(k) ==
    attempts[k] > 0 => Latest(k).status # "COMPLETED"

\* An instance starts again only when its latest execution has failed.
Restartable(k) ==
    attempts[k] > 0 => Latest(k).status = "FAILED"

\* Mutant: the resumed reader skips one row.
InheritedOneAhead(k) ==
    IF attempts[k] = 0 THEN 0 ELSE Latest(k).position + 1

\* inherited_progress: the checkpoint of the latest execution.
Inherited(k) ==
    IF attempts[k] = 0 THEN 0 ELSE Latest(k).position

\* launch_chunk against the job repository, when the instance is new or its
\* latest execution failed: a new execution inherits the checkpoint of the
\* latest one, and the cursor reader opens its snapshot of the source.
Launch(p) ==
    LET k == proc[p].job
    IN  /\ At(p, "launch")
        /\ attempts[k] < MaxAttempts
        /\ Restartable(k)
        /\ attempts' = [attempts EXCEPT ![k] = @ + 1]
        /\ exec' = [exec EXCEPT ![k][attempts[k] + 1] =
                       [status |-> "STARTED", position |-> Inherited(k)]]
        /\ proc' = [proc EXCEPT ![p].pc = "chunk",
                                ![p].attempt = attempts[k] + 1,
                                ![p].cursor = Inherited(k),
                                ![p].snapshot = source]
        /\ UNCHANGED <<source, guard, rows, wiped>>

\* The launcher refuses an instance that is in progress or completed; the
\* error leaves `run`, which drops the guard.
RefuseLaunch(p) ==
    LET k == proc[p].job
    IN  /\ At(p, "launch")
        /\ \/ ~Restartable(k)
           \/ attempts[k] = MaxAttempts  \* the bound: nobody retries again
        /\ Exit(p)
        /\ UNCHANGED <<source, rows, attempts, exec, wiped>>

\* The cursor reader reads its own snapshot, the paging reader whatever is
\* committed when it asks for a page.
Visible(p) ==
    IF Mode(proc[p].job) = "cursor" THEN proc[p].snapshot ELSE source

\* Mutant: the reader stops one row early.
LastReadShort(p) ==
    LET wanted == proc[p].cursor + proc[p].size
        available == RowCount[Visible(p)]
    IN  IF wanted < available THEN wanted ELSE available - 1

\* The last row of the next chunk: chunk_size rows, or what is left.
LastRead(p) ==
    LET wanted == proc[p].cursor + proc[p].size
        available == RowCount[Visible(p)]
    IN  IF wanted < available THEN wanted ELSE available

\* The rows of the next chunk, transformed.
Batch(p) ==
    ((proc[p].cursor + 1)..LastRead(p)) \X {Visible(p)}

HasBlank(p) == \E r \in Batch(p) : r[1] = BlankRow[r[2]]

\* Mutant: INSERT ... ON CONFLICT DO NOTHING.
NeverCollides(batch, stored) == FALSE

\* The primary key is (import_name, source_digest, customer_id), and the
\* INSERT has no conflict clause.
Collides(batch, stored) == \E r \in batch, old \in stored : r[1] = old[1]

CollidesInFlight(p) ==
    \E q \in Procs \ {p} :
        /\ Scope(proc[q].job) = Scope(proc[p].job)
        /\ Collides(Batch(p), proc[q].tx)

Targets(p, ordinal, mode) ==
    /\ proc[p].fail.chunk # 0
    /\ proc[p].fail.chunk = ordinal
    /\ proc[p].fail.mode = mode

\* begin_for, then the writer's INSERT inside the open transaction.  The
\* statement waits for ACCESS EXCLUSIVE holders and for uncommitted rows
\* with the same key.  An armed during-write failpoint fires afterwards.
WriteChunk(p) ==
    LET n == proc[p].ordinal + 1
    IN  /\ At(p, "chunk")
        /\ Batch(p) # {}
        /\ ~HasBlank(p)
        /\ ~ResetHoldsProjection
        /\ ~CollidesInFlight(p)
        /\ ~Collides(Batch(p), rows[Scope(proc[p].job)])
        /\ proc' = [proc EXCEPT
              ![p].tx = Batch(p),
              ![p].reads = LastRead(p) - proc[p].cursor,
              ![p].ordinal = n,
              ![p].pc = IF ~Targets(p, n, "during-write") THEN "written"
                        ELSE IF proc[p].fail.pause THEN "paused"
                        ELSE "failing"]
        /\ UNCHANGED <<source, guard, rows, attempts, exec, wiped>>

\* The processor rejects a blank name, or the primary key rejects the rows.
FailChunk(p) ==
    /\ At(p, "chunk")
    /\ Batch(p) # {}
    /\ \/ HasBlank(p)
       \/ /\ ~ResetHoldsProjection
          /\ ~CollidesInFlight(p)
          /\ Collides(Batch(p), rows[Scope(proc[p].job)])
    /\ Goto(p, "failing")
    /\ UNCHANGED <<source, guard, rows, attempts, exec, wiped>>

\* A database error while reading, writing or committing, reported to the
\* pipeline before the chunk is durable.
InfrastructureError(p) ==
    /\ "error" \in Failures
    /\ At(p, "chunk") \/ At(p, "written")
    /\ Goto(p, "failing")
    /\ UNCHANGED <<source, guard, rows, attempts, exec, wiped>>

\* Mutants: the position restarts with each chunk, or runs backwards.
ChunkPosition(committed, chunk) == chunk
BackwardPosition(committed, chunk) == committed - chunk

\* state_provider: the checkpoint counts the items of every committed chunk.
NextPosition(committed, chunk) == committed + chunk

\* Mutant: recovery does not stop the commits of the execution it closed.
NeverFenced(k, a) == TRUE

\* Whether the framework lets an execution commit another chunk.
MayCommit(k, a) == FencesStaleCommits => exec[k][a].status \in InProgress

\* The business rows and the checkpoint position become durable in one
\* transaction.  An armed after-business-commit failpoint fires afterwards.
CommitChunk(p) ==
    LET k == proc[p].job
        a == proc[p].attempt
        position == NextPosition(exec[k][a].position, proc[p].reads)
    IN  /\ At(p, "written")
        /\ MayCommit(k, a)
        /\ rows' = [rows EXCEPT ![Scope(k)] = @ \union proc[p].tx]
        /\ exec' = [exec EXCEPT ![k][a].position = position]
        /\ proc' = [proc EXCEPT
              ![p].tx = {},
              ![p].cursor = @ + proc[p].reads,
              ![p].pc =
                IF ~Targets(p, proc[p].ordinal, "after-business-commit")
                THEN "chunk"
                ELSE IF proc[p].fail.pause THEN "paused" ELSE "uncertain"]
        /\ UNCHANGED <<source, guard, attempts, wiped>>

\* A framework that fences refuses the commit of a superseded execution.
RefuseCommit(p) ==
    /\ At(p, "written")
    /\ ~MayCommit(proc[p].job, proc[p].attempt)
    /\ Goto(p, "failing")
    /\ UNCHANGED <<source, guard, rows, attempts, exec, wiped>>

\* The pipeline rolls the chunk back and the launcher persists FAILED.  An
\* execution that recovery closed meanwhile has another version: the update
\* is refused and `run` ends with that error instead.
PersistFailure(p) ==
    LET k == proc[p].job
        a == proc[p].attempt
    IN  /\ At(p, "failing")
        /\ exec[k][a].status \in InProgress
        /\ SetStatus(k, a, "FAILED")
        /\ proc' = [proc EXCEPT ![p].tx = {}, ![p].pc = "returned"]
        /\ UNCHANGED <<source, guard, rows, attempts, wiped>>

\* CommitOutcomeUnknown: the launcher cannot tell whether the chunk is
\* durable.  Either status is possible from here.
PersistUnknown(p) ==
    LET k == proc[p].job
        a == proc[p].attempt
    IN  /\ At(p, "uncertain")
        /\ exec[k][a].status \in InProgress
        /\ \E status \in {"UNKNOWN", "FAILED"} : SetStatus(k, a, status)
        /\ Goto(p, "returned")
        /\ UNCHANGED <<source, guard, rows, attempts, wiped>>

\* The reader is exhausted: the launcher persists COMPLETED.
Complete(p) ==
    LET k == proc[p].job
        a == proc[p].attempt
    IN  /\ At(p, "chunk")
        /\ Batch(p) = {}
        /\ exec[k][a].status \in InProgress
        /\ SetStatus(k, a, "COMPLETED")
        /\ Goto(p, "returned")
        /\ UNCHANGED <<source, guard, rows, attempts, wiped>>

\* The terminal status update of an execution that is no longer in progress
\* fails, launch_chunk returns the error and `run` drops the guard.
LaunchError(p) ==
    /\ \/ At(p, "failing") \/ At(p, "uncertain")
       \/ At(p, "chunk") /\ Batch(p) = {}
    /\ exec[proc[p].job][proc[p].attempt].status \notin InProgress
    /\ Exit(p)
    /\ UNCHANGED <<source, rows, attempts, exec, wiped>>

\* launch_chunk returned: the guard transaction commits and the process ends.
FinishRun(p) ==
    /\ At(p, "returned")
    /\ Exit(p)
    /\ UNCHANGED <<source, rows, attempts, exec, wiped>>

-----------------------------------------------------------------------------
(* recover                                                                 *)

StartRecover(p) ==
    /\ "recover" \in Commands
    /\ At(p, "idle")
    /\ \E i \in Imports, m \in Modes :
          proc' = [proc EXCEPT ![p] =
                     [IdleProc(<<i, Empty, m>>) EXCEPT !.pc = "recoverLock"]]
    /\ UNCHANGED <<source, guard, rows, attempts, exec, wiped>>

\* The guard transaction commits before the repository is consulted.
UnlockForRecovery(p) ==
    /\ At(p, "recoverUnlock")
    /\ guard' = guard \ {p}
    /\ Goto(p, "recoverFind")
    /\ UNCHANGED <<source, rows, attempts, exec, wiped>>

\* First unit of work: the latest execution of the live identity, and its
\* version.  `recover` ends here unless that execution requires recovery.
FindExecution(p) ==
    LET k == proc[p].job
        found == attempts[k] > 0 /\ Latest(k).status \in InProgress
    IN  /\ At(p, "recoverFind")
        /\ IF found
           THEN /\ proc' = [proc EXCEPT ![p].pc = "recoverMark",
                                        ![p].attempt = attempts[k],
                                        ![p].seen = Latest(k).status]
                /\ UNCHANGED guard
           ELSE Exit(p)
        /\ UNCHANGED <<source, rows, attempts, exec, wiped>>

\* Mutant: the recovery request carries no version.
AnyVersion(p) == TRUE

\* The execution still is as the first unit of work found it.
SameVersion(p) == exec[proc[p].job][proc[p].attempt].status = proc[p].seen

\* Second unit of work: mark_failed carries the version read before, and the
\* repository refuses it when the execution has changed since.
MarkFailed(p) ==
    LET k == proc[p].job
        a == proc[p].attempt
    IN  /\ At(p, "recoverMark")
        /\ IF SameVersion(p)
           THEN SetStatus(k, a, "FAILED")
           ELSE UNCHANGED exec
        /\ Exit(p)
        /\ UNCHANGED <<source, rows, attempts, wiped>>

-----------------------------------------------------------------------------
(* reset: one implicit transaction that truncates both workload tables.    *)

StartReset(p) ==
    /\ "reset" \in Commands
    /\ At(p, "idle")
    /\ proc' = [proc EXCEPT ![p].pc = "resetLock"]
    /\ UNCHANGED <<source, guard, rows, attempts, exec, wiped>>

\* The first TRUNCATE waits for every open chunk transaction.
TruncateProjection(p) ==
    /\ At(p, "resetLock")
    /\ ~ResetHoldsProjection
    /\ \A q \in Procs : proc[q].tx = {}
    /\ Goto(p, "resetTruncate")
    /\ UNCHANGED <<source, guard, rows, attempts, exec, wiped>>

\* The second TRUNCATE waits for every guard, then both commit.
TruncateSource(p) ==
    /\ At(p, "resetTruncate")
    /\ guard = {}
    /\ rows' = [s \in Scopes |-> {}]
    /\ wiped' = wiped \union {s \in Scopes : rows[s] # {}}
    /\ source' = Empty
    /\ Exit(p)
    /\ UNCHANGED <<attempts, exec>>

-----------------------------------------------------------------------------
\* SIGKILL, SIGTERM (no handler is installed), abort, or any error that
\* leaves a command early: nothing more is persisted.
Crash(p) ==
    /\ "crash" \in Failures
    /\ ~At(p, "idle")
    /\ Exit(p)
    /\ UNCHANGED <<source, rows, attempts, exec, wiped>>

\* The steps a live, unpaused process takes on its own.
Step(p) ==
    \/ LockSource(p, "runLock", "runDigest")
    \/ ComputeDigest(p, "runDigest", "launch")
    \/ Launch(p) \/ RefuseLaunch(p)
    \/ WriteChunk(p) \/ FailChunk(p) \/ CommitChunk(p) \/ RefuseCommit(p)
    \/ PersistFailure(p) \/ PersistUnknown(p) \/ Complete(p)
    \/ LaunchError(p) \/ FinishRun(p)
    \/ LockSource(p, "recoverLock", "recoverDigest")
    \/ ComputeDigest(p, "recoverDigest", "recoverUnlock")
    \/ UnlockForRecovery(p) \/ FindExecution(p) \/ MarkFailed(p)
    \/ TruncateProjection(p) \/ TruncateSource(p)

\* What operators, other sessions and failures do to it.
Environment(p) ==
    \/ StartRun(p) \/ StartRecover(p) \/ StartReset(p)
    \/ InfrastructureError(p) \/ Crash(p)

Next ==
    \/ \E p \in Procs : Step(p) \/ Environment(p)
    \/ \E c \in Contents : WriteSource(c)

Spec == Init /\ [][Next]_vars

\* A process that is not paused or killed keeps taking its next step.
FairSpec == Spec /\ \A p \in Procs : WF_vars(Step(p))

-----------------------------------------------------------------------------
(* Properties.                                                             *)

PCs == Executing \union
       {"idle", "runLock", "runDigest", "launch", "returned", "recoverLock",
        "recoverDigest", "recoverUnlock", "recoverFind", "recoverMark",
        "resetLock", "resetTruncate"}

Proc == [pc : PCs, job : Keys, attempt : 0..MaxAttempts, cursor : Nat,
         tx : SUBSET (Nat \X Contents), reads : Nat, snapshot : Contents,
         size : Nat \ {0}, fail : FailPoint, ordinal : Nat, seen : Statuses]

Execution == [status : Statuses, position : Nat]

\* Every variable has its type: the durable state of job.rs, the locks of
\* source_digest.rs and the local state of a command.
TypeOK ==
    /\ source \in Contents
    /\ guard \in SUBSET Procs
    /\ rows \in [Scopes -> SUBSET (Nat \X Contents)]
    /\ attempts \in [Keys -> 0..MaxAttempts]
    /\ exec \in [Keys -> [1..MaxAttempts -> Execution]]
    /\ proc \in [Procs -> Proc]
    /\ wiped \in SUBSET Scopes

\* Every row in the namespace of a digest was transformed from the content
\* with that digest: the SHARE lock spans digest and read, for the snapshot
\* of the cursor reader and for the pages of the paging reader, whatever
\* other sessions write and whichever process dies (job.rs, run).
RowsComeFromTheirDigest ==
    \A s \in Scopes : \A r \in rows[s] : r[2] = s[2]

\* No split state: the destination of a scope holds exactly the rows that the
\* checkpoints of its executions cover, at every instant, although several
\* executions, reader modes, crashes and recoveries write to that scope
\* (the AtomicSameResource contract of component_revisions).
BusinessRowsMatchCheckpoints ==
    \A s \in Scopes \ wiped :
        rows[s] = UNION {Prefix(s[2], exec[k][a].position) :
                           k \in {<<s[1], s[2], m>> : m \in Modes},
                           a \in 1..MaxAttempts}

\* An execution is COMPLETED only when every row of its own source content is
\* in the destination, once.
CompletedMeansWholeSource ==
    \A k \in Keys : \A a \in 1..MaxAttempts :
        /\ exec[k][a].status = "COMPLETED"
        /\ Scope(k) \notin wiped
        => rows[Scope(k)] = Prefix(Content(k), RowCount[Content(k)])

\* Cursor and paging instances share a destination namespace but never both
\* advance in it: the first to commit owns it, the other is refused by the
\* primary key without moving its checkpoint (writer.rs, no conflict clause).
ModesNeverInterleave ==
    \A i \in Imports, c \in Contents : <<i, c>> \notin wiped =>
        \A m, n \in Modes : \A a, b \in 1..MaxAttempts :
            \/ m = n
            \/ exec[<<i, c, m>>][a].position = 0
            \/ exec[<<i, c, n>>][b].position = 0

\* An instance has one unfinished execution at most, its latest one: all the
\* earlier ones are FAILED, so nothing is launched next to a live execution
\* or after a completed one.
OnlyLatestIsUnfinished ==
    \A k \in Keys : \A a \in 1..MaxAttempts :
        /\ a < attempts[k] => exec[k][a].status = "FAILED"
        /\ a > attempts[k] => exec[k][a] = NoExecution

\* When a superseded process can no longer commit, an execution resumes
\* exactly behind the rows its instance has delivered, so a restart neither
\* redelivers a chunk nor leaves a gap, even when recovery was applied to a
\* process that is still alive.
ResumesBehindDeliveredRows ==
    FencesStaleCommits =>
    \A p \in Procs :
        LET k == proc[p].job
            a == proc[p].attempt
        IN  /\ proc[p].pc \in Executing
            /\ exec[k][a].status \in InProgress
            /\ Scope(k) \notin wiped
            /\ \E b \in 1..MaxAttempts : exec[k][b].position > 0
            => rows[Scope(k)] = Prefix(Content(k), proc[p].cursor)

\* A finished execution stays as it finished: recovery that races with the
\* last steps of a live process never turns COMPLETED into FAILED, and that
\* process never revives an execution that recovery closed.
FinishedStaysFinished ==
    [][\A k \in Keys : \A a \in 1..MaxAttempts :
          exec[k][a].status \in {"COMPLETED", "FAILED"}
          => exec'[k][a].status = exec[k][a].status]_vars

\* The source-stability window of a run or recovery closes: every process
\* that holds the guard eventually gives it up.
GuardIsReleased ==
    \A p \in Procs : p \in guard ~> p \notin guard

-----------------------------------------------------------------------------
(* The transform implements the exactly-once import.                       *)

DeliveredCustomers ==
    [s \in Scopes |-> IF s \in wiped THEN {} ELSE {r[1] : r \in rows[s]}]

CompletedScopes ==
    {s \in Scopes \ wiped :
        \E m \in Modes : \E a \in 1..MaxAttempts :
            exec[<<s[1], s[2], m>>][a].status = "COMPLETED"}

Import == INSTANCE ExactlyOnceImport WITH
            Total <- [s \in Scopes |-> RowCount[s[2]]],
            delivered <- DeliveredCustomers,
            announced <- CompletedScopes

\* Every step of the processes delivers the next rows of one scope,
\* announces a whole scope, wipes, or is invisible.
ImplementsExactlyOnceImport == Import!Spec

=============================================================================
