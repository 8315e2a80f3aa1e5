--------------------------- MODULE LocalPartition ---------------------------
(***************************************************************************)
(* postgres-local-partition: the run, qualify, verify and recover commands *)
(* on one run name, the workers of a run with their admission gate, and    *)
(* the two durable boundaries of a partition, its business write and its   *)
(* result.                                                                 *)
(*                                                                         *)
(* A source content stands for its digest.  The rows of a partition are    *)
(* written by one statement and are kept as the content they were          *)
(* projected from.  The flow launcher and its repository are external and  *)
(* modelled from the way main.rs builds the job and from what              *)
(* ci/validate-recovery.py requires of a continuation.                     *)
(***************************************************************************)
EXTENDS Naturals, FiniteSets, Sequences

CONSTANTS
    Procs,         \* operating-system processes, reused after they end
    Partitions,
    Workers,       \* --workers
    Contents,      \* the contents of app_source.local_partition_source
    NoRows,        \* not a content: the partition has no destination rows
    Commands,      \* the commands issued: run, qualify, verify, recover
    Failures,      \* crash, error, slow, stop
    MaxMutations,  \* bound on the changes of the source
    MutateAlways   \* the source also changes while commands run, but its
                   \* former contents do not come back

ASSUME PartitionAssumption ==
    /\ IsFiniteSet(Partitions)
    /\ Workers \in Nat \ {0} /\ Workers <= Cardinality(Partitions)
    /\ NoRows \notin Contents
    /\ Commands \subseteq {"run", "qualify", "verify", "recover"}
    /\ Failures \subseteq {"crash", "error", "slow", "stop"}
    /\ MaxMutations \in Nat /\ MutateAlways \in BOOLEAN

VARIABLES
    source,     \* the content of the source table
    past,       \* its former contents
    rows,       \* [Partitions -> Contents \union {NoRows}], the destination
    exec,       \* the latest job execution and its partition plan
    proc        \* the processes

vars == <<source, past, rows, exec, proc>>

-----------------------------------------------------------------------------
(* Processes.                                                              *)

Idle ==
    [pc |-> "idle", cmd |-> "run", baseline |-> NoRows, digest |-> NoRows,
     reported |-> NoRows, expected |-> NoRows, current |-> FALSE,
     worker |-> [x \in Partitions |-> "none"], slots |-> 0, peak |-> 0,
     stop |-> FALSE]

At(p, point) == proc[p].pc = point
Goto(p, point) == proc' = [proc EXCEPT ![p].pc = point]
Running(p) == proc[p].pc \notin {"idle", "failed", "passed"}

\* No other process works with the latest execution from now on.
Supersede(p, f) ==
    [q \in Procs |-> IF q = p THEN [f[q] EXCEPT !.current = TRUE]
                     ELSE [f[q] EXCEPT !.current = FALSE]]

Init ==
    /\ source \in Contents /\ past = <<>>
    /\ rows = [x \in Partitions |-> NoRows]
    /\ exec = [status |-> "NONE", digest |-> NoRows, done |-> {}]
    /\ proc = [p \in Procs |-> Idle]

Start(p) ==
    /\ ~ Running(p)
    /\ \E cmd \in Commands :
          proc' = [proc EXCEPT ![p] = [Idle EXCEPT !.cmd = cmd,
                     !.pc = IF cmd = "qualify" THEN "baseline" ELSE "identify"]]
    /\ UNCHANGED <<source, past, rows, exec>>

-----------------------------------------------------------------------------
(* run_once, up to the launch.                                             *)

\* qualify: the source it will hold every point against.
ReadBaseline(p) ==
    /\ At(p, "baseline")
    /\ proc' = [proc EXCEPT ![p].pc = "identify", ![p].baseline = source]
    /\ UNCHANGED <<source, past, rows, exec>>

\* source_identity: an unlocked read.
Identify(p) ==
    /\ At(p, "identify")
    /\ proc' = [proc EXCEPT ![p].digest = source,
                  ![p].pc = CASE proc[p].cmd \in {"run", "qualify"} -> "launch"
                              [] proc[p].cmd = "verify" -> "verify"
                              [] proc[p].cmd = "recover" -> "inspect"]
    /\ UNCHANGED <<source, past, rows, exec>>

\* External: an instance is created or restarted unless its latest execution is
\* in progress or complete; a restart keeps the partition plan of the first
\* execution and the results of its completed partitions.
Launch(p) ==
    /\ At(p, "launch")
    /\ IF exec.status \in {"STARTED", "COMPLETED"}
       THEN Goto(p, "failed") /\ UNCHANGED exec
       ELSE /\ exec' = IF exec.status = "NONE"
                       THEN [status |-> "STARTED", digest |-> proc[p].digest, done |-> {}]
                       ELSE [exec EXCEPT !.status = "STARTED"]
            /\ proc' = Supersede(p, [proc EXCEPT ![p].pc = "running"])
    /\ UNCHANGED <<source, past, rows>>

-----------------------------------------------------------------------------
(* The workers of a run.                                                   *)

InState(p, S) == {x \in Partitions : proc[p].worker[x] \in S}

\* Occupancy: between enter and leave.
Occupied == {"waiting", "admitted"}
Active(p) == Cardinality(InState(p, Occupied))

\* The partitions the launcher has started and not yet joined.
Unjoined(p) == InState(p, {"waiting", "admitted", "returned"})

\* External: the budget of the launcher, which stops handing out partitions
\* once it is told to stop or a partition has failed.
Startable(p) ==
    {x \in Partitions \ exec.done :
        /\ proc[p].worker[x] = "none"
        /\ Cardinality(Unjoined(p)) < Workers
        /\ ~ proc[p].stop /\ InState(p, {"failed", "stopped"}) = {}}

\* Mutant: nobody waits for the other workers.
PassesGateFreely(p, slot) == TRUE

\* AdmissionGate::admit: only the first Workers arrivals meet at the barrier.
PassesGate(p, slot) == slot >= Workers

\* enter, then admit; the last of the first Workers arrivals opens the barrier.
\* An arrival whose wait timed out still counts for the barrier.
StartWorker(p, x) ==
    LET slot == proc[p].slots IN
    /\ At(p, "running") /\ x \in Startable(p)
    /\ LET entered == [proc[p].worker EXCEPT ![x] =
                          IF PassesGate(p, slot) THEN "admitted" ELSE "waiting"]
       IN  proc' = [proc EXCEPT ![p].slots = IF @ < Workers THEN @ + 1 ELSE @,
                 ![p].peak = IF Active(p) + 1 > @ THEN Active(p) + 1 ELSE @,
                 ![p].worker = IF slot + 1 = Workers
                               THEN [y \in Partitions |-> IF entered[y] = "waiting"
                                                          THEN "admitted" ELSE entered[y]]
                               ELSE entered]
    /\ UNCHANGED <<source, past, rows, exec>>

SetWorker(p, x, to) == proc' = [proc EXCEPT ![p].worker[x] = to]

\* Mutant: the wait at the barrier has no timeout.
NeverTimesOut(p) == FALSE

\* Within the 30 seconds the launcher starts whatever it may start, unless it
\* is slow.
TimesOut(p) == Startable(p) = {} \/ "slow" \in Failures

AdmissionTimeout(p, x) ==
    /\ proc[p].worker[x] = "waiting" /\ TimesOut(p)
    /\ SetWorker(p, x, "failed")
    /\ UNCHANGED <<source, past, rows, exec>>

\* Mutant: the recorded source identity is not compared.
AssignmentTaken(p) == TRUE

\* The durable assignment against the source this run has identified.
AssignmentMatches(p) == exec.digest = proc[p].digest

\* Mutant: the count of affected rows is not looked at.
ShortWriteReturns == "returned"

ShortWrite == "failed"

\* PartitionWorker::execute after the gate: the assignment, the cancellation
\* check, and the upsert, which reads the source as it is now.
Work(p, x) ==
    /\ proc[p].worker[x] = "admitted"
    /\ \/ /\ ~ AssignmentMatches(p)
          /\ SetWorker(p, x, "failed") /\ UNCHANGED rows
       \/ /\ AssignmentMatches(p) /\ proc[p].stop
          /\ SetWorker(p, x, "stopped") /\ UNCHANGED rows
       \/ /\ AssignmentMatches(p)
          /\ rows' = [rows EXCEPT ![x] = source]
          /\ SetWorker(p, x, "returned")
       \/ /\ AssignmentMatches(p) /\ "error" \in Failures
          /\ SetWorker(p, x, ShortWrite) /\ UNCHANGED rows
    /\ UNCHANGED <<source, past, exec>>

\* External: the result of a partition becomes durable, in the execution the
\* worker belongs to.
CommitPartition(p, x) ==
    /\ proc[p].worker[x] = "returned"
    /\ SetWorker(p, x, "done")
    /\ exec' = IF proc[p].current THEN [exec EXCEPT !.done = @ \union {x}] ELSE exec
    /\ UNCHANGED <<source, past, rows>>

\* The stop file appears; the watcher requests the stop.
RequestStop(p) ==
    /\ At(p, "running") /\ "stop" \in Failures /\ ~ proc[p].stop
    /\ proc' = [proc EXCEPT ![p].stop = TRUE]
    /\ UNCHANGED <<source, past, rows, exec>>

\* External: the launcher joins its workers and persists the outcome.
Join(p) ==
    LET status == IF exec.done = Partitions THEN "COMPLETED"
                  ELSE IF InState(p, {"failed"}) = {} /\ proc[p].stop THEN "STOPPED"
                  ELSE "FAILED"
    IN
    /\ At(p, "running")
    /\ Unjoined(p) = {} /\ Startable(p) = {}
    /\ IF proc[p].current /\ exec.status = "STARTED"
       THEN exec' = [exec EXCEPT !.status = status] /\ Goto(p, "verify")
       ELSE UNCHANGED exec /\ Goto(p, "failed")
    /\ UNCHANGED <<source, past, rows>>

-----------------------------------------------------------------------------
(* Verification, a series of unlocked reads.                               *)

\* A run has to have reached its worker budget; verify_existing asks nothing.
PeakReached(p) == proc[p].cmd # "verify" => proc[p].peak = Workers

\* verify_framework.
VerifyFramework(p) ==
    /\ At(p, "verify")
    /\ Goto(p, IF exec.status = "COMPLETED" /\ AssignmentMatches(p) /\ PeakReached(p)
               THEN "report" ELSE "failed")
    /\ UNCHANGED <<source, past, rows, exec>>

\* verify_business: the source identity that is reported.
Report(p) ==
    /\ At(p, "report")
    /\ proc' = [proc EXCEPT ![p].pc = "expect", ![p].reported = source]
    /\ UNCHANGED <<source, past, rows, exec>>

\* expected_destination_identity.
Expect(p) ==
    /\ At(p, "expect")
    /\ proc' = [proc EXCEPT ![p].pc = "compare", ![p].expected = source]
    /\ UNCHANGED <<source, past, rows, exec>>

\* Mutant: qualify does not hold the source against its baseline.
BaselineIgnored(p) == TRUE

BaselineHolds(p) ==
    proc[p].cmd = "qualify" => proc[p].reported = proc[p].baseline

\* destination_identity and the verdict.
Compare(p) ==
    /\ At(p, "compare")
    /\ Goto(p, IF (\A x \in Partitions : rows[x] = proc[p].expected) /\ BaselineHolds(p)
               THEN "passed" ELSE "failed")
    /\ UNCHANGED <<source, past, rows, exec>>

-----------------------------------------------------------------------------
(* recoveryctl recover.                                                    *)

Inspect(p) ==
    /\ At(p, "inspect")
    /\ IF exec.status = "STARTED" /\ AssignmentMatches(p)
       THEN proc' = [proc EXCEPT ![p].pc = "mark", ![p].current = TRUE]
       ELSE Goto(p, "failed")
    /\ UNCHANGED <<source, past, rows, exec>>

\* The optimistic version refuses what has changed since.
MarkFailed(p) ==
    /\ At(p, "mark")
    /\ IF proc[p].current /\ exec.status = "STARTED"
       THEN /\ exec' = [exec EXCEPT !.status = "FAILED"]
            /\ proc' = Supersede(p, [proc EXCEPT ![p].pc = "idle"])
       ELSE Goto(p, "failed") /\ UNCHANGED exec
    /\ UNCHANGED <<source, past, rows>>

-----------------------------------------------------------------------------
(* The environment.                                                        *)

Crash(p) ==
    /\ "crash" \in Failures /\ Running(p)
    /\ proc' = [proc EXCEPT ![p] = Idle]
    /\ UNCHANGED <<source, past, rows, exec>>

\* recoveryctl mutate-source, or any other session.
MutateSource ==
    /\ Len(past) < MaxMutations
    /\ MutateAlways \/ \A p \in Procs : ~ Running(p)
    /\ \E c \in Contents \ {source} :
          /\ MutateAlways => \A i \in DOMAIN past : past[i] # c
          /\ source' = c
    /\ past' = Append(past, source)
    /\ UNCHANGED <<rows, exec, proc>>

\* A worker of a run, with the launcher around it.
Worker(p) ==
    \E x \in Partitions :
       StartWorker(p, x) \/ AdmissionTimeout(p, x) \/ Work(p, x) \/ CommitPartition(p, x)

Command(p) ==
    \/ ReadBaseline(p) \/ Identify(p) \/ Launch(p) \/ Join(p)
    \/ VerifyFramework(p) \/ Report(p) \/ Expect(p) \/ Compare(p)
    \/ Inspect(p) \/ MarkFailed(p)

Next ==
    \/ \E p \in Procs : Start(p) \/ Command(p) \/ Worker(p) \/ RequestStop(p) \/ Crash(p)
    \/ MutateSource

Spec == Init /\ [][Next]_vars

\* Processes that are not killed go on, their workers in parallel.
FairSpec ==
    /\ Spec
    /\ \A p \in Procs : WF_vars(Command(p)) /\ WF_vars(Worker(p))

\* The operator relaunches and recovers for as long as the run is not complete,
\* and processes are killed only finitely often.
Retry(p) == Start(p) /\ exec.status # "COMPLETED"
Relaunch(p, cmd) == Retry(p) /\ proc'[p].cmd = cmd
OperatedSpec ==
    /\ FairSpec
    /\ \A p \in Procs, cmd \in Commands : SF_vars(Relaunch(p, cmd))
    /\ <>[][\A p \in Procs : ~ Crash(p)]_vars

-----------------------------------------------------------------------------
(* Properties.                                                             *)

WorkerStates == {"none", "waiting", "admitted", "returned", "failed", "stopped", "done"}
Proc ==
    [pc : {"idle", "baseline", "identify", "launch", "running", "verify", "report", "expect",
           "compare", "inspect", "mark", "failed", "passed"},
     cmd : {"run", "qualify", "verify", "recover"},
     baseline : Contents \union {NoRows}, digest : Contents \union {NoRows},
     reported : Contents \union {NoRows}, expected : Contents \union {NoRows},
     current : BOOLEAN, stop : BOOLEAN,
     worker : [Partitions -> WorkerStates], slots : 0..Workers, peak : 0..Workers]

\* Every variable has its type; the occupancy never exceeds the budget.
TypeOK ==
    /\ source \in Contents /\ past \in Seq(Contents) /\ Len(past) <= MaxMutations
    /\ rows \in [Partitions -> Contents \union {NoRows}]
    /\ exec \in [status : {"NONE", "STARTED", "COMPLETED", "FAILED", "STOPPED"},
                 digest : Contents \union {NoRows}, done : SUBSET Partitions]
    /\ proc \in [Procs -> Proc]

\* A partition whose result is durable has its rows, whichever of its two
\* boundaries a crash, a replay, a recovery or a short write fell between.
DoneMeansProjected == \A x \in exec.done : rows[x] # NoRows

\* While the source changes only between commands, a completed run has all its
\* rows from the source its durable plan records, across any number of
\* crashes, recoveries and continuations.
CompletedRowsFromPlan ==
    exec.status = "COMPLETED" => \A x \in Partitions : rows[x] = exec.digest

\* A point that qualify or verify accepts has its rows from the source its
\* durable plan records, although nothing keeps the source from changing while
\* the workers read it and between the reads of the verification.
QualifiedMeansRecordedSource ==
    \A p \in Procs :
       At(p, "passed") /\ proc[p].cmd \in {"qualify", "verify"}
          => \A x \in Partitions : rows[x] = exec.digest

\* Every command ends: workers that wait for an admission that cannot come do
\* not wait for ever.
CommandsEnd == \A p \in Procs : Running(p) ~> ~ Running(p)

\* A run that is recovered and relaunched is eventually complete.
RelaunchCompletes == <>(exec.status = "COMPLETED")
=============================================================================
