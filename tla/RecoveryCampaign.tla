-------------------------- MODULE RecoveryCampaign --------------------------
(***************************************************************************)
(* Who drives a run of postgres-local-partition: an operator who issues    *)
(* any command at any time, or one case of the recovery qualification      *)
(* (ci/validate-recovery.py), which arms the qualification controls of     *)
(* src/qualification.rs, kills or stops the program at a chosen boundary,  *)
(* recovers and relaunches it and asserts what it finds.  Every case has a *)
(* run name and a freshly seeded source of its own.                        *)
(*                                                                         *)
(* Timing: in a case the hold of a worker (5 s) outlasts the harness's     *)
(* reaction to the ready marker (20 ms polls) and the launcher starts what *)
(* it may start within the admission timeout.                              *)
(***************************************************************************)
EXTENDS LocalPartition

CONSTANTS
    Order,      \* the partitions in the order of their keys
    Cases       \* what may drive the run

CrashCases == {"before-write", "after-business-write", "mutation"}

ASSUME CampaignAssumption ==
    /\ Cases \subseteq {"operator", "cancellation"} \union CrashCases
    /\ Order \in [1..Cardinality(Partitions) -> Partitions]
    /\ \A i, j \in DOMAIN Order : Order[i] = Order[j] => i = j
    /\ Workers < Cardinality(Partitions)
    /\ Procs # {}

VARIABLES
    case,       \* what drives the run
    harness,    \* where the case is, and what it found after the kill
    marker,     \* the marker file of the armed run
    framework   \* the executions of the job and the one whose worker last
                \* took each partition

campaignVars == <<case, harness, marker, framework>>
allVars == <<vars, campaignVars>>

\* The program under test, one process at a time.
Child == CHOOSE p \in Procs : TRUE

\* partition-<workers>, counted from zero.
Target == Order[Workers + 1]

NoMarker == [active |-> 0, peak |-> 0]
Seeded == [step |-> "begin", called |-> FALSE,
           before |-> [done |-> {}, source |-> NoRows,
                       framework |-> [executions |-> 0, worker |-> [x \in Partitions |-> 0]]]]

CampaignInit ==
    /\ Init
    /\ case \in Cases /\ harness = Seeded /\ marker = NoMarker
    /\ framework = [executions |-> 0, worker |-> [x \in Partitions |-> 0]]

-----------------------------------------------------------------------------
(* The program with its qualification controls.                            *)

\* Only the first run of a case carries the controls.
Armed == case # "operator" /\ harness.step \in {"watch", "kill", "stopping"}

Boundary == IF case = "mutation" THEN "before-write" ELSE case

\* pause_if_configured: the target stays at its boundary for good.
Paused(x, boundary) == Armed /\ case \in CrashCases /\ x = Target /\ Boundary = boundary

\* hold_if_configured: no worker passes before the stop is requested.
Held == Armed /\ case = "cancellation"

\* The marker of the pause, or of the first worker past the admission gate
\* with the occupancy of that moment.
WriteMarker ==
    /\ Armed /\ marker = NoMarker
    /\ \/ Paused(Target, "before-write")
          /\ proc[Child].worker[Target] = "admitted" /\ AssignmentMatches(Child)
       \/ Paused(Target, "after-business-write") /\ proc[Child].worker[Target] = "returned"
       \/ Held /\ InState(Child, {"admitted"}) # {}
    /\ marker' = [active |-> Active(Child), peak |-> proc[Child].peak]
    /\ UNCHANGED <<vars, case, harness, framework>>

\* External: the launcher hands out the partitions of its plan in order.
InTurn(x) ==
    \A i, j \in DOMAIN Order : i < j /\ Order[j] = x =>
       Order[i] \in exec.done \/ proc[Child].worker[Order[i]] # "none"

\* In a case the database does not fail and a held worker sees the stop.
Undisturbed(x) ==
    LET after == proc'[Child].worker[x] IN
    /\ after = "failed" => ~ AssignmentMatches(Child)
    /\ Held => proc[Child].stop /\ after = "stopped"

CampaignWork(x) ==
    /\ ~ Paused(x, "before-write")
    /\ Work(Child, x)
    /\ case # "operator" => Undisturbed(x)

\* External: a started partition gets the worker execution of this run.
TakePartition(x) ==
    /\ StartWorker(Child, x)
    /\ case # "operator" => InTurn(x)
    /\ framework' = IF case = "operator" THEN framework
                    ELSE [framework EXCEPT !.worker[x] = framework.executions]

WorkerStep ==
    \E x \in Partitions :
       \/ TakePartition(x) /\ UNCHANGED <<case, harness, marker>>
       \/ /\ \/ AdmissionTimeout(Child, x)
             \/ CampaignWork(x)
             \/ ~ Paused(x, "after-business-write") /\ CommitPartition(Child, x)
          /\ UNCHANGED campaignVars

CommandStep ==
    /\ Command(Child)
    /\ framework' = IF case # "operator" /\ exec.status # "STARTED" /\ exec'.status = "STARTED"
                    THEN [framework EXCEPT !.executions = @ + 1] ELSE framework
    /\ UNCHANGED <<case, harness, marker>>

\* spawn_stop_watcher sees the stop file.
WatcherStep ==
    /\ case = "cancellation" /\ harness.step = "stopping"
    /\ RequestStop(Child)
    /\ UNCHANGED campaignVars

-----------------------------------------------------------------------------
(* The cases.                                                              *)

Go(to) == harness' = [harness EXCEPT !.step = to, !.called = FALSE]
Asserts(claim, to) == Go(IF claim THEN to ELSE "raised")
Issue(cmd) == Start(Child) /\ proc'[Child].cmd = cmd

\* spawn_run with the controls of the case.
SpawnArmed ==
    /\ case # "operator" /\ harness.step = "begin"
    /\ Issue("run") /\ Go("watch")
    /\ UNCHANGED <<case, marker, framework>>

AllActive == marker = [active |-> Workers, peak |-> Workers]

\* wait_json_marker: without a marker the case gives up; a cancellation wants
\* every worker active, and creates the stop file.
AwaitMarker ==
    /\ harness.step = "watch" /\ (marker # NoMarker \/ ~ Running(Child))
    /\ Asserts(/\ marker # NoMarker
               /\ case = "cancellation" => AllActive,
               IF case = "cancellation" THEN "stopping" ELSE "kill")
    /\ UNCHANGED <<vars, case, marker, framework>>

\* crash_case, source_mutation_case: SIGKILL at the boundary.
Kill ==
    /\ harness.step = "kill"
    /\ Crash(Child) /\ Go("inspect")
    /\ UNCHANGED <<case, marker, framework>>

\* The stopped run reports failure with all its workers joined and no row
\* written.
CheckStopped ==
    /\ harness.step = "stopping" /\ ~ Running(Child)
    /\ Asserts(/\ proc[Child].pc = "failed" /\ proc[Child].peak = Workers
               /\ Active(Child) = 0 /\ exec.status = "STOPPED"
               /\ \A x \in Partitions : rows[x] = NoRows, "accepted")
    /\ UNCHANGED <<vars, case, marker, framework>>

\* inspect: what the kill left behind.
InspectKilled ==
    /\ harness.step = "inspect"
    /\ harness' = [harness EXCEPT
         !.before = [done |-> exec.done, source |-> source, framework |-> framework],
         !.step = IF case = "mutation" THEN "mutate"
                  ELSE IF /\ exec.status = "STARTED" /\ Target \notin exec.done
                          /\ (rows[Target] = NoRows) <=> (case = "before-write")
                       THEN "recover" ELSE "raised"]
    /\ UNCHANGED <<vars, case, marker, framework>>

\* mutate-source, and the opposite change.
ChangeSource ==
    /\ \/ harness.step = "mutate" /\ source' \in Contents \ {source} /\ Go("refuse")
       \/ harness.step = "restore" /\ source' = harness.before.source /\ Go("recover")
    /\ UNCHANGED <<past, rows, exec, proc, case, marker, framework>>

\* The commands of a case: what is called, how it has to end, what is next.
Script ==
    [refuse   |-> [cmd |-> "recover", ends |-> "failed", next |-> "restore"],
     recover  |-> [cmd |-> "recover", ends |-> "idle",   next |-> "continue"],
     continue |-> [cmd |-> "run",     ends |-> "passed", next |-> "verify"],
     verify   |-> [cmd |-> "verify",  ends |-> "passed", next |-> "compare"]]

Call ==
    /\ harness.step \in DOMAIN Script /\ ~ harness.called
    /\ Issue(Script[harness.step].cmd)
    /\ harness' = [harness EXCEPT !.called = TRUE]
    /\ UNCHANGED <<case, marker, framework>>

Return ==
    /\ harness.step \in DOMAIN Script /\ harness.called /\ ~ Running(Child)
    /\ Asserts(proc[Child].pc = Script[harness.step].ends, Script[harness.step].next)
    /\ UNCHANGED <<vars, case, marker, framework>>

\* assert_final_recovery, after the verify command.
CompareRecovery ==
    LET before == harness.before IN
    /\ harness.step = "compare"
    /\ Asserts(/\ exec.status = "COMPLETED" /\ exec.done = Partitions
               /\ framework.executions = before.framework.executions + 1
               /\ before.done # {}
               /\ \A x \in before.done : framework.worker[x] = before.framework.worker[x]
               /\ framework.worker[Target] # before.framework.worker[Target], "accepted")
    /\ UNCHANGED <<vars, case, marker, framework>>

HarnessStep ==
    \/ SpawnArmed \/ AwaitMarker \/ Kill \/ CheckStopped
    \/ InspectKilled \/ ChangeSource \/ Call \/ Return \/ CompareRecovery

-----------------------------------------------------------------------------

\* An operator, and the sessions around it.
OperatorStep ==
    /\ case = "operator"
    /\ Start(Child) \/ RequestStop(Child) \/ Crash(Child) \/ MutateSource
    /\ UNCHANGED campaignVars

CampaignNext ==
    \/ OperatorStep \/ HarnessStep
    \/ WriteMarker \/ WatcherStep \/ CommandStep \/ WorkerStep

\* Processes that are not killed go on, workers, watcher and harness beside
\* one another.
CampaignSpec ==
    /\ CampaignInit /\ [][CampaignNext]_allVars
    /\ WF_allVars(CommandStep) /\ WF_allVars(WorkerStep)
    /\ WF_allVars(HarnessStep) /\ WF_allVars(WriteMarker \/ WatcherStep)

-----------------------------------------------------------------------------
(* Properties.                                                             *)

\* Every assertion of the recovery qualification holds of the program, however
\* its workers interleave with the kill, but for the one way the admission
\* barrier has: a kill that left fewer unfinished partitions than workers.
RaisesOnlyShortOfWorkers ==
    harness.step = "raised" => Cardinality(Partitions \ harness.before.done) < Workers

\* Every command of an operator ends, and every case comes to a verdict:
\* workers that wait for an admission that cannot come do not wait for ever.
EverythingEnds ==
    /\ CommandsEnd
    /\ case # "operator" ~> harness.step \in {"accepted", "raised"}
=============================================================================
