-------------------------- MODULE ResourceSampler --------------------------
(***************************************************************************)
(* execute_sampled_recorded_iteration: one endurance iteration and the     *)
(* sampler task beside it, which share a SamplerState behind a mutex.  The *)
(* iteration reports its phases; some become boundary requests that the    *)
(* sampler turns into samples, between which it samples periodically.      *)
(***************************************************************************)
EXTENDS Naturals, Sequences

CONSTANTS
    Plans,        \* the planned iterations: "clean", "crash"
    Failures,     \* what may fail: "execution", "probe", "sampler"
    MaxPeriodic   \* bound on the periodic samples

ASSUME SamplerAssumption ==
    /\ Plans \subseteq {"clean", "crash"}
    /\ Failures \subseteq {"execution", "probe", "sampler"}
    /\ MaxPeriodic \in Nat

VARIABLES
    active,    \* the role of the process to sample, or "none"
    boundaries,\* boundary requests: <<kind, role>>
    failure,   \* the sampler has recorded a failure
    started,
    stop,
    iteration, \* the thread of control of the iteration
    sampler,   \* the sampler task
    samples    \* samples.jsonl: <<kind, role>>

state == <<active, boundaries, failure, started, stop>>
vars == <<active, boundaries, failure, started, stop, iteration, sampler, samples>>

-----------------------------------------------------------------------------
(* The phases that mean something to SamplingObserver::record.             *)

Boundary(kind) == [op |-> "boundary", kind |-> kind, role |-> "none"]
Child(role) == <<[op |-> "set", kind |-> "process-role-start", role |-> role],
                 [op |-> "clear", kind |-> "none", role |-> "none"]>>

CleanScript ==
    <<Boundary("sampler-start")>> \o Child("clean-workload") \o Child("verifier")
       \o <<Boundary("post-cleanup")>>

CrashScript ==
    <<Boundary("sampler-start"), Child("crash-target")[1],
      [op |-> "current", kind |-> "crash-marker-observed", role |-> "none"],
      Child("crash-target")[2], Boundary("post-crash-state")>>
       \o Child("plain-relaunch") \o Child("recovery") \o Child("continuation")
       \o Child("verifier") \o <<Boundary("post-cleanup")>>

Script == IF iteration.plan = "clean" THEN CleanScript ELSE CrashScript

Init ==
    /\ active = "none" /\ boundaries = <<>>
    /\ failure = FALSE /\ started = FALSE /\ stop = FALSE
    /\ iteration \in [pc : {"record"}, plan : Plans, step : {1}, role : {"none"},
                      ok : {TRUE}, error : {FALSE}, outcome : {"none"}]
    /\ sampler = [pc |-> "drain", batch |-> <<>>, active |-> "none",
                  started |-> FALSE, stop |-> FALSE, error |-> FALSE]
    /\ samples = <<>>

-----------------------------------------------------------------------------
(* The iteration.                                                          *)

Op == Script[iteration.step]

Continue ==
    iteration' = [iteration EXCEPT
        !.pc = IF iteration.step = Len(Script) THEN "terminal" ELSE "record",
        !.step = IF iteration.step = Len(Script) THEN @ ELSE @ + 1]

\* The error goes up through the iteration, which ends early.
FailExecution == iteration' = [iteration EXCEPT !.pc = "terminal", !.ok = FALSE]

\* Between two phases the workload itself may fail.
ExecutionFails ==
    /\ iteration.pc = "record" /\ "execution" \in Failures
    /\ FailExecution
    /\ UNCHANGED <<state, sampler, samples>>

\* record: a failed sampler stops the iteration at its next phase.
Record ==
    /\ iteration.pc = "record"
    /\ IF failure THEN FailExecution
       ELSE iteration' = [iteration EXCEPT !.role = Op.role,
                !.pc = CASE Op.op = "set" -> "probe" [] Op.op = "current" -> "look"
                         [] OTHER -> "push"]
    /\ UNCHANGED <<state, sampler, samples>>

\* enqueue_current_boundary: the target, read in a critical section of its own.
Look ==
    /\ iteration.pc = "look"
    /\ IF failure THEN FailExecution
       ELSE iteration' = [iteration EXCEPT !.role = active, !.pc = "probe"]
    /\ UNCHANGED <<state, sampler, samples>>

\* ResourceProbe::process, outside of the mutex.
Probe ==
    /\ iteration.pc = "probe"
    /\ \/ iteration' = [iteration EXCEPT !.pc = "push"]
       \/ "probe" \in Failures /\ FailExecution
    /\ UNCHANGED <<state, sampler, samples>>

Request == <<Op.kind, IF Op.op = "boundary" THEN "none" ELSE iteration.role>>

\* set_process, clear_process, enqueue_boundary, enqueue_current_boundary.
Push ==
    /\ iteration.pc = "push"
    /\ IF failure THEN FailExecution /\ UNCHANGED state
       ELSE /\ active' = IF Op.op \in {"set", "clear"} THEN Op.role ELSE active
            /\ started' = (started \/ Op.kind = "sampler-start")
            /\ boundaries' = IF Op.op = "clear" THEN boundaries
                             ELSE Append(boundaries, Request)
            /\ UNCHANGED <<failure, stop>>
            /\ Continue
    /\ UNCHANGED <<sampler, samples>>

TerminalKind == IF iteration.ok THEN "terminal-success" ELSE "terminal-failure"

EnqueueTerminal ==
    /\ iteration.pc = "terminal"
    /\ boundaries' = IF failure THEN boundaries
                     ELSE Append(boundaries, <<TerminalKind, "none">>)
    /\ iteration' = [iteration EXCEPT !.pc = "stop", !.error = failure]
    /\ UNCHANGED <<active, failure, started, stop, sampler, samples>>

\* Mutant: the sampler is joined without having been told to stop.
KeepSampling ==
    /\ iteration.pc = "stop"
    /\ iteration' = [iteration EXCEPT !.pc = "join"]
    /\ UNCHANGED <<state, sampler, samples>>

StopSampler ==
    /\ iteration.pc = "stop"
    /\ stop' = TRUE
    /\ iteration' = [iteration EXCEPT !.pc = "join"]
    /\ UNCHANGED <<active, boundaries, failure, started, sampler, samples>>

\* Mutant: the result of the sampler task is not looked at.
SamplingErrorSeen == iteration.error

SamplingError == iteration.error \/ sampler.error

\* join, then finalize_success or finalize_failure.
Finish ==
    /\ iteration.pc = "join" /\ sampler.pc = "finished"
    /\ iteration' = [iteration EXCEPT !.pc = "done",
          !.outcome = IF iteration.ok /\ ~ SamplingError THEN "success" ELSE "failure"]
    /\ UNCHANGED <<state, sampler, samples>>

-----------------------------------------------------------------------------
(* The sampler task.                                                       *)

SamplerGoto(point) == sampler' = [sampler EXCEPT !.pc = point]

\* One critical section takes the requests and a view of the rest.
Drain ==
    /\ sampler.pc = "drain"
    /\ sampler' = [sampler EXCEPT !.pc = "collect", !.batch = boundaries,
                      !.active = active, !.started = started, !.stop = stop]
    /\ boundaries' = <<>>
    /\ UNCHANGED <<active, failure, started, stop, iteration, samples>>

\* collect_sample: the database, the file system and the append.
Collect ==
    /\ sampler.pc = "collect" /\ sampler.batch # <<>>
    /\ samples' = Append(samples, Head(sampler.batch))
    /\ sampler' = [sampler EXCEPT !.batch = Tail(@)]
    /\ UNCHANGED <<state, iteration>>

\* Mutant: the process as it is now, instead of the one that came with the
\* requests.
ActiveNow == active

StartedThen == sampler.started
ActiveThen == sampler.active

PeriodicSamples == SelectSeq(samples, LAMBDA x : x[1] = "periodic")

Periodic ==
    /\ sampler.pc = "collect" /\ sampler.batch = <<>>
    /\ \/ SamplerGoto("leave") /\ UNCHANGED samples
       \/ /\ StartedThen /\ ~ sampler.stop
          /\ Len(PeriodicSamples) < MaxPeriodic
          /\ samples' = Append(samples, <<"periodic", ActiveThen>>)
          /\ SamplerGoto("leave")
    /\ UNCHANGED <<state, iteration>>

\* Any of the observations of a sample, or its append, fails.
CollectFails ==
    /\ sampler.pc = "collect" /\ "sampler" \in Failures
    /\ sampler.batch # <<>> \/ (StartedThen /\ ~ sampler.stop)
    /\ SamplerGoto("fail")
    /\ UNCHANGED <<state, iteration, samples>>

\* Mutant: the sampler leaves as soon as it is told to.
MayLeaveAtOnce == stop

MayLeave == stop /\ boundaries = <<>>

Leave ==
    /\ sampler.pc = "leave"
    /\ SamplerGoto(IF MayLeave THEN "finished" ELSE "drain")
    /\ UNCHANGED <<state, iteration, samples>>

\* run_sampler: the failure is published before the task ends.
FailSampler ==
    /\ sampler.pc = "fail"
    /\ failure' = TRUE /\ stop' = TRUE
    /\ sampler' = [sampler EXCEPT !.pc = "finished", !.error = TRUE]
    /\ UNCHANGED <<active, boundaries, started, iteration, samples>>

Iteration ==
    \/ ExecutionFails \/ Record \/ Look \/ Probe \/ Push
    \/ EnqueueTerminal \/ StopSampler \/ Finish

Sampler == Drain \/ Collect \/ Periodic \/ CollectFails \/ Leave \/ FailSampler

Done == iteration.pc = "done" /\ UNCHANGED vars

Next == Iteration \/ Sampler \/ Done

\* Both are tasks of one multi-threaded runtime, and nothing they wait for is
\* left out: probes, queries and appends return.
Spec == Init /\ [][Next]_vars /\ WF_vars(Iteration) /\ WF_vars(Sampler)

-----------------------------------------------------------------------------
(* Properties.                                                             *)

Roles == {"none", "clean-workload", "crash-target", "plain-relaunch", "recovery",
          "continuation", "verifier"}
Kinds == {"sampler-start", "process-role-start", "crash-marker-observed",
          "post-crash-state", "post-cleanup", "terminal-success", "terminal-failure"}
Requests == Seq(Kinds \X Roles)

\* Every variable has its type.
TypeOK ==
    /\ active \in Roles /\ boundaries \in Requests
    /\ {failure, started, stop} \subseteq BOOLEAN
    /\ iteration.pc \in {"record", "look", "probe", "push", "terminal", "stop", "join", "done"}
    /\ iteration.plan \in Plans /\ iteration.step \in 1..Len(Script)
    /\ iteration.role \in Roles
    /\ {iteration.ok, iteration.error} \subseteq BOOLEAN
    /\ iteration.outcome \in {"none", "success", "failure"}
    /\ sampler.pc \in {"drain", "collect", "leave", "fail", "finished"}
    /\ sampler.batch \in Requests /\ sampler.active \in Roles
    /\ samples \in Seq((Kinds \union {"periodic"}) \X Roles)

\* The boundaries of the first phases of a script, for every number of phases.
Sent(script) ==
    LET upto[n \in 0..Len(script)] ==
          IF n = 0 THEN <<>>
          ELSE IF script[n].op = "clear" THEN upto[n - 1]
          ELSE Append(upto[n - 1],
                      <<script[n].kind, IF script[n].op = "current" THEN "crash-target"
                                        ELSE script[n].role>>)
    IN  upto

\* The boundary samples of an iteration that was not cut short.
Expected == Sent(Script)[Len(Script)]

\* The samples of boundaries, in their order.
BoundarySamples(s) ==
    LET upto[n \in 0..Len(s)] ==
          IF n = 0 THEN <<>>
          ELSE IF s[n][1] = "periodic" THEN upto[n - 1]
          ELSE Append(upto[n - 1], s[n])
    IN  upto[Len(s)]

\* An iteration that is recorded as a success has one sample for each of its
\* boundaries, in their order, up to the terminal one: the sampler never loses
\* a request that arrives while it samples or while it is being stopped.
SuccessIsFullySampled ==
    iteration.outcome = "success" =>
       BoundarySamples(samples) = Append(Expected, <<"terminal-success", "none">>)

\* A sampler that failed, at whatever moment, keeps the iteration from being
\* recorded as a success.
SamplerFailureIsReported ==
    sampler.error /\ iteration.pc = "done" => iteration.outcome = "failure"

\* A periodic sample that names a process names the one whose start is the
\* latest start in the file: it is never attributed to a process whose start
\* has not been written, nor to one whose successor's has.
PeriodicNamesLatestRole ==
    \A i \in 1..Len(samples) :
       samples[i][1] = "periodic" /\ samples[i][2] # "none" =>
          \E j \in 1..(i - 1) :
             /\ samples[j] = <<"process-role-start", samples[i][2]>>
             /\ \A k \in (j + 1)..(i - 1) : samples[k][1] # "process-role-start"

\* The iteration is always finished: joining the sampler never waits for ever.
IterationEnds == <>(iteration.pc = "done")
=============================================================================
