------------------------- MODULE EnduranceIteration -------------------------
(***************************************************************************)
(* One endurance iteration: the orchestrator of endurance.rs and           *)
(* endurance/crash.rs, composed with the transform whose commands it       *)
(* starts as child processes.  A crash iteration arms a failpoint, waits   *)
(* for the pause marker, kills the paused child, compares the durable      *)
(* state with the crash contract, and then expects a plain relaunch to     *)
(* fail and a recovery, a continuation and a verification to succeed.      *)
(*                                                                         *)
(* The server session of a killed client outlives it: until the server     *)
(* notices, it keeps its locks and its open chunk transaction.             *)
(***************************************************************************)
EXTENDS RestartableTransform, FiniteSets, Sequences

CONSTANTS
    Failing,      \* what may go wrong besides the transform's own Failures:
                  \* "observer", "timeout", "marker", "source"
    Plans,        \* EnduranceFailure: "Clean", "BeforeCommit", "AfterCommit"
    Canonical,    \* the content `seed` leaves for the campaign
    CrashChunk,   \* CANONICAL_CRASH_CHUNK
    ChunkSize,    \* CANONICAL_CHUNK_SIZE
    Verifier      \* the verify child, which is no process of the transform

ASSUME IterationAssumption ==
    /\ Failing \subseteq {"observer", "timeout", "marker", "source"}
    /\ Plans \subseteq {"Clean", "BeforeCommit", "AfterCommit"}
    /\ Canonical \in Contents
    /\ CrashChunk \in Nat \ {0}
    /\ ChunkSizes = {ChunkSize}
    /\ RowCount[Canonical] > CrashChunk * ChunkSize
    /\ Verifier \notin Procs

VARIABLES
    plan,      \* the failure, the reader and the import of this iteration
    orch,      \* the orchestrator
    marker,    \* the pause marker: "none", "created", or the boundary in it
    exit,      \* what waiting for the child gives, or "running"
    signalled, \* children with a SIGKILL on its way
    dead,      \* killed children whose server session is still there
    troubles   \* history: everything that went wrong by itself

transform == <<source, guard, rows, attempts, exec, proc, wiped>>
harness == <<plan, orch, marker, exit, signalled, dead, troubles>>
iterVars == <<transform, harness>>

-----------------------------------------------------------------------------
(* The plan and the crash contract.                                        *)

Clean == plan.failure = "Clean"

FailureModeOf == IF plan.failure = "BeforeCommit" THEN "during-write"
                 ELSE "after-business-commit"

Armed == [chunk |-> CrashChunk, mode |-> FailureModeOf, pause |-> TRUE]

\* crash_contract: the chunks that are durable at the boundary.
ExpectedCommits ==
    IF plan.failure = "BeforeCommit" THEN CrashChunk - 1 ELSE CrashChunk

ExpectedRows == ExpectedCommits * ChunkSize

Phases == IF Clean THEN <<"run", "verify">>
          ELSE <<"relaunch", "recover", "continue", "verify">>

Phase == Phases[orch.step]

IterationInit ==
    /\ Init
    /\ plan \in [failure : Plans, reader : Modes, import : Imports]
    /\ orch = [pc |-> "seed", step |-> 1, child |-> Verifier,
               content |-> Empty, count |-> 0, outcome |-> "none"]
    /\ marker = "none" /\ exit = "success"
    /\ signalled = {} /\ dead = {} /\ troubles = {}

\* What the orchestrator goes on to, and how it ends.
Proceed(pc) == orch' = [orch EXCEPT !.pc = pc]
End(outcome) == orch' = [orch EXCEPT !.pc = "end", !.outcome = outcome]

Trouble(kind) == kind \in Failing /\ troubles' = troubles \union {kind}

-----------------------------------------------------------------------------
(* The children and their server sessions.                                 *)

\* The transform's command ends with exit code 0.
Succeeds(p) ==
    \/ At(p, "returned") /\ exec[proc[p].job][proc[p].attempt].status = "COMPLETED"
    \/ At(p, "recoverMark") /\ SameVersion(p)

Ends(p) == ~At(p, "idle") /\ proc'[p].pc = "idle"

ExitStatus(p, status) == exit' = IF orch.child = p THEN status ELSE exit

ChildStep(p) ==
    /\ p \notin dead
    /\ Step(p)
    /\ IF Ends(p)
       THEN /\ ExitStatus(p, IF Succeeds(p) THEN "success" ELSE "failure")
            /\ signalled' = signalled \ {p}
       ELSE UNCHANGED <<exit, signalled>>
    /\ UNCHANGED <<plan, orch, marker, dead, troubles>>

ChildError(p) ==
    /\ p \notin dead
    /\ InfrastructureError(p)
    /\ troubles' = troubles \union {"error"}
    /\ UNCHANGED <<plan, orch, marker, exit, signalled, dead>>

Die(p, status) ==
    /\ dead' = dead \union {p}
    /\ signalled' = signalled \ {p}
    /\ ExitStatus(p, status)
    /\ UNCHANGED <<transform, plan, orch, marker>>

\* The SIGKILL of the orchestrator arrives.
DieOfSignal(p) == p \in signalled /\ Die(p, "sigkill") /\ UNCHANGED troubles

\* Somebody else kills the child.
DieByItself(p) ==
    /\ "crash" \in Failures
    /\ p \notin dead /\ ~At(p, "idle")
    /\ Die(p, "sigkill")
    /\ troubles' = troubles \union {"crash"}

\* The server notices that the client is gone.
SessionEnds(p) ==
    /\ p \in dead
    /\ Exit(p)
    /\ dead' = dead \ {p}
    /\ UNCHANGED <<source, rows, attempts, exec, wiped>>
    /\ UNCHANGED <<plan, orch, marker, exit, signalled, troubles>>

\* fire: std::fs::write creates the marker file and then fills it.  Removing
\* it is left out: its name holds a nonce, so nobody reads it again.
CreateMarker(p) ==
    /\ p \notin dead /\ At(p, "paused") /\ marker = "none"
    /\ marker' = "created"
    /\ UNCHANGED <<transform, plan, orch, exit, signalled, dead, troubles>>

FillMarker(p) ==
    /\ p \notin dead /\ At(p, "paused") /\ marker = "created"
    /\ marker' = proc[p].fail.mode
    /\ UNCHANGED <<transform, plan, orch, exit, signalled, dead, troubles>>

\* A marker that cannot be written aborts the process.
AbortAtMarker(p) ==
    /\ p \notin dead /\ At(p, "paused") /\ marker = "none"
    /\ Trouble("marker")
    /\ Die(p, "abort")

-----------------------------------------------------------------------------
(* Starting, losing and ending children.                                   *)

\* The orchestrator starts command `start` on a free process.
Spawn(p, start, fail, next) ==
    /\ At(p, "idle")
    /\ start
    /\ proc'[p].fail = fail
    /\ proc'[p].job[1] = plan.import
    /\ proc'[p].job[3] = plan.reader
    /\ orch' = [orch EXCEPT !.pc = next, !.child = p]
    /\ exit' = "running"

Live == IF exit = "running" /\ orch.child \in Procs THEN {orch.child} ELSE {}

\* Mutant: the child is left alone when the orchestrator gives up on it.
LeaveChild == UNCHANGED signalled

\* start_kill, and kill_on_drop when the handle is dropped.
KillChild == signalled' = signalled \union Live

\* terminate_for_error: SIGKILL, and wait for the child.
Abandon ==
    /\ KillChild
    /\ Proceed("abandon")

Abandoned ==
    /\ orch.pc = "abandon" /\ exit # "running"
    /\ End("failed")
    /\ UNCHANGED <<transform, plan, marker, exit, signalled, dead, troubles>>

\* IterationObserver::record, or a query of the orchestrator's own, returns
\* an error.
ObserverFails ==
    /\ Trouble("observer")
    /\ CASE orch.pc \in {"started", "marked"} -> Abandon
         [] orch.pc = "killed" -> Proceed("abandon") /\ UNCHANGED signalled
         [] orch.pc = "record" -> KillChild /\ End("failed")
         [] orch.pc \in {"plan", "digest", "count", "state", "cleanup", "cleaned"}
               \/ (orch.pc \in {"reap", "wait"} /\ exit # "running") ->
               UNCHANGED signalled /\ End("failed")
         [] OTHER -> FALSE
    /\ UNCHANGED <<transform, plan, marker, exit, dead>>

-----------------------------------------------------------------------------
(* The crash half of a crash iteration.                                    *)

\* The campaign's prerequisite: `seed` fills the source.
Seed ==
    /\ orch.pc = "seed"
    /\ WriteSource(Canonical)
    /\ Proceed("plan")
    /\ UNCHANGED <<plan, marker, exit, signalled, dead, troubles>>

SpawnCrashChild ==
    /\ orch.pc = "plan" /\ ~Clean
    /\ \E p \in Procs : Spawn(p, StartRun(p), Armed, "started")
    /\ UNCHANGED <<plan, marker, signalled, dead, troubles>>

RecordStarted ==
    /\ orch.pc = "started"
    /\ Proceed("await")
    /\ UNCHANGED <<transform, plan, marker, exit, signalled, dead, troubles>>

MarkerIsComplete == marker \notin {"none", "created"}

\* wait_for_pause_marker polls: a complete marker, an early exit, or too late.
PollMarker ==
    /\ orch.pc = "await"
    /\ \/ MarkerIsComplete /\ UNCHANGED troubles
          /\ IF marker = FailureModeOf
             THEN Proceed("marked") /\ UNCHANGED signalled
             ELSE Abandon
       \/ ~MarkerIsComplete /\ exit # "running" /\ Abandon /\ UNCHANGED troubles
       \/ ~MarkerIsComplete /\ Trouble("timeout") /\ Abandon
    /\ UNCHANGED <<transform, plan, marker, exit, dead>>

KillPaused ==
    /\ orch.pc = "marked"
    /\ KillChild
    /\ Proceed("killed")
    /\ UNCHANGED <<transform, plan, marker, exit, dead, troubles>>

RecordKilled ==
    /\ orch.pc = "killed"
    /\ Proceed("reap")
    /\ UNCHANGED <<transform, plan, marker, exit, signalled, dead, troubles>>

\* wait_with_output, and require_sigkill.
Reap ==
    /\ orch.pc = "reap" /\ exit # "running"
    /\ IF exit = "sigkill" THEN Proceed("digest") ELSE End("failed")
    /\ UNCHANGED <<transform, plan, marker, exit, signalled, dead, troubles>>

\* observe_crash_state computes the digest without the lock.
DigestForObservation ==
    /\ orch.pc = "digest"
    /\ orch' = [orch EXCEPT !.pc = "count", !.content = source]
    /\ UNCHANGED <<transform, plan, marker, exit, signalled, dead, troubles>>

StoredRows == Cardinality(rows[<<plan.import, orch.content>>])

\* wait_for_business_rows: the count is right, or the time is up.
CountRows ==
    /\ orch.pc = "count"
    /\ orch' = [orch EXCEPT !.pc = "state", !.count = StoredRows]
    /\ UNCHANGED <<transform, plan, marker, exit, signalled, dead, troubles>>

\* The executions of the import's job, whatever their other parameters.
Observable(k, a) ==
    /\ k[1] = plan.import /\ a = attempts[k] /\ a > 0
    /\ \A l \in Keys : l[1] = plan.import => attempts[l] <= a

\* require_crash_state
IsCrashState(e) ==
    /\ e.status \in InProgress
    /\ e.position = ExpectedRows
    /\ orch.count = ExpectedRows

ObserveState ==
    /\ orch.pc = "state"
    /\ \E k \in Keys : \E a \in 1..MaxAttempts :
          /\ Observable(k, a)
          /\ IF IsCrashState(exec[k][a]) THEN Proceed("spawn") ELSE End("failed")
    /\ UNCHANGED <<transform, plan, marker, exit, signalled, dead, troubles>>

-----------------------------------------------------------------------------
(* The commands that must then fail or succeed.                            *)

BeginClean ==
    /\ orch.pc = "plan" /\ Clean
    /\ Proceed("spawn")
    /\ UNCHANGED <<transform, plan, marker, exit, signalled, dead, troubles>>

SpawnChild ==
    /\ orch.pc = "spawn"
    /\ IF Phase = "verify"
       THEN /\ orch' = [orch EXCEPT !.pc = "record", !.child = Verifier]
            /\ exit' = "running"
            /\ UNCHANGED transform
       ELSE \E p \in Procs :
              Spawn(p, IF Phase = "recover" THEN StartRecover(p) ELSE StartRun(p),
                    NoFailPoint, "record")
    /\ UNCHANGED <<plan, marker, signalled, dead, troubles>>

\* verify: source and destination compared row by row under the SHARE lock.
Verify ==
    /\ orch.child = Verifier /\ exit = "running"
    /\ exit' = IF rows[<<plan.import, source>>] = Prefix(source, RowCount[source])
               THEN "success" ELSE "failure"
    /\ UNCHANGED <<transform, plan, orch, marker, signalled, dead, troubles>>

RecordChild ==
    /\ orch.pc = "record"
    /\ Proceed("wait")
    /\ UNCHANGED <<transform, plan, marker, exit, signalled, dead, troubles>>

\* require_success, require_failure.
AsRequired == IF Phase = "relaunch" THEN exit # "success" ELSE exit = "success"

Judge ==
    /\ orch.pc = "wait" /\ exit # "running"
    /\ IF ~AsRequired THEN End("failed")
       ELSE IF Phase = "verify" THEN Proceed("cleanup")
       ELSE orch' = [orch EXCEPT !.pc = "spawn", !.step = @ + 1]
    /\ UNCHANGED <<transform, plan, marker, exit, signalled, dead, troubles>>

\* Mutant: the DELETE hits the other imports.
CleanUpOthers ==
    /\ orch.pc = "cleanup"
    /\ rows' = [s \in Scopes |-> IF s[1] # plan.import THEN {} ELSE rows[s]]
    /\ Proceed("cleaned")
    /\ UNCHANGED <<source, guard, attempts, exec, proc, wiped>>
    /\ UNCHANGED <<plan, marker, exit, signalled, dead, troubles>>

\* cleanup_business: DELETE of the iteration's own rows.
CleanUp ==
    LET own == {s \in Scopes : s[1] = plan.import /\ rows[s] # {}}
    IN  /\ orch.pc = "cleanup"
        /\ rows' = [s \in Scopes |-> IF s \in own THEN {} ELSE rows[s]]
        /\ wiped' = wiped \union own
        /\ Proceed("cleaned")
        /\ UNCHANGED <<source, guard, attempts, exec, proc>>
        /\ UNCHANGED <<plan, marker, exit, signalled, dead, troubles>>

Accept ==
    /\ orch.pc = "cleaned"
    /\ End("accepted")
    /\ UNCHANGED <<transform, plan, marker, exit, signalled, dead, troubles>>

\* Another session writes to the source during the campaign.
ForeignWrite ==
    /\ Trouble("source")
    /\ orch.pc # "seed"
    /\ \E c \in Contents : c # source /\ WriteSource(c)
    /\ UNCHANGED <<plan, orch, marker, exit, signalled, dead>>

Orchestrate ==
    \/ Seed \/ SpawnCrashChild \/ RecordStarted \/ PollMarker \/ KillPaused
    \/ RecordKilled \/ Reap \/ DigestForObservation \/ CountRows
    \/ ObserveState \/ BeginClean \/ SpawnChild \/ RecordChild \/ Judge
    \/ CleanUp \/ Accept \/ Abandoned \/ ObserverFails

\* What a child, its server session and the kernel do by themselves.
ChildProgress(p) ==
    \/ ChildStep(p) \/ DieOfSignal(p) \/ SessionEnds(p)
    \/ CreateMarker(p) \/ FillMarker(p) \/ AbortAtMarker(p)

IterationNext ==
    \/ Orchestrate \/ Verify \/ ForeignWrite
    \/ \E p \in Procs : ChildProgress(p) \/ ChildError(p) \/ DieByItself(p)

IterationSpec == IterationInit /\ [][IterationNext]_iterVars

\* The orchestrator and the children keep running.
FairIterationSpec ==
    /\ IterationSpec
    /\ WF_iterVars(Orchestrate) /\ WF_iterVars(Verify)
    /\ \A p \in Procs : WF_iterVars(ChildProgress(p))

-----------------------------------------------------------------------------
(* Properties.                                                             *)

OrchestratorPCs ==
    {"seed", "plan", "started", "await", "marked", "killed", "reap", "digest",
     "count", "state", "spawn", "record", "wait", "cleanup", "cleaned",
     "abandon", "end"}

\* The variables of the orchestrator have their types.
IterationTypeOK ==
    /\ TypeOK
    /\ plan \in [failure : Plans, reader : Modes, import : Imports]
    /\ orch \in [pc : OrchestratorPCs, step : 1..Len(Phases),
                 child : Procs \union {Verifier}, content : Contents, count : Nat,
                 outcome : {"none", "accepted", "failed"}]
    /\ marker \in {"none", "created", "during-write", "after-business-commit"}
    /\ exit \in {"running", "success", "failure", "sigkill", "abort"}
    /\ signalled \subseteq Procs /\ dead \subseteq Procs
    /\ troubles \subseteq Failing \union {"error", "crash"}

\* An accepted crash iteration really crashed at the planned boundary: its
\* first execution ended there, whatever else happened.  While nobody else
\* writes the source, recovery closed that execution and its continuation
\* delivered the rest.
AcceptedMeansRecovered ==
    (orch.outcome = "accepted" /\ ~Clean) =>
    \E k \in Keys :
        /\ k[1] = plan.import /\ attempts[k] > 0
        /\ exec[k][1].status # "COMPLETED"
        /\ exec[k][1].position = ExpectedRows
        /\ "source" \notin troubles =>
              /\ attempts[k] = 2
              /\ exec[k][1].status = "FAILED"
              /\ Latest(k) = [status |-> "COMPLETED",
                              position |-> RowCount[Canonical]]
              /\ rows[Scope(k)] = {}

\* The plain relaunch over a crashed execution changes nothing durable.
RelaunchChangesNothing ==
    [][~Clean /\ orch.pc \in {"record", "wait"} /\ Phase = "relaunch"
         /\ "source" \notin troubles
       => UNCHANGED <<rows, attempts, exec>>]_iterVars

\* When the orchestrator has returned, no child is left running.
NoSurvivor ==
    orch.outcome # "none" =>
        \A p \in Procs : At(p, "idle") \/ p \in signalled \union dead

\* Every iteration ends, and then the source is free for writers again: a
\* paused child never waits for ever for a kill that does not come.
IterationEndsAndReleases == <>[](orch.outcome # "none" /\ guard = {})

=============================================================================
