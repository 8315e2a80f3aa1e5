-------------------------- MODULE EnduranceEvidence --------------------------
(***************************************************************************)
(* The durable evidence of an endurance campaign and the commands of       *)
(* postgres-postgres-endurancectl that write it and decide from it:        *)
(* run-recorded and run-sampled ("recorded"), run-next, run-batch,         *)
(* run-guarded-batch and run-campaign.  Every command is a process, no     *)
(* lock is taken, a process may be killed between and inside the           *)
(* file-system calls, and an open, a write or a look at the evidence may   *)
(* meet an I/O error.                                                      *)
(*                                                                         *)
(* events.jsonl is kept as what a reader extracts from it: the sequences   *)
(* that have a lifecycle event, the number of terminal events of each, and *)
(* the condition of the last line.  A sequence's terminal artifacts are    *)
(* iterations/<sequence>.json (at most one) and failures/<sequence>-*.     *)
(***************************************************************************)
EXTENDS Naturals

CONSTANTS
    Procs,         \* operating-system processes, reused after they end
    MaxSeq,        \* bound on the sequences worked on
    MaxClock,      \* bound on the clock
    MinElapsed,    \* CampaignAcceptancePolicy.minimum_elapsed
    MinCompleted,  \* CampaignAcceptancePolicy.minimum_completed_iterations
    BatchSizes,    \* values of --iterations
    Commands,      \* the commands issued
    Failures       \* what may go wrong

ASSUME EvidenceAssumption ==
    /\ MaxSeq \in Nat \ {0} /\ MaxClock \in Nat
    /\ MinElapsed \in Nat
    /\ MinCompleted \in Nat \ {0}
    /\ BatchSizes \subseteq Nat \ {0}
    /\ Commands \subseteq {"recorded", "next", "batch", "guarded", "campaign"}
    /\ Failures \subseteq {"crash", "io", "child", "guard", "clock"}

VARIABLES
    store,     \* absent, campaign (campaign.json only) or open (events.jsonl too)
    created,   \* created_at of campaign.json
    log,       \* events.jsonl
    files,     \* the terminal artifacts
    imported,  \* external: the sequences whose job instance is COMPLETED
    runs,      \* history: how often the workload was started for a sequence
    clock,     \* the wall clock
    proc       \* the processes

vars == <<store, created, log, files, imported, runs, clock, proc>>

Seqs == 1..MaxSeq

Logs == [begun : SUBSET Seqs, won : [Seqs -> 0..2], lost : [Seqs -> 0..2],
         tail : {"whole", "cut", "torn"}]

\* Only one and more than one terminal event are told apart.
Bump(n) == IF n = 0 THEN 1 ELSE 2

-----------------------------------------------------------------------------
(* resume.rs: what a reader concludes from the log l and the artifacts f.  *)

\* Mutant: a started sequence without failure evidence counts as recorded.
RecordedUnlessFailed(l, f, s) ==
    s \in l.begun /\ l.lost[s] = 0 /\ s \notin f.failed

Recorded(l, f, s) ==
    /\ l.won[s] = 1 /\ s \in f.singles
    /\ l.lost[s] = 0 /\ s \notin f.failed

HasEvidence(l, f) ==
    l.begun \union f.singles \union f.failed
       \union {s \in Seqs : l.won[s] > 0 \/ l.lost[s] > 0}

Frontier(l, f) ==
    CHOOSE n \in 0..MaxSeq :
       /\ \A s \in 1..n : Recorded(l, f, s)
       /\ n < MaxSeq => ~ Recorded(l, f, n + 1)

\* A failed sequence is told from an inconsistent one.
Failed(l, f, s) ==
    /\ l.lost[s] = 1 \/ s \in f.failed
    /\ l.lost[s] < 2 /\ l.won[s] = 0 /\ s \notin f.singles

Incomplete(l, f, s) ==
    /\ s \in l.begun
    /\ l.lost[s] = 0 /\ s \notin f.failed
    /\ l.won[s] = 0 /\ s \notin f.singles

\* Mutant: an interrupted iteration is taken as not started.
ReadyOverIncomplete(l, f) ==
    LET n == Frontier(l, f) IN
    IF \E s \in HasEvidence(l, f) : s > n + 1 THEN "inconsistent"
    ELSE IF n + 1 \notin HasEvidence(l, f) \/ Incomplete(l, f, n + 1) THEN "ready"
    ELSE IF Failed(l, f, n + 1) THEN "failure" ELSE "inconsistent"

State(l, f) ==
    LET n == Frontier(l, f) IN
    IF \E s \in HasEvidence(l, f) : s > n + 1 THEN "inconsistent"
    ELSE IF n + 1 \notin HasEvidence(l, f) THEN "ready"
    ELSE IF Failed(l, f, n + 1) THEN "failure"
    ELSE IF Incomplete(l, f, n + 1) THEN "incomplete"
    ELSE "inconsistent"

Statuses == [state : {"ready", "incomplete", "failure", "inconsistent"},
             frontier : 0..MaxSeq]

Inconsistent == [state |-> "inconsistent", frontier |-> 0]

\* Whether a temporary file of an atomic write lies beside the artifacts.
TempVisible ==
    \/ files.litter
    \/ \E p \in Procs : proc[p].pc \in {"publish", "publish-failure"}

\* The status of a log read earlier and the artifacts as they are now.
Reconcile(l) ==
    IF store # "open" \/ l.tail = "torn" \/ TempVisible
    THEN Inconsistent
    ELSE [state |-> State(l, files), frontier |-> Frontier(l, files)]

\* A look that cannot read campaign.json, the workload binary, the log or an
\* artifact, or finds another binary than the recorded one, has no error of its
\* own: it reports inconsistent evidence at frontier 0.
Looks(l) ==
    {Reconcile(l)} \union IF "io" \in Failures THEN {Inconsistent} ELSE {}

-----------------------------------------------------------------------------
(* Processes.                                                              *)

EmptyLog == [begun |-> {}, won |-> [s \in Seqs |-> 0], lost |-> [s \in Seqs |-> 0],
             tail |-> "whole"]

Idle == [pc |-> "idle", cmd |-> "recorded", goal |-> "select", seq |-> 1,
         left |-> 0, status |-> Inconsistent, expected |-> 0,
         started |-> 0, seen |-> EmptyLog, stop |-> "none", elapsed |-> 0]

Running(p) == proc[p].pc \notin {"idle", "stopped"}

At(p, point) == proc[p].pc = point
Goto(p, point) == proc' = [proc EXCEPT ![p].pc = point]

\* The log read for a decision is of no use after it.
Stop(p, reason) ==
    proc' = [proc EXCEPT ![p].pc = "stopped", ![p].stop = reason,
                         ![p].seen = EmptyLog]

Init ==
    /\ store = "absent" /\ created = 0
    /\ log = EmptyLog
    /\ files = [singles |-> {}, failed |-> {}, litter |-> FALSE]
    /\ imported = {}
    /\ runs = [s \in Seqs |-> 0]
    /\ clock = 0
    /\ proc = [p \in Procs |-> Idle]

\* The operator issues a command.
Start(p) ==
    /\ ~ Running(p)
    /\ \/ /\ "recorded" \in Commands
          /\ \E s \in Seqs :
                proc' = [proc EXCEPT ![p] = [Idle EXCEPT !.pc = "open", !.seq = s]]
       \/ /\ "next" \in Commands
          /\ proc' = [proc EXCEPT ![p] = [Idle EXCEPT !.pc = "scan", !.cmd = "next",
                                                      !.left = 1]]
       \/ \E cmd \in Commands \intersect {"batch", "guarded"} :
             \E n \in BatchSizes :
                proc' = [proc EXCEPT ![p] = [Idle EXCEPT !.pc = "scan", !.cmd = cmd,
                                                         !.left = n]]
       \/ /\ "campaign" \in Commands
          /\ proc' = [proc EXCEPT ![p] =
                        [Idle EXCEPT !.pc = "open", !.cmd = "campaign",
                                     !.goal = "initial"]]
    /\ UNCHANGED <<store, created, log, files, imported, runs, clock>>

-----------------------------------------------------------------------------
(* EvidenceStore::open, by an execution or by a campaign that starts.      *)

\* Mutant: a campaign that starts again counts its time from now on.
StartedNow(p) == clock

\* The start of the campaign is taken from its durable record, and a running
\* campaign does not take it again.
StartedAt(p) ==
    IF proc[p].cmd = "campaign" /\ proc[p].goal # "initial"
    THEN proc[p].started ELSE created

OpenCampaign(p) ==
    /\ At(p, "open")
    /\ IF store = "absent"
       THEN proc' = [proc EXCEPT ![p].pc = "create", ![p].started = clock]
       ELSE proc' = [proc EXCEPT ![p].pc = "open-log", ![p].started = StartedAt(p)]
    /\ UNCHANGED <<store, created, log, files, imported, runs, clock>>

\* The rename replaces a campaign.json that another process created since.
CreateCampaign(p) ==
    /\ At(p, "create")
    /\ store' = IF store = "absent" THEN "campaign" ELSE store
    /\ created' = proc[p].started
    /\ Goto(p, "open-log")
    /\ UNCHANGED <<log, files, imported, runs, clock>>

\* A campaign goes on to its first look at the evidence, an execution to the
\* iteration, or to the failure artifact when the sampler finds no database.
OpenLog(p) ==
    /\ At(p, "open-log")
    /\ store' = "open"
    /\ \/ /\ proc[p].goal = "initial"
          /\ Goto(p, "scan")
       \/ /\ proc[p].goal = "select"
          /\ Goto(p, "begin")
       \/ /\ proc[p].goal = "select" /\ "child" \in Failures
          /\ Goto(p, "fail")
    /\ UNCHANGED <<created, log, files, imported, runs, clock>>

\* The binary, campaign.json or the log cannot be opened, written or synced, or
\* the binary is not the recorded one.  The error ends the command before there
\* is an iteration that could fail; the file may be there all the same when only
\* its sync failed.
OpenFails(p) ==
    /\ "io" \in Failures
    /\ proc[p].pc \in {"open", "create", "open-log"}
    /\ \/ UNCHANGED <<store, created>>
       \/ /\ At(p, "create")
          /\ store' = IF store = "absent" THEN "campaign" ELSE store
          /\ created' = proc[p].started
       \/ /\ At(p, "open-log")
          /\ store' = "open" /\ UNCHANGED created
    /\ Stop(p, "error")
    /\ UNCHANGED <<log, files, imported, runs, clock>>

-----------------------------------------------------------------------------
(* append_jsonl: one write of the whole line, then flush and sync.         *)

Append(l, l2) ==
    IF l.tail = "whole" THEN [l2 EXCEPT !.tail = "whole"]
    ELSE [l EXCEPT !.tail = "torn"]

\* What a write that failed or was interrupted may leave: nothing, part of the
\* line, the line without its end, or all of it.
Interrupted(l, l2) ==
    {l, [l EXCEPT !.tail = "torn"], Append(l, l2)}
       \union IF l.tail = "whole" THEN {[l2 EXCEPT !.tail = "cut"]} ELSE {}

Lifecycle(s) == [log EXCEPT !.begun = @ \union {s}]
TerminalSuccess(s) ==
    [log EXCEPT !.begun = @ \union {s}, !.won[s] = Bump(@)]
TerminalFailure(s) ==
    [log EXCEPT !.begun = @ \union {s}, !.lost[s] = Bump(@)]

\* The line a process at an append is about to write.
Line(p) ==
    CASE At(p, "begin") \/ At(p, "work") \/ At(p, "record") -> Lifecycle(proc[p].seq)
      [] At(p, "announce") -> TerminalSuccess(proc[p].seq)
      [] At(p, "announce-failure") -> TerminalFailure(proc[p].seq)

Appending(p) == proc[p].pc \in {"begin", "work", "record", "announce", "announce-failure"}

\* An I/O error while a line is appended.
AppendFails(p) ==
    /\ "io" \in Failures
    /\ log' \in Interrupted(log, Line(p))

-----------------------------------------------------------------------------
(* One recorded iteration.                                                 *)

\* The lifecycle events before the workload child.
BeginIteration(p) ==
    /\ At(p, "begin")
    /\ \/ log' = Append(log, Line(p)) /\ Goto(p, "work")
       \/ AppendFails(p) /\ Goto(p, "fail")
    /\ UNCHANGED <<store, created, files, imported, runs, clock>>

\* Mutant: the exit status of the child is not looked at.
ChildSucceedsAlways(s) == TRUE

\* External: a job instance that is COMPLETED is not run again.
ChildSucceeds(s) == s \notin imported

\* The workload child and its started event.  Its job instance is that of the
\* sequence: once COMPLETED it is refused.  An iteration takes time.
RunChild(p) ==
    LET s == proc[p].seq IN
    /\ At(p, "work")
    /\ runs' = [runs EXCEPT ![s] = Bump(@)]
    /\ clock' \in {c \in 0..MaxClock : c > clock} \union {MaxClock}
    /\ \/ /\ log' = Append(log, Line(p))
          /\ \/ ChildSucceeds(s) /\ imported' = imported \union {s} /\ Goto(p, "record")
             \/ /\ s \in imported \/ "child" \in Failures
                /\ UNCHANGED imported /\ Goto(p, "fail")
       \/ /\ AppendFails(p)
          /\ imported' \in {imported, imported \union {s}}
          /\ Goto(p, "fail")
    /\ UNCHANGED <<store, created, files>>

\* The events from the child's completion to cleanup-completed.  Verification,
\* cleanup or the sampler may still fail.
RecordCompletion(p) ==
    /\ At(p, "record")
    /\ \/ log' = Append(log, Line(p)) /\ Goto(p, "succeed")
       \/ log' = Append(log, Line(p)) /\ "child" \in Failures /\ Goto(p, "fail")
       \/ AppendFails(p) /\ Goto(p, "fail")
    /\ UNCHANGED <<store, created, files, imported, runs, clock>>

\* write_success refuses a second singleton; atomic_write_json opens its
\* temporary file.
StageSuccess(p) ==
    /\ At(p, "succeed")
    /\ IF proc[p].seq \in files.singles
       THEN Stop(p, "error")
       ELSE Goto(p, "publish")
    /\ UNCHANGED <<store, created, log, files, imported, runs, clock>>

PublishSuccess(p) ==
    /\ At(p, "publish")
    /\ files' = [files EXCEPT !.singles = @ \union {proc[p].seq}]
    /\ Goto(p, "announce")
    /\ UNCHANGED <<store, created, log, imported, runs, clock>>

\* What the command does after a recorded iteration.
AfterIteration(p) ==
    IF proc[p].cmd \in {"recorded", "next"} THEN Stop(p, "done")
    ELSE proc' = [proc EXCEPT ![p].pc = "scan", ![p].left = @ - 1,
                    ![p].goal = IF proc[p].left = 1 THEN "confirm" ELSE "select"]

AnnounceSuccess(p) ==
    /\ At(p, "announce")
    /\ \/ log' = Append(log, Line(p)) /\ AfterIteration(p)
       \/ AppendFails(p) /\ Stop(p, "error")
    /\ UNCHANGED <<store, created, files, imported, runs, clock>>

\* finalize_failure: the artifact, whose name is new each time, then the event.
StageFailure(p) ==
    /\ At(p, "fail")
    /\ Goto(p, "publish-failure")
    /\ UNCHANGED <<store, created, log, files, imported, runs, clock>>

PublishFailure(p) ==
    /\ At(p, "publish-failure")
    /\ files' = [files EXCEPT !.failed = @ \union {proc[p].seq}]
    /\ Goto(p, "announce-failure")
    /\ UNCHANGED <<store, created, log, imported, runs, clock>>

AnnounceFailure(p) ==
    /\ At(p, "announce-failure")
    /\ log' = Append(log, Line(p)) \/ AppendFails(p)
    /\ Stop(p, "error")
    /\ UNCHANGED <<store, created, files, imported, runs, clock>>

\* Mutant: the result of atomic_write_json is not looked at.
WriteFailsUnseen(p) ==
    /\ "io" \in Failures
    /\ proc[p].pc \in {"publish", "publish-failure"}
    /\ Goto(p, IF At(p, "publish") THEN "announce" ELSE "announce-failure")
    /\ UNCHANGED <<store, created, log, files, imported, runs, clock>>

\* atomic_write_json fails: nothing is left, or the temporary file that could
\* not be removed, or the published file when only the directory sync failed.
WriteFails(p) ==
    /\ "io" \in Failures
    /\ proc[p].pc \in {"publish", "publish-failure"}
    /\ \/ UNCHANGED files
       \/ files' = [files EXCEPT !.litter = TRUE]
       \/ files' = IF At(p, "publish")
                   THEN [files EXCEPT !.singles = @ \union {proc[p].seq}]
                   ELSE [files EXCEPT !.failed = @ \union {proc[p].seq}]
    /\ Stop(p, "error")
    /\ UNCHANGED <<store, created, log, imported, runs, clock>>

-----------------------------------------------------------------------------
(* The drivers.                                                            *)

\* reconcile_resume_status: the event log first ...
ScanEvents(p) ==
    /\ At(p, "scan")
    /\ proc' = [proc EXCEPT ![p].pc = "judge", ![p].seen = log]
    /\ UNCHANGED <<store, created, log, files, imported, runs, clock>>

Next1(status) == status.frontier + 1

\* A command that ends before an iteration.  A campaign ends in an error when
\* this is not the frontier it expected, or its clock lies before its start.
StopBefore(p, status, reason) ==
    Stop(p, IF proc[p].cmd # "campaign" THEN reason
            ELSE IF status.frontier # proc[p].expected THEN "disagreement"
            ELSE IF clock < proc[p].started THEN "error" ELSE reason)

\* ... then the artifacts.  Before an iteration anything but Ready ends the
\* command.  Bound: no sequence above MaxSeq is started.
Select(p) ==
    /\ At(p, "judge") /\ proc[p].goal = "select"
    /\ \E status \in Looks(proc[p].seen) :
          IF status.state # "ready" THEN StopBefore(p, status, "resume-blocked")
          ELSE IF Next1(status) > MaxSeq THEN Stop(p, "bound")
          ELSE proc' = [proc EXCEPT
                  ![p].pc = IF proc[p].cmd \in {"guarded", "campaign"} THEN "guard" ELSE "open",
                  ![p].status = status, ![p].seq = Next1(status), ![p].seen = EmptyLog]
    /\ UNCHANGED <<store, created, log, files, imported, runs, clock>>

\* run_guard: the iteration uses the status from before the guard process.
Guard(p) ==
    /\ At(p, "guard")
    /\ \/ Goto(p, "open")
       \/ "guard" \in Failures /\ StopBefore(p, proc[p].status, "guard-blocked")
    /\ UNCHANGED <<store, created, log, files, imported, runs, clock>>

\* The last look of a batch.
FinishBatch(p) ==
    /\ At(p, "judge") /\ proc[p].goal = "confirm" /\ proc[p].cmd # "campaign"
    /\ \E status \in Looks(proc[p].seen) :
          proc' = [proc EXCEPT ![p].pc = "stopped", ![p].stop = "done",
                               ![p].status = status, ![p].seen = EmptyLog]
    /\ UNCHANGED <<store, created, log, files, imported, runs, clock>>

\* run_acceptance_loop: the first look, or the look at the end of a guarded step.
LookAround(p) ==
    /\ At(p, "judge") /\ proc[p].goal # "select" /\ proc[p].cmd = "campaign"
    /\ \E status \in Looks(proc[p].seen) :
          proc' = [proc EXCEPT ![p].pc = "check", ![p].status = status,
                               ![p].seen = EmptyLog]
    /\ UNCHANGED <<store, created, log, files, imported, runs, clock>>

\* The result of a step must be the next sequence and the next frontier.
StepAgrees(p) ==
    /\ proc[p].seq = proc[p].expected + 1
    /\ proc[p].status.frontier = proc[p].expected + 1

\* Mutant: the acceptance floors are read from the sequence just run.
FloorsOneEarly(p) ==
    /\ clock - proc[p].started >= MinElapsed
    /\ proc[p].status.frontier + 1 >= MinCompleted

Floors(p) ==
    /\ clock - proc[p].started >= MinElapsed
    /\ proc[p].status.frontier >= MinCompleted

Decide(p) ==
    LET status == proc[p].status IN
    /\ At(p, "check")
    /\ IF proc[p].goal = "confirm" /\ ~ StepAgrees(p) THEN Stop(p, "disagreement")
       ELSE IF clock < proc[p].started THEN Stop(p, "error")
       ELSE IF status.state # "ready" THEN Stop(p, "resume-blocked")
       ELSE IF Floors(p)
       THEN proc' = [proc EXCEPT ![p].pc = "stopped", ![p].stop = "accepted",
                                 ![p].elapsed = clock - proc[p].started]
       ELSE proc' = [proc EXCEPT ![p].pc = "scan", ![p].goal = "select", ![p].left = 1,
                                 ![p].expected = status.frontier]
    /\ UNCHANGED <<store, created, log, files, imported, runs, clock>>

-----------------------------------------------------------------------------
(* The environment.                                                        *)

\* A process is killed; a line or a temporary file it was writing stays, and a
\* workload child it had started finishes or not without it.
Crash(p) ==
    /\ "crash" \in Failures
    /\ Running(p)
    /\ log' \in IF Appending(p) THEN Interrupted(log, Line(p)) ELSE {log}
    /\ files' = [files EXCEPT !.litter =
                    @ \/ proc[p].pc \in {"publish", "publish-failure"}]
    /\ proc' = [proc EXCEPT ![p] = Idle]
    /\ \/ UNCHANGED <<imported, runs>>
       \/ /\ At(p, "work")
          /\ runs' = [runs EXCEPT ![proc[p].seq] = Bump(@)]
          /\ imported' \in {imported, imported \union {proc[p].seq}}
    /\ UNCHANGED <<store, created, clock>>

\* The host clock is set back.
ClockBack ==
    /\ "clock" \in Failures
    /\ clock' \in {c \in 0..MaxClock : c < clock}
    /\ UNCHANGED <<store, created, log, files, imported, runs, proc>>

Iteration(p) ==
    \/ OpenCampaign(p) \/ CreateCampaign(p) \/ OpenLog(p) \/ OpenFails(p)
    \/ BeginIteration(p) \/ RunChild(p) \/ RecordCompletion(p)
    \/ StageSuccess(p) \/ PublishSuccess(p) \/ AnnounceSuccess(p)
    \/ StageFailure(p) \/ PublishFailure(p) \/ AnnounceFailure(p) \/ WriteFails(p)

Driver(p) ==
    \/ ScanEvents(p) \/ Select(p) \/ Guard(p)
    \/ FinishBatch(p) \/ LookAround(p) \/ Decide(p)

Next ==
    \/ \E p \in Procs : Start(p) \/ Iteration(p) \/ Driver(p) \/ Crash(p)
    \/ ClockBack

Spec == Init /\ [][Next]_vars

\* A process that has not been killed goes on, and it always goes through the
\* guard and the child, which the harness waits for without a timeout.
FairSpec == Spec /\ \A p \in Procs : WF_vars(Iteration(p) \/ Driver(p))

-----------------------------------------------------------------------------
(* Properties.                                                             *)

Points == {"idle", "stopped", "open", "create", "open-log", "begin", "work", "record",
           "succeed", "publish", "announce", "fail", "publish-failure",
           "announce-failure", "scan", "judge", "guard", "check"}

Proc == [pc : Points, cmd : {"recorded", "next", "batch", "guarded", "campaign"},
         goal : {"initial", "select", "confirm"}, seq : Seqs, left : Nat,
         status : Statuses, expected : 0..MaxSeq, started : 0..MaxClock,
         seen : Logs, elapsed : 0..MaxClock,
         stop : {"none", "done", "error", "bound", "disagreement", "resume-blocked",
                 "guard-blocked", "accepted"}]

\* Every variable has its type.
TypeOK ==
    /\ store \in {"absent", "campaign", "open"} /\ created \in 0..MaxClock
    /\ log \in Logs
    /\ files \in [singles : SUBSET Seqs, failed : SUBSET Seqs, litter : BOOLEAN]
    /\ imported \subseteq Seqs
    /\ runs \in [Seqs -> 0..2]
    /\ clock \in 0..MaxClock
    /\ proc \in [Procs -> Proc]

\* The frontier a reader derives from the evidence covers only sequences whose
\* import completed, whatever was interrupted and however many controllers
\* wrote the evidence.
FrontierIsDelivered == 1..Frontier(log, files) \subseteq imported

\* Controllers that overlap on one sequence never both record it: the exists
\* check of write_success alone would not prevent it.
SuccessIsUnique == \A s \in Seqs : log.won[s] < 2

\* With one controller at a time a sequence is run at most once, and only
\* behind a gapless run of recorded successes: an interrupted, failed or
\* damaged iteration is neither repeated nor passed over.
RunsOnceInOrder ==
    \A s \in Seqs :
       runs[s] > 0 => runs[s] = 1 /\ \A t \in 1..(s - 1) : Recorded(log, files, t)

\* A campaign that stops as accepted has run its minimum time and delivered
\* its minimum number of iterations, however often it was restarted.
AcceptedMeansDelivered ==
    \A p \in Procs :
       proc[p].stop = "accepted" =>
          /\ proc[p].elapsed >= MinElapsed
          /\ Frontier(log, files) >= MinCompleted
          /\ 1..MinCompleted \subseteq imported

\* A campaign working alone that rejects its own step, because the log was torn
\* or a look failed, leaves evidence at the frontier it expected or the one
\* after; unless the log is torn, the next command goes on from there.
DisagreementLosesNothing ==
    \A p \in Procs :
       proc[p].stop = "disagreement" =>
          /\ store = "open"
          /\ Frontier(log, files) \in {proc[p].expected, proc[p].expected + 1}
          /\ log.tail # "torn" => State(log, files) = "ready" /\ ~ files.litter

\* Every campaign that is not killed ends for a reason of its own: its time
\* counts from the durable start, so restarts cannot put the end off.
CampaignEnds ==
    \A p \in Procs :
       (Running(p) /\ proc[p].cmd = "campaign")
          ~> (~ Running(p) /\ proc[p].stop # "bound")

\* One controller at a time implements the ledger.
LedgerState ==
    LET s == Frontier(log, files) + 1
        verdict == State(log, files)
    IN  IF store # "open" THEN "closed"
        ELSE IF log.tail = "torn" \/ files.litter THEN "broken"
        ELSE IF verdict = "ready" THEN "ready"
        ELSE IF verdict = "failure" THEN "failed"
        ELSE IF \/ verdict = "incomplete"
                \/ \E p \in Procs : At(p, "announce") /\ proc[p].seq = s
        THEN "busy" ELSE "broken"

Ledger == INSTANCE EnduranceLedger WITH frontier <- Frontier(log, files),
                                        state <- LedgerState

ImplementsLedger == Ledger!Spec
=============================================================================
