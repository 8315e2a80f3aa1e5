--------------------- MODULE RestartableTransform_proof ---------------------
(***************************************************************************)
(* Proofs about RestartableTransform: type correctness, and that the rows  *)
(* in the namespace of a source digest come from that source content.      *)
(***************************************************************************)
EXTENDS RestartableTransform, TLAPS

\* The job identity of an idle process is some key.
LEMMA SomeKeyIsKey == SomeKey \in Keys
<1>1. PICK i \in Imports, m \in Modes : TRUE
  BY ConstantsAssumption
<1>2. <<i, Empty, m>> \in Keys
  BY <1>1, ConstantsAssumption DEF Keys
<1> QED
  BY <1>2 DEF SomeKey

LEMMA NoFailPointIsFailPoint == NoFailPoint \in FailPoint
  BY DEF NoFailPoint, FailPoint

LEMMA IdleProcType == \A k \in Keys : IdleProc(k) \in Proc
<1> SUFFICES ASSUME NEW k \in Keys PROVE IdleProc(k) \in Proc
  OBVIOUS
<1>1. Empty \in Contents /\ MaxAttempts \in Nat
  BY ConstantsAssumption
<1> QED
  BY <1>1, NoFailPointIsFailPoint DEF IdleProc, Proc, PCs, Statuses

\* A process that exits leaves well-typed locks and processes behind.
LEMMA ExitType ==
  ASSUME TypeOK, NEW p \in Procs, Exit(p)
  PROVE  guard' \in SUBSET Procs /\ proc' \in [Procs -> Proc]
<1>1. IdleProc(SomeKey) \in Proc
  BY SomeKeyIsKey, IdleProcType
<1> QED
  BY <1>1 DEF TypeOK, Exit

\* Moving a process to another point of its program keeps its type.
LEMMA GotoType ==
  ASSUME TypeOK, NEW p \in Procs, NEW point \in PCs, Goto(p, point)
  PROVE  proc' \in [Procs -> Proc]
<1>1. proc[p] \in Proc
  BY DEF TypeOK
<1>2. [proc[p] EXCEPT !.pc = point] \in Proc
  BY <1>1 DEF Proc
<1> QED
  BY <1>2 DEF TypeOK, Goto

\* A status update keeps the type of the job repository.
LEMMA SetStatusType ==
  ASSUME TypeOK, NEW k \in Keys, NEW a, NEW s \in Statuses, SetStatus(k, a, s)
  PROVE  exec' \in [Keys -> [1..MaxAttempts -> Execution]]
<1> DEFINE E == [exec[k] EXCEPT ![a].status = s]
<1>1. exec \in [Keys -> [1..MaxAttempts -> Execution]]
  BY DEF TypeOK
<1>2. ASSUME a \in 1..MaxAttempts
      PROVE  [exec[k][a] EXCEPT !.status = s] \in Execution
  <2>1. exec[k][a] \in Execution
    BY <1>1, <1>2
  <2> QED
    BY <2>1 DEF Execution
<1>3. E \in [1..MaxAttempts -> Execution]
  BY <1>1, <1>2
<1>4. exec' = [exec EXCEPT ![k] = E]
  BY DEF SetStatus
<1> QED
  BY <1>1, <1>3, <1>4

\* The parts of a process record.
LEMMA ProcParts ==
  ASSUME TypeOK, NEW p \in Procs
  PROVE  /\ proc[p].pc \in PCs /\ proc[p].job \in Keys
         /\ proc[p].attempt \in 0..MaxAttempts
         /\ proc[p].cursor \in Nat /\ proc[p].reads \in Nat
         /\ proc[p].size \in Nat \ {0} /\ proc[p].ordinal \in Nat
         /\ proc[p].tx \in SUBSET (Nat \X Contents)
         /\ proc[p].snapshot \in Contents
         /\ proc[p].fail \in FailPoint /\ proc[p].seen \in Statuses
  BY DEF TypeOK, Proc

\* The parts of an execution record.
LEMMA ExecutionParts ==
  ASSUME TypeOK, NEW k \in Keys, NEW a \in 1..MaxAttempts
  PROVE  exec[k][a].status \in Statuses /\ exec[k][a].position \in Nat
<1>1. exec[k][a] \in Execution
  BY DEF TypeOK
<1> QED
  BY <1>1 DEF Execution

LEMMA LatestType ==
  ASSUME TypeOK, NEW k \in Keys
  PROVE  /\ attempts[k] \in 0..MaxAttempts
         /\ attempts[k] > 0 => attempts[k] \in 1..MaxAttempts
         /\ Inherited(k) \in Nat
<1>1. attempts[k] \in 0..MaxAttempts /\ MaxAttempts \in Nat
  BY ConstantsAssumption DEF TypeOK
<1>2. attempts[k] > 0 => attempts[k] \in 1..MaxAttempts
  BY <1>1
<1>3. Inherited(k) \in Nat
  BY <1>1, <1>2, ExecutionParts DEF Inherited, Latest
<1> QED
  BY <1>1, <1>2, <1>3

\* A chunk is a set of customers behind the cursor.
LEMMA BatchType ==
  ASSUME TypeOK, NEW p \in Procs
  PROVE  /\ Visible(p) \in Contents
         /\ LastRead(p) \in Nat
         /\ Batch(p) \in SUBSET (Nat \X Contents)
         /\ Batch(p) # {} => LastRead(p) - proc[p].cursor \in Nat
<1>1. Visible(p) \in Contents
  BY ProcParts DEF Visible, TypeOK
<1>2. LastRead(p) \in Nat
  BY <1>1, ProcParts, ConstantsAssumption DEF LastRead
<1>3. Batch(p) \in SUBSET (Nat \X Contents)
  BY <1>1, <1>2, ProcParts DEF Batch
<1>4. ASSUME Batch(p) # {} PROVE LastRead(p) - proc[p].cursor \in Nat
  <2>1. (proc[p].cursor + 1)..LastRead(p) # {}
    BY <1>4 DEF Batch
  <2> QED
    BY <2>1, <1>2, ProcParts
<1> QED
  BY <1>1, <1>2, <1>3, <1>4

\* A job instance is identified by an import, a content and a mode.
LEMMA KeyParts ==
  ASSUME NEW k \in Keys
  PROVE  /\ k[1] \in Imports /\ Content(k) \in Contents /\ Mode(k) \in Modes
         /\ Scope(k) \in Scopes
         /\ \A c \in Contents : <<k[1], c, k[3]>> \in Keys
  BY DEF Keys, Content, Mode, Scope, Scopes

-----------------------------------------------------------------------------
(* Type correctness.                                                       *)

LEMMA InitType == Init => TypeOK
<1>1. IdleProc(SomeKey) \in Proc
  BY SomeKeyIsKey, IdleProcType
<1>2. NoExecution \in Execution
  BY DEF NoExecution, Execution, Statuses
<1> QED
  BY <1>1, <1>2, ConstantsAssumption DEF Init, TypeOK

\* Starting a command gives the process its import, mode and options.
LEMMA StartType ==
  ASSUME TypeOK, NEW p \in Procs, StartRun(p) \/ StartRecover(p) \/ StartReset(p)
  PROVE  TypeOK'
<1>1. \A i \in Imports, m \in Modes : <<i, Empty, m>> \in Keys
  BY ConstantsAssumption DEF Keys
<1>2. CASE StartRun(p)
  <2>1. PICK i \in Imports, m \in Modes, n \in ChunkSizes, f \in FailPoints :
          proc' = [proc EXCEPT ![p] = [IdleProc(<<i, Empty, m>>) EXCEPT
                                         !.pc = "runLock", !.size = n, !.fail = f]]
    BY <1>2 DEF StartRun
  <2>2. IdleProc(<<i, Empty, m>>) \in Proc
    BY <1>1, IdleProcType
  <2>3. [IdleProc(<<i, Empty, m>>) EXCEPT !.pc = "runLock", !.size = n, !.fail = f]
          \in Proc
    BY <2>2, ConstantsAssumption DEF Proc, PCs
  <2> QED
    BY <1>2, <2>1, <2>3 DEF StartRun, TypeOK
<1>3. CASE StartRecover(p)
  <2>1. PICK i \in Imports, m \in Modes :
          proc' = [proc EXCEPT ![p] = [IdleProc(<<i, Empty, m>>) EXCEPT
                                         !.pc = "recoverLock"]]
    BY <1>3 DEF StartRecover
  <2>2. IdleProc(<<i, Empty, m>>) \in Proc
    BY <1>1, IdleProcType
  <2>3. [IdleProc(<<i, Empty, m>>) EXCEPT !.pc = "recoverLock"] \in Proc
    BY <2>2 DEF Proc, PCs
  <2> QED
    BY <1>3, <2>1, <2>3 DEF StartRecover, TypeOK
<1>4. CASE StartReset(p)
  BY <1>4, GotoType DEF StartReset, Goto, TypeOK, PCs
<1> QED
  BY <1>2, <1>3, <1>4

\* The steps that only move a process or take the guard.
LEMMA GuardStepType ==
  ASSUME TypeOK, NEW p \in Procs, NEW from \in PCs, NEW to \in PCs,
         LockSource(p, from, to) \/ ComputeDigest(p, from, to)
  PROVE  TypeOK'
<1>1. CASE LockSource(p, from, to)
  BY <1>1, GotoType DEF LockSource, TypeOK
<1>2. CASE ComputeDigest(p, from, to)
  <2>1. <<proc[p].job[1], source, proc[p].job[3]>> \in Keys
    BY ProcParts, KeyParts DEF TypeOK
  <2>2. proc[p] \in Proc
    BY DEF TypeOK
  <2>3. [proc[p] EXCEPT !.job = <<@[1], source, @[3]>>, !.pc = to] \in Proc
    BY <2>1, <2>2 DEF Proc
  <2>4. proc' = [proc EXCEPT ![p] =
                   [proc[p] EXCEPT !.job = <<@[1], source, @[3]>>, !.pc = to]]
    BY <1>2 DEF ComputeDigest, TypeOK
  <2> QED
    BY <1>2, <2>3, <2>4 DEF ComputeDigest, TypeOK
<1> QED
  BY <1>1, <1>2

LEMMA LaunchType ==
  ASSUME TypeOK, NEW p \in Procs, Launch(p)
  PROVE  TypeOK'
<1> DEFINE k == proc[p].job
           n == attempts[k] + 1
<1>1. k \in Keys /\ attempts[k] \in 0..MaxAttempts /\ proc[p] \in Proc
  BY ProcParts DEF TypeOK
<1>2. n \in 1..MaxAttempts
  BY <1>1, ConstantsAssumption DEF Launch
<1>3. Inherited(k) \in Nat
  BY <1>1, LatestType
<1>4. [status |-> "STARTED", position |-> Inherited(k)] \in Execution
  BY <1>3 DEF Execution, Statuses, InProgress
<1>5. exec' \in [Keys -> [1..MaxAttempts -> Execution]]
  <2>1. exec' = [exec EXCEPT ![k] = [exec[k] EXCEPT ![n] =
                   [status |-> "STARTED", position |-> Inherited(k)]]]
    BY DEF Launch
  <2>2. exec[k] \in [1..MaxAttempts -> Execution]
    BY <1>1 DEF TypeOK
  <2>3. [exec[k] EXCEPT ![n] = [status |-> "STARTED", position |-> Inherited(k)]]
          \in [1..MaxAttempts -> Execution]
    BY <2>2, <1>4
  <2> QED
    BY <2>1, <2>3 DEF TypeOK
<1>6. attempts' \in [Keys -> 0..MaxAttempts]
  BY <1>1, <1>2, ConstantsAssumption DEF Launch, TypeOK
<1>7. proc' \in [Procs -> Proc]
  <2> DEFINE P == [proc[p] EXCEPT !.pc = "chunk", !.attempt = n,
                                  !.cursor = Inherited(k), !.snapshot = source]
  <2>1. P \in Proc
    <3>1. n \in 0..MaxAttempts /\ source \in Contents /\ "chunk" \in PCs
      BY <1>2, ConstantsAssumption DEF PCs, Executing, TypeOK
    <3> QED
      BY <1>1, <1>3, <3>1 DEF Proc
  <2>2. proc' = [proc EXCEPT ![p] = P]
    BY DEF Launch, TypeOK
  <2> QED
    BY <2>1, <2>2 DEF TypeOK
<1> QED
  BY <1>5, <1>6, <1>7 DEF Launch, TypeOK

LEMMA WriteChunkType ==
  ASSUME TypeOK, NEW p \in Procs, WriteChunk(p)
  PROVE  TypeOK'
<1> DEFINE pc == IF ~Targets(p, proc[p].ordinal + 1, "during-write") THEN "written"
                 ELSE IF proc[p].fail.pause THEN "paused" ELSE "failing"
           P == [proc[p] EXCEPT !.tx = Batch(p), !.reads = LastRead(p) - proc[p].cursor,
                                !.ordinal = proc[p].ordinal + 1, !.pc = pc]
<1>1. pc \in PCs
  BY DEF PCs, Executing
<1>2. P \in Proc
  <2>1. proc[p] \in Proc /\ proc[p].ordinal + 1 \in Nat
    BY ProcParts DEF TypeOK
  <2>2. Batch(p) \in SUBSET (Nat \X Contents) /\ LastRead(p) - proc[p].cursor \in Nat
    BY BatchType DEF WriteChunk
  <2> QED
    BY <1>1, <2>1, <2>2 DEF Proc
<1>3. proc' = [proc EXCEPT ![p] = P]
  BY DEF WriteChunk, TypeOK
<1> QED
  BY <1>2, <1>3 DEF WriteChunk, TypeOK

LEMMA CommitChunkType ==
  ASSUME TypeOK, NEW p \in Procs, CommitChunk(p)
  PROVE  TypeOK'
<1> DEFINE k == proc[p].job
           a == proc[p].attempt
           position == NextPosition(exec[k][a].position, proc[p].reads)
           pc == IF ~Targets(p, proc[p].ordinal, "after-business-commit") THEN "chunk"
                 ELSE IF proc[p].fail.pause THEN "paused" ELSE "uncertain"
           P == [proc[p] EXCEPT !.tx = {}, !.cursor = proc[p].cursor + proc[p].reads,
                                !.pc = pc]
           E == [exec[k] EXCEPT ![a].position = position]
<1>1. pc \in PCs
  BY DEF PCs, Executing
<1>2. P \in Proc
  <2>1. proc[p].cursor + proc[p].reads \in Nat /\ proc[p] \in Proc
    BY ProcParts DEF TypeOK
  <2> QED
    BY <1>1, <2>1 DEF Proc
<1>3. proc' = [proc EXCEPT ![p] = P]
  BY DEF CommitChunk, TypeOK
<1>4. k \in Keys /\ exec[k] \in [1..MaxAttempts -> Execution]
  BY ProcParts DEF TypeOK
<1>5. ASSUME a \in 1..MaxAttempts
      PROVE  [exec[k][a] EXCEPT !.position = position] \in Execution
  <2>1. position \in Nat
    BY <1>4, <1>5, ProcParts, ExecutionParts DEF NextPosition
  <2>2. exec[k][a] \in Execution
    BY <1>4, <1>5
  <2> QED
    BY <2>1, <2>2 DEF Execution
<1>6. E \in [1..MaxAttempts -> Execution]
  BY <1>4, <1>5
<1>7. exec' = [exec EXCEPT ![k] = E]
  BY DEF CommitChunk
<1>8. exec' \in [Keys -> [1..MaxAttempts -> Execution]]
  BY <1>6, <1>7 DEF TypeOK
<1>9. rows' \in [Scopes -> SUBSET (Nat \X Contents)]
  BY <1>4, ProcParts, KeyParts DEF CommitChunk, TypeOK
<1> QED
  BY <1>2, <1>3, <1>8, <1>9 DEF CommitChunk, TypeOK

\* The steps that end an execution, or the launch of one.
LEMMA EndStepType ==
  ASSUME TypeOK, NEW p \in Procs,
         \/ FailChunk(p) \/ InfrastructureError(p) \/ RefuseCommit(p)
         \/ PersistFailure(p) \/ PersistUnknown(p) \/ Complete(p)
         \/ RefuseLaunch(p) \/ LaunchError(p) \/ FinishRun(p) \/ Crash(p)
  PROVE  TypeOK'
<1>1. {"failing", "returned"} \subseteq PCs
  BY DEF PCs, Executing
<1>2. {"FAILED", "UNKNOWN", "COMPLETED"} \subseteq Statuses
  BY DEF Statuses, InProgress
<1>3. CASE FailChunk(p) \/ InfrastructureError(p) \/ RefuseCommit(p)
  <2>1. proc' \in [Procs -> Proc]
    BY <1>1, <1>3, GotoType DEF FailChunk, InfrastructureError, RefuseCommit
  <2> QED
    BY <1>3, <2>1 DEF FailChunk, InfrastructureError, RefuseCommit, TypeOK
<1>4. CASE PersistFailure(p) \/ PersistUnknown(p) \/ Complete(p)
  <2>1. PICK s \in {"FAILED", "UNKNOWN", "COMPLETED"} :
          SetStatus(proc[p].job, proc[p].attempt, s)
    BY <1>4 DEF PersistFailure, PersistUnknown, Complete
  <2>2. exec' \in [Keys -> [1..MaxAttempts -> Execution]]
    BY <1>2, <2>1, ProcParts, SetStatusType
  <2>3. proc' \in [Procs -> Proc]
    <3>1. CASE PersistUnknown(p) \/ Complete(p)
      BY <1>1, <3>1, GotoType DEF PersistUnknown, Complete
    <3>2. CASE PersistFailure(p)
      <4> DEFINE P == [proc[p] EXCEPT !.tx = {}, !.pc = "returned"]
      <4>1. P \in Proc
        BY <1>1, ProcParts DEF Proc, TypeOK
      <4>2. proc' = [proc EXCEPT ![p] = P]
        BY <3>2 DEF PersistFailure, TypeOK
      <4> QED
        BY <4>1, <4>2 DEF TypeOK
    <3> QED
      BY <1>4, <3>1, <3>2
  <2> QED
    BY <1>4, <2>2, <2>3 DEF PersistFailure, PersistUnknown, Complete, TypeOK
<1>5. CASE RefuseLaunch(p) \/ LaunchError(p) \/ FinishRun(p) \/ Crash(p)
  <2>1. guard' \in SUBSET Procs /\ proc' \in [Procs -> Proc]
    BY <1>5, ExitType DEF RefuseLaunch, LaunchError, FinishRun, Crash
  <2> QED
    BY <1>5, <2>1 DEF RefuseLaunch, LaunchError, FinishRun, Crash, TypeOK
<1> QED
  BY <1>3, <1>4, <1>5

LEMMA RecoverStepType ==
  ASSUME TypeOK, NEW p \in Procs,
         UnlockForRecovery(p) \/ FindExecution(p) \/ MarkFailed(p)
  PROVE  TypeOK'
<1>1. CASE UnlockForRecovery(p)
  <2>1. proc' \in [Procs -> Proc]
    BY <1>1, GotoType DEF UnlockForRecovery, PCs
  <2> QED
    BY <1>1, <2>1 DEF UnlockForRecovery, TypeOK
<1>2. CASE FindExecution(p)
  <2> DEFINE k == proc[p].job
             P == [proc[p] EXCEPT !.pc = "recoverMark", !.attempt = attempts[k],
                                  !.seen = Latest(k).status]
  <2>1. CASE attempts[k] > 0 /\ Latest(k).status \in InProgress
    <3>1. proc[p] \in Proc /\ attempts[k] \in 0..MaxAttempts /\ Latest(k).status \in Statuses
      BY <2>1, ProcParts, LatestType DEF TypeOK, Statuses
    <3>2. P \in Proc
      BY <3>1 DEF Proc, PCs
    <3>3. proc' = [proc EXCEPT ![p] = P]
      BY <1>2, <2>1 DEF FindExecution, TypeOK
    <3> QED
      BY <1>2, <2>1, <3>2, <3>3 DEF FindExecution, TypeOK
  <2>2. CASE ~(attempts[k] > 0 /\ Latest(k).status \in InProgress)
    <3>1. Exit(p)
      BY <1>2, <2>2 DEF FindExecution
    <3> QED
      BY <1>2, <3>1, ExitType DEF FindExecution, TypeOK
  <2> QED
    BY <2>1, <2>2
<1>3. CASE MarkFailed(p)
  <2>1. exec' \in [Keys -> [1..MaxAttempts -> Execution]]
    BY <1>3, ProcParts, SetStatusType DEF MarkFailed, TypeOK, Statuses
  <2> QED
    BY <1>3, <2>1, ExitType DEF MarkFailed, TypeOK
<1> QED
  BY <1>1, <1>2, <1>3

LEMMA ResetStepType ==
  ASSUME TypeOK, NEW p \in Procs, TruncateProjection(p) \/ TruncateSource(p)
  PROVE  TypeOK'
<1>1. CASE TruncateProjection(p)
  <2>1. proc' \in [Procs -> Proc]
    BY <1>1, GotoType DEF TruncateProjection, PCs
  <2> QED
    BY <1>1, <2>1 DEF TruncateProjection, TypeOK
<1>2. CASE TruncateSource(p)
  BY <1>2, ExitType, ConstantsAssumption DEF TruncateSource, TypeOK
<1> QED
  BY <1>1, <1>2

LEMMA StepType == TypeOK /\ [Next]_vars => TypeOK'
<1> SUFFICES ASSUME TypeOK, [Next]_vars PROVE TypeOK'
  OBVIOUS
<1>1. CASE \E p \in Procs : Step(p) \/ Environment(p)
  <2>1. PICK p \in Procs : Step(p) \/ Environment(p)
    BY <1>1
  <2>2. {"runLock", "runDigest", "launch", "recoverLock", "recoverDigest",
         "recoverUnlock"} \subseteq PCs
    BY DEF PCs
  <2> QED
    BY <2>1, <2>2, StartType, GuardStepType, LaunchType, WriteChunkType,
       CommitChunkType, EndStepType, RecoverStepType, ResetStepType
       DEF Step, Environment
<1>2. CASE \E c \in Contents : WriteSource(c)
  BY <1>2 DEF WriteSource, TypeOK
<1>3. CASE UNCHANGED vars
  BY <1>3 DEF vars, TypeOK
<1> QED
  BY <1>1, <1>2, <1>3 DEF Next

\* The durable state, the locks and the local state of every command keep
\* their types: job.rs, source_digest.rs.
THEOREM TypeCorrect == Spec => []TypeOK
<1>1. Init => TypeOK
  BY InitType
<1>2. TypeOK /\ [Next]_vars => TypeOK'
  BY StepType
<1> QED
  BY <1>1, <1>2, PTL DEF Spec

=============================================================================
