-------------------- MODULE RestartableTransform_safety --------------------
(***************************************************************************)
(* The safety properties of RestartableTransform, for any number of        *)
(* processes, imports, contents, rows and executions.  They follow from    *)
(* the inductive invariant IInv, whose parts say what the guard protects,  *)
(* who owns an execution, where a checkpoint is and what an open chunk     *)
(* contains.                                                               *)
(***************************************************************************)
EXTENDS RestartableTransform_proof

\* The points at which a process holds the guard.
Guarded == Executing \union
           {"launch", "returned", "runDigest", "recoverDigest", "recoverUnlock"}

\* The points at which it also knows the digest of what it guards.
Identified == Guarded \ {"runDigest", "recoverDigest"}

\* The points at which an execution has been chosen.
Chosen == Executing \union {"recoverMark"}

\* The digest in the identity, the reader's snapshot and the live source are
\* one content for as long as the process holds the guard.
GuardInv ==
    \A p \in Procs :
        /\ proc[p].pc \in Guarded => p \in guard
        /\ proc[p].pc \in Identified => Content(proc[p].job) = source
        /\ proc[p].pc \in Executing => proc[p].snapshot = source
        /\ proc[p].tx # {} => proc[p].pc \in {"written", "paused", "failing"}
        /\ \A r \in proc[p].tx : r[2] = Content(proc[p].job)

\* An execution belongs to one process, and only that process completes it.
OwnerInv ==
    /\ \A p \in Procs :
        /\ proc[p].pc \in Chosen =>
              proc[p].attempt \in 1..attempts[proc[p].job]
        /\ proc[p].pc = "recoverMark" => proc[p].seen \in InProgress
        /\ proc[p].pc \in Executing =>
              exec[proc[p].job][proc[p].attempt].status \in InProgress \union {"FAILED"}
    /\ \A p, q \in Procs :
        /\ proc[p].pc \in Executing /\ proc[q].pc \in Executing
        /\ proc[p].job = proc[q].job /\ proc[p].attempt = proc[q].attempt
        => p = q

\* The cursor of a process is the checkpoint of its execution, and the open
\* chunk starts behind it.
CursorInv ==
    \A p \in Procs :
        /\ proc[p].pc \in Executing =>
              exec[proc[p].job][proc[p].attempt].position = proc[p].cursor
        /\ proc[p].pc = "written" =>
              /\ proc[p].reads > 0
              /\ proc[p].cursor + proc[p].reads <= RowCount[Content(proc[p].job)]
              /\ proc[p].tx = ((proc[p].cursor + 1)..(proc[p].cursor + proc[p].reads))
                                \X {Content(proc[p].job)}

\* Checkpoints stay within the source, and a completed execution reached its
\* end.
BoundInv ==
    \A k \in Keys : \A a \in 1..MaxAttempts :
        /\ exec[k][a].position <= RowCount[Content(k)]
        /\ exec[k][a].status = "COMPLETED" =>
              exec[k][a].position = RowCount[Content(k)]

\* Open chunks of one scope are disjoint from each other and from its rows.
DisjointInv ==
    \A p \in Procs :
        /\ proc[p].tx \intersect rows[Scope(proc[p].job)] = {}
        /\ \A q \in Procs : p # q /\ Scope(proc[q].job) = Scope(proc[p].job)
              => proc[p].tx \intersect proc[q].tx = {}

\* The destination of a scope is a prefix of its source, as long as the
\* furthest checkpoint of its executions.
PrefixInv ==
    \A s \in Scopes \ wiped : \E n \in Nat :
        /\ rows[s] = Prefix(s[2], n)
        /\ \A k \in Keys : \A a \in 1..MaxAttempts :
              Scope(k) = s => exec[k][a].position <= n
        /\ n > 0 => \E k \in Keys : \E a \in 1..MaxAttempts :
                       Scope(k) = s /\ exec[k][a].position = n

\* When superseded commits are refused, the latest execution of an instance
\* has its furthest checkpoint.
FenceInv ==
    FencesStaleCommits =>
        \A k \in Keys : \A a \in 1..attempts[k] :
            exec[k][a].position <= exec[k][attempts[k]].position

-----------------------------------------------------------------------------
(* What the steps do to the parts of the state.                            *)

\* The other processes do not move.
Others(p) == \A q \in Procs \ {p} : proc'[q] = proc[q]

\* The process is outside of any execution after the step.
Leaves(p) ==
    /\ Others(p)
    /\ proc'[p].pc \notin Chosen
    /\ proc'[p].tx = {}

\* The process moves on to report a failure of its execution.
Fails(p) ==
    /\ Others(p)
    /\ proc[p].pc \in {"chunk", "written"}
    /\ proc'[p] = [proc[p] EXCEPT !.pc = "failing"]

LEMMA ExitEffect ==
  ASSUME TypeOK, NEW p \in Procs, Exit(p)
  PROVE  /\ Leaves(p)
         /\ proc'[p] = IdleProc(SomeKey)
         /\ guard' = guard \ {p}
<1>1. proc'[p] = IdleProc(SomeKey) /\ Others(p)
  BY DEF TypeOK, Exit, Others
<1>2. IdleProc(SomeKey).pc = "idle" /\ IdleProc(SomeKey).tx = {}
  BY DEF IdleProc
<1> QED
  BY <1>1, <1>2 DEF Exit, Leaves, Chosen, Executing

LEMMA GotoEffect ==
  ASSUME TypeOK, NEW p \in Procs, NEW point, Goto(p, point)
  PROVE  /\ Others(p)
         /\ proc'[p] = [proc[p] EXCEPT !.pc = point]
         /\ proc'[p].pc = point
         /\ proc'[p].job = proc[p].job /\ proc'[p].attempt = proc[p].attempt
         /\ proc'[p].cursor = proc[p].cursor /\ proc'[p].tx = proc[p].tx
         /\ proc'[p].reads = proc[p].reads /\ proc'[p].snapshot = proc[p].snapshot
         /\ proc'[p].seen = proc[p].seen
<1>1. proc[p] \in Proc
  BY DEF TypeOK
<1>2. proc'[p] = [proc[p] EXCEPT !.pc = point] /\ Others(p)
  BY DEF TypeOK, Goto, Others
<1> QED
  BY <1>1, <1>2 DEF Proc

LEMMA SetStatusEffect ==
  ASSUME TypeOK, NEW k \in Keys, NEW a \in 1..MaxAttempts, NEW s, SetStatus(k, a, s)
  PROVE  /\ exec'[k][a].status = s
         /\ \A j \in Keys : \A b \in 1..MaxAttempts :
              /\ exec'[j][b].position = exec[j][b].position
              /\ exec'[j][b].status = s \/ exec'[j][b] = exec[j][b]
              /\ j # k \/ b # a => exec'[j][b] = exec[j][b]
<1> DEFINE E == [exec[k] EXCEPT ![a].status = s]
<1>1. exec[k] \in [1..MaxAttempts -> Execution] /\ exec[k][a] \in Execution
  BY DEF TypeOK
<1>2. exec' = [exec EXCEPT ![k] = E]
  BY DEF SetStatus
<1>3. E[a] = [exec[k][a] EXCEPT !.status = s]
  BY <1>1
<1>4. E[a].status = s /\ E[a].position = exec[k][a].position
  BY <1>1, <1>3 DEF Execution
<1>5. \A b \in 1..MaxAttempts : b # a => E[b] = exec[k][b]
  BY <1>1
<1>6. exec'[k] = E /\ \A j \in Keys : j # k => exec'[j] = exec[j]
  BY <1>2 DEF TypeOK
<1> HIDE DEF E
<1> QED
  BY <1>4, <1>5, <1>6

LEMMA LaunchEffect ==
  ASSUME TypeOK, NEW p \in Procs, Launch(p), NEW k \in Keys, k = proc[p].job,
         NEW n, n = attempts[k] + 1
  PROVE  /\ Others(p) /\ proc'[p].pc = "chunk" /\ proc'[p].job = k
         /\ proc'[p].attempt = n /\ proc'[p].cursor = Inherited(k)
         /\ proc'[p].snapshot = source /\ proc'[p].tx = proc[p].tx
         /\ n \in 1..MaxAttempts /\ n > attempts[k]
         /\ attempts'[k] = n /\ \A j \in Keys \ {k} : attempts'[j] = attempts[j]
         /\ exec'[k][n].status = "STARTED" /\ exec'[k][n].position = Inherited(k)
         /\ \A j \in Keys : \A b \in 1..MaxAttempts :
               j # k \/ b # n => exec'[j][b] = exec[j][b]
<1> DEFINE e == [status |-> "STARTED", position |-> Inherited(k)]
           E == [exec[k] EXCEPT ![n] = e]
<1>1. proc[p] \in Proc /\ attempts[k] \in 0..MaxAttempts /\ MaxAttempts \in Nat
  BY ConstantsAssumption DEF TypeOK
<1>2. n \in 1..MaxAttempts /\ n > attempts[k]
  BY <1>1 DEF Launch
<1>3. exec' = [exec EXCEPT ![k] = E]
  BY DEF Launch
<1>4. exec[k] \in [1..MaxAttempts -> Execution]
  BY DEF TypeOK
<1>5. E[n] = e /\ \A b \in 1..MaxAttempts : b # n => E[b] = exec[k][b]
  BY <1>2, <1>4
<1>6. exec'[k] = E /\ \A j \in Keys : j # k => exec'[j] = exec[j]
  BY <1>3 DEF TypeOK
<1>7. attempts'[k] = n /\ \A j \in Keys \ {k} : attempts'[j] = attempts[j]
  BY DEF Launch, TypeOK
<1>8. Others(p)
  BY DEF Launch, TypeOK, Others
<1>9. proc'[p] = [proc[p] EXCEPT !.pc = "chunk", !.attempt = n,
                                 !.cursor = Inherited(k), !.snapshot = source]
  BY DEF Launch, TypeOK
<1>10. /\ proc'[p].pc = "chunk" /\ proc'[p].job = k
       /\ proc'[p].attempt = n /\ proc'[p].cursor = Inherited(k)
       /\ proc'[p].snapshot = source /\ proc'[p].tx = proc[p].tx
  BY <1>1, <1>9 DEF Proc
<1>11. e.status = "STARTED" /\ e.position = Inherited(k)
  OBVIOUS
<1> HIDE DEF e, E
<1> QED
  BY <1>2, <1>5, <1>6, <1>7, <1>8, <1>10, <1>11

LEMMA WriteEffect ==
  ASSUME TypeOK, NEW p \in Procs, WriteChunk(p)
  PROVE  /\ Others(p) /\ proc'[p].pc \in {"written", "paused", "failing"}
         /\ proc'[p].job = proc[p].job /\ proc'[p].attempt = proc[p].attempt
         /\ proc'[p].cursor = proc[p].cursor
         /\ proc'[p].snapshot = proc[p].snapshot
         /\ proc'[p].tx = Batch(p) /\ proc'[p].reads = LastRead(p) - proc[p].cursor
<1> DEFINE pc == IF ~Targets(p, proc[p].ordinal + 1, "during-write") THEN "written"
                 ELSE IF proc[p].fail.pause THEN "paused" ELSE "failing"
<1>1. proc[p] \in Proc
  BY DEF TypeOK
<1>2. proc'[p] = [proc[p] EXCEPT !.tx = Batch(p), !.reads = LastRead(p) - proc[p].cursor,
                                 !.ordinal = proc[p].ordinal + 1, !.pc = pc]
  BY DEF WriteChunk, TypeOK
<1>3. Others(p)
  BY DEF WriteChunk, TypeOK, Others
<1>4. pc \in {"written", "paused", "failing"}
  OBVIOUS
<1> HIDE DEF pc
<1> QED
  BY <1>1, <1>2, <1>3, <1>4 DEF Proc

LEMMA CommitEffect ==
  ASSUME TypeOK, NEW p \in Procs, CommitChunk(p), NEW k \in Keys, k = proc[p].job,
         NEW a \in 1..MaxAttempts, a = proc[p].attempt
  PROVE  /\ Others(p) /\ proc'[p].pc \in {"chunk", "paused", "uncertain"}
         /\ proc'[p].job = k /\ proc'[p].attempt = a
         /\ proc'[p].cursor = proc[p].cursor + proc[p].reads
         /\ proc'[p].snapshot = proc[p].snapshot /\ proc'[p].tx = {}
         /\ exec'[k][a].position = exec[k][a].position + proc[p].reads
         /\ exec'[k][a].status = exec[k][a].status
         /\ \A j \in Keys : \A b \in 1..MaxAttempts :
               j # k \/ b # a => exec'[j][b] = exec[j][b]
         /\ rows'[Scope(k)] = rows[Scope(k)] \union proc[p].tx
         /\ \A s \in Scopes : s # Scope(k) => rows'[s] = rows[s]
<1> DEFINE position == NextPosition(exec[k][a].position, proc[p].reads)
           pc == IF ~Targets(p, proc[p].ordinal, "after-business-commit") THEN "chunk"
                 ELSE IF proc[p].fail.pause THEN "paused" ELSE "uncertain"
           E == [exec[k] EXCEPT ![a].position = position]
<1>1. proc[p] \in Proc /\ exec[k] \in [1..MaxAttempts -> Execution]
      /\ exec[k][a] \in Execution
  BY DEF TypeOK
<1>2. proc'[p] = [proc[p] EXCEPT !.tx = {}, !.cursor = proc[p].cursor + proc[p].reads,
                                 !.pc = pc]
  BY DEF CommitChunk, TypeOK
<1>3. Others(p)
  BY DEF CommitChunk, TypeOK, Others
<1>4. pc \in {"chunk", "paused", "uncertain"}
  OBVIOUS
<1>5. E[a] = [exec[k][a] EXCEPT !.position = position]
      /\ \A b \in 1..MaxAttempts : b # a => E[b] = exec[k][b]
  BY <1>1
<1>6. E[a].position = position /\ E[a].status = exec[k][a].status
  BY <1>1, <1>5 DEF Execution
<1>7. exec' = [exec EXCEPT ![k] = E]
  BY DEF CommitChunk
<1>8. exec'[k] = E /\ \A j \in Keys : j # k => exec'[j] = exec[j]
  BY <1>7 DEF TypeOK
<1>9. /\ rows'[Scope(k)] = rows[Scope(k)] \union proc[p].tx
      /\ \A s \in Scopes : s # Scope(k) => rows'[s] = rows[s]
  BY KeyParts DEF CommitChunk, TypeOK
<1>10. position = exec[k][a].position + proc[p].reads
  BY DEF NextPosition
<1>11. /\ proc'[p].pc = pc /\ proc'[p].job = k /\ proc'[p].attempt = a
       /\ proc'[p].cursor = proc[p].cursor + proc[p].reads
       /\ proc'[p].snapshot = proc[p].snapshot /\ proc'[p].tx = {}
  BY <1>1, <1>2 DEF Proc
<1> HIDE DEF E, pc, position
<1> QED
  BY <1>3, <1>4, <1>5, <1>6, <1>8, <1>9, <1>10, <1>11

-----------------------------------------------------------------------------
(* The source-stability guard.                                             *)

\* A step whose process ends up outside of the guarded points.
LEMMA GuardLeave ==
  ASSUME TypeOK, GuardInv, NEW p \in Procs, Others(p),
         proc'[p].pc \notin Guarded, proc'[p].tx = {},
         guard' = guard \/ guard' = guard \ {p},
         source' = source \/ guard = {}
  PROVE  GuardInv'
<1> SUFFICES ASSUME NEW q \in Procs
             PROVE  /\ proc'[q].pc \in Guarded => q \in guard'
                    /\ proc'[q].pc \in Identified => Content(proc'[q].job) = source'
                    /\ proc'[q].pc \in Executing => proc'[q].snapshot = source'
                    /\ proc'[q].tx # {} => proc'[q].pc \in {"written", "paused", "failing"}
                    /\ \A r \in proc'[q].tx : r[2] = Content(proc'[q].job)
  BY DEF GuardInv
<1>1. Executing \subseteq Guarded /\ Identified \subseteq Guarded
  BY DEF Guarded, Identified, Executing
<1>2. CASE q = p
  BY <1>1, <1>2
<1>3. CASE q # p
  <2>1. proc'[q] = proc[q]
    BY <1>3 DEF Others
  <2> QED
    BY <1>1, <1>3, <2>1 DEF GuardInv
<1> QED
  BY <1>2, <1>3

\* A step whose process keeps the guard and stays true to the source.
LEMMA GuardStay ==
  ASSUME TypeOK, GuardInv, NEW p \in Procs, Others(p),
         p \in guard', guard \subseteq guard', source' = source,
         proc'[p].pc \in Identified => Content(proc'[p].job) = source,
         proc'[p].pc \in Executing => proc'[p].snapshot = source,
         proc'[p].tx # {} => proc'[p].pc \in {"written", "paused", "failing"},
         \A r \in proc'[p].tx : r[2] = Content(proc'[p].job)
  PROVE  GuardInv'
<1> SUFFICES ASSUME NEW q \in Procs
             PROVE  /\ proc'[q].pc \in Guarded => q \in guard'
                    /\ proc'[q].pc \in Identified => Content(proc'[q].job) = source'
                    /\ proc'[q].pc \in Executing => proc'[q].snapshot = source'
                    /\ proc'[q].tx # {} => proc'[q].pc \in {"written", "paused", "failing"}
                    /\ \A r \in proc'[q].tx : r[2] = Content(proc'[q].job)
  BY DEF GuardInv
<1>1. CASE q = p
  BY <1>1
<1>2. CASE q # p
  <2>1. proc'[q] = proc[q]
    BY <1>2 DEF Others
  <2> QED
    BY <1>2, <2>1 DEF GuardInv
<1> QED
  BY <1>1, <1>2

\* Both readers see the content that the identity names.
LEMMA VisibleIsContent ==
  ASSUME GuardInv, NEW p \in Procs, proc[p].pc \in Executing
  PROVE  Visible(p) = Content(proc[p].job) /\ p \in guard
         /\ Content(proc[p].job) = source /\ proc[p].snapshot = source
  BY DEF GuardInv, Visible, Guarded, Identified, Executing

\* A process that starts a command is outside of everything.
LEMMA StartEffect ==
  ASSUME TypeOK, NEW p \in Procs, StartRun(p) \/ StartRecover(p) \/ StartReset(p), GuardInv
  PROVE  Others(p) /\ proc'[p].pc \in {"runLock", "recoverLock", "resetLock"}
         /\ proc'[p].tx = {}
<1>1. CASE StartRun(p)
  BY <1>1 DEF StartRun, IdleProc, TypeOK, Others
<1>2. CASE StartRecover(p)
  BY <1>2 DEF StartRecover, IdleProc, TypeOK, Others
<1>3. CASE StartReset(p)
  <2>1. Goto(p, "resetLock") /\ proc[p].pc = "idle"
    BY <1>3 DEF StartReset, Goto, At
  <2>2. proc[p].tx = {}
    BY <2>1 DEF GuardInv
  <2> QED
    BY <2>1, <2>2, GotoEffect
<1> QED
  BY <1>1, <1>2, <1>3

LEMMA ComputeDigestEffect ==
  ASSUME TypeOK, NEW p \in Procs, NEW from, NEW to, ComputeDigest(p, from, to)
  PROVE  /\ Others(p) /\ proc'[p].pc = to /\ proc'[p].tx = proc[p].tx
         /\ proc'[p].job = <<proc[p].job[1], source, proc[p].job[3]>>
<1> DEFINE j == <<proc[p].job[1], source, proc[p].job[3]>>
<1>1. proc[p] \in Proc
  BY DEF TypeOK
<1>2. proc'[p] = [proc[p] EXCEPT !.job = j, !.pc = to]
  BY DEF ComputeDigest, TypeOK
<1>3. Others(p)
  BY DEF ComputeDigest, TypeOK, Others
<1>4. proc'[p].pc = to /\ proc'[p].tx = proc[p].tx /\ proc'[p].job = j
  <2> HIDE DEF j
  <2> QED
    BY <1>1, <1>2 DEF Proc
<1> QED
  BY <1>3, <1>4

LEMMA PersistFailureEffect ==
  ASSUME TypeOK, NEW p \in Procs, PersistFailure(p)
  PROVE  /\ Others(p) /\ proc'[p].pc = "returned" /\ proc'[p].tx = {}
         /\ proc'[p].job = proc[p].job
<1>1. proc[p] \in Proc
  BY DEF TypeOK
<1>2. proc'[p] = [proc[p] EXCEPT !.tx = {}, !.pc = "returned"] /\ Others(p)
  BY DEF PersistFailure, TypeOK, Others
<1> QED
  BY <1>1, <1>2 DEF Proc

LEMMA FindEffect ==
  ASSUME TypeOK, NEW p \in Procs, FindExecution(p), ~Exit(p)
  PROVE  /\ Others(p) /\ proc'[p].pc = "recoverMark" /\ proc'[p].tx = proc[p].tx
         /\ proc'[p].job = proc[p].job /\ guard' = guard
         /\ attempts[proc[p].job] > 0 /\ proc'[p].attempt = attempts[proc[p].job]
         /\ proc'[p].seen \in InProgress
<1>1. proc[p] \in Proc
  BY DEF TypeOK
<1>2. /\ attempts[proc[p].job] > 0 /\ Latest(proc[p].job).status \in InProgress
      /\ proc' = [proc EXCEPT ![p].pc = "recoverMark",
                              ![p].attempt = attempts[proc[p].job],
                              ![p].seen = Latest(proc[p].job).status]
      /\ guard' = guard
  BY DEF FindExecution
<1>3. proc'[p] = [proc[p] EXCEPT !.pc = "recoverMark",
                                 !.attempt = attempts[proc[p].job],
                                 !.seen = Latest(proc[p].job).status]
      /\ Others(p)
  BY <1>2 DEF TypeOK, Others
<1> DEFINE n == attempts[proc[p].job]
           s == Latest(proc[p].job).status
<1>4. /\ proc'[p].pc = "recoverMark" /\ proc'[p].tx = proc[p].tx
      /\ proc'[p].job = proc[p].job /\ proc'[p].attempt = n /\ proc'[p].seen = s
  <2>1. proc'[p] = [proc[p] EXCEPT !.pc = "recoverMark", !.attempt = n, !.seen = s]
    BY <1>3
  <2> HIDE DEF n, s
  <2> QED
    BY <1>1, <2>1 DEF Proc
<1> QED
  BY <1>2, <1>3, <1>4

LEMMA GuardStep ==
  ASSUME TypeOK, GuardInv, [Next]_vars
  PROVE  GuardInv'
<1>1. ASSUME NEW p \in Procs, Step(p) PROVE GuardInv'
  <2>1. CASE LockSource(p, "runLock", "runDigest") \/ LockSource(p, "recoverLock", "recoverDigest")
    <3>1. PICK from \in {"runLock", "recoverLock"}, to \in {"runDigest", "recoverDigest"} :
            LockSource(p, from, to)
      BY <2>1
    <3>2. Goto(p, to) /\ proc[p].pc = from /\ guard' = guard \union {p} /\ source' = source
      BY <3>1 DEF LockSource, At
    <3>3. proc[p].tx = {}
      BY <3>2 DEF GuardInv
    <3>4. proc'[p].tx = {} /\ proc'[p].pc = to /\ Others(p)
      BY <3>2, <3>3, GotoEffect
    <3> QED
      BY <3>2, <3>4, GuardStay DEF Identified, Executing
  <2>2. CASE ComputeDigest(p, "runDigest", "launch") \/ ComputeDigest(p, "recoverDigest", "recoverUnlock")
    <3>1. PICK from \in {"runDigest", "recoverDigest"}, to \in {"launch", "recoverUnlock"} :
            ComputeDigest(p, from, to)
      BY <2>2
    <3>2. proc[p].pc = from /\ guard' = guard /\ source' = source
      BY <3>1 DEF ComputeDigest, At
    <3>3. proc[p].tx = {} /\ p \in guard
      BY <3>2 DEF GuardInv, Guarded
    <3>4. proc'[p].tx = {} /\ proc'[p].pc = to /\ Others(p) /\ Content(proc'[p].job) = source
      BY <3>1, <3>3, ComputeDigestEffect DEF Content
    <3> QED
      BY <3>2, <3>3, <3>4, GuardStay DEF Executing
  <2>3. CASE Launch(p)
    <3>1. proc[p].pc = "launch" /\ guard' = guard /\ source' = source
      BY <2>3 DEF Launch, At
    <3>2. p \in guard /\ Content(proc[p].job) = source /\ proc[p].tx = {}
      BY <3>1 DEF GuardInv, Guarded, Identified
    <3>3. /\ Others(p) /\ proc'[p].job = proc[p].job /\ proc'[p].snapshot = source
          /\ proc'[p].tx = proc[p].tx
      BY <2>3, ProcParts, LaunchEffect
    <3> QED
      BY <3>1, <3>2, <3>3, GuardStay
  <2>4. CASE WriteChunk(p)
    <3>1. proc[p].pc \in Executing /\ guard' = guard /\ source' = source
      BY <2>4 DEF WriteChunk, At, Executing
    <3>2. \A r \in Batch(p) : r[2] = Content(proc[p].job)
      BY <3>1, VisibleIsContent DEF Batch
    <3> QED
      BY <2>4, <3>1, <3>2, WriteEffect, VisibleIsContent, GuardStay
  <2>5. CASE CommitChunk(p)
    <3>1. proc[p].pc \in Executing /\ guard' = guard /\ source' = source
      BY <2>5 DEF CommitChunk, At, Executing
    <3>2. /\ Others(p) /\ proc'[p].job = proc[p].job /\ proc'[p].tx = {}
          /\ proc'[p].snapshot = proc[p].snapshot
      <4>1. proc[p] \in Proc
        BY DEF TypeOK
      <4> DEFINE pc == IF ~Targets(p, proc[p].ordinal, "after-business-commit") THEN "chunk"
                       ELSE IF proc[p].fail.pause THEN "paused" ELSE "uncertain"
      <4>2. proc'[p] = [proc[p] EXCEPT !.tx = {}, !.cursor = proc[p].cursor + proc[p].reads,
                                       !.pc = pc]
        BY <2>5 DEF CommitChunk, TypeOK
      <4>3. Others(p)
        BY <2>5 DEF CommitChunk, TypeOK, Others
      <4> HIDE DEF pc
      <4> QED
        BY <4>1, <4>2, <4>3 DEF Proc
    <3> QED
      BY <3>1, <3>2, VisibleIsContent, GuardStay
  <2>6. CASE FailChunk(p) \/ RefuseCommit(p)
    <3>1. proc[p].pc \in {"chunk", "written"} /\ guard' = guard /\ source' = source
          /\ Goto(p, "failing")
      BY <2>6 DEF FailChunk, RefuseCommit, At
    <3>2. proc[p].pc \in Executing
      BY <3>1 DEF Executing
    <3>3. \A r \in proc[p].tx : r[2] = Content(proc[p].job)
      BY DEF GuardInv
    <3> QED
      <4>1. /\ Others(p) /\ proc'[p].pc = "failing" /\ proc'[p].job = proc[p].job
            /\ proc'[p].tx = proc[p].tx /\ proc'[p].snapshot = proc[p].snapshot
        BY <3>1, GotoEffect
      <4>2. p \in guard /\ Content(proc[p].job) = source /\ proc[p].snapshot = source
        BY <3>2, VisibleIsContent
      <4> QED
        BY <3>1, <3>3, <4>1, <4>2, GuardStay
  <2>7. CASE PersistFailure(p)
    <3>1. proc[p].pc \in Executing /\ guard' = guard /\ source' = source
      BY <2>7 DEF PersistFailure, At, Executing
    <3> QED
      BY <2>7, <3>1, PersistFailureEffect, VisibleIsContent, GuardStay DEF Executing
  <2>8. CASE PersistUnknown(p) \/ Complete(p)
    <3>1. proc[p].pc \in {"uncertain", "chunk"} /\ guard' = guard /\ source' = source
          /\ Goto(p, "returned")
      BY <2>8 DEF PersistUnknown, Complete, At
    <3>2. proc[p].pc \in Executing
      BY <3>1 DEF Executing
    <3>3. proc[p].tx = {}
      BY <3>1 DEF GuardInv
    <3>4. "returned" \notin Executing
      BY DEF Executing
    <3> QED
      <4>1. /\ Others(p) /\ proc'[p].pc = "returned" /\ proc'[p].job = proc[p].job
            /\ proc'[p].tx = {}
        BY <3>1, <3>3, GotoEffect
      <4>2. p \in guard /\ Content(proc[p].job) = source
        BY <3>2, VisibleIsContent
      <4> QED
        BY <3>1, <3>4, <4>1, <4>2, GuardStay
  <2>9. CASE UnlockForRecovery(p)
    <3>1. proc[p].pc = "recoverUnlock" /\ guard' = guard \ {p} /\ source' = source
          /\ Goto(p, "recoverFind")
      BY <2>9 DEF UnlockForRecovery, At
    <3>2. proc[p].tx = {}
      BY <3>1 DEF GuardInv
    <3>3. "recoverFind" \notin Guarded
      BY DEF Guarded, Executing
    <3> QED
      BY <3>1, <3>2, <3>3, GotoEffect, GuardLeave
  <2>10. CASE FindExecution(p) /\ ~Exit(p)
    <3>1. proc[p].pc = "recoverFind" /\ source' = source
      BY <2>10 DEF FindExecution, At
    <3>2. proc[p].tx = {}
      BY <3>1 DEF GuardInv
    <3>3. "recoverMark" \notin Guarded
      BY DEF Guarded, Executing
    <3> QED
      BY <2>10, <3>1, <3>2, <3>3, FindEffect, GuardLeave
  <2>11. CASE TruncateProjection(p)
    <3>1. proc[p].pc = "resetLock" /\ guard' = guard /\ source' = source
          /\ Goto(p, "resetTruncate")
      BY <2>11 DEF TruncateProjection, At
    <3>2. proc[p].tx = {}
      BY <3>1 DEF GuardInv
    <3>3. "resetTruncate" \notin Guarded
      BY DEF Guarded, Executing
    <3> QED
      BY <3>1, <3>2, <3>3, GotoEffect, GuardLeave
  <2>12. CASE \/ RefuseLaunch(p) \/ LaunchError(p) \/ FinishRun(p) \/ MarkFailed(p)
              \/ (FindExecution(p) /\ Exit(p)) \/ TruncateSource(p)
    <3>1. Exit(p) /\ (source' = source \/ guard = {})
      BY <2>12 DEF RefuseLaunch, LaunchError, FinishRun, MarkFailed, FindExecution,
                   TruncateSource
    <3> QED
      BY <3>1, ExitEffect, GuardLeave DEF Leaves, IdleProc, Guarded, Executing
  <2> QED
    BY <1>1, <2>1, <2>2, <2>3, <2>4, <2>5, <2>6, <2>7, <2>8, <2>9, <2>10, <2>11,
       <2>12 DEF Step
<1>2. ASSUME NEW p \in Procs, Environment(p) PROVE GuardInv'
  <2>1. CASE StartRun(p) \/ StartRecover(p) \/ StartReset(p)
    <3>1. guard' = guard /\ source' = source
      BY <2>1 DEF StartRun, StartRecover, StartReset
    <3>2. {"runLock", "recoverLock", "resetLock"} \intersect Guarded = {}
      BY DEF Guarded, Executing
    <3> QED
      BY <2>1, <3>1, <3>2, StartEffect, GuardLeave
  <2>2. CASE InfrastructureError(p)
    <3>1. proc[p].pc \in {"chunk", "written"} /\ guard' = guard /\ source' = source
          /\ Goto(p, "failing")
      BY <2>2 DEF InfrastructureError, At
    <3>2. proc[p].pc \in Executing
      BY <3>1 DEF Executing
    <3>3. \A r \in proc[p].tx : r[2] = Content(proc[p].job)
      BY DEF GuardInv
    <3> QED
      <4>1. /\ Others(p) /\ proc'[p].pc = "failing" /\ proc'[p].job = proc[p].job
            /\ proc'[p].tx = proc[p].tx /\ proc'[p].snapshot = proc[p].snapshot
        BY <3>1, GotoEffect
      <4>2. p \in guard /\ Content(proc[p].job) = source /\ proc[p].snapshot = source
        BY <3>2, VisibleIsContent
      <4> QED
        BY <3>1, <3>3, <4>1, <4>2, GuardStay
  <2>3. CASE Crash(p)
    <3>1. Exit(p) /\ source' = source
      BY <2>3 DEF Crash
    <3> QED
      BY <3>1, ExitEffect, GuardLeave DEF Leaves, IdleProc, Guarded, Executing
  <2> QED
    BY <1>2, <2>1, <2>2, <2>3 DEF Environment
<1>3. ASSUME NEW c \in Contents, WriteSource(c) PROVE GuardInv'
  BY <1>3 DEF WriteSource, GuardInv, Guarded, Identified, Executing
<1>4. CASE UNCHANGED vars
  BY <1>4 DEF vars, GuardInv
<1> QED
  BY <1>1, <1>2, <1>3, <1>4 DEF Next

-----------------------------------------------------------------------------
(* The kinds of steps.                                                     *)

\* Nothing durable changes in the workload's destination or the repository.
Quiet(p) ==
    /\ Leaves(p) \/ Fails(p)
    /\ UNCHANGED <<rows, attempts, exec, wiped>>

\* An execution in progress is given a last status.
Ends(p, k, a, s) ==
    /\ Leaves(p)
    /\ SetStatus(k, a, s)
    /\ s \in {"FAILED", "UNKNOWN", "COMPLETED"}
    /\ a \in 1..attempts[k]
    /\ exec[k][a].status \in InProgress
    /\ s # "FAILED" => /\ proc[p].pc \in Executing
                       /\ k = proc[p].job /\ a = proc[p].attempt
    /\ s = "COMPLETED" => exec[k][a].position = RowCount[Content(k)]
    /\ UNCHANGED <<rows, attempts, wiped>>

\* Recovery chooses an execution.
Finds(p) == FindExecution(p) /\ ~Exit(p)

\* The exhausted reader has read its whole source.
LEMMA ExhaustedMeansWhole ==
  ASSUME TypeOK, GuardInv, OwnerInv, CursorInv, BoundInv, NEW p \in Procs,
         proc[p].pc = "chunk", Batch(p) = {}
  PROVE  exec[proc[p].job][proc[p].attempt].position = RowCount[Content(proc[p].job)]
<1> DEFINE k == proc[p].job
           a == proc[p].attempt
           total == RowCount[Content(k)]
<1>1. proc[p].pc \in Executing /\ proc[p].pc \in Chosen
  BY DEF Executing, Chosen
<1>2. k \in Keys /\ attempts[k] \in 0..MaxAttempts /\ a \in 1..attempts[k]
  BY <1>1, ProcParts, LatestType DEF OwnerInv
<1>3. a \in 1..MaxAttempts /\ total \in Nat
  BY <1>2, ConstantsAssumption, KeyParts
<1>4. proc[p].cursor <= total /\ exec[k][a].position = proc[p].cursor
  BY <1>1, <1>2, <1>3 DEF CursorInv, BoundInv
<1>5. LastRead(p) <= proc[p].cursor
  <2>1. LastRead(p) \in Nat /\ proc[p].cursor \in Nat
    BY BatchType, ProcParts
  <2>2. ASSUME LastRead(p) > proc[p].cursor PROVE FALSE
    <3>1. LastRead(p) \in (proc[p].cursor + 1)..LastRead(p)
      BY <2>1, <2>2
    <3>2. <<LastRead(p), Visible(p)>> \in Batch(p)
      BY <3>1 DEF Batch
    <3> QED
      BY <3>2
  <2> QED
    BY <2>1, <2>2
<1>6. Visible(p) = Content(k)
  BY <1>1, VisibleIsContent
<1>7. proc[p].size \in Nat \ {0} /\ proc[p].cursor \in Nat
  BY ProcParts
<1>8. total <= proc[p].cursor
  BY <1>3, <1>5, <1>6, <1>7 DEF LastRead
<1> QED
  BY <1>3, <1>4, <1>7, <1>8

LEMMA StepKinds ==
  ASSUME TypeOK, GuardInv, OwnerInv, CursorInv, BoundInv, Next
  PROVE  \/ \E p \in Procs : \/ Quiet(p) \/ Finds(p) \/ Launch(p) \/ WriteChunk(p)
                             \/ CommitChunk(p) \/ TruncateSource(p)
                             \/ \E k \in Keys : \E a, s : Ends(p, k, a, s)
         \/ \E c \in Contents : WriteSource(c)
<1>1. SUFFICES ASSUME NEW p \in Procs, Step(p) \/ Environment(p)
               PROVE  \/ Quiet(p) \/ Finds(p) \/ Launch(p) \/ WriteChunk(p)
                      \/ CommitChunk(p) \/ TruncateSource(p)
                      \/ \E k \in Keys : \E a, s : Ends(p, k, a, s)
  BY DEF Next
<1>2. {"runLock", "recoverLock", "resetLock", "runDigest", "recoverDigest", "launch",
       "recoverUnlock", "recoverFind", "resetTruncate", "returned"}
        \intersect Chosen = {}
  BY DEF Chosen, Executing
<1>3. CASE StartRun(p) \/ StartRecover(p) \/ StartReset(p)
  <2>1. UNCHANGED <<rows, attempts, exec, wiped>>
    BY <1>3 DEF StartRun, StartRecover, StartReset
  <2> QED
    BY <1>2, <1>3, <2>1, StartEffect DEF Quiet, Leaves
<1>4. CASE LockSource(p, "runLock", "runDigest") \/ LockSource(p, "recoverLock", "recoverDigest")
  <2>1. PICK to \in {"runDigest", "recoverDigest"} : Goto(p, to)
    BY <1>4 DEF LockSource
  <2>2. UNCHANGED <<rows, attempts, exec, wiped>>
        /\ proc[p].pc \in {"runLock", "recoverLock"}
    BY <1>4 DEF LockSource, At
  <2>3. proc[p].tx = {}
    BY <2>2 DEF GuardInv
  <2>4. Others(p) /\ proc'[p].pc = to /\ proc'[p].tx = {}
    BY <2>1, <2>3, GotoEffect
  <2> QED
    BY <1>2, <2>2, <2>4 DEF Quiet, Leaves
<1>5. CASE ComputeDigest(p, "runDigest", "launch") \/ ComputeDigest(p, "recoverDigest", "recoverUnlock")
  <2>1. PICK from \in {"runDigest", "recoverDigest"}, to \in {"launch", "recoverUnlock"} :
          ComputeDigest(p, from, to)
    BY <1>5
  <2>2. UNCHANGED <<rows, attempts, exec, wiped>> /\ proc[p].pc = from
    BY <2>1 DEF ComputeDigest, At
  <2>3. proc[p].tx = {}
    BY <2>2 DEF GuardInv
  <2> QED
    BY <1>2, <2>1, <2>2, <2>3, ComputeDigestEffect DEF Quiet, Leaves
<1>6. CASE UnlockForRecovery(p) \/ TruncateProjection(p)
  <2>1. PICK to \in {"recoverFind", "resetTruncate"} : Goto(p, to)
    BY <1>6 DEF UnlockForRecovery, TruncateProjection
  <2>2. UNCHANGED <<rows, attempts, exec, wiped>>
        /\ proc[p].pc \in {"recoverUnlock", "resetLock"}
    BY <1>6 DEF UnlockForRecovery, TruncateProjection, At
  <2>3. proc[p].tx = {}
    BY <2>2 DEF GuardInv
  <2>4. Others(p) /\ proc'[p].pc = to /\ proc'[p].tx = {}
    BY <2>1, <2>3, GotoEffect
  <2> QED
    BY <1>2, <2>2, <2>4 DEF Quiet, Leaves
<1>7. CASE FailChunk(p) \/ RefuseCommit(p) \/ InfrastructureError(p)
  <2>1. UNCHANGED <<rows, attempts, exec, wiped>> /\ Goto(p, "failing")
        /\ proc[p].pc \in {"chunk", "written"}
    BY <1>7 DEF FailChunk, RefuseCommit, InfrastructureError, At
  <2> QED
    BY <2>1, GotoEffect DEF Quiet, Fails
<1>8. CASE RefuseLaunch(p) \/ LaunchError(p) \/ FinishRun(p) \/ Crash(p)
  <2>1. UNCHANGED <<rows, attempts, exec, wiped>> /\ Exit(p)
    BY <1>8 DEF RefuseLaunch, LaunchError, FinishRun, Crash
  <2> QED
    BY <2>1, ExitEffect DEF Quiet
<1>9. CASE MarkFailed(p) /\ exec' # exec
  <2> DEFINE k == proc[p].job
             a == proc[p].attempt
  <2>1. /\ proc[p].pc = "recoverMark" /\ SameVersion(p) /\ SetStatus(k, a, "FAILED")
        /\ Exit(p) /\ UNCHANGED <<rows, attempts, wiped>>
    BY <1>9 DEF MarkFailed, At
  <2>2. a \in 1..attempts[k] /\ exec[k][a].status \in InProgress
    BY <2>1 DEF OwnerInv, Chosen, SameVersion
  <2>3. Ends(p, k, a, "FAILED")
    BY <2>1, <2>2, ExitEffect DEF Ends
  <2> QED
    BY <2>3, ProcParts
<1>10. CASE PersistFailure(p) \/ PersistUnknown(p) \/ Complete(p)
  <2> DEFINE k == proc[p].job
             a == proc[p].attempt
  <2>1. /\ exec[k][a].status \in InProgress /\ UNCHANGED <<rows, attempts, wiped>>
        /\ proc[p].pc \in {"failing", "uncertain", "chunk"}
    BY <1>10 DEF PersistFailure, PersistUnknown, Complete, At
  <2>2. proc[p].pc \in Executing /\ a \in 1..attempts[k]
    BY <2>1 DEF OwnerInv, Chosen, Executing
  <2>3. Leaves(p)
    <3>1. CASE PersistFailure(p)
      BY <1>2, <3>1, PersistFailureEffect DEF Leaves
    <3>2. CASE PersistUnknown(p) \/ Complete(p)
      <4>1. Goto(p, "returned") /\ proc[p].pc \in {"uncertain", "chunk"}
        BY <3>2 DEF PersistUnknown, Complete, At
      <4>2. proc[p].tx = {}
        BY <4>1 DEF GuardInv
      <4> QED
        BY <1>2, <4>1, <4>2, GotoEffect DEF Leaves
    <3> QED
      BY <1>10, <3>1, <3>2
  <2>4. PICK s \in {"FAILED", "UNKNOWN", "COMPLETED"} :
          SetStatus(k, a, s) /\ (s = "COMPLETED" => Complete(p))
    <3>1. CASE PersistFailure(p)
      BY <3>1 DEF PersistFailure
    <3>2. CASE PersistUnknown(p)
      BY <3>2 DEF PersistUnknown
    <3>3. CASE Complete(p)
      BY <3>3 DEF Complete
    <3> QED
      BY <1>10, <3>1, <3>2, <3>3
  <2>5. s = "COMPLETED" => exec[k][a].position = RowCount[Content(k)]
    BY <2>4, ExhaustedMeansWhole DEF Complete, At
  <2>6. Ends(p, k, a, s)
    BY <2>1, <2>2, <2>3, <2>4, <2>5 DEF Ends
  <2> QED
    BY <2>6, ProcParts
<1>11. CASE MarkFailed(p) \/ FindExecution(p)
  <2>1. CASE FindExecution(p)
    <3>1. CASE Exit(p)
      <4>1. UNCHANGED <<rows, attempts, exec, wiped>>
        BY <2>1 DEF FindExecution
      <4> QED
        BY <3>1, <4>1, ExitEffect DEF Quiet
    <3>2. CASE ~Exit(p)
      <4>1. Finds(p)
        BY <2>1, <3>2 DEF Finds
      <4> QED
        BY <4>1
    <3> QED
      BY <3>1, <3>2
  <2>2. CASE MarkFailed(p)
    <3>1. CASE exec' = exec
      <4>1. UNCHANGED <<rows, attempts, exec, wiped>> /\ Exit(p)
        BY <2>2, <3>1 DEF MarkFailed
      <4> QED
        BY <4>1, ExitEffect DEF Quiet
    <3>2. CASE exec' # exec
      BY <1>9, <2>2, <3>2
    <3> QED
      BY <3>1, <3>2
  <2> QED
    BY <1>11, <2>1, <2>2
<1>12. CASE Launch(p) \/ WriteChunk(p) \/ CommitChunk(p) \/ TruncateSource(p)
  BY <1>12
<1>13. CASE Step(p)
  BY <1>4, <1>5, <1>6, <1>7, <1>8, <1>10, <1>11, <1>12, <1>13 DEF Step
<1>14. CASE Environment(p)
  BY <1>3, <1>7, <1>8, <1>14 DEF Environment
<1> QED
  BY <1>1, <1>13, <1>14

-----------------------------------------------------------------------------
(* Who owns an execution.                                                  *)

\* The process enters no execution by the step.
Continues(q) ==
    proc'[q].pc \in Chosen =>
        /\ proc[q].pc \in Chosen
        /\ proc'[q].pc \in Executing <=> proc[q].pc \in Executing
        /\ proc'[q].job = proc[q].job
        /\ proc'[q].attempt = proc[q].attempt
        /\ proc'[q].seen = proc[q].seen

\* The steps after which the processes still are where they were, or left.
LEMMA MostStepsContinue ==
  ASSUME TypeOK, NEW p \in Procs,
         \/ Quiet(p) \/ WriteChunk(p) \/ CommitChunk(p) \/ TruncateSource(p)
         \/ \E k \in Keys : \E a, s : Ends(p, k, a, s)
  PROVE  \A q \in Procs : Continues(q)
<1>1. CASE Leaves(p)
  BY <1>1 DEF Leaves, Others, Continues
<1>2. CASE Fails(p)
  <2>1. proc[p] \in Proc
    BY DEF TypeOK
  <2>2. Continues(p)
    BY <1>2, <2>1 DEF Fails, Continues, Chosen, Executing, Proc
  <2>3. \A q \in Procs \ {p} : Continues(q)
    BY <1>2 DEF Fails, Others, Continues
  <2> QED
    BY <2>2, <2>3
<1>3. CASE WriteChunk(p)
  <2>1. proc[p] \in Proc
    BY DEF TypeOK
  <2> DEFINE pc == IF ~Targets(p, proc[p].ordinal + 1, "during-write") THEN "written"
                   ELSE IF proc[p].fail.pause THEN "paused" ELSE "failing"
  <2>2. proc'[p] = [proc[p] EXCEPT !.tx = Batch(p), !.reads = LastRead(p) - proc[p].cursor,
                                   !.ordinal = proc[p].ordinal + 1, !.pc = pc]
    BY <1>3 DEF WriteChunk, TypeOK
  <2>3. proc[p].pc = "chunk" /\ pc \in {"written", "paused", "failing"}
    BY <1>3 DEF WriteChunk, At
  <2>4. Others(p)
    BY <1>3, WriteEffect
  <2>5. Continues(p)
    <3> HIDE DEF pc
    <3> QED
      BY <2>1, <2>2, <2>3 DEF Continues, Chosen, Executing, Proc
  <2> QED
    BY <2>4, <2>5 DEF Others, Continues
<1>4. CASE CommitChunk(p)
  <2>1. proc[p] \in Proc
    BY DEF TypeOK
  <2> DEFINE pc == IF ~Targets(p, proc[p].ordinal, "after-business-commit") THEN "chunk"
                   ELSE IF proc[p].fail.pause THEN "paused" ELSE "uncertain"
  <2>2. proc'[p] = [proc[p] EXCEPT !.tx = {}, !.cursor = proc[p].cursor + proc[p].reads,
                                   !.pc = pc]
    BY <1>4 DEF CommitChunk, TypeOK
  <2>3. proc[p].pc = "written" /\ pc \in {"chunk", "paused", "uncertain"}
    BY <1>4 DEF CommitChunk, At
  <2>4. Others(p)
    BY <1>4 DEF CommitChunk, TypeOK, Others
  <2>5. Continues(p)
    <3> HIDE DEF pc
    <3> QED
      BY <2>1, <2>2, <2>3 DEF Continues, Chosen, Executing, Proc
  <2> QED
    BY <2>4, <2>5 DEF Others, Continues
<1>5. CASE TruncateSource(p)
  BY <1>1, <1>5, ExitEffect DEF TruncateSource
<1>6. CASE \E k \in Keys : \E a, s : Ends(p, k, a, s)
  BY <1>1, <1>6 DEF Ends
<1> QED
  BY <1>1, <1>2, <1>3, <1>4, <1>5, <1>6 DEF Quiet

\* Where a process is in an execution, the execution exists.
LEMMA ChosenType ==
  ASSUME TypeOK, OwnerInv, NEW p \in Procs, proc[p].pc \in Chosen
  PROVE  /\ proc[p].job \in Keys
         /\ attempts[proc[p].job] \in 0..MaxAttempts
         /\ proc[p].attempt \in 1..attempts[proc[p].job]
         /\ proc[p].attempt \in 1..MaxAttempts
<1>1. proc[p].job \in Keys /\ attempts[proc[p].job] \in 0..MaxAttempts
      /\ MaxAttempts \in Nat
  BY ProcParts, LatestType, ConstantsAssumption
<1>2. proc[p].attempt \in 1..attempts[proc[p].job]
  BY DEF OwnerInv
<1> QED
  BY <1>1, <1>2

\* The executions are not touched, or only given a last status.
LEMMA OwnerFrame ==
  ASSUME TypeOK, OwnerInv, \A q \in Procs : Continues(q), attempts' = attempts,
         \A q \in Procs : proc'[q].pc \in Executing =>
            exec'[proc[q].job][proc[q].attempt].status \in InProgress \union {"FAILED"}
  PROVE  OwnerInv'
<1>1. ASSUME NEW q \in Procs
      PROVE  /\ proc'[q].pc \in Chosen =>
                   proc'[q].attempt \in 1..attempts'[proc'[q].job]
             /\ proc'[q].pc = "recoverMark" => proc'[q].seen \in InProgress
             /\ proc'[q].pc \in Executing =>
                   exec'[proc'[q].job][proc'[q].attempt].status
                      \in InProgress \union {"FAILED"}
  <2>1. Continues(q)
    OBVIOUS
  <2> QED
    BY <2>1 DEF OwnerInv, Continues, Chosen, Executing
<1>2. ASSUME NEW q \in Procs, NEW r \in Procs,
             proc'[q].pc \in Executing, proc'[r].pc \in Executing,
             proc'[q].job = proc'[r].job, proc'[q].attempt = proc'[r].attempt
      PROVE  q = r
  <2>1. Continues(q) /\ Continues(r)
    OBVIOUS
  <2> QED
    BY <1>2, <2>1 DEF OwnerInv, Continues, Chosen
<1> QED
  BY <1>1, <1>2 DEF OwnerInv

LEMMA OwnerStep ==
  ASSUME TypeOK, GuardInv, OwnerInv, CursorInv, BoundInv, [Next]_vars
  PROVE  OwnerInv'
<1>1. ASSUME NEW p \in Procs, Quiet(p) \/ WriteChunk(p) \/ TruncateSource(p)
      PROVE  OwnerInv'
  <2>1. attempts' = attempts /\ exec' = exec
    BY <1>1 DEF Quiet, WriteChunk, TruncateSource
  <2>2. \A q \in Procs : Continues(q)
    BY <1>1, MostStepsContinue
  <2>3. \A q \in Procs : proc'[q].pc \in Executing => proc[q].pc \in Executing
    BY <2>2 DEF Continues, Chosen
  <2> QED
    BY <2>1, <2>2, <2>3, OwnerFrame DEF OwnerInv
<1>2. ASSUME NEW p \in Procs, CommitChunk(p) PROVE OwnerInv'
  <2>1. proc[p].pc \in Chosen
    BY <1>2 DEF CommitChunk, At, Chosen, Executing
  <2>2. /\ attempts' = attempts
        /\ \A q \in Procs : Continues(q)
    BY <1>2, MostStepsContinue DEF CommitChunk
  <2>3. \A j \in Keys : \A b \in 1..MaxAttempts : exec'[j][b].status = exec[j][b].status
    BY <1>2, <2>1, ChosenType, CommitEffect
  <2>4. ASSUME NEW q \in Procs, proc'[q].pc \in Executing
        PROVE  exec'[proc[q].job][proc[q].attempt].status \in InProgress \union {"FAILED"}
    <3>1. proc[q].pc \in Executing /\ proc[q].pc \in Chosen
      BY <2>2, <2>4 DEF Continues, Chosen
    <3> QED
      BY <2>3, <3>1, ChosenType DEF OwnerInv
  <2> QED
    BY <2>2, <2>4, OwnerFrame
<1>3. ASSUME NEW p \in Procs, NEW k \in Keys, NEW a, NEW s, Ends(p, k, a, s)
      PROVE  OwnerInv'
  <2>1. /\ attempts' = attempts
        /\ \A q \in Procs : Continues(q)
    BY <1>3, MostStepsContinue DEF Ends
  <2>2. a \in 1..MaxAttempts
    BY <1>3, LatestType, ConstantsAssumption DEF Ends
  <2>3. \A j \in Keys : \A b \in 1..MaxAttempts :
          /\ exec'[j][b].status = s \/ exec'[j][b] = exec[j][b]
          /\ j # k \/ b # a => exec'[j][b] = exec[j][b]
    BY <1>3, <2>2, SetStatusEffect DEF Ends
  <2>4. ASSUME NEW q \in Procs, proc'[q].pc \in Executing
        PROVE  exec'[proc[q].job][proc[q].attempt].status \in InProgress \union {"FAILED"}
    <3>1. proc[q].pc \in Executing /\ proc[q].pc \in Chosen
      BY <2>1, <2>4 DEF Continues, Chosen
    <3>2. exec[proc[q].job][proc[q].attempt].status \in InProgress \union {"FAILED"}
          /\ proc[q].job \in Keys /\ proc[q].attempt \in 1..MaxAttempts
      BY <3>1, ChosenType DEF OwnerInv
    <3>3. CASE s = "FAILED"
      BY <2>3, <3>2, <3>3
    <3>4. CASE s # "FAILED"
      <4>1. q # p
        BY <1>3, <2>4 DEF Ends, Leaves, Chosen
      <4>2. proc[p].pc \in Executing /\ k = proc[p].job /\ a = proc[p].attempt
        BY <1>3, <3>4 DEF Ends
      <4>3. k # proc[q].job \/ a # proc[q].attempt
        BY <3>1, <4>1, <4>2 DEF OwnerInv
      <4> QED
        BY <2>3, <3>2, <4>3
    <3> QED
      BY <3>3, <3>4
  <2> QED
    BY <2>1, <2>4, OwnerFrame
<1>4. ASSUME NEW p \in Procs, Finds(p) PROVE OwnerInv'
  <2>1. /\ Others(p) /\ proc'[p].pc = "recoverMark" /\ proc'[p].job = proc[p].job
        /\ attempts[proc[p].job] > 0 /\ proc'[p].attempt = attempts[proc[p].job]
        /\ proc'[p].seen \in InProgress
    BY <1>4, FindEffect DEF Finds
  <2>2. attempts' = attempts /\ exec' = exec
    BY <1>4 DEF Finds, FindExecution
  <2>3. attempts[proc[p].job] \in 1..attempts[proc[p].job]
    BY <2>1, ProcParts, LatestType
  <2>4. "recoverMark" \notin Executing
    BY DEF Executing
  <2> QED
    BY <2>1, <2>2, <2>3, <2>4 DEF OwnerInv, Others
<1>5. ASSUME NEW p \in Procs, Launch(p) PROVE OwnerInv'
  <2> DEFINE k == proc[p].job
             n == attempts[k] + 1
  <2>1. k \in Keys /\ attempts[k] \in 0..MaxAttempts
    BY ProcParts, LatestType
  <2>2. /\ Others(p) /\ proc'[p].pc = "chunk" /\ proc'[p].job = k /\ proc'[p].attempt = n
        /\ n \in 1..MaxAttempts /\ n > attempts[k]
        /\ attempts'[k] = n /\ \A j \in Keys \ {k} : attempts'[j] = attempts[j]
        /\ exec'[k][n].status = "STARTED"
        /\ \A j \in Keys : \A b \in 1..MaxAttempts :
              j # k \/ b # n => exec'[j][b] = exec[j][b]
    BY <1>5, <2>1, LaunchEffect
  <2>3. ASSUME NEW q \in Procs \ {p}, proc[q].pc \in Chosen
        PROVE  /\ proc[q].attempt \in 1..attempts'[proc[q].job]
               /\ proc[q].job # k \/ proc[q].attempt # n
               /\ exec'[proc[q].job][proc[q].attempt] = exec[proc[q].job][proc[q].attempt]
    <3>1. /\ proc[q].job \in Keys /\ attempts[proc[q].job] \in 0..MaxAttempts
          /\ proc[q].attempt \in 1..attempts[proc[q].job]
          /\ proc[q].attempt \in 1..MaxAttempts
      BY <2>3, ChosenType
    <3>2. proc[q].job # k \/ proc[q].attempt # n
      BY <2>2, <3>1
    <3>3. proc[q].attempt \in 1..attempts'[proc[q].job]
      BY <2>1, <2>2, <3>1
    <3> QED
      BY <2>2, <3>1, <3>2, <3>3
  <2>4. ASSUME NEW q \in Procs
        PROVE  /\ proc'[q].pc \in Chosen =>
                     proc'[q].attempt \in 1..attempts'[proc'[q].job]
               /\ proc'[q].pc = "recoverMark" => proc'[q].seen \in InProgress
               /\ proc'[q].pc \in Executing =>
                     exec'[proc'[q].job][proc'[q].attempt].status
                        \in InProgress \union {"FAILED"}
    <3>1. CASE q = p
      BY <2>2, <3>1 DEF InProgress
    <3>2. CASE q # p
      <4>1. proc'[q] = proc[q]
        BY <2>2, <3>2 DEF Others
      <4>2. proc[q].pc \in Executing => proc[q].pc \in Chosen
        BY DEF Chosen
      <4> QED
        BY <2>3, <3>2, <4>1, <4>2 DEF OwnerInv
    <3> QED
      BY <3>1, <3>2
  <2>5. ASSUME NEW q \in Procs, NEW r \in Procs,
               proc'[q].pc \in Executing, proc'[r].pc \in Executing,
               proc'[q].job = proc'[r].job, proc'[q].attempt = proc'[r].attempt
        PROVE  q = r
    <3>1. \A t \in Procs \ {p} : proc'[t] = proc[t]
      BY <2>2 DEF Others
    <3>2. CASE q # p /\ r # p
      BY <2>5, <3>1, <3>2 DEF OwnerInv
    <3>3. CASE q = p /\ r # p
      BY <2>2, <2>3, <2>5, <3>1, <3>3 DEF Chosen
    <3>4. CASE q # p /\ r = p
      BY <2>2, <2>3, <2>5, <3>1, <3>4 DEF Chosen
    <3> QED
      BY <3>2, <3>3, <3>4
  <2> QED
    BY <2>4, <2>5 DEF OwnerInv
<1>6. ASSUME NEW c \in Contents, WriteSource(c) PROVE OwnerInv'
  BY <1>6 DEF WriteSource, OwnerInv
<1>7. CASE UNCHANGED vars
  BY <1>7 DEF vars, OwnerInv
<1> QED
  BY <1>1, <1>2, <1>3, <1>4, <1>5, <1>6, <1>7, StepKinds

-----------------------------------------------------------------------------
(* Checkpoints.                                                            *)

\* A process that commits is alone with its execution.
LEMMA CommitterOwns ==
  ASSUME TypeOK, OwnerInv, CursorInv, NEW p \in Procs, CommitChunk(p)
  PROVE  /\ proc[p].pc = "written" /\ proc[p].job \in Keys
         /\ proc[p].attempt \in 1..MaxAttempts
         /\ proc[p].attempt \in 1..attempts[proc[p].job]
         /\ proc[p].reads \in Nat /\ proc[p].cursor \in Nat /\ proc[p].reads > 0
         /\ exec[proc[p].job][proc[p].attempt].position = proc[p].cursor
         /\ exec[proc[p].job][proc[p].attempt].status \in InProgress \union {"FAILED"}
         /\ \A q \in Procs \ {p} : proc[q].pc \in Executing =>
               proc[q].job # proc[p].job \/ proc[q].attempt # proc[p].attempt
<1>1. proc[p].pc = "written" /\ proc[p].pc \in Executing /\ proc[p].pc \in Chosen
  BY DEF CommitChunk, At, Executing, Chosen
<1>2. /\ proc[p].job \in Keys /\ proc[p].attempt \in 1..MaxAttempts
      /\ proc[p].attempt \in 1..attempts[proc[p].job]
  BY <1>1, ChosenType
<1>3. proc[p].reads \in Nat /\ proc[p].cursor \in Nat
  BY ProcParts
<1>4. \A q \in Procs \ {p} : proc[q].pc \in Executing =>
               proc[q].job # proc[p].job \/ proc[q].attempt # proc[p].attempt
  BY <1>1 DEF OwnerInv
<1> QED
  BY <1>1, <1>2, <1>3, <1>4 DEF OwnerInv, CursorInv

\* One process moved, and the checkpoints of the others did not.
LEMMA CursorFrame ==
  ASSUME CursorInv, NEW p \in Procs, Others(p),
         \A q \in Procs \ {p} : proc[q].pc \in Executing =>
            exec'[proc[q].job][proc[q].attempt].position
              = exec[proc[q].job][proc[q].attempt].position,
         proc'[p].pc \in Executing =>
            exec'[proc'[p].job][proc'[p].attempt].position = proc'[p].cursor,
         proc'[p].pc = "written" =>
            /\ proc'[p].reads > 0
            /\ proc'[p].cursor + proc'[p].reads <= RowCount[Content(proc'[p].job)]
            /\ proc'[p].tx = ((proc'[p].cursor + 1)..(proc'[p].cursor + proc'[p].reads))
                               \X {Content(proc'[p].job)}
  PROVE  CursorInv'
<1>1. \A q \in Procs \ {p} : proc'[q] = proc[q]
  BY DEF Others
<1>2. ASSUME NEW q \in Procs
      PROVE  /\ proc'[q].pc \in Executing =>
                   exec'[proc'[q].job][proc'[q].attempt].position = proc'[q].cursor
             /\ proc'[q].pc = "written" =>
                   /\ proc'[q].reads > 0
                   /\ proc'[q].cursor + proc'[q].reads <= RowCount[Content(proc'[q].job)]
                   /\ proc'[q].tx =
                        ((proc'[q].cursor + 1)..(proc'[q].cursor + proc'[q].reads))
                           \X {Content(proc'[q].job)}
  <2>1. CASE q = p
    BY <2>1
  <2>2. CASE q # p
    BY <1>1, <2>2 DEF CursorInv
  <2> QED
    BY <2>1, <2>2
<1> QED
  BY <1>2 DEF CursorInv

LEMMA CursorStep ==
  ASSUME TypeOK, GuardInv, OwnerInv, CursorInv, BoundInv, [Next]_vars
  PROVE  CursorInv'
<1>0. "written" \in Executing /\ Executing \subseteq Chosen
  BY DEF Executing, Chosen
<1>1. ASSUME NEW p \in Procs, Leaves(p), exec' = exec PROVE CursorInv'
  BY <1>0, <1>1, CursorFrame DEF Leaves
<1>2. ASSUME NEW p \in Procs, Fails(p), exec' = exec PROVE CursorInv'
  <2>1. proc[p] \in Proc /\ proc[p].pc \in Executing
    BY <1>2 DEF TypeOK, Fails, Executing
  <2>2. /\ proc'[p].pc = "failing" /\ proc'[p].job = proc[p].job
        /\ proc'[p].attempt = proc[p].attempt /\ proc'[p].cursor = proc[p].cursor
    BY <1>2, <2>1 DEF Fails, Proc
  <2>3. exec[proc[p].job][proc[p].attempt].position = proc[p].cursor
    BY <2>1 DEF CursorInv
  <2> QED
    BY <1>2, <2>2, <2>3, CursorFrame DEF Fails
<1>3. ASSUME NEW p \in Procs, NEW k \in Keys, NEW a, NEW s, Ends(p, k, a, s)
      PROVE  CursorInv'
  <2>1. a \in 1..MaxAttempts
    BY <1>3, LatestType, ConstantsAssumption DEF Ends
  <2>2. \A j \in Keys : \A b \in 1..MaxAttempts : exec'[j][b].position = exec[j][b].position
    BY <1>3, <2>1, SetStatusEffect DEF Ends
  <2>3. ASSUME NEW q \in Procs, proc[q].pc \in Executing
        PROVE  exec'[proc[q].job][proc[q].attempt].position
                 = exec[proc[q].job][proc[q].attempt].position
    BY <1>0, <2>2, <2>3, ChosenType
  <2> QED
    BY <1>0, <1>3, <2>3, CursorFrame DEF Ends, Leaves
<1>4. ASSUME NEW p \in Procs, Finds(p) PROVE CursorInv'
  <2>1. Others(p) /\ proc'[p].pc = "recoverMark" /\ exec' = exec
    BY <1>4, FindEffect DEF Finds, FindExecution
  <2>2. "recoverMark" \notin Executing
    BY DEF Executing
  <2> QED
    BY <1>0, <2>1, <2>2, CursorFrame
<1>5. ASSUME NEW p \in Procs, Launch(p) PROVE CursorInv'
  <2> DEFINE k == proc[p].job
             n == attempts[k] + 1
  <2>1. k \in Keys /\ attempts[k] \in 0..MaxAttempts
    BY ProcParts, LatestType
  <2>2. /\ Others(p) /\ proc'[p].pc = "chunk" /\ proc'[p].job = k /\ proc'[p].attempt = n
        /\ proc'[p].cursor = Inherited(k) /\ exec'[k][n].position = Inherited(k)
        /\ n > attempts[k]
        /\ \A j \in Keys : \A b \in 1..MaxAttempts :
              j # k \/ b # n => exec'[j][b] = exec[j][b]
    BY <1>5, <2>1, LaunchEffect
  <2>3. ASSUME NEW q \in Procs \ {p}, proc[q].pc \in Executing
        PROVE  exec'[proc[q].job][proc[q].attempt] = exec[proc[q].job][proc[q].attempt]
    <3>1. /\ proc[q].job \in Keys /\ attempts[proc[q].job] \in 0..MaxAttempts
          /\ proc[q].attempt \in 1..attempts[proc[q].job]
          /\ proc[q].attempt \in 1..MaxAttempts
      BY <1>0, <2>3, ChosenType
    <3> QED
      BY <2>2, <3>1
  <2> QED
    BY <2>2, <2>3, CursorFrame
<1>6. ASSUME NEW p \in Procs, WriteChunk(p) PROVE CursorInv'
  <2>1. proc[p].pc \in Executing /\ Batch(p) # {} /\ exec' = exec
    BY <1>6 DEF WriteChunk, At, Executing
  <2>2. /\ Others(p) /\ proc'[p].job = proc[p].job /\ proc'[p].attempt = proc[p].attempt
        /\ proc'[p].cursor = proc[p].cursor
        /\ proc'[p].tx = Batch(p) /\ proc'[p].reads = LastRead(p) - proc[p].cursor
    BY <1>6, WriteEffect
  <2>3. Visible(p) = Content(proc[p].job)
    BY <2>1, VisibleIsContent
  <2>4. /\ LastRead(p) \in Nat /\ proc[p].cursor \in Nat /\ proc[p].size \in Nat
        /\ RowCount[Visible(p)] \in Nat
    BY BatchType, ProcParts, ConstantsAssumption
  <2>5. (proc[p].cursor + 1)..LastRead(p) # {}
    BY <2>1 DEF Batch
  <2>6. LastRead(p) > proc[p].cursor
    BY <2>4, <2>5
  <2>7. LastRead(p) <= RowCount[Visible(p)]
    BY <2>4 DEF LastRead
  <2>8. /\ proc'[p].reads > 0 /\ proc'[p].cursor + proc'[p].reads = LastRead(p)
    BY <2>2, <2>4, <2>6
  <2>9. proc'[p].tx = ((proc'[p].cursor + 1)..(proc'[p].cursor + proc'[p].reads))
                        \X {Content(proc'[p].job)}
    BY <2>2, <2>3, <2>8 DEF Batch
  <2>10. exec[proc[p].job][proc[p].attempt].position = proc[p].cursor
    BY <2>1 DEF CursorInv
  <2> QED
    BY <2>1, <2>2, <2>3, <2>7, <2>8, <2>9, <2>10, CursorFrame
<1>7. ASSUME NEW p \in Procs, CommitChunk(p) PROVE CursorInv'
  <2> DEFINE k == proc[p].job
             a == proc[p].attempt
  <2>1. /\ k \in Keys /\ a \in 1..MaxAttempts
        /\ exec[k][a].position = proc[p].cursor
        /\ \A q \in Procs \ {p} : proc[q].pc \in Executing =>
              proc[q].job # k \/ proc[q].attempt # a
    BY <1>7, CommitterOwns
  <2>2. /\ Others(p) /\ proc'[p].pc \in {"chunk", "paused", "uncertain"}
        /\ proc'[p].job = k /\ proc'[p].attempt = a
        /\ proc'[p].cursor = proc[p].cursor + proc[p].reads
        /\ exec'[k][a].position = exec[k][a].position + proc[p].reads
        /\ \A j \in Keys : \A b \in 1..MaxAttempts :
              j # k \/ b # a => exec'[j][b] = exec[j][b]
    BY <1>7, <2>1, CommitEffect
  <2>3. ASSUME NEW q \in Procs \ {p}, proc[q].pc \in Executing
        PROVE  exec'[proc[q].job][proc[q].attempt] = exec[proc[q].job][proc[q].attempt]
    <3>1. proc[q].job \in Keys /\ proc[q].attempt \in 1..MaxAttempts
      BY <1>0, <2>3, ChosenType
    <3> QED
      BY <2>1, <2>2, <2>3, <3>1
  <2> QED
    BY <2>1, <2>2, <2>3, CursorFrame
<1>8. ASSUME NEW p \in Procs, TruncateSource(p) PROVE CursorInv'
  BY <1>1, <1>8, ExitEffect DEF TruncateSource
<1>9. ASSUME NEW c \in Contents, WriteSource(c) PROVE CursorInv'
  BY <1>9 DEF WriteSource, CursorInv
<1>10. CASE UNCHANGED vars
  BY <1>10 DEF vars, CursorInv
<1> QED
  BY <1>1, <1>2, <1>3, <1>4, <1>5, <1>6, <1>7, <1>8, <1>9, <1>10, StepKinds DEF Quiet

\* The steps that leave the repository alone.
LEMMA RepositorySteps ==
  ASSUME TypeOK, GuardInv, OwnerInv, CursorInv, BoundInv, [Next]_vars
  PROVE  \/ exec' = exec /\ attempts' = attempts
         \/ \E p \in Procs : Launch(p) \/ CommitChunk(p)
         \/ \E p \in Procs, k \in Keys : \E a, s : Ends(p, k, a, s)
<1>1. ASSUME NEW p \in Procs,
             Quiet(p) \/ Finds(p) \/ WriteChunk(p) \/ TruncateSource(p)
      PROVE  exec' = exec /\ attempts' = attempts
  BY <1>1 DEF Quiet, Finds, FindExecution, WriteChunk, TruncateSource
<1>2. ASSUME NEW c \in Contents, WriteSource(c)
      PROVE  exec' = exec /\ attempts' = attempts
  BY <1>2 DEF WriteSource
<1>3. CASE UNCHANGED vars
  BY <1>3 DEF vars
<1> QED
  BY <1>1, <1>2, <1>3, StepKinds

\* The effect of an ending step on the repository.
LEMMA EndsEffect ==
  ASSUME TypeOK, NEW p \in Procs, NEW k \in Keys, NEW a, NEW s, Ends(p, k, a, s)
  PROVE  /\ a \in 1..MaxAttempts /\ attempts' = attempts
         /\ exec'[k][a].status = s
         /\ \A j \in Keys : \A b \in 1..MaxAttempts :
              /\ exec'[j][b].position = exec[j][b].position
              /\ j # k \/ b # a => exec'[j][b] = exec[j][b]
<1>1. a \in 1..MaxAttempts /\ attempts' = attempts
  BY LatestType, ConstantsAssumption DEF Ends
<1> QED
  BY <1>1, SetStatusEffect DEF Ends

LEMMA BoundStep ==
  ASSUME TypeOK, GuardInv, OwnerInv, CursorInv, BoundInv, [Next]_vars
  PROVE  BoundInv'
<1>1. CASE exec' = exec
  BY <1>1 DEF BoundInv
<1>2. ASSUME NEW p \in Procs, NEW k \in Keys, NEW a, NEW s, Ends(p, k, a, s)
      PROVE  BoundInv'
  <2>1. ASSUME NEW j \in Keys, NEW b \in 1..MaxAttempts
        PROVE  /\ exec'[j][b].position <= RowCount[Content(j)]
               /\ exec'[j][b].status = "COMPLETED" =>
                     exec'[j][b].position = RowCount[Content(j)]
    <3>1. exec'[j][b].position = exec[j][b].position
      BY <1>2, <2>1, EndsEffect
    <3>2. CASE j = k /\ b = a
      BY <1>2, <3>1, <3>2, EndsEffect DEF Ends, BoundInv
    <3>3. CASE j # k \/ b # a
      BY <1>2, <3>3, EndsEffect DEF BoundInv
    <3> QED
      BY <3>2, <3>3
  <2> QED
    BY <2>1 DEF BoundInv
<1>3. ASSUME NEW p \in Procs, Launch(p) PROVE BoundInv'
  <2> DEFINE k == proc[p].job
             n == attempts[k] + 1
  <2>1. k \in Keys /\ Content(k) \in Contents
    BY ProcParts, KeyParts
  <2>2. /\ exec'[k][n].status = "STARTED" /\ exec'[k][n].position = Inherited(k)
        /\ \A j \in Keys : \A b \in 1..MaxAttempts :
              j # k \/ b # n => exec'[j][b] = exec[j][b]
    BY <1>3, <2>1, LaunchEffect
  <2>3. Inherited(k) <= RowCount[Content(k)]
    BY <2>1, LatestType, ConstantsAssumption DEF Inherited, Latest, BoundInv
  <2> QED
    BY <2>2, <2>3 DEF BoundInv
<1>4. ASSUME NEW p \in Procs, CommitChunk(p) PROVE BoundInv'
  <2> DEFINE k == proc[p].job
             a == proc[p].attempt
  <2>1. /\ k \in Keys /\ a \in 1..MaxAttempts /\ proc[p].pc = "written"
        /\ exec[k][a].position = proc[p].cursor
        /\ exec[k][a].status \in InProgress \union {"FAILED"}
    BY <1>4, CommitterOwns
  <2>2. proc[p].cursor + proc[p].reads <= RowCount[Content(k)]
    BY <2>1 DEF CursorInv
  <2>3. /\ exec'[k][a].position = exec[k][a].position + proc[p].reads
        /\ exec'[k][a].status = exec[k][a].status
        /\ \A j \in Keys : \A b \in 1..MaxAttempts :
              j # k \/ b # a => exec'[j][b] = exec[j][b]
    BY <1>4, <2>1, CommitEffect
  <2> QED
    BY <2>1, <2>2, <2>3 DEF BoundInv, InProgress
<1> QED
  BY <1>1, <1>2, <1>3, <1>4, RepositorySteps

LEMMA LatestStep ==
  ASSUME TypeOK, GuardInv, OwnerInv, CursorInv, BoundInv, OnlyLatestIsUnfinished,
         [Next]_vars
  PROVE  OnlyLatestIsUnfinished'
<1>1. CASE exec' = exec /\ attempts' = attempts
  BY <1>1 DEF OnlyLatestIsUnfinished
<1>2. ASSUME NEW p \in Procs, NEW k \in Keys, NEW a, NEW s, Ends(p, k, a, s)
      PROVE  OnlyLatestIsUnfinished'
  <2>1. /\ a \in 1..MaxAttempts /\ a \in 1..attempts[k] /\ attempts[k] \in Nat
        /\ exec[k][a].status \in InProgress
    BY <1>2, EndsEffect, LatestType DEF Ends
  <2>2. a = attempts[k]
    BY <2>1 DEF OnlyLatestIsUnfinished, InProgress
  <2> QED
    BY <1>2, <2>2, EndsEffect DEF OnlyLatestIsUnfinished
<1>3. ASSUME NEW p \in Procs, Launch(p) PROVE OnlyLatestIsUnfinished'
  <2> DEFINE k == proc[p].job
             n == attempts[k] + 1
  <2>1. k \in Keys /\ attempts[k] \in 0..MaxAttempts
    BY ProcParts, LatestType
  <2>2. /\ n \in 1..MaxAttempts /\ attempts'[k] = n
        /\ \A j \in Keys \ {k} : attempts'[j] = attempts[j]
        /\ \A j \in Keys : \A b \in 1..MaxAttempts :
              j # k \/ b # n => exec'[j][b] = exec[j][b]
    BY <1>3, <2>1, LaunchEffect
  <2>3. attempts[k] > 0 => exec[k][attempts[k]].status = "FAILED"
    BY <1>3 DEF Launch, Restartable, Latest
  <2>4. ASSUME NEW j \in Keys, NEW b \in 1..MaxAttempts
        PROVE  /\ b < attempts'[j] => exec'[j][b].status = "FAILED"
               /\ b > attempts'[j] => exec'[j][b] = NoExecution
    <3>1. CASE j = k
      <4>1. b < n => (b < attempts[k] \/ (b = attempts[k] /\ attempts[k] > 0))
        BY <2>1
      <4>2. b # n => exec'[j][b] = exec[j][b]
        BY <2>2, <2>4, <3>1
      <4> QED
        BY <2>1, <2>2, <2>3, <3>1, <4>1, <4>2 DEF OnlyLatestIsUnfinished
    <3>2. CASE j # k
      BY <2>2, <3>2 DEF OnlyLatestIsUnfinished
    <3> QED
      BY <3>1, <3>2
  <2> QED
    BY <2>4 DEF OnlyLatestIsUnfinished
<1>4. ASSUME NEW p \in Procs, CommitChunk(p) PROVE OnlyLatestIsUnfinished'
  <2> DEFINE k == proc[p].job
             a == proc[p].attempt
  <2>0. /\ k \in Keys /\ a \in 1..MaxAttempts /\ a \in 1..attempts[k]
    BY <1>4, CommitterOwns
  <2>1. /\ k \in Keys /\ a \in 1..MaxAttempts /\ a \in 1..attempts[k]
        /\ attempts[k] \in Nat /\ attempts' = attempts
    BY <1>4, <2>0, LatestType DEF CommitChunk
  <2>2. /\ exec'[k][a].status = exec[k][a].status
        /\ \A j \in Keys : \A b \in 1..MaxAttempts :
              j # k \/ b # a => exec'[j][b] = exec[j][b]
    BY <1>4, <2>1, CommitEffect
  <2>3. ~(a > attempts[k])
    BY <2>1
  <2> QED
    BY <2>1, <2>2, <2>3 DEF OnlyLatestIsUnfinished
<1> QED
  BY <1>1, <1>2, <1>3, <1>4, RepositorySteps

-----------------------------------------------------------------------------
(* The destination.                                                        *)

\* No process opened a chunk, and no row was added.
LEMMA DisjointFrame ==
  ASSUME DisjointInv,
         \A q \in Procs : \/ proc'[q].tx = {}
                          \/ proc'[q].tx = proc[q].tx /\ proc'[q].job = proc[q].job,
         \/ rows' = rows
         \/ \A q \in Procs : rows'[Scope(proc'[q].job)] = {}
  PROVE  DisjointInv'
<1>1. ASSUME NEW q \in Procs
      PROVE  proc'[q].tx \intersect rows'[Scope(proc'[q].job)] = {}
  BY <1>1 DEF DisjointInv
<1>2. ASSUME NEW q \in Procs, NEW r \in Procs, q # r,
             Scope(proc'[r].job) = Scope(proc'[q].job)
      PROVE  proc'[q].tx \intersect proc'[r].tx = {}
  BY <1>2 DEF DisjointInv
<1> QED
  BY <1>1, <1>2 DEF DisjointInv

\* The rows of the next chunk are new.
LEMMA WriteIsNew ==
  ASSUME NEW p \in Procs, WriteChunk(p)
  PROVE  /\ Batch(p) \intersect rows[Scope(proc[p].job)] = {}
         /\ \A q \in Procs \ {p} : Scope(proc[q].job) = Scope(proc[p].job)
               => Batch(p) \intersect proc[q].tx = {}
  BY DEF WriteChunk, CollidesInFlight, Collides

LEMMA DisjointStep ==
  ASSUME TypeOK, GuardInv, OwnerInv, CursorInv, BoundInv, DisjointInv, [Next]_vars
  PROVE  DisjointInv'
<1>1. ASSUME NEW p \in Procs, Leaves(p), rows' = rows PROVE DisjointInv'
  BY <1>1, DisjointFrame DEF Leaves, Others
<1>2. ASSUME NEW p \in Procs, Fails(p), rows' = rows PROVE DisjointInv'
  <2>1. proc'[p].tx = proc[p].tx /\ proc'[p].job = proc[p].job
    BY <1>2 DEF Fails, Proc, TypeOK
  <2> QED
    BY <1>2, <2>1, DisjointFrame DEF Fails, Others
<1>3. ASSUME NEW p \in Procs, Finds(p) PROVE DisjointInv'
  <2>1. Others(p) /\ proc'[p].tx = proc[p].tx /\ proc'[p].job = proc[p].job
        /\ rows' = rows
    BY <1>3, FindEffect DEF Finds, FindExecution
  <2> QED
    BY <2>1, DisjointFrame DEF Others
<1>4. ASSUME NEW p \in Procs, Launch(p) PROVE DisjointInv'
  <2>1. Others(p) /\ proc'[p].tx = proc[p].tx /\ proc'[p].job = proc[p].job
    BY <1>4, LaunchEffect, ProcParts
  <2>2. rows' = rows
    BY <1>4 DEF Launch
  <2> QED
    BY <2>1, <2>2, DisjointFrame DEF Others
<1>5. ASSUME NEW p \in Procs, WriteChunk(p) PROVE DisjointInv'
  <2>1. /\ \A q \in Procs \ {p} : proc'[q] = proc[q]
        /\ proc'[p].tx = Batch(p) /\ proc'[p].job = proc[p].job /\ rows' = rows
    BY <1>5, WriteEffect DEF WriteChunk, Others
  <2>2. /\ Batch(p) \intersect rows[Scope(proc[p].job)] = {}
        /\ \A q \in Procs \ {p} : Scope(proc[q].job) = Scope(proc[p].job)
              => Batch(p) \intersect proc[q].tx = {}
    BY <1>5, WriteIsNew
  <2>3. ASSUME NEW q \in Procs
        PROVE  proc'[q].tx \intersect rows'[Scope(proc'[q].job)] = {}
    <3>1. CASE q = p
      BY <2>1, <2>2, <3>1
    <3>2. CASE q # p
      BY <2>1, <3>2 DEF DisjointInv
    <3> QED
      BY <3>1, <3>2
  <2>4. ASSUME NEW q \in Procs, NEW r \in Procs, q # r,
               Scope(proc'[r].job) = Scope(proc'[q].job)
        PROVE  proc'[q].tx \intersect proc'[r].tx = {}
    <3>1. CASE q = p
      BY <2>1, <2>2, <2>4, <3>1
    <3>2. CASE r = p
      BY <2>1, <2>2, <2>4, <3>2
    <3>3. CASE q # p /\ r # p
      BY <2>1, <2>4, <3>3 DEF DisjointInv
    <3> QED
      BY <3>1, <3>2, <3>3
  <2> QED
    BY <2>3, <2>4 DEF DisjointInv
<1>6. ASSUME NEW p \in Procs, CommitChunk(p) PROVE DisjointInv'
  <2> DEFINE k == proc[p].job
             a == proc[p].attempt
  <2>1. k \in Keys /\ a \in 1..MaxAttempts
    BY <1>6, CommitterOwns
  <2>2. /\ \A q \in Procs \ {p} : proc'[q] = proc[q]
        /\ proc'[p].tx = {}
        /\ rows'[Scope(k)] = rows[Scope(k)] \union proc[p].tx
        /\ \A s \in Scopes : s # Scope(k) => rows'[s] = rows[s]
    BY <1>6, <2>1, CommitEffect DEF Others
  <2>3. ASSUME NEW q \in Procs
        PROVE  proc'[q].tx \intersect rows'[Scope(proc'[q].job)] = {}
    <3>1. CASE q = p
      BY <2>2, <3>1
    <3>2. CASE q # p
      <4>1. Scope(proc[q].job) \in Scopes
        BY ProcParts, KeyParts
      <4>2. CASE Scope(proc[q].job) = Scope(k)
        BY <2>2, <3>2, <4>2 DEF DisjointInv
      <4>3. CASE Scope(proc[q].job) # Scope(k)
        BY <2>2, <3>2, <4>1, <4>3 DEF DisjointInv
      <4> QED
        BY <4>2, <4>3
    <3> QED
      BY <3>1, <3>2
  <2>4. ASSUME NEW q \in Procs, NEW r \in Procs, q # r,
               Scope(proc'[r].job) = Scope(proc'[q].job)
        PROVE  proc'[q].tx \intersect proc'[r].tx = {}
    BY <2>2, <2>4 DEF DisjointInv
  <2> QED
    BY <2>3, <2>4 DEF DisjointInv
<1>7. ASSUME NEW p \in Procs, TruncateSource(p) PROVE DisjointInv'
  <2>1. /\ \A s \in Scopes : rows'[s] = {}
        /\ Leaves(p)
    BY <1>7, ExitEffect DEF TruncateSource
  <2>2. \A q \in Procs : Scope(proc'[q].job) \in Scopes
    <3>1. TypeOK'
      BY StepType
    <3>2. \A q \in Procs : proc'[q].job \in Keys
      BY <3>1 DEF TypeOK, Proc
    <3> QED
      BY <3>2, KeyParts
  <2> QED
    BY <2>1, <2>2, DisjointFrame DEF Leaves, Others
<1>8. ASSUME NEW c \in Contents, WriteSource(c) PROVE DisjointInv'
  BY <1>8 DEF WriteSource, DisjointInv
<1>9. CASE UNCHANGED vars
  BY <1>9 DEF vars, DisjointInv
<1> QED
  BY <1>1, <1>2, <1>3, <1>4, <1>5, <1>6, <1>7, <1>8, <1>9, StepKinds DEF Quiet, Ends

\* A chunk that is new to the scope continues the furthest checkpoint.
LEMMA CommitContinues ==
  ASSUME TypeOK, OwnerInv, CursorInv, DisjointInv, PrefixInv,
         NEW p \in Procs, CommitChunk(p), NEW n \in Nat,
         Scope(proc[p].job) \notin wiped,
         rows[Scope(proc[p].job)] = Prefix(Content(proc[p].job), n),
         \A k \in Keys : \A a \in 1..MaxAttempts :
            Scope(k) = Scope(proc[p].job) => exec[k][a].position <= n
  PROVE  /\ proc[p].cursor = n
         /\ rows[Scope(proc[p].job)] \union proc[p].tx
              = Prefix(Content(proc[p].job), n + proc[p].reads)
<1> DEFINE k == proc[p].job
           c == Content(k)
           cur == proc[p].cursor
           r == proc[p].reads
<1>1. /\ proc[p].pc = "written" /\ k \in Keys /\ proc[p].attempt \in 1..MaxAttempts
      /\ r \in Nat /\ cur \in Nat /\ r > 0
      /\ exec[k][proc[p].attempt].position = cur
  BY CommitterOwns
<1>2. cur <= n
  BY <1>1
<1>3. proc[p].tx = ((cur + 1)..(cur + r)) \X {c}
  BY <1>1 DEF CursorInv
<1>4. ASSUME cur < n PROVE FALSE
  <2>1. cur + 1 \in (cur + 1)..(cur + r) /\ cur + 1 \in 1..n
    BY <1>1, <1>4
  <2>2. <<cur + 1, c>> \in proc[p].tx /\ <<cur + 1, c>> \in rows[Scope(k)]
    BY <1>3, <2>1 DEF Prefix
  <2> QED
    BY <2>2 DEF DisjointInv
<1>5. cur = n
  BY <1>1, <1>2, <1>4
<1>6. (1..n) \union ((cur + 1)..(cur + r)) = 1..(n + r)
  BY <1>1, <1>5
<1>7. Prefix(c, n) \union (((cur + 1)..(cur + r)) \X {c}) = Prefix(c, n + r)
  BY <1>6 DEF Prefix
<1> QED
  BY <1>3, <1>5, <1>7

LEMMA PrefixStep ==
  ASSUME TypeOK, GuardInv, OwnerInv, CursorInv, BoundInv, OnlyLatestIsUnfinished,
         DisjointInv, PrefixInv, [Next]_vars
  PROVE  PrefixInv'
<1>1. ASSUME wiped' = wiped, rows' = rows,
             \A k \in Keys : \A a \in 1..MaxAttempts :
                exec'[k][a].position = exec[k][a].position
      PROVE  PrefixInv'
  BY <1>1 DEF PrefixInv
<1>2. ASSUME NEW p \in Procs, NEW k \in Keys, NEW a, NEW s, Ends(p, k, a, s)
      PROVE  PrefixInv'
  BY <1>1, <1>2, EndsEffect DEF Ends
<1>3. ASSUME NEW p \in Procs, Launch(p) PROVE PrefixInv'
  <2> DEFINE k == proc[p].job
             m == attempts[k] + 1
  <2>1. k \in Keys /\ attempts[k] \in 0..MaxAttempts
        /\ (attempts[k] > 0 => attempts[k] \in 1..MaxAttempts)
    BY ProcParts, LatestType
  <2>2. /\ m \in 1..MaxAttempts /\ m > attempts[k]
        /\ exec'[k][m].position = Inherited(k)
        /\ \A j \in Keys : \A b \in 1..MaxAttempts :
              j # k \/ b # m => exec'[j][b] = exec[j][b]
    BY <1>3, <2>1, LaunchEffect
  <2>3. wiped' = wiped /\ rows' = rows
    BY <1>3 DEF Launch
  <2>4. exec[k][m].position = 0
    BY <2>1, <2>2 DEF OnlyLatestIsUnfinished, NoExecution
  <2>5. ASSUME NEW s \in Scopes \ wiped
        PROVE  \E n \in Nat :
                 /\ rows'[s] = Prefix(s[2], n)
                 /\ \A j \in Keys : \A b \in 1..MaxAttempts :
                       Scope(j) = s => exec'[j][b].position <= n
                 /\ n > 0 => \E j \in Keys : \E b \in 1..MaxAttempts :
                                Scope(j) = s /\ exec'[j][b].position = n
    <3>1. PICK n \in Nat :
            /\ rows[s] = Prefix(s[2], n)
            /\ \A j \in Keys : \A b \in 1..MaxAttempts :
                  Scope(j) = s => exec[j][b].position <= n
            /\ n > 0 => \E j \in Keys : \E b \in 1..MaxAttempts :
                           Scope(j) = s /\ exec[j][b].position = n
      BY <2>5 DEF PrefixInv
    <3>2. Scope(k) = s => Inherited(k) <= n
      BY <2>1, <3>1 DEF Inherited, Latest
    <3>3. \A j \in Keys : \A b \in 1..MaxAttempts :
             Scope(j) = s => exec'[j][b].position <= n
      BY <2>2, <3>1, <3>2
    <3>4. ASSUME n > 0
          PROVE  \E j \in Keys : \E b \in 1..MaxAttempts :
                    Scope(j) = s /\ exec'[j][b].position = n
      <4>1. PICK j \in Keys, b \in 1..MaxAttempts : Scope(j) = s /\ exec[j][b].position = n
        BY <3>1, <3>4
      <4>2. j # k \/ b # m
        BY <2>4, <3>4, <4>1
      <4> QED
        BY <2>2, <4>1, <4>2
    <3> QED
      BY <2>3, <3>1, <3>3, <3>4
  <2> QED
    BY <2>3, <2>5 DEF PrefixInv
<1>4. ASSUME NEW p \in Procs, CommitChunk(p) PROVE PrefixInv'
  <2> DEFINE k == proc[p].job
             a == proc[p].attempt
  <2>1. /\ k \in Keys /\ a \in 1..MaxAttempts
        /\ proc[p].reads \in Nat /\ exec[k][a].position = proc[p].cursor
    BY <1>4, CommitterOwns
  <2>2. /\ exec'[k][a].position = exec[k][a].position + proc[p].reads
        /\ \A j \in Keys : \A b \in 1..MaxAttempts :
              j # k \/ b # a => exec'[j][b] = exec[j][b]
        /\ rows'[Scope(k)] = rows[Scope(k)] \union proc[p].tx
        /\ \A s \in Scopes : s # Scope(k) => rows'[s] = rows[s]
    BY <1>4, <2>1, CommitEffect
  <2>3. wiped' = wiped
    BY <1>4 DEF CommitChunk
  <2>4. ASSUME NEW s \in Scopes \ wiped
        PROVE  \E n \in Nat :
                 /\ rows'[s] = Prefix(s[2], n)
                 /\ \A j \in Keys : \A b \in 1..MaxAttempts :
                       Scope(j) = s => exec'[j][b].position <= n
                 /\ n > 0 => \E j \in Keys : \E b \in 1..MaxAttempts :
                                Scope(j) = s /\ exec'[j][b].position = n
    <3>1. PICK n \in Nat :
            /\ rows[s] = Prefix(s[2], n)
            /\ \A j \in Keys : \A b \in 1..MaxAttempts :
                  Scope(j) = s => exec[j][b].position <= n
            /\ n > 0 => \E j \in Keys : \E b \in 1..MaxAttempts :
                           Scope(j) = s /\ exec[j][b].position = n
      BY <2>4 DEF PrefixInv
    <3>2. CASE s # Scope(k)
      BY <2>2, <3>1, <3>2
    <3>3. CASE s = Scope(k)
      <4>1. s[2] = Content(k)
        BY <3>3 DEF Scope, Content
      <4>2. /\ proc[p].cursor = n
            /\ rows[s] \union proc[p].tx = Prefix(s[2], n + proc[p].reads)
        BY <1>4, <2>4, <3>1, <3>3, <4>1, CommitContinues
      <4>3. n + proc[p].reads \in Nat /\ n <= n + proc[p].reads
        BY <2>1
      <4>4. \A j \in Keys : \A b \in 1..MaxAttempts :
               Scope(j) = s => exec'[j][b].position <= n + proc[p].reads
        <5>1. SUFFICES ASSUME NEW j \in Keys, NEW b \in 1..MaxAttempts, Scope(j) = s
                       PROVE  exec'[j][b].position <= n + proc[p].reads
          OBVIOUS
        <5>2. exec[j][b].position \in Nat /\ exec[j][b].position <= n
          BY <3>1, <5>1, ExecutionParts
        <5>3. CASE j = k /\ b = a
          BY <2>1, <2>2, <4>2, <5>3
        <5>4. CASE j # k \/ b # a
          BY <2>1, <2>2, <5>2, <5>4
        <5> QED
          BY <5>3, <5>4
      <4>5. Scope(k) = s /\ exec'[k][a].position = n + proc[p].reads
        BY <2>1, <2>2, <3>3, <4>2
      <4>6. rows'[s] = Prefix(s[2], n + proc[p].reads)
        BY <2>2, <3>3, <4>2
      <4> QED
        BY <2>1, <4>3, <4>4, <4>5, <4>6
    <3> QED
      BY <3>2, <3>3
  <2> QED
    BY <2>3, <2>4 DEF PrefixInv
<1>5. ASSUME NEW p \in Procs, TruncateSource(p) PROVE PrefixInv'
  <2>1. /\ \A s \in Scopes : rows'[s] = {}
        /\ \A s \in Scopes \ wiped' : s \notin wiped /\ rows[s] = {}
        /\ exec' = exec
    BY <1>5 DEF TruncateSource
  <2>2. \A s \in Scopes \ wiped' : s \in Scopes \ wiped /\ rows'[s] = rows[s]
    BY <2>1
  <2> QED
    BY <2>1, <2>2 DEF PrefixInv
<1>6. ASSUME NEW p \in Procs, Quiet(p) \/ Finds(p) \/ WriteChunk(p) PROVE PrefixInv'
  <2>1. wiped' = wiped /\ rows' = rows /\ exec' = exec
    BY <1>6 DEF Quiet, Finds, FindExecution, WriteChunk
  <2> QED
    BY <1>1, <2>1
<1>7. ASSUME NEW c \in Contents, WriteSource(c) PROVE PrefixInv'
  BY <1>1, <1>7 DEF WriteSource
<1>8. CASE UNCHANGED vars
  BY <1>1, <1>8 DEF vars
<1> QED
  BY <1>2, <1>3, <1>4, <1>5, <1>6, <1>7, <1>8, StepKinds

LEMMA RowsStep ==
  ASSUME TypeOK, GuardInv, OwnerInv, CursorInv, BoundInv, RowsComeFromTheirDigest,
         [Next]_vars
  PROVE  RowsComeFromTheirDigest'
<1>1. CASE rows' = rows
  BY <1>1 DEF RowsComeFromTheirDigest
<1>2. ASSUME NEW p \in Procs, CommitChunk(p) PROVE RowsComeFromTheirDigest'
  <2>1. proc[p].job \in Keys /\ proc[p].attempt \in 1..MaxAttempts
    BY <1>2, CommitterOwns
  <2>2. /\ rows'[Scope(proc[p].job)] = rows[Scope(proc[p].job)] \union proc[p].tx
        /\ \A s \in Scopes : s # Scope(proc[p].job) => rows'[s] = rows[s]
    BY <1>2, <2>1, CommitEffect
  <2>3. \A r \in proc[p].tx : r[2] = Content(proc[p].job)
    BY DEF GuardInv
  <2>4. Content(proc[p].job) = Scope(proc[p].job)[2]
    BY DEF Content, Scope
  <2> QED
    BY <2>2, <2>3, <2>4 DEF RowsComeFromTheirDigest
<1>3. ASSUME NEW p \in Procs, TruncateSource(p) PROVE RowsComeFromTheirDigest'
  BY <1>3 DEF TruncateSource, RowsComeFromTheirDigest
<1>4. ASSUME NEW p \in Procs,
             \/ Quiet(p) \/ Finds(p) \/ WriteChunk(p) \/ Launch(p)
             \/ \E k \in Keys : \E a, s : Ends(p, k, a, s)
      PROVE  rows' = rows
  BY <1>4 DEF Quiet, Finds, FindExecution, WriteChunk, Launch, Ends
<1>5. ASSUME NEW c \in Contents, WriteSource(c) PROVE rows' = rows
  BY <1>5 DEF WriteSource
<1>6. CASE UNCHANGED vars
  BY <1>1, <1>6 DEF vars
<1> QED
  BY <1>1, <1>2, <1>3, <1>4, <1>5, <1>6, StepKinds

\* At most one instance of a scope has delivered anything.
ModesInv ==
    \A j, k \in Keys : \A a, b \in 1..MaxAttempts :
        Scope(j) = Scope(k) /\ Scope(k) \notin wiped /\ j # k
        => exec[j][a].position = 0 \/ exec[k][b].position = 0

\* Only one instance moved.
LEMMA ModesFrame ==
  ASSUME ModesInv, wiped \subseteq wiped', NEW k \in Keys,
         \A j \in Keys \ {k} : \A b \in 1..MaxAttempts : exec'[j][b] = exec[j][b],
         \A a \in 1..MaxAttempts :
            \/ exec'[k][a].position = 0
            \/ \E b \in 1..MaxAttempts : exec[k][b].position # 0
            \/ \A j \in Keys : \A b \in 1..MaxAttempts :
                  Scope(j) = Scope(k) /\ Scope(k) \notin wiped' => exec[j][b].position = 0
  PROVE  ModesInv'
<1>1. ASSUME NEW j \in Keys \ {k}, NEW a \in 1..MaxAttempts, NEW b \in 1..MaxAttempts,
             Scope(j) = Scope(k), Scope(k) \notin wiped'
      PROVE  exec'[j][b].position = 0 \/ exec'[k][a].position = 0
  <2>1. exec'[j][b] = exec[j][b] /\ Scope(k) \notin wiped
    BY <1>1
  <2>2. CASE \E d \in 1..MaxAttempts : exec[k][d].position # 0
    BY <1>1, <2>1, <2>2 DEF ModesInv
  <2> QED
    BY <1>1, <2>1, <2>2
<1>2. ASSUME NEW i \in Keys, NEW j \in Keys, NEW a \in 1..MaxAttempts,
             NEW b \in 1..MaxAttempts,
             Scope(i) = Scope(j), Scope(j) \notin wiped', i # j
      PROVE  exec'[i][a].position = 0 \/ exec'[j][b].position = 0
  <2>1. CASE i # k /\ j # k
    BY <1>2, <2>1 DEF ModesInv
  <2>2. CASE i = k
    BY <1>1, <1>2, <2>2
  <2>3. CASE j = k
    BY <1>1, <1>2, <2>3
  <2> QED
    BY <2>1, <2>2, <2>3
<1> QED
  BY <1>2 DEF ModesInv

LEMMA ModesStep ==
  ASSUME TypeOK, GuardInv, OwnerInv, CursorInv, BoundInv, OnlyLatestIsUnfinished,
         DisjointInv, PrefixInv, ModesInv, [Next]_vars
  PROVE  ModesInv'
<1>1. wiped \subseteq wiped'
  <2>1. ASSUME NEW p \in Procs,
               \/ Quiet(p) \/ Finds(p) \/ WriteChunk(p) \/ Launch(p) \/ CommitChunk(p)
               \/ \E k \in Keys : \E a, s : Ends(p, k, a, s)
        PROVE  wiped' = wiped
    BY <2>1 DEF Quiet, Finds, FindExecution, WriteChunk, Launch, CommitChunk, Ends
  <2>2. ASSUME NEW p \in Procs, TruncateSource(p) PROVE wiped \subseteq wiped'
    BY <2>2 DEF TruncateSource
  <2>3. ASSUME NEW c \in Contents, WriteSource(c) PROVE wiped' = wiped
    BY <2>3 DEF WriteSource
  <2>4. CASE UNCHANGED vars
    BY <2>4 DEF vars
  <2> QED
    BY <2>1, <2>2, <2>3, <2>4, StepKinds
<1>2. CASE exec' = exec
  BY <1>1, <1>2 DEF ModesInv
<1>3. ASSUME NEW p \in Procs, NEW k \in Keys, NEW a, NEW s, Ends(p, k, a, s)
      PROVE  ModesInv'
  BY <1>1, <1>3, EndsEffect DEF ModesInv
<1>4. ASSUME NEW p \in Procs, Launch(p) PROVE ModesInv'
  <2> DEFINE k == proc[p].job
             m == attempts[k] + 1
  <2>1. k \in Keys /\ (attempts[k] > 0 => attempts[k] \in 1..MaxAttempts)
        /\ attempts[k] \in 0..MaxAttempts
    BY ProcParts, LatestType
  <2>2. /\ exec'[k][m].position = Inherited(k)
        /\ \A j \in Keys : \A b \in 1..MaxAttempts :
              j # k \/ b # m => exec'[j][b] = exec[j][b]
    BY <1>4, <2>1, LaunchEffect
  <2>3. Inherited(k) = 0 \/ \E b \in 1..MaxAttempts : exec[k][b].position # 0
    BY <2>1 DEF Inherited, Latest
  <2>4. \A a \in 1..MaxAttempts :
            \/ exec'[k][a].position = 0
            \/ \E b \in 1..MaxAttempts : exec[k][b].position # 0
    BY <2>1, <2>2, <2>3
  <2> QED
    BY <1>1, <2>1, <2>2, <2>4, ModesFrame
<1>5. ASSUME NEW p \in Procs, CommitChunk(p) PROVE ModesInv'
  <2> DEFINE k == proc[p].job
             a == proc[p].attempt
  <2>1. /\ k \in Keys /\ a \in 1..MaxAttempts
        /\ exec[k][a].position = proc[p].cursor
    BY <1>5, CommitterOwns
  <2>2. \A j \in Keys : \A b \in 1..MaxAttempts :
              j # k \/ b # a => exec'[j][b] = exec[j][b]
    BY <1>5, <2>1, CommitEffect
  <2>3. CASE proc[p].cursor # 0
    BY <1>1, <2>1, <2>2, <2>3, ModesFrame
  <2>4. CASE proc[p].cursor = 0
    <3>1. ASSUME Scope(k) \notin wiped, NEW j \in Keys, NEW b \in 1..MaxAttempts,
                 Scope(j) = Scope(k)
          PROVE  exec[j][b].position = 0
      <4>1. PICK n \in Nat :
              /\ rows[Scope(k)] = Prefix(Scope(k)[2], n)
              /\ \A i \in Keys : \A d \in 1..MaxAttempts :
                    Scope(i) = Scope(k) => exec[i][d].position <= n
        BY <2>1, <3>1, KeyParts DEF PrefixInv
      <4>2. Scope(k)[2] = Content(k)
        BY DEF Scope, Content
      <4>3. proc[p].cursor = n
        BY <1>5, <3>1, <4>1, <4>2, CommitContinues
      <4>4. exec[j][b].position \in Nat /\ exec[j][b].position <= n
        BY <3>1, <4>1, ExecutionParts
      <4> QED
        BY <2>4, <4>3, <4>4
    <3>2. \A j \in Keys : \A b \in 1..MaxAttempts :
             Scope(j) = Scope(k) /\ Scope(k) \notin wiped' => exec[j][b].position = 0
      BY <1>1, <3>1
    <3> QED
      BY <1>1, <2>1, <2>2, <3>2, ModesFrame
  <2> QED
    BY <2>3, <2>4
<1> QED
  BY <1>2, <1>3, <1>4, <1>5, RepositorySteps

LEMMA FenceStep ==
  ASSUME TypeOK, GuardInv, OwnerInv, CursorInv, BoundInv, OnlyLatestIsUnfinished,
         FenceInv, [Next]_vars
  PROVE  FenceInv'
<1> SUFFICES ASSUME FencesStaleCommits,
                    NEW j \in Keys, NEW b \in 1..attempts'[j]
             PROVE  exec'[j][b].position <= exec'[j][attempts'[j]].position
  BY DEF FenceInv
<1>0. attempts[j] \in 0..MaxAttempts /\ MaxAttempts \in Nat
      /\ \A d \in 1..attempts[j] : d \in 1..MaxAttempts
  <2>1. attempts[j] \in 0..MaxAttempts /\ MaxAttempts \in Nat
    BY LatestType, ConstantsAssumption
  <2> QED
    BY <2>1
<1>1. CASE exec' = exec /\ attempts' = attempts
  BY <1>1 DEF FenceInv
<1>2. ASSUME NEW p \in Procs, NEW k \in Keys, NEW a, NEW s, Ends(p, k, a, s)
      PROVE  exec'[j][b].position <= exec'[j][attempts'[j]].position
  <2>1. attempts'[j] = attempts[j]
    BY <1>2, EndsEffect
  <2>2. b \in 1..MaxAttempts /\ attempts[j] \in 1..MaxAttempts /\ b \in 1..attempts[j]
    BY <1>0, <2>1
  <2>3. /\ exec'[j][b].position = exec[j][b].position
        /\ exec'[j][attempts[j]].position = exec[j][attempts[j]].position
    BY <1>2, <2>2, EndsEffect
  <2> QED
    BY <2>1, <2>2, <2>3 DEF FenceInv
<1>3. ASSUME NEW p \in Procs, Launch(p)
      PROVE  exec'[j][b].position <= exec'[j][attempts'[j]].position
  <2> DEFINE k == proc[p].job
             m == attempts[k] + 1
  <2>1. k \in Keys /\ attempts[k] \in 0..MaxAttempts
    BY ProcParts, LatestType
  <2>2. /\ m \in 1..MaxAttempts /\ attempts'[k] = m
        /\ \A i \in Keys \ {k} : attempts'[i] = attempts[i]
        /\ exec'[k][m].position = Inherited(k)
        /\ \A i \in Keys : \A d \in 1..MaxAttempts :
              i # k \/ d # m => exec'[i][d] = exec[i][d]
    BY <1>3, <2>1, LaunchEffect
  <2>3. CASE j # k
    <3>1. attempts'[j] = attempts[j]
      BY <2>2, <2>3
    <3>2. b \in 1..attempts[j] /\ b \in 1..MaxAttempts /\ attempts[j] \in 1..MaxAttempts
      BY <1>0, <3>1
    <3> QED
      BY <2>2, <2>3, <3>1, <3>2 DEF FenceInv
  <2>4. CASE j = k /\ b = m
    <3>1. exec'[k][m].position \in Nat
      BY <2>1, <2>2, LatestType
    <3> QED
      BY <2>2, <2>4, <3>1
  <2>5. CASE j = k /\ b # m
    <3>1. b \in 1..attempts[k] /\ attempts[k] > 0
      BY <2>1, <2>2, <2>5
    <3>2. Inherited(k) = exec[k][attempts[k]].position
      BY <2>1, <3>1 DEF Inherited, Latest
    <3>3. exec'[k][b] = exec[k][b]
      BY <1>0, <2>1, <2>2, <2>5, <3>1
    <3>4. exec[k][b].position <= exec[k][attempts[k]].position
      BY <2>1, <3>1 DEF FenceInv
    <3> QED
      BY <2>2, <2>5, <3>2, <3>3, <3>4
  <2> QED
    BY <2>3, <2>4, <2>5
<1>4. ASSUME NEW p \in Procs, CommitChunk(p)
      PROVE  exec'[j][b].position <= exec'[j][attempts'[j]].position
  <2> DEFINE k == proc[p].job
             a == proc[p].attempt
  <2>1. /\ k \in Keys /\ a \in 1..MaxAttempts /\ a \in 1..attempts[k]
        /\ proc[p].reads \in Nat
    BY <1>4, CommitterOwns
  <2>2. /\ exec'[k][a].position = exec[k][a].position + proc[p].reads
        /\ \A i \in Keys : \A d \in 1..MaxAttempts :
              i # k \/ d # a => exec'[i][d] = exec[i][d]
    BY <1>4, <2>1, CommitEffect
  <2>3. attempts' = attempts /\ exec[k][a].status \in InProgress
    BY <1>4 DEF CommitChunk, MayCommit
  <2>4. attempts[k] \in 0..MaxAttempts
    BY <2>1, LatestType
  <2>5. a = attempts[k]
    BY <2>1, <2>3, <2>4 DEF OnlyLatestIsUnfinished, InProgress
  <2>6. b \in 1..attempts[j] /\ b \in 1..MaxAttempts /\ attempts[j] \in 1..MaxAttempts
    BY <1>0, <2>3
  <2>7. /\ exec[j][b].position <= exec[j][attempts[j]].position
        /\ exec[j][b].position \in Nat /\ exec[j][attempts[j]].position \in Nat
    BY <2>6, ExecutionParts DEF FenceInv
  <2>8. CASE j # k
    BY <2>2, <2>3, <2>6, <2>7, <2>8
  <2>9. CASE j = k /\ b = a
    BY <2>1, <2>2, <2>3, <2>5, <2>7, <2>9
  <2>10. CASE j = k /\ b # a
    <3>1. exec'[j][b] = exec[j][b]
      BY <2>2, <2>6, <2>10
    <3> QED
      BY <2>1, <2>2, <2>3, <2>5, <2>7, <2>10, <3>1
  <2> QED
    BY <2>8, <2>9, <2>10
<1> QED
  BY <1>1, <1>2, <1>3, <1>4, RepositorySteps

-----------------------------------------------------------------------------
(* The inductive invariant.                                                *)

IInv ==
    /\ TypeOK
    /\ GuardInv
    /\ OwnerInv
    /\ CursorInv
    /\ BoundInv
    /\ OnlyLatestIsUnfinished
    /\ DisjointInv
    /\ PrefixInv
    /\ RowsComeFromTheirDigest
    /\ ModesInv
    /\ FenceInv

LEMMA InitIInv == Init => IInv
<1> SUFFICES ASSUME Init PROVE IInv
  OBVIOUS
<1>1. TypeOK
  BY InitType
<1>2. \A p \in Procs : proc[p].pc = "idle" /\ proc[p].tx = {}
  BY DEF Init, IdleProc
<1>3. "idle" \notin Guarded /\ "idle" \notin Chosen /\ "idle" \notin Executing
  BY DEF Guarded, Chosen, Executing
<1>4. \A k \in Keys : attempts[k] = 0
  BY DEF Init
<1>5. \A k \in Keys : \A a \in 1..MaxAttempts :
         exec[k][a] = NoExecution /\ exec[k][a].position = 0 /\ exec[k][a].status = "NONE"
  BY DEF Init, NoExecution
<1>6. \A s \in Scopes : rows[s] = {}
  BY DEF Init
<1>7. GuardInv
  BY <1>2, <1>3 DEF GuardInv, Identified
<1>8. OwnerInv
  BY <1>2, <1>3 DEF OwnerInv
<1>9. CursorInv
  BY <1>2, <1>3 DEF CursorInv
<1>10. BoundInv
  <2>1. \A k \in Keys : RowCount[Content(k)] \in Nat
    BY KeyParts, ConstantsAssumption
  <2> QED
    BY <1>5, <2>1 DEF BoundInv
<1>11. OnlyLatestIsUnfinished
  BY <1>4, <1>5 DEF OnlyLatestIsUnfinished
<1>12. DisjointInv
  BY <1>2 DEF DisjointInv
<1>13. PrefixInv
  <2>1. ASSUME NEW s \in Scopes
        PROVE  /\ rows[s] = Prefix(s[2], 0)
               /\ \A k \in Keys : \A a \in 1..MaxAttempts :
                     Scope(k) = s => exec[k][a].position <= 0
    <3>1. Prefix(s[2], 0) = {}
      BY DEF Prefix
    <3> QED
      BY <1>5, <1>6, <3>1
  <2>2. 0 \in Nat /\ ~(0 > 0)
    OBVIOUS
  <2> QED
    BY <2>1, <2>2 DEF PrefixInv
<1>14. RowsComeFromTheirDigest
  BY <1>6 DEF RowsComeFromTheirDigest
<1>15. ModesInv
  BY <1>5 DEF ModesInv
<1>16. FenceInv
  BY <1>4 DEF FenceInv
<1> QED
  BY <1>1, <1>7, <1>8, <1>9, <1>10, <1>11, <1>12, <1>13, <1>14, <1>15, <1>16 DEF IInv

LEMMA StepIInv == IInv /\ [Next]_vars => IInv'
  BY StepType, GuardStep, OwnerStep, CursorStep, BoundStep, LatestStep, DisjointStep,
     PrefixStep, RowsStep, ModesStep, FenceStep DEF IInv

\* The processes, the locks and the repository stay consistent with each
\* other in every behaviour of the commands in job.rs.
THEOREM Invariance == Spec => []IInv
<1>1. Init => IInv
  BY InitIInv
<1>2. IInv /\ [Next]_vars => IInv'
  BY StepIInv
<1> QED
  BY <1>1, <1>2, PTL DEF Spec

-----------------------------------------------------------------------------
(* The theorems.                                                           *)

\* The SHARE lock of source_digest.rs spans digest and read: no row is ever
\* transformed from a content other than the one in its namespace.
THEOREM DigestIntegrity == Spec => []RowsComeFromTheirDigest
<1>1. IInv => RowsComeFromTheirDigest
  BY DEF IInv
<1> QED
  BY <1>1, Invariance, PTL

\* Every earlier execution of an instance has failed before the next one.
THEOREM SingleUnfinished == Spec => []OnlyLatestIsUnfinished
<1>1. IInv => OnlyLatestIsUnfinished
  BY DEF IInv
<1> QED
  BY <1>1, Invariance, PTL

\* No split state: the destination is what the checkpoints say, after any
\* chunk, failure, kill, recovery and restart.
THEOREM NoSplitState == Spec => []BusinessRowsMatchCheckpoints
<1>1. IInv => BusinessRowsMatchCheckpoints
  <2> SUFFICES ASSUME IInv, NEW s \in Scopes \ wiped
               PROVE  rows[s] = UNION {Prefix(s[2], exec[k][a].position) :
                                         k \in {<<s[1], s[2], m>> : m \in Modes},
                                         a \in 1..MaxAttempts}
    BY DEF BusinessRowsMatchCheckpoints
  <2> DEFINE K == {<<s[1], s[2], m>> : m \in Modes}
  <2>1. PICK n \in Nat :
          /\ rows[s] = Prefix(s[2], n)
          /\ \A k \in Keys : \A a \in 1..MaxAttempts :
                Scope(k) = s => exec[k][a].position <= n
          /\ n > 0 => \E k \in Keys : \E a \in 1..MaxAttempts :
                         Scope(k) = s /\ exec[k][a].position = n
    BY DEF IInv, PrefixInv
  <2>2. \A k : k \in K <=> k \in Keys /\ Scope(k) = s
    BY DEF Keys, Scopes, Scope
  <2>3. \A k \in K : \A a \in 1..MaxAttempts : exec[k][a].position \in Nat
    BY <2>2, ExecutionParts DEF IInv
  <2>4. /\ \A k \in K : \A a \in 1..MaxAttempts : exec[k][a].position <= n
        /\ n > 0 => \E k \in K : \E a \in 1..MaxAttempts : exec[k][a].position = n
    BY <2>1, <2>2
  <2>5. ASSUME NEW r \in Prefix(s[2], n)
        PROVE  r \in UNION {Prefix(s[2], exec[k][a].position) : k \in K, a \in 1..MaxAttempts}
    <3>1. n > 0
      BY <2>5 DEF Prefix
    <3>2. PICK k \in K, a \in 1..MaxAttempts : exec[k][a].position = n
      BY <2>4, <3>1
    <3> QED
      BY <2>5, <3>2
  <2>6. ASSUME NEW r \in UNION {Prefix(s[2], exec[k][a].position) :
                                  k \in K, a \in 1..MaxAttempts}
        PROVE  r \in Prefix(s[2], n)
    <3>1. PICK k \in K, a \in 1..MaxAttempts : r \in Prefix(s[2], exec[k][a].position)
      BY <2>6
    <3>2. exec[k][a].position \in Nat /\ exec[k][a].position <= n
      BY <2>3, <2>4, <3>1
    <3>3. 1..exec[k][a].position \subseteq 1..n
      BY <3>2
    <3> QED
      BY <3>1, <3>3 DEF Prefix
  <2>7. Prefix(s[2], n) = UNION {Prefix(s[2], exec[k][a].position) :
                                   k \in K, a \in 1..MaxAttempts}
    <3> DEFINE U == UNION {Prefix(s[2], exec[k][a].position) : k \in K, a \in 1..MaxAttempts}
    <3>1. \A r \in Prefix(s[2], n) : r \in U
      BY <2>5
    <3>2. \A r \in U : r \in Prefix(s[2], n)
      BY <2>6
    <3> HIDE DEF U
    <3>3. Prefix(s[2], n) = U
      BY <3>1, <3>2
    <3> QED
      BY <3>3 DEF U
  <2> QED
    BY <2>1, <2>7
<1> QED
  BY <1>1, Invariance, PTL

\* A completed execution means that every row of its source is delivered:
\* what launch_and_finish reports as COMPLETED is a whole import.
THEOREM CompletionMeansDelivery == Spec => []CompletedMeansWholeSource
<1>1. IInv => CompletedMeansWholeSource
  <2> SUFFICES ASSUME IInv, NEW k \in Keys, NEW a \in 1..MaxAttempts,
                      exec[k][a].status = "COMPLETED", Scope(k) \notin wiped
               PROVE  rows[Scope(k)] = Prefix(Content(k), RowCount[Content(k)])
    BY DEF CompletedMeansWholeSource
  <2> DEFINE total == RowCount[Content(k)]
  <2>1. /\ Scope(k) \in Scopes /\ Scope(k)[2] = Content(k) /\ total \in Nat
    BY KeyParts, ConstantsAssumption DEF Scope, Content
  <2>2. PICK n \in Nat :
          /\ rows[Scope(k)] = Prefix(Scope(k)[2], n)
          /\ \A j \in Keys : \A b \in 1..MaxAttempts :
                Scope(j) = Scope(k) => exec[j][b].position <= n
          /\ n > 0 => \E j \in Keys : \E b \in 1..MaxAttempts :
                         Scope(j) = Scope(k) /\ exec[j][b].position = n
    BY <2>1 DEF IInv, PrefixInv
  <2>3. exec[k][a].position = total
    BY DEF IInv, BoundInv
  <2>4. total <= n
    BY <2>2, <2>3
  <2>5. ASSUME n > 0 PROVE n <= total
    <3>1. PICK j \in Keys, b \in 1..MaxAttempts :
            Scope(j) = Scope(k) /\ exec[j][b].position = n
      BY <2>2, <2>5
    <3>2. Content(j) = Content(k)
      BY <3>1 DEF Scope, Content
    <3> QED
      BY <3>1, <3>2 DEF IInv, BoundInv
  <2>6. n = total
    BY <2>1, <2>4, <2>5
  <2> QED
    BY <2>1, <2>2, <2>6
<1> QED
  BY <1>1, Invariance, PTL

\* The primary key of customer_projection keeps a cursor instance and a
\* paging instance from both advancing in one namespace.
THEOREM ModeExclusion == Spec => []ModesNeverInterleave
<1>1. IInv => ModesNeverInterleave
  <2> SUFFICES ASSUME IInv, NEW i \in Imports, NEW c \in Contents, <<i, c>> \notin wiped,
                      NEW m \in Modes, NEW n \in Modes, m # n,
                      NEW a \in 1..MaxAttempts, NEW b \in 1..MaxAttempts
               PROVE  \/ exec[<<i, c, m>>][a].position = 0
                      \/ exec[<<i, c, n>>][b].position = 0
    BY DEF ModesNeverInterleave
  <2>1. /\ <<i, c, m>> \in Keys /\ <<i, c, n>> \in Keys /\ <<i, c, m>> # <<i, c, n>>
        /\ Scope(<<i, c, m>>) = <<i, c>> /\ Scope(<<i, c, n>>) = <<i, c>>
    BY DEF Keys, Scope
  <2> QED
    BY <2>1 DEF IInv, ModesInv
<1> QED
  BY <1>1, Invariance, PTL

\* With a framework that refuses superseded commits, a restart continues
\* exactly behind the delivered rows.
THEOREM ResumeExactness == Spec => []ResumesBehindDeliveredRows
<1>1. IInv => ResumesBehindDeliveredRows
  <2> SUFFICES ASSUME IInv, FencesStaleCommits, NEW p \in Procs,
                      proc[p].pc \in Executing,
                      exec[proc[p].job][proc[p].attempt].status \in InProgress,
                      Scope(proc[p].job) \notin wiped,
                      NEW e \in 1..MaxAttempts, exec[proc[p].job][e].position > 0
               PROVE  rows[Scope(proc[p].job)]
                        = Prefix(Content(proc[p].job), proc[p].cursor)
    BY DEF ResumesBehindDeliveredRows
  <2> DEFINE k == proc[p].job
             a == proc[p].attempt
  <2>1. /\ k \in Keys /\ attempts[k] \in 0..MaxAttempts
        /\ a \in 1..attempts[k] /\ a \in 1..MaxAttempts
    BY ChosenType DEF IInv, Chosen
  <2>2. a = attempts[k]
    BY <2>1 DEF IInv, OnlyLatestIsUnfinished, InProgress
  <2>3. exec[k][a].position = proc[p].cursor
    BY DEF IInv, CursorInv
  <2>4. Scope(k) \in Scopes /\ Scope(k)[2] = Content(k) /\ proc[p].cursor \in Nat
    BY <2>1, KeyParts, ProcParts DEF IInv, Scope, Content
  <2>5. PICK n \in Nat :
          /\ rows[Scope(k)] = Prefix(Scope(k)[2], n)
          /\ \A j \in Keys : \A b \in 1..MaxAttempts :
                Scope(j) = Scope(k) => exec[j][b].position <= n
          /\ n > 0 => \E j \in Keys : \E b \in 1..MaxAttempts :
                         Scope(j) = Scope(k) /\ exec[j][b].position = n
    BY <2>4 DEF IInv, PrefixInv
  <2>6. \A b \in 1..MaxAttempts : exec[k][b].position <= proc[p].cursor
    <3>1. SUFFICES ASSUME NEW b \in 1..MaxAttempts
                   PROVE  exec[k][b].position <= proc[p].cursor
      OBVIOUS
    <3>2. CASE b <= attempts[k]
      <4>1. b \in 1..attempts[k]
        BY <2>1, <3>2
      <4> QED
        BY <2>1, <2>2, <2>3, <4>1 DEF IInv, FenceInv
    <3>3. CASE b > attempts[k]
      BY <2>1, <2>4, <3>3 DEF IInv, OnlyLatestIsUnfinished, NoExecution
    <3> QED
      BY <2>1, <3>2, <3>3
  <2>7. proc[p].cursor <= n
    BY <2>1, <2>3, <2>5
  <2>8. exec[k][e].position \in Nat /\ exec[k][e].position <= n
    BY <2>1, <2>5, ExecutionParts DEF IInv
  <2>9. PICK j \in Keys, b \in 1..MaxAttempts :
          Scope(j) = Scope(k) /\ exec[j][b].position = n
    BY <2>5, <2>8
  <2>10. j = k
    BY <2>1, <2>8, <2>9 DEF IInv, ModesInv
  <2>11. n = proc[p].cursor
    BY <2>4, <2>6, <2>7, <2>9, <2>10
  <2> QED
    BY <2>4, <2>5, <2>11
<1> QED
  BY <1>1, Invariance, PTL

\* Recovery and a live process never overwrite each other's final status.
THEOREM FinishIsFinal == Spec => FinishedStaysFinished
<1>1. IInv /\ [Next]_vars =>
        [\A k \in Keys : \A a \in 1..MaxAttempts :
            exec[k][a].status \in {"COMPLETED", "FAILED"}
            => exec'[k][a].status = exec[k][a].status]_vars
  <2> SUFFICES ASSUME IInv, [Next]_vars, NEW k \in Keys, NEW a \in 1..MaxAttempts,
                      exec[k][a].status \in {"COMPLETED", "FAILED"}
               PROVE  exec'[k][a].status = exec[k][a].status
    OBVIOUS
  <2>1. ASSUME NEW p \in Procs, NEW j \in Keys, NEW b, NEW s, Ends(p, j, b, s)
        PROVE  exec'[k][a].status = exec[k][a].status
    <3>1. j # k \/ b # a
      BY <2>1 DEF Ends, InProgress
    <3> QED
      BY <2>1, <3>1, EndsEffect DEF IInv
  <2>2. ASSUME NEW p \in Procs, Launch(p)
        PROVE  exec'[k][a].status = exec[k][a].status
    <3> DEFINE j == proc[p].job
               m == attempts[j] + 1
    <3>1. /\ j \in Keys /\ m > attempts[j] /\ m \in 1..MaxAttempts
          /\ \A i \in Keys : \A d \in 1..MaxAttempts :
                i # j \/ d # m => exec'[i][d] = exec[i][d]
      BY <2>2, ProcParts, LaunchEffect DEF IInv
    <3>2. exec[j][m].status = "NONE"
      BY <3>1 DEF IInv, OnlyLatestIsUnfinished, NoExecution
    <3> QED
      BY <3>1, <3>2
  <2>3. ASSUME NEW p \in Procs, CommitChunk(p)
        PROVE  exec'[k][a].status = exec[k][a].status
    <3>1. proc[p].job \in Keys /\ proc[p].attempt \in 1..MaxAttempts
      BY <2>3, CommitterOwns DEF IInv
    <3> QED
      BY <2>3, <3>1, CommitEffect DEF IInv
  <2> QED
    BY <2>1, <2>2, <2>3, RepositorySteps DEF IInv
<1> QED
  BY <1>1, Invariance, PTL DEF Spec, FinishedStaysFinished

-----------------------------------------------------------------------------
(* The refinement of the exactly-once import.                              *)

\* The customers of a prefix of the source.
LEMMA PrefixCustomers ==
  ASSUME NEW n \in Nat, NEW c
  PROVE  {r[1] : r \in Prefix(c, n)} = 1..n
<1>1. \A i \in 1..n : <<i, c>> \in Prefix(c, n) /\ <<i, c>>[1] = i
  BY DEF Prefix
<1>2. \A r \in Prefix(c, n) : r[1] \in 1..n
  BY DEF Prefix
<1> QED
  BY <1>1, <1>2

\* A scope is complete when one of its executions is.
LEMMA CompletedFrame ==
  ASSUME wiped' = wiped,
         \A k \in Keys : \A a \in 1..MaxAttempts :
            exec'[k][a].status = "COMPLETED" <=> exec[k][a].status = "COMPLETED"
  PROVE  CompletedScopes' = CompletedScopes
<1>1. \A s \in Scopes : \A m \in Modes : <<s[1], s[2], m>> \in Keys
  BY DEF Scopes, Keys
<1> QED
  BY <1>1 DEF CompletedScopes

\* Without a new row, wipe or completion nothing visible happens.
LEMMA InvisibleStep ==
  ASSUME wiped' = wiped, rows' = rows,
         \A k \in Keys : \A a \in 1..MaxAttempts :
            exec'[k][a].status = "COMPLETED" <=> exec[k][a].status = "COMPLETED"
  PROVE  UNCHANGED Import!vars
<1>1. DeliveredCustomers' = DeliveredCustomers
  BY DEF DeliveredCustomers
<1> QED
  BY <1>1, CompletedFrame DEF Import!vars

\* A commit appends the next customers of its scope.
LEMMA CommitDelivers ==
  ASSUME IInv, NEW p \in Procs, CommitChunk(p), Scope(proc[p].job) \notin wiped
  PROVE  Import!Deliver(Scope(proc[p].job))
<1> DEFINE k == proc[p].job
           a == proc[p].attempt
           s == Scope(k)
           total == RowCount[Content(k)]
<1>1. /\ k \in Keys /\ a \in 1..MaxAttempts /\ proc[p].pc = "written"
      /\ proc[p].reads \in Nat /\ proc[p].cursor \in Nat /\ proc[p].reads > 0
  BY CommitterOwns DEF IInv
<1>2. /\ s \in Scopes /\ s[2] = Content(k) /\ total \in Nat
  BY <1>1, KeyParts, ConstantsAssumption DEF Scope, Content
<1>3. PICK n \in Nat :
        /\ rows[s] = Prefix(Content(k), n)
        /\ \A j \in Keys : \A b \in 1..MaxAttempts :
              Scope(j) = s => exec[j][b].position <= n
  BY <1>2 DEF IInv, PrefixInv
<1> DEFINE m == n + proc[p].reads
<1>4. proc[p].cursor = n /\ rows[s] \union proc[p].tx = Prefix(Content(k), m)
  BY <1>3, CommitContinues DEF IInv
<1>5. m \in Nat /\ n < m /\ m <= total
  BY <1>1, <1>4 DEF IInv, CursorInv
<1>6. n \in 0..total /\ m \in 0..total
  BY <1>2, <1>5
<1>7. /\ rows'[s] = Prefix(Content(k), m) /\ wiped' = wiped
      /\ \A t \in Scopes : t # s => rows'[t] = rows[t]
  <2>1. /\ rows'[s] = rows[s] \union proc[p].tx
        /\ \A t \in Scopes : t # s => rows'[t] = rows[t]
    BY <1>1, CommitEffect DEF IInv
  <2> QED
    BY <1>4, <2>1 DEF CommitChunk
<1>8. DeliveredCustomers[s] = 1..n
  BY <1>2, <1>3, PrefixCustomers DEF DeliveredCustomers
<1>9. {r[1] : r \in rows'[s]} = 1..m
  BY <1>5, <1>7, PrefixCustomers
<1> HIDE DEF m
<1>10. DeliveredCustomers' = [DeliveredCustomers EXCEPT ![s] = 1..m]
  <2>1. ASSUME NEW t \in Scopes
        PROVE  DeliveredCustomers'[t] = [DeliveredCustomers EXCEPT ![s] = 1..m][t]
    <3>1. CASE t = s
      BY <1>2, <1>7, <1>9, <3>1 DEF DeliveredCustomers
    <3>2. CASE t # s
      BY <1>7, <3>2 DEF DeliveredCustomers
    <3> QED
      BY <3>1, <3>2
  <2>2. DeliveredCustomers' = [t \in Scopes |-> DeliveredCustomers'[t]]
    BY DEF DeliveredCustomers
  <2>3. [DeliveredCustomers EXCEPT ![s] = 1..m]
          = [t \in Scopes |-> [DeliveredCustomers EXCEPT ![s] = 1..m][t]]
    BY DEF DeliveredCustomers
  <2> QED
    BY <2>1, <2>2, <2>3
<1>11. CompletedScopes' = CompletedScopes
  <2>1. \A j \in Keys : \A b \in 1..MaxAttempts : exec'[j][b].status = exec[j][b].status
    BY <1>1, CommitEffect DEF IInv
  <2> QED
    BY <1>7, <2>1, CompletedFrame
<1>12. [t \in Scopes |-> RowCount[t[2]]][s] = total
  BY <1>2
<1> QED
  BY <1>5, <1>6, <1>7, <1>8, <1>10, <1>11, <1>12 DEF Import!Deliver

\* A completion announces a scope whose rows are all delivered.
LEMMA CompletionAnnounces ==
  ASSUME IInv, NEW p \in Procs, NEW k \in Keys, NEW a, Ends(p, k, a, "COMPLETED"),
         Scope(k) \notin wiped
  PROVE  Import!Announce(Scope(k))
<1> DEFINE s == Scope(k)
           total == RowCount[Content(k)]
<1>1. /\ s \in Scopes /\ s[2] = Content(k) /\ total \in Nat
      /\ k = <<s[1], s[2], Mode(k)>> /\ Mode(k) \in Modes
  BY KeyParts, ConstantsAssumption DEF Scope, Content, Mode, Keys
<1>2. /\ a \in 1..MaxAttempts /\ exec'[k][a].status = "COMPLETED"
      /\ \A j \in Keys : \A b \in 1..MaxAttempts :
            j # k \/ b # a => exec'[j][b] = exec[j][b]
      /\ exec[k][a].status \in InProgress /\ exec[k][a].position = total
      /\ rows' = rows /\ wiped' = wiped
  BY EndsEffect DEF IInv, Ends
<1>3. PICK n \in Nat :
        /\ rows[s] = Prefix(Content(k), n)
        /\ \A j \in Keys : \A b \in 1..MaxAttempts :
              Scope(j) = s => exec[j][b].position <= n
        /\ n > 0 => \E j \in Keys : \E b \in 1..MaxAttempts :
                       Scope(j) = s /\ exec[j][b].position = n
  BY <1>1 DEF IInv, PrefixInv
<1>4. total <= n
  BY <1>2, <1>3
<1>5. ASSUME n > 0 PROVE n <= total
  <2>1. PICK j \in Keys, b \in 1..MaxAttempts : Scope(j) = s /\ exec[j][b].position = n
    BY <1>3, <1>5
  <2>2. Content(j) = Content(k)
    BY <2>1 DEF Scope, Content
  <2> QED
    BY <2>1, <2>2 DEF IInv, BoundInv
<1>6. DeliveredCustomers[s] = 1..total
  <2>1. n = total
    BY <1>1, <1>4, <1>5
  <2> QED
    BY <1>1, <1>3, <2>1, PrefixCustomers DEF DeliveredCustomers
<1>7. DeliveredCustomers' = DeliveredCustomers
  BY <1>2 DEF DeliveredCustomers
<1>8. CompletedScopes' = CompletedScopes \union {s}
  <2>1. ASSUME NEW t \in Scopes \ wiped, NEW m \in Modes, NEW b \in 1..MaxAttempts,
               exec[<<t[1], t[2], m>>][b].status = "COMPLETED"
        PROVE  exec'[<<t[1], t[2], m>>][b].status = "COMPLETED"
    <3>1. <<t[1], t[2], m>> \in Keys
      BY DEF Scopes, Keys
    <3> QED
      BY <1>2, <2>1, <3>1 DEF InProgress
  <2>2. ASSUME NEW t \in Scopes \ wiped, NEW m \in Modes, NEW b \in 1..MaxAttempts,
               exec'[<<t[1], t[2], m>>][b].status = "COMPLETED"
        PROVE  t = s \/ exec[<<t[1], t[2], m>>][b].status = "COMPLETED"
    <3>1. <<t[1], t[2], m>> \in Keys
      BY DEF Scopes, Keys
    <3>2. CASE <<t[1], t[2], m>> = k
      BY <3>2 DEF Scope, Scopes
    <3>3. CASE <<t[1], t[2], m>> # k
      BY <1>2, <2>2, <3>1, <3>3
    <3> QED
      BY <3>2, <3>3
  <2>3. s \in CompletedScopes'
    BY <1>1, <1>2 DEF CompletedScopes
  <2>4. CompletedScopes \subseteq CompletedScopes'
    BY <1>2, <2>1 DEF CompletedScopes
  <2>5. CompletedScopes' \subseteq CompletedScopes \union {s}
    BY <1>2, <2>2 DEF CompletedScopes
  <2> QED
    BY <2>3, <2>4, <2>5
<1>9. [t \in Scopes |-> RowCount[t[2]]][s] = total
  BY <1>1
<1> QED
  BY <1>2, <1>6, <1>7, <1>8, <1>9 DEF Import!Announce

\* The second TRUNCATE of a reset wipes every scope that has rows.
LEMMA TruncateWipes ==
  ASSUME NEW p \in Procs, TruncateSource(p)
  PROVE  Import!Wipe
<1>1. /\ rows' = [s \in Scopes |-> {}] /\ exec' = exec
      /\ wiped' = wiped \union {s \in Scopes : rows[s] # {}}
  BY DEF TruncateSource
<1>2. DeliveredCustomers' = [s \in Scopes |-> {}]
  BY <1>1 DEF DeliveredCustomers
<1>3. \A s \in Scopes : s \in wiped \/ (DeliveredCustomers[s] # {} <=> rows[s] # {})
  BY DEF DeliveredCustomers
<1>4. wiped' = wiped \union {s \in Scopes : DeliveredCustomers[s] # {}}
  BY <1>1, <1>3 DEF DeliveredCustomers
<1>5. CompletedScopes' = CompletedScopes \ wiped'
  BY <1>1 DEF CompletedScopes
<1> QED
  BY <1>2, <1>4, <1>5 DEF Import!Wipe

LEMMA InitRefines == Init => Import!Init
<1> SUFFICES ASSUME Init PROVE Import!Init
  OBVIOUS
<1>1. DeliveredCustomers = [s \in Scopes |-> {}]
  BY DEF Init, DeliveredCustomers
<1>2. \A s \in Scopes : \A m \in Modes : \A a \in 1..MaxAttempts :
         exec[<<s[1], s[2], m>>][a].status # "COMPLETED"
  <2>1. \A s \in Scopes : \A m \in Modes : <<s[1], s[2], m>> \in Keys
    BY DEF Scopes, Keys
  <2> QED
    BY <2>1 DEF Init, NoExecution
<1>3. CompletedScopes = {}
  BY <1>2 DEF CompletedScopes
<1> QED
  BY <1>1, <1>3 DEF Init, Import!Init

LEMMA StepRefines == IInv /\ [Next]_vars => [Import!Next]_(Import!vars)
<1> SUFFICES ASSUME IInv, [Next]_vars PROVE Import!Next \/ UNCHANGED Import!vars
  OBVIOUS
<1>1. ASSUME NEW p \in Procs, CommitChunk(p)
      PROVE  Import!Next \/ UNCHANGED Import!vars
  <2> DEFINE k == proc[p].job
  <2>1. k \in Keys /\ proc[p].attempt \in 1..MaxAttempts /\ Scope(k) \in Scopes
    BY <1>1, CommitterOwns, KeyParts DEF IInv
  <2>2. CASE Scope(k) \notin wiped
    BY <1>1, <2>1, <2>2, CommitDelivers DEF Import!Next
  <2>3. CASE Scope(k) \in wiped
    <3>1. /\ wiped' = wiped
          /\ \A s \in Scopes \ wiped : rows'[s] = rows[s]
          /\ \A j \in Keys : \A b \in 1..MaxAttempts :
                exec'[j][b].status = exec[j][b].status
      <4>1. wiped' = wiped
        BY <1>1 DEF CommitChunk
      <4>2. /\ \A s \in Scopes : s # Scope(k) => rows'[s] = rows[s]
            /\ \A j \in Keys : \A b \in 1..MaxAttempts :
                  exec'[j][b].status = exec[j][b].status
        BY <1>1, <2>1, CommitEffect DEF IInv
      <4> QED
        BY <2>3, <4>1, <4>2
    <3>2. DeliveredCustomers' = DeliveredCustomers
      BY <3>1 DEF DeliveredCustomers
    <3>3. CompletedScopes' = CompletedScopes
      BY <3>1, CompletedFrame
    <3> QED
      BY <3>1, <3>2, <3>3 DEF Import!vars
  <2> QED
    BY <2>2, <2>3
<1>2. ASSUME NEW p \in Procs, NEW k \in Keys, NEW a, NEW s, Ends(p, k, a, s)
      PROVE  Import!Next \/ UNCHANGED Import!vars
  <2>1. Scope(k) \in Scopes
    BY KeyParts
  <2>2. CASE s = "COMPLETED" /\ Scope(k) \notin wiped
    BY <1>2, <2>1, <2>2, CompletionAnnounces DEF Import!Next
  <2>3. CASE s # "COMPLETED"
    <3>1. \A j \in Keys : \A b \in 1..MaxAttempts :
             exec'[j][b].status = "COMPLETED" <=> exec[j][b].status = "COMPLETED"
      BY <1>2, <2>3, EndsEffect DEF IInv, Ends, InProgress
    <3> QED
      BY <1>2, <3>1, InvisibleStep DEF Ends
  <2>4. CASE Scope(k) \in wiped
    <3>1. wiped' = wiped /\ rows' = rows
      BY <1>2 DEF Ends
    <3>2. \A j \in Keys : \A b \in 1..MaxAttempts :
             j # k => exec'[j][b] = exec[j][b]
      BY <1>2, EndsEffect DEF IInv
    <3>3. \A t \in Scopes \ wiped : \A m \in Modes :
             <<t[1], t[2], m>> \in Keys /\ <<t[1], t[2], m>> # k
      BY <2>4 DEF Scopes, Keys, Scope
    <3>4. CompletedScopes' = CompletedScopes
      BY <3>1, <3>2, <3>3 DEF CompletedScopes
    <3> QED
      BY <3>1, <3>4 DEF Import!vars, DeliveredCustomers
  <2> QED
    BY <2>2, <2>3, <2>4
<1>3. ASSUME NEW p \in Procs, Launch(p) PROVE UNCHANGED Import!vars
  <2> DEFINE k == proc[p].job
             n == attempts[k] + 1
  <2>1. /\ k \in Keys /\ n \in 1..MaxAttempts /\ n > attempts[k]
        /\ exec'[k][n].status = "STARTED"
        /\ \A j \in Keys : \A b \in 1..MaxAttempts :
              j # k \/ b # n => exec'[j][b] = exec[j][b]
    BY <1>3, ProcParts, LaunchEffect DEF IInv
  <2>2. exec[k][n].status = "NONE"
    BY <2>1 DEF IInv, OnlyLatestIsUnfinished, NoExecution
  <2>3. \A j \in Keys : \A b \in 1..MaxAttempts :
           exec'[j][b].status = "COMPLETED" <=> exec[j][b].status = "COMPLETED"
    BY <2>1, <2>2
  <2> QED
    BY <1>3, <2>3, InvisibleStep DEF Launch
<1>4. ASSUME NEW p \in Procs, Quiet(p) \/ Finds(p) \/ WriteChunk(p)
      PROVE  UNCHANGED Import!vars
  <2>1. UNCHANGED <<rows, exec, wiped>>
    BY <1>4 DEF Quiet, Finds, FindExecution, WriteChunk
  <2> QED
    BY <2>1, InvisibleStep
<1>5. ASSUME NEW p \in Procs, TruncateSource(p) PROVE Import!Next
  BY <1>5, TruncateWipes DEF Import!Next
<1>6. ASSUME NEW c \in Contents, WriteSource(c) PROVE UNCHANGED Import!vars
  BY <1>6, InvisibleStep DEF WriteSource
<1>7. CASE UNCHANGED vars
  BY <1>7, InvisibleStep DEF vars
<1> QED
  BY <1>1, <1>2, <1>3, <1>4, <1>5, <1>6, <1>7, StepKinds DEF IInv

\* Whatever the processes of job.rs do to each other, and wherever they are
\* killed, the durable state moves as the exactly-once import does: the next
\* rows of one scope, one announcement of a whole scope, or a reset.
THEOREM ExactlyOnceRefinement == Spec => ImplementsExactlyOnceImport
<1>1. Init => Import!Init
  BY InitRefines
<1>2. IInv /\ [Next]_vars => [Import!Next]_(Import!vars)
  BY StepRefines
<1> QED
  BY <1>1, <1>2, Invariance, PTL DEF Spec, ImplementsExactlyOnceImport, Import!Spec

=============================================================================
