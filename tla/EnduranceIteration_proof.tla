---------------------- MODULE EnduranceIteration_proof ----------------------
(***************************************************************************)
(* Proofs about EnduranceIteration: type correctness, that no child        *)
(* survives the orchestrator, what an accepted crash iteration shows, and  *)
(* that a plain relaunch over a crashed execution changes nothing durable. *)
(***************************************************************************)
EXTENDS EnduranceIteration, RestartableTransform_proof, FiniteSetTheorems

\* The job instance of an iteration whose source nobody else writes.
Instance == <<plan.import, Canonical, plan.reader>>

\* A child that can still act: its client process has not been killed.
Living(p) == ~At(p, "idle") /\ p \notin dead

Launching == {"runLock", "runDigest", "launch"}
Launched == Executing \cup {"returned"}
Recovering == {"recoverLock", "recoverDigest", "recoverUnlock", "recoverFind",
               "recoverMark"}

\* Where the orchestrator has no child, and where it works with the armed one.
Childless == {"seed", "plan", "digest", "count", "state", "spawn", "cleanup",
              "cleaned"}
Crashing == {"started", "await", "marked", "killed", "reap", "digest", "count",
             "state"}
InPhase == {"spawn", "record", "wait"}
InChild == {"record", "wait"}

-----------------------------------------------------------------------------
(* The inductive invariant.                                                *)

\* What is stored and what is about to be stored can be counted.
FiniteInv ==
    /\ \A s \in Scopes : IsFiniteSet(rows[s])
    /\ \A p \in Procs : IsFiniteSet(proc[p].tx)

\* One child at a time: whoever can act is the child the orchestrator waits
\* for, a signal is on its way to nobody else, and the orchestrator ends
\* without waiting for its child only after it has signalled it.
ChildInv ==
    /\ signalled \subseteq {orch.child}
    /\ signalled # {} => exit = "running"
    /\ \A p \in Procs : Living(p) => p = orch.child /\ exit = "running"
    /\ orch.pc \in Childless => exit # "running"
    /\ orch.outcome # "none" => orch.pc = "end"
    /\ orch.outcome = "accepted" => exit # "running"
    /\ orch.pc = "end" /\ exit = "running"
          => orch.child \in signalled \cup {Verifier}
    /\ orch.pc \in InChild => (orch.child = Verifier <=> Phase = "verify")

\* Every child works on the import and with the reader of the plan.
JobInv ==
    \A p \in Procs : ~At(p, "idle") =>
        /\ proc[p].pc \in Launching \cup Recovering \cup Launched
        /\ proc[p].job[1] = plan.import /\ proc[p].job[3] = plan.reader

\* Until the crash is observed there is one execution at most.
FirstInv ==
    /\ orch.pc \in {"seed", "plan"} \cup Crashing => orch.step = 1
    /\ orch.pc \in {"seed", "plan"} => \A k \in Keys : attempts[k] = 0
    /\ orch.pc \in Crashing =>
          /\ \A k \in Keys : attempts[k] <= 1
          /\ \A p \in Procs : Living(p) =>
                /\ proc[p].pc \in Launching \cup Launched
                /\ proc[p].pc \in Launching => \A k \in Keys : attempts[k] = 0

\* The first execution of k ended at the planned boundary, and nobody who
\* can act works on it.
Crashed(k) ==
    /\ k[1] = plan.import /\ attempts[k] > 0
    /\ exec[k][1].status \in InProgress \cup {"FAILED"}
    /\ exec[k][1].position = ExpectedRows
    /\ \A p \in Procs :
          Living(p) /\ proc[p].pc \in Launched /\ proc[p].job = k
          => proc[p].attempt # 1

Past == orch.pc \in InPhase \cup {"cleanup", "cleaned"} \/ orch.outcome = "accepted"

\* Behind the observation the crashed execution stays as it was observed.
PastInv == ~Clean /\ Past => \E k \in Keys : Crashed(k)

Identified == {"launch", "recoverUnlock", "recoverFind", "recoverMark"} \cup Launched

\* While nobody else writes the source, all children work on one instance.
SourceInv ==
    /\ orch.pc = "seed" => \A p \in Procs : At(p, "idle")
    /\ "source" \notin troubles =>
          /\ orch.pc # "seed" => source = Canonical
          /\ \A k \in Keys : attempts[k] > 0 => k = Instance
          /\ \A p \in Procs :
                /\ proc[p].pc \in Identified => proc[p].job = Instance
                /\ proc[p].pc \in Executing => proc[p].snapshot = Canonical

In(step) == ~Clean /\ orch.pc \in InPhase /\ orch.step = step

\* The continuation has delivered the rest.
Delivered ==
    /\ attempts[Instance] = 2
    /\ exec[Instance][2].status = "COMPLETED"
    /\ exec[Instance][2].position = RowCount[Canonical]

\* The relaunch meets an execution in progress and never gets past it.
RelaunchInv ==
    In(1) =>
    /\ attempts[Instance] = 1 /\ exec[Instance][1].status \in InProgress
    /\ \A p \in Procs : Living(p) => proc[p].pc \in Launching

\* A recovery that succeeds has closed that execution.
RecoverInv ==
    In(2) =>
    /\ attempts[Instance] = 1
    /\ \A p \in Procs : Living(p) =>
          /\ proc[p].pc \in Recovering
          /\ At(p, "recoverMark") => proc[p].attempt = 1
    /\ orch.pc # "spawn" /\ exit = "success" => exec[Instance][1].status = "FAILED"

\* The second execution of the continuation p is where its cursor is.
Continuing(p) ==
    /\ exec[Instance][2].status # "COMPLETED"
    /\ exec[Instance][2].position = proc[p].cursor
    /\ proc[p].cursor <= RowCount[Canonical]
    /\ At(p, "written") => proc[p].cursor + proc[p].reads <= RowCount[Canonical]

\* A continuation that succeeds has delivered the rest.
ContinueInv ==
    In(3) =>
    /\ exec[Instance][1].status = "FAILED"
    /\ orch.pc = "spawn" => attempts[Instance] = 1
    /\ \A p \in Procs : Living(p) =>
          /\ proc[p].pc \in Launching \cup Launched
          /\ proc[p].pc \in Launching => attempts[Instance] = 1
          /\ proc[p].pc \in Launched => attempts[Instance] = 2 /\ proc[p].attempt = 2
          /\ proc[p].pc \in Executing => Continuing(p)
          /\ At(p, "returned") /\ exec[Instance][2].status = "COMPLETED" => Delivered
    /\ orch.pc # "spawn" /\ exit = "success" => Delivered

Finishing == orch.pc \in {"cleanup", "cleaned"} \/ orch.outcome = "accepted"

VerifyInv ==
    In(4) \/ (~Clean /\ Finishing)
    => exec[Instance][1].status = "FAILED" /\ Delivered

\* What each phase of a crash iteration leaves behind.
PhaseInv ==
    "source" \notin troubles => RelaunchInv /\ RecoverInv /\ ContinueInv /\ VerifyInv

\* The cleanup removes the rows of the iteration, and nobody writes new ones.
CleanedInv ==
    orch.pc = "cleaned" \/ orch.outcome = "accepted"
    => \A s \in Scopes : s[1] = plan.import => rows[s] = {}

Inv == /\ IterationTypeOK /\ FiniteInv
       /\ ChildInv /\ JobInv /\ FirstInv /\ PastInv /\ SourceInv /\ PhaseInv
       /\ CleanedInv

-----------------------------------------------------------------------------
(* The parts of the state.                                                 *)

LEMMA OrchParts ==
  ASSUME IterationTypeOK
  PROVE  /\ orch.pc \in OrchestratorPCs /\ orch.step \in 1..Len(Phases)
         /\ orch.child \in Procs \union {Verifier}
         /\ orch.outcome \in {"none", "accepted", "failed"}
         /\ orch.count \in Nat /\ orch.content \in Contents
         /\ TypeOK
  BY DEF IterationTypeOK

\* The phases of a crash iteration, by their number.
LEMMA PhaseNumbers ==
  ASSUME IterationTypeOK, ~Clean
  PROVE  /\ orch.step \in {1, 2, 3, 4}
         /\ Phase = "relaunch" <=> orch.step = 1
         /\ Phase = "recover" <=> orch.step = 2
         /\ Phase = "continue" <=> orch.step = 3
         /\ Phase = "verify" <=> orch.step = 4
<1>1. Phases = <<"relaunch", "recover", "continue", "verify">>
  BY DEF Phases
<1>2. orch.step \in 1..4
  BY <1>1, OrchParts
<1>3. orch.step \in {1, 2, 3, 4}
  BY <1>2
<1> QED
  BY <1>1, <1>3 DEF Phase

\* A phase that is not the last one has a successor.
LEMMA NextPhase ==
  ASSUME IterationTypeOK, Phase # "verify"
  PROVE  orch.step + 1 \in 1..Len(Phases)
<1>1. CASE Clean
  <2>1. Phases = <<"run", "verify">>
    BY <1>1 DEF Phases
  <2>2. orch.step \in 1..2 /\ Len(Phases) = 2
    BY <2>1, OrchParts
  <2>3. orch.step # 2
    BY <2>1 DEF Phase
  <2> QED
    BY <2>2, <2>3
<1>2. CASE ~Clean
  <2>1. Phases = <<"relaunch", "recover", "continue", "verify">>
    BY <1>2 DEF Phases
  <2>2. orch.step \in {1, 2, 3} /\ Len(Phases) = 4
    BY <1>2, <2>1, PhaseNumbers
  <2> QED
    BY <2>2
<1> QED
  BY <1>1, <1>2

\* The orchestrator's own record.
Record == [pc : OrchestratorPCs, step : 1..Len(Phases),
           child : Procs \union {Verifier}, content : Contents,
           count : Nat, outcome : {"none", "accepted", "failed"}]

\* What its moves leave alone.
LEMMA ProceedEffect ==
  ASSUME IterationTypeOK, NEW pc \in OrchestratorPCs, Proceed(pc)
  PROVE  /\ orch'.pc = pc /\ orch'.step = orch.step /\ orch'.child = orch.child
         /\ orch'.outcome = orch.outcome /\ orch'.count = orch.count
         /\ orch'.content = orch.content
         /\ orch' \in Record
<1>1. orch' = [orch EXCEPT !.pc = pc]
  BY DEF Proceed
<1> QED
  BY <1>1 DEF IterationTypeOK, Record

LEMMA EndEffect ==
  ASSUME IterationTypeOK, NEW outcome \in {"accepted", "failed"}, End(outcome)
  PROVE  /\ orch'.pc = "end" /\ orch'.step = orch.step /\ orch'.child = orch.child
         /\ orch'.outcome = outcome
         /\ orch' \in Record
<1>1. orch' = [orch EXCEPT !.pc = "end", !.outcome = outcome]
  BY DEF End
<1>2. "end" \in OrchestratorPCs
  BY DEF OrchestratorPCs
<1> QED
  BY <1>1, <1>2 DEF IterationTypeOK, Record

-----------------------------------------------------------------------------
(* The orchestrator's own steps, those that neither start a child nor       *)
(* touch the database.                                                      *)

\* It stays in the crash half, or gives up on its child there.
GoesOn ==
    /\ orch.pc \in Crashing \ {"state"}
    /\ orch'.pc \in Crashing \cup {"abandon"}
    /\ orch'.pc \in Childless => exit # "running"
    /\ orch'.outcome = orch.outcome

\* It returns an error; its child is gone, or signalled now.
Fails ==
    /\ orch.pc # "seed" /\ orch'.pc = "end" /\ orch'.outcome = "failed"
    /\ exit = "running" => signalled' = signalled \union Live

\* It has compared the durable state with the crash contract.
Observes ==
    /\ orch.pc = "state" /\ orch'.pc = "spawn" /\ orch'.outcome = orch.outcome
    /\ \E k \in Keys : \E a \in 1..MaxAttempts :
          Observable(k, a) /\ IsCrashState(exec[k][a])

\* The phases.
Begins == orch.pc = "plan" /\ Clean /\ orch'.pc = "spawn" /\ orch'.outcome = orch.outcome
Waits == orch.pc = "record" /\ orch'.pc = "wait" /\ orch'.outcome = orch.outcome
Passes ==
    /\ orch.pc = "wait" /\ exit # "running" /\ AsRequired /\ Phase = "verify"
    /\ orch'.pc = "cleanup" /\ orch'.outcome = orch.outcome
Accepts ==
    /\ orch.pc = "cleaned" /\ orch'.pc = "end" /\ orch'.outcome = "accepted"

\* The next phase.
Advances ==
    /\ orch.pc = "wait" /\ exit # "running" /\ AsRequired /\ Phase # "verify"
    /\ orch'.pc = "spawn" /\ orch'.step = orch.step + 1
    /\ orch'.outcome = orch.outcome

Decides ==
    /\ UNCHANGED <<transform, plan, exit, dead>>
    /\ troubles \subseteq troubles' /\ troubles' \subseteq troubles \union Failing
    /\ signalled' \in {signalled, signalled \union Live}
    /\ orch'.child = orch.child
    /\ UNCHANGED marker
    /\ orch' \in Record
    /\ \/ /\ orch'.step = orch.step
          /\ GoesOn \/ Fails \/ Observes \/ Begins \/ Waits \/ Passes \/ Accepts
       \/ Advances

\* Waiting for the armed child, and the polls of its marker.
LEMMA CrashHalfDecides ==
  ASSUME IterationTypeOK, ChildInv,
         RecordStarted \/ PollMarker \/ KillPaused \/ RecordKilled \/ Reap
  PROVE  Decides
<1>1. {"await", "marked", "abandon", "killed", "reap", "digest"} \subseteq OrchestratorPCs
  BY DEF OrchestratorPCs
<1>2. CASE RecordStarted
  <2>1. Proceed("await")
    BY <1>2 DEF RecordStarted
  <2>2. GoesOn /\ orch'.step = orch.step /\ orch'.child = orch.child /\ orch' \in Record
    BY <1>1, <1>2, <2>1, ProceedEffect
       DEF RecordStarted, GoesOn, Crashing, Childless
  <2> QED
    BY <1>2, <2>2 DEF RecordStarted, Decides
<1>3. CASE RecordKilled
  <2>1. Proceed("reap")
    BY <1>3 DEF RecordKilled
  <2>2. GoesOn /\ orch'.step = orch.step /\ orch'.child = orch.child /\ orch' \in Record
    BY <1>1, <1>3, <2>1, ProceedEffect
       DEF RecordKilled, GoesOn, Crashing, Childless
  <2> QED
    BY <1>3, <2>2 DEF RecordKilled, Decides
<1>4. CASE KillPaused
  <2>1. Proceed("killed")
    BY <1>4 DEF KillPaused
  <2>2. GoesOn /\ orch'.step = orch.step /\ orch'.child = orch.child /\ orch' \in Record
    BY <1>1, <1>4, <2>1, ProceedEffect
       DEF KillPaused, GoesOn, Crashing, Childless
  <2> QED
    BY <1>4, <2>2 DEF KillPaused, KillChild, Decides
<1>5. CASE PollMarker
  <2>1. \/ Proceed("marked") /\ UNCHANGED signalled
        \/ Proceed("abandon") /\ KillChild
    BY <1>5 DEF PollMarker, Abandon
  <2>2. GoesOn /\ orch'.step = orch.step /\ orch'.child = orch.child /\ orch' \in Record
    BY <1>1, <1>5, <2>1, ProceedEffect
       DEF PollMarker, GoesOn, Crashing, Childless
  <2>3. troubles \subseteq troubles' /\ troubles' \subseteq troubles \union Failing
    BY <1>5 DEF PollMarker, Trouble
  <2>4. signalled' \in {signalled, signalled \union Live}
    BY <2>1 DEF KillChild
  <2> QED
    BY <1>5, <2>2, <2>3, <2>4 DEF PollMarker, Decides
<1>6. CASE Reap
  <2>1. \/ Proceed("digest")
        \/ End("failed")
    BY <1>6 DEF Reap
  <2>2. CASE Proceed("digest")
    <3>1. GoesOn /\ orch'.step = orch.step /\ orch'.child = orch.child /\ orch' \in Record
      BY <1>1, <1>6, <2>2, ProceedEffect
         DEF Reap, GoesOn, Crashing, Childless
    <3> QED
      BY <1>6, <3>1 DEF Reap, Decides
  <2>3. CASE End("failed")
    <3>1. Fails /\ orch'.step = orch.step /\ orch'.child = orch.child /\ orch' \in Record
      BY <1>6, <2>3, EndEffect DEF Reap, Fails
    <3> QED
      BY <1>6, <3>1 DEF Reap, Decides
  <2> QED
    BY <2>1, <2>2, <2>3
<1> QED
  BY <1>2, <1>3, <1>4, <1>5, <1>6

\* Observing the crash.
LEMMA ObservationDecides ==
  ASSUME IterationTypeOK, FiniteInv, ChildInv,
         DigestForObservation \/ CountRows \/ ObserveState
  PROVE  Decides
<1>1. {"count", "state", "spawn"} \subseteq OrchestratorPCs
  BY DEF OrchestratorPCs
<1>2. CASE DigestForObservation
  <2>1. source \in Contents
    BY OrchParts DEF TypeOK
  <2>2. orch' = [orch EXCEPT !.pc = "count", !.content = source]
    BY <1>2 DEF DigestForObservation
  <2>3. /\ orch' \in Record /\ orch'.pc = "count" /\ orch'.step = orch.step
        /\ orch'.child = orch.child /\ orch'.outcome = orch.outcome
    BY <1>1, <2>1, <2>2 DEF IterationTypeOK, Record
  <2>4. exit # "running"
    BY <1>2 DEF DigestForObservation, ChildInv, Childless
  <2>5. GoesOn
    BY <1>2, <2>3, <2>4 DEF DigestForObservation, GoesOn, Crashing
  <2> QED
    BY <1>2, <2>3, <2>5 DEF DigestForObservation, Decides
<1>3. CASE CountRows
  <2>1. StoredRows \in Nat
    <3>1. <<plan.import, orch.content>> \in Scopes
      BY DEF IterationTypeOK, Scopes
    <3>2. IsFiniteSet(rows[<<plan.import, orch.content>>])
      BY <3>1 DEF FiniteInv
    <3> QED
      BY <3>2, FS_CardinalityType DEF StoredRows
  <2>2. orch' = [orch EXCEPT !.pc = "state", !.count = StoredRows]
    BY <1>3 DEF CountRows
  <2>3. /\ orch' \in Record /\ orch'.pc = "state" /\ orch'.step = orch.step
        /\ orch'.child = orch.child /\ orch'.outcome = orch.outcome
    BY <1>1, <2>1, <2>2 DEF IterationTypeOK, Record
  <2>4. exit # "running"
    BY <1>3 DEF CountRows, ChildInv, Childless
  <2>5. GoesOn
    BY <1>3, <2>3, <2>4 DEF CountRows, GoesOn, Crashing
  <2> QED
    BY <1>3, <2>3, <2>5 DEF CountRows, Decides
<1>4. CASE ObserveState
  <2>1. PICK k \in Keys : \E a \in 1..MaxAttempts :
          /\ Observable(k, a)
          /\ IF IsCrashState(exec[k][a]) THEN Proceed("spawn") ELSE End("failed")
    BY <1>4 DEF ObserveState
  <2>2. PICK a \in 1..MaxAttempts :
          /\ Observable(k, a)
          /\ IF IsCrashState(exec[k][a]) THEN Proceed("spawn") ELSE End("failed")
    BY <2>1
  <2>3. exit # "running"
    BY <1>4 DEF ObserveState, ChildInv, Childless
  <2>4. CASE IsCrashState(exec[k][a])
    <3>1. Proceed("spawn")
      BY <2>2, <2>4
    <3>2. /\ orch' \in Record /\ orch'.pc = "spawn" /\ orch'.step = orch.step
          /\ orch'.child = orch.child /\ orch'.outcome = orch.outcome
      BY <1>1, <3>1, ProceedEffect
    <3>3. Observes
      BY <1>4, <2>2, <2>4, <3>2 DEF ObserveState, Observes
    <3> QED
      BY <1>4, <3>2, <3>3 DEF ObserveState, Decides
  <2>5. CASE ~IsCrashState(exec[k][a])
    <3>1. End("failed")
      BY <2>2, <2>5
    <3>2. Fails /\ orch'.step = orch.step /\ orch'.child = orch.child /\ orch' \in Record
      BY <1>4, <2>3, <3>1, EndEffect DEF ObserveState, Fails
    <3> QED
      BY <1>4, <3>2 DEF ObserveState, Decides
  <2> QED
    BY <2>4, <2>5
<1> QED
  BY <1>2, <1>3, <1>4

\* The phases and the end.
LEMMA PhaseDecides ==
  ASSUME IterationTypeOK, ChildInv,
         BeginClean \/ RecordChild \/ Judge \/ Accept \/ Abandoned
  PROVE  Decides
<1>1. {"spawn", "wait", "cleanup"} \subseteq OrchestratorPCs
  BY DEF OrchestratorPCs
<1>2. CASE BeginClean
  <2>1. Begins /\ orch'.step = orch.step /\ orch'.child = orch.child /\ orch' \in Record
    BY <1>1, <1>2, ProceedEffect DEF BeginClean, Begins
  <2> QED
    BY <1>2, <2>1 DEF BeginClean, Decides
<1>3. CASE RecordChild
  <2>1. Waits /\ orch'.step = orch.step /\ orch'.child = orch.child /\ orch' \in Record
    BY <1>1, <1>3, ProceedEffect DEF RecordChild, Waits
  <2> QED
    BY <1>3, <2>1 DEF RecordChild, Decides
<1>4. CASE Accept
  <2>1. Accepts /\ orch'.step = orch.step /\ orch'.child = orch.child /\ orch' \in Record
    BY <1>4, EndEffect DEF Accept, Accepts
  <2> QED
    BY <1>4, <2>1 DEF Accept, Decides
<1>5. CASE Abandoned
  <2>1. Fails /\ orch'.step = orch.step /\ orch'.child = orch.child /\ orch' \in Record
    BY <1>5, EndEffect DEF Abandoned, Fails
  <2> QED
    BY <1>5, <2>1 DEF Abandoned, Decides
<1>6. CASE Judge
  <2>1. CASE ~AsRequired
    <3>1. End("failed")
      BY <1>6, <2>1 DEF Judge
    <3>2. Fails /\ orch'.step = orch.step /\ orch'.child = orch.child /\ orch' \in Record
      BY <1>6, <3>1, EndEffect DEF Judge, Fails
    <3> QED
      BY <1>6, <3>2 DEF Judge, Decides
  <2>2. CASE AsRequired /\ Phase = "verify"
    <3>1. Proceed("cleanup")
      BY <1>6, <2>2 DEF Judge
    <3>2. Passes /\ orch'.step = orch.step /\ orch'.child = orch.child /\ orch' \in Record
      BY <1>1, <1>6, <2>2, <3>1, ProceedEffect DEF Judge, Passes
    <3> QED
      BY <1>6, <3>2 DEF Judge, Decides
  <2>3. CASE AsRequired /\ Phase # "verify"
    <3>1. orch' = [orch EXCEPT !.pc = "spawn", !.step = @ + 1]
      BY <1>6, <2>3 DEF Judge
    <3>2. orch.step + 1 \in 1..Len(Phases)
      BY <2>3, NextPhase
    <3>3. /\ orch' \in Record /\ orch'.pc = "spawn" /\ orch'.step = orch.step + 1
          /\ orch'.child = orch.child /\ orch'.outcome = orch.outcome
      BY <1>1, <3>1, <3>2 DEF IterationTypeOK, Record
    <3>4. Advances
      BY <1>6, <2>3, <3>3 DEF Judge, Advances
    <3> QED
      BY <1>6, <3>3, <3>4 DEF Judge, Decides
  <2> QED
    BY <2>1, <2>2, <2>3
<1> QED
  BY <1>2, <1>3, <1>4, <1>5, <1>6

\* A lifecycle record or a query fails.
LEMMA ObserverDecides ==
  ASSUME IterationTypeOK, ChildInv, ObserverFails
  PROVE  Decides
<1>1. "abandon" \in OrchestratorPCs
  BY DEF OrchestratorPCs
<1>2. troubles \subseteq troubles' /\ troubles' \subseteq troubles \union Failing
  BY DEF ObserverFails, Trouble
<1>3. \/ orch.pc \in {"started", "marked"} /\ Abandon
      \/ orch.pc = "killed" /\ Proceed("abandon") /\ UNCHANGED signalled
      \/ orch.pc = "record" /\ KillChild /\ End("failed")
      \/ /\ \/ orch.pc \in {"plan", "digest", "count", "state", "cleanup", "cleaned"}
            \/ orch.pc \in {"reap", "wait"} /\ exit # "running"
         /\ UNCHANGED signalled /\ End("failed")
  BY DEF ObserverFails
<1>4. CASE orch.pc \in {"started", "marked", "killed"} /\ Proceed("abandon")
  <2>1. GoesOn /\ orch'.step = orch.step /\ orch'.child = orch.child /\ orch' \in Record
    BY <1>1, <1>4, ProceedEffect DEF GoesOn, Crashing, Childless
  <2>2. signalled' \in {signalled, signalled \union Live}
    BY <1>3, <1>4 DEF KillChild, Abandon
  <2> QED
    BY <1>2, <2>1, <2>2 DEF ObserverFails, Decides
<1>5. CASE orch.pc = "record" /\ KillChild /\ End("failed")
  <2>1. Fails /\ orch'.step = orch.step /\ orch'.child = orch.child /\ orch' \in Record
    BY <1>5, EndEffect DEF Fails, KillChild
  <2> QED
    BY <1>2, <1>5, <2>1 DEF ObserverFails, KillChild, Decides
<1>6. CASE /\ \/ orch.pc \in {"plan", "digest", "count", "state", "cleanup", "cleaned"}
              \/ orch.pc \in {"reap", "wait"} /\ exit # "running"
           /\ UNCHANGED signalled /\ End("failed")
  <2>1. exit # "running"
    BY <1>6 DEF ChildInv, Childless
  <2>2. Fails /\ orch'.step = orch.step /\ orch'.child = orch.child /\ orch' \in Record
    BY <1>6, <2>1, EndEffect DEF Fails
  <2> QED
    BY <1>2, <1>6, <2>2 DEF ObserverFails, Decides
<1> QED
  BY <1>3, <1>4, <1>5, <1>6 DEF Abandon
-----------------------------------------------------------------------------
(* Starting children.                                                      *)

\* The orchestrator has started process p and goes on to `next`.
Starts(p, next) ==
    /\ At(p, "idle")
    /\ orch'.pc = next /\ orch'.child = p /\ orch'.step = orch.step
    /\ orch'.outcome = orch.outcome /\ orch' \in Record
    /\ exit' = "running"
    /\ \A q \in Procs \ {p} : proc'[q] = proc[q]
    /\ proc'[p].pc \in {"runLock", "recoverLock"} /\ proc'[p].tx = {}
    /\ proc'[p].job[1] = plan.import /\ proc'[p].job[3] = plan.reader
    /\ UNCHANGED <<source, guard, rows, attempts, exec, wiped>>
    /\ UNCHANGED <<plan, marker, signalled, dead, troubles>>
    /\ TypeOK'

LEMMA StartEffect ==
  ASSUME IterationTypeOK, NEW p \in Procs, At(p, "idle"),
         StartRun(p) \/ StartRecover(p)
  PROVE  /\ \A q \in Procs \ {p} : proc'[q] = proc[q]
         /\ proc'[p].tx = {}
         /\ StartRun(p) => proc'[p].pc = "runLock"
         /\ StartRecover(p) => proc'[p].pc = "recoverLock"
         /\ UNCHANGED <<source, guard, rows, attempts, exec, wiped>>
         /\ TypeOK'
<1>1. proc \in [Procs -> Proc] /\ TypeOK
  BY DEF IterationTypeOK, TypeOK
<1>2. TypeOK'
  BY <1>1, StartType
<1>3. CASE StartRun(p)
  <2>1. PICK i \in Imports, m \in Modes, n \in ChunkSizes, f \in FailPoints :
          proc' = [proc EXCEPT ![p] = [IdleProc(<<i, Empty, m>>) EXCEPT
                                         !.pc = "runLock", !.size = n, !.fail = f]]
    BY <1>3 DEF StartRun
  <2> DEFINE r == [IdleProc(<<i, Empty, m>>) EXCEPT
                     !.pc = "runLock", !.size = n, !.fail = f]
  <2>2. r.pc = "runLock" /\ r.tx = {}
    BY DEF IdleProc
  <2>3. proc' = [proc EXCEPT ![p] = r]
    BY <2>1
  <2> HIDE DEF r
  <2>4. proc'[p] = r /\ \A q \in Procs \ {p} : proc'[q] = proc[q]
    BY <1>1, <2>3
  <2>5. ~StartRecover(p)
    <3>1. SUFFICES ASSUME StartRecover(p) PROVE FALSE
      OBVIOUS
    <3>2. PICK j \in Imports, l \in Modes :
            proc' = [proc EXCEPT ![p] = [IdleProc(<<j, Empty, l>>) EXCEPT
                                           !.pc = "recoverLock"]]
      BY <3>1 DEF StartRecover
    <3>3. [IdleProc(<<j, Empty, l>>) EXCEPT !.pc = "recoverLock"].pc = "recoverLock"
      BY DEF IdleProc
    <3>4. proc'[p].pc = "recoverLock"
      BY <1>1, <3>2, <3>3
    <3> QED
      BY <2>2, <2>4, <3>4
  <2> QED
    BY <1>2, <1>3, <2>2, <2>4, <2>5 DEF StartRun
<1>4. CASE ~StartRun(p) /\ StartRecover(p)
  <2>1. PICK i \in Imports, m \in Modes :
          proc' = [proc EXCEPT ![p] = [IdleProc(<<i, Empty, m>>) EXCEPT
                                         !.pc = "recoverLock"]]
    BY <1>4 DEF StartRecover
  <2> DEFINE r == [IdleProc(<<i, Empty, m>>) EXCEPT !.pc = "recoverLock"]
  <2>2. r.pc = "recoverLock" /\ r.tx = {}
    BY DEF IdleProc
  <2>3. proc' = [proc EXCEPT ![p] = r]
    BY <2>1
  <2> HIDE DEF r
  <2>4. proc'[p] = r /\ \A q \in Procs \ {p} : proc'[q] = proc[q]
    BY <1>1, <2>3
  <2> QED
    BY <1>2, <1>4, <2>2, <2>4 DEF StartRecover
<1> QED
  BY <1>3, <1>4

\* The armed child of a crash iteration.
LEMMA SpawnCrashChildEffect ==
  ASSUME IterationTypeOK, SpawnCrashChild
  PROVE  /\ orch.pc = "plan" /\ ~Clean
         /\ \E p \in Procs : Starts(p, "started") /\ proc'[p].pc = "runLock"
<1>1. PICK p \in Procs : Spawn(p, StartRun(p), Armed, "started")
  BY DEF SpawnCrashChild
<1>2. /\ At(p, "idle") /\ StartRun(p) /\ exit' = "running"
      /\ proc'[p].job[1] = plan.import /\ proc'[p].job[3] = plan.reader
      /\ orch' = [orch EXCEPT !.pc = "started", !.child = p]
  BY <1>1 DEF Spawn
<1>3. /\ orch'.pc = "started" /\ orch'.child = p /\ orch'.step = orch.step
      /\ orch'.outcome = orch.outcome /\ orch' \in Record
  BY <1>2 DEF IterationTypeOK, Record, OrchestratorPCs
<1>4. Starts(p, "started") /\ proc'[p].pc = "runLock"
  BY <1>2, <1>3, StartEffect DEF Starts, SpawnCrashChild
<1> QED
  BY <1>4 DEF SpawnCrashChild

\* The child of a phase: the verifier, or a command of the transform.
LEMMA SpawnChildEffect ==
  ASSUME IterationTypeOK, SpawnChild
  PROVE  /\ orch.pc = "spawn"
         /\ \/ /\ Phase = "verify" /\ orch'.child = Verifier
               /\ orch'.pc = "record" /\ orch'.step = orch.step
               /\ orch'.outcome = orch.outcome /\ orch' \in Record
               /\ exit' = "running"
               /\ UNCHANGED <<transform, plan, marker, signalled, dead, troubles>>
            \/ /\ Phase # "verify"
               /\ \E p \in Procs :
                     /\ Starts(p, "record")
                     /\ Phase = "recover" => proc'[p].pc = "recoverLock"
                     /\ Phase # "recover" => proc'[p].pc = "runLock"
<1>1. orch.pc = "spawn" /\ UNCHANGED <<plan, marker, signalled, dead, troubles>>
  BY DEF SpawnChild
<1>2. CASE Phase = "verify"
  <2>1. orch' = [orch EXCEPT !.pc = "record", !.child = Verifier]
    BY <1>2 DEF SpawnChild
  <2>2. /\ orch'.pc = "record" /\ orch'.child = Verifier /\ orch'.step = orch.step
        /\ orch'.outcome = orch.outcome /\ orch' \in Record
    BY <2>1 DEF IterationTypeOK, Record, OrchestratorPCs
  <2> QED
    BY <1>1, <1>2, <2>2 DEF SpawnChild
<1>3. CASE Phase # "verify"
  <2>1. PICK p \in Procs :
          Spawn(p, IF Phase = "recover" THEN StartRecover(p) ELSE StartRun(p),
                NoFailPoint, "record")
    BY <1>3 DEF SpawnChild
  <2>2. /\ At(p, "idle") /\ exit' = "running"
        /\ Phase = "recover" => StartRecover(p)
        /\ Phase # "recover" => StartRun(p)
        /\ proc'[p].job[1] = plan.import /\ proc'[p].job[3] = plan.reader
        /\ orch' = [orch EXCEPT !.pc = "record", !.child = p]
    BY <2>1 DEF Spawn
  <2>3. /\ orch'.pc = "record" /\ orch'.child = p /\ orch'.step = orch.step
        /\ orch'.outcome = orch.outcome /\ orch' \in Record
    BY <2>2 DEF IterationTypeOK, Record, OrchestratorPCs
  <2>4. /\ Starts(p, "record")
        /\ Phase = "recover" => proc'[p].pc = "recoverLock"
        /\ Phase # "recover" => proc'[p].pc = "runLock"
    BY <1>1, <2>2, <2>3, StartEffect DEF Starts
  <2> QED
    BY <1>1, <1>3, <2>4
<1> QED
  BY <1>2, <1>3
-----------------------------------------------------------------------------
(* What a step of a child does.                                            *)

\* The process keeps what it works on.
Keeps(p) ==
    /\ proc'[p].job = proc[p].job
    /\ proc'[p].attempt = proc[p].attempt
    /\ proc'[p].snapshot = proc[p].snapshot

Locks(p) ==
    /\ <<proc[p].pc, proc'[p].pc>> \in
          {<<"runLock", "runDigest">>, <<"recoverLock", "recoverDigest">>,
           <<"recoverUnlock", "recoverFind">>}
    /\ Keeps(p)
    /\ proc'[p].tx = proc[p].tx
    /\ UNCHANGED <<rows, attempts, exec>>

Digests(p) ==
    /\ <<proc[p].pc, proc'[p].pc>> \in
          {<<"runDigest", "launch">>, <<"recoverDigest", "recoverUnlock">>}
    /\ proc'[p].job = <<proc[p].job[1], source, proc[p].job[3]>>
    /\ proc'[p].tx = proc[p].tx
    /\ UNCHANGED <<rows, attempts, exec>>

Launches(p) ==
    LET k == proc[p].job
    IN  /\ At(p, "launch") /\ proc'[p].pc = "chunk"
        /\ attempts[k] < MaxAttempts /\ Restartable(k)
        /\ attempts' = [attempts EXCEPT ![k] = @ + 1]
        /\ exec' = [exec EXCEPT ![k][attempts[k] + 1] =
                       [status |-> "STARTED", position |-> Inherited(k)]]
        /\ proc'[p].job = k /\ proc'[p].attempt = attempts[k] + 1
        /\ proc'[p].cursor = Inherited(k) /\ proc'[p].snapshot = source
        /\ proc'[p].tx = proc[p].tx
        /\ UNCHANGED rows

\* It writes a chunk, or gives its execution up.
Works(p) ==
    /\ proc[p].pc \in {"chunk", "written"}
    /\ proc'[p].pc \in {"written", "paused", "failing"}
    /\ Keeps(p)
    /\ proc'[p].cursor = proc[p].cursor
    /\ proc'[p].tx \in {proc[p].tx, Batch(p)}
    /\ proc'[p].pc = "written" => proc'[p].reads = LastRead(p) - proc[p].cursor
    /\ UNCHANGED <<rows, attempts, exec>>

Commits(p) ==
    LET k == proc[p].job
        a == proc[p].attempt
    IN  /\ At(p, "written") /\ proc'[p].pc \in {"chunk", "paused", "uncertain"}
        /\ Keeps(p)
        /\ proc'[p].cursor = proc[p].cursor + proc[p].reads
        /\ proc'[p].tx = {}
        /\ exec' = [exec EXCEPT ![k][a].position = exec[k][a].position + proc[p].reads]
        /\ rows' = [rows EXCEPT ![Scope(k)] = @ \union proc[p].tx]
        /\ UNCHANGED attempts

Persists(p) ==
    /\ proc[p].pc \in Executing /\ proc'[p].pc = "returned"
    /\ Keeps(p)
    /\ proc'[p].tx \in {proc[p].tx, {}}
    /\ \E status \in {"FAILED", "UNKNOWN", "COMPLETED"} :
          /\ SetStatus(proc[p].job, proc[p].attempt, status)
          /\ status = "COMPLETED" => At(p, "chunk") /\ Batch(p) = {}
    /\ UNCHANGED <<rows, attempts>>

Leaves(p) ==
    /\ proc[p].pc \in Launched \cup {"launch", "recoverFind"}
    /\ proc'[p] = IdleProc(SomeKey)
    /\ UNCHANGED <<rows, attempts, exec>>

Finds(p) ==
    /\ At(p, "recoverFind") /\ proc'[p].pc = "recoverMark"
    /\ proc'[p].job = proc[p].job /\ proc'[p].attempt = attempts[proc[p].job]
    /\ proc'[p].tx = proc[p].tx
    /\ UNCHANGED <<rows, attempts, exec>>

Marks(p) ==
    /\ At(p, "recoverMark") /\ proc'[p] = IdleProc(SomeKey)
    /\ IF SameVersion(p)
       THEN SetStatus(proc[p].job, proc[p].attempt, "FAILED")
       ELSE UNCHANGED exec
    /\ UNCHANGED <<rows, attempts>>

\* What process p does to itself and to the durable state.
Acts(p) ==
    /\ ~At(p, "idle")
    /\ \A q \in Procs \ {p} : proc'[q] = proc[q]
    /\ UNCHANGED <<source, wiped>>
    /\ \/ Locks(p) \/ Digests(p) \/ Launches(p) \/ Works(p) \/ Commits(p)
       \/ Persists(p) \/ Leaves(p) \/ Finds(p) \/ Marks(p)

\* Moving a process changes nothing else of it.
LEMMA GotoEffect ==
  ASSUME TypeOK, NEW p \in Procs, NEW point, Goto(p, point)
  PROVE  /\ proc'[p].pc = point /\ Keeps(p)
         /\ proc'[p].cursor = proc[p].cursor /\ proc'[p].tx = proc[p].tx
         /\ proc'[p].reads = proc[p].reads
         /\ \A q \in Procs \ {p} : proc'[q] = proc[q]
<1>1. proc \in [Procs -> Proc] /\ proc[p] \in Proc
  BY DEF TypeOK
<1>2. proc' = [proc EXCEPT ![p].pc = point]
  BY DEF Goto
<1>3. proc'[p] = [proc[p] EXCEPT !.pc = point]
  BY <1>1, <1>2
<1>4. \A q \in Procs \ {p} : proc'[q] = proc[q]
  BY <1>1, <1>2
<1> QED
  BY <1>1, <1>3, <1>4 DEF Keeps, Proc

\* A process that exits is idle, and the others do not notice.
LEMMA ExitEffect ==
  ASSUME TypeOK, NEW p \in Procs, Exit(p)
  PROVE  /\ proc'[p] = IdleProc(SomeKey)
         /\ \A q \in Procs \ {p} : proc'[q] = proc[q]
<1>1. proc \in [Procs -> Proc]
  BY DEF TypeOK
<1> QED
  BY <1>1 DEF Exit

LEMMA IdleParts ==
  ASSUME NEW k
  PROVE  IdleProc(k).pc = "idle" /\ IdleProc(k).tx = {}
  BY DEF IdleProc

\* The steps that take the lock, compute the digest or drop the lock.
LEMMA GuardStepActs ==
  ASSUME TypeOK, NEW p \in Procs,
         \/ LockSource(p, "runLock", "runDigest")
         \/ ComputeDigest(p, "runDigest", "launch")
         \/ LockSource(p, "recoverLock", "recoverDigest")
         \/ ComputeDigest(p, "recoverDigest", "recoverUnlock")
         \/ UnlockForRecovery(p)
  PROVE  Acts(p)
<1>1. CASE LockSource(p, "runLock", "runDigest")
  BY <1>1, GotoEffect DEF LockSource, Acts, Locks, At
<1>2. CASE LockSource(p, "recoverLock", "recoverDigest")
  BY <1>2, GotoEffect DEF LockSource, Acts, Locks, At
<1>3. CASE UnlockForRecovery(p)
  BY <1>3, GotoEffect DEF UnlockForRecovery, Acts, Locks, At
<1>4. ASSUME NEW from, NEW to, ComputeDigest(p, from, to)
      PROVE  /\ At(p, from) /\ proc'[p].pc = to /\ proc'[p].tx = proc[p].tx
             /\ proc'[p].job = <<proc[p].job[1], source, proc[p].job[3]>>
             /\ \A q \in Procs \ {p} : proc'[q] = proc[q]
             /\ UNCHANGED <<source, guard, rows, attempts, exec, wiped>>
  <2>1. proc \in [Procs -> Proc] /\ proc[p] \in Proc
    BY DEF TypeOK
  <2>2. proc' = [proc EXCEPT ![p].job = <<@[1], source, @[3]>>, ![p].pc = to]
    BY <1>4 DEF ComputeDigest
  <2>3. proc'[p] = [proc[p] EXCEPT !.job = <<proc[p].job[1], source, proc[p].job[3]>>,
                                   !.pc = to]
    BY <2>1, <2>2
  <2>4. \A q \in Procs \ {p} : proc'[q] = proc[q]
    BY <2>1, <2>2
  <2> QED
    BY <1>4, <2>1, <2>3, <2>4 DEF ComputeDigest, Proc
<1>5. CASE ComputeDigest(p, "runDigest", "launch")
  BY <1>4, <1>5 DEF Acts, Digests, At
<1>6. CASE ComputeDigest(p, "recoverDigest", "recoverUnlock")
  BY <1>4, <1>6 DEF Acts, Digests, At
<1> QED
  BY <1>1, <1>2, <1>3, <1>5, <1>6

\* The launch, the chunks and their commits.
LEMMA ChunkStepActs ==
  ASSUME TypeOK, NEW p \in Procs,
         Launch(p) \/ WriteChunk(p) \/ CommitChunk(p)
  PROVE  Acts(p)
<1>1. proc \in [Procs -> Proc] /\ proc[p] \in Proc
  BY DEF TypeOK
<1>2. CASE Launch(p)
  <2> DEFINE k == proc[p].job
             n == attempts[k] + 1
             i == Inherited(k)
  <2>1. proc' = [proc EXCEPT ![p].pc = "chunk", ![p].attempt = n,
                             ![p].cursor = i, ![p].snapshot = source]
    BY <1>2 DEF Launch
  <2> HIDE DEF n, i
  <2>2. proc'[p] = [proc[p] EXCEPT !.pc = "chunk", !.attempt = n,
                                   !.cursor = i, !.snapshot = source]
    BY <1>1, <2>1
  <2>3. \A q \in Procs \ {p} : proc'[q] = proc[q]
    BY <1>1, <2>1
  <2>4. /\ proc'[p].pc = "chunk" /\ proc'[p].job = k /\ proc'[p].attempt = n
        /\ proc'[p].cursor = i /\ proc'[p].snapshot = source
        /\ proc'[p].tx = proc[p].tx
    BY <1>1, <2>2 DEF Proc
  <2> QED
    BY <1>2, <2>3, <2>4 DEF Launch, Acts, Launches, At, n, i
<1>3. CASE WriteChunk(p)
  <2> DEFINE m == proc[p].ordinal + 1
             to == IF ~Targets(p, m, "during-write") THEN "written"
                   ELSE IF proc[p].fail.pause THEN "paused" ELSE "failing"
             d == LastRead(p) - proc[p].cursor
             b == Batch(p)
  <2>1. proc' = [proc EXCEPT ![p].tx = b, ![p].reads = d, ![p].ordinal = m, ![p].pc = to]
    BY <1>3 DEF WriteChunk
  <2>2. to \in {"written", "paused", "failing"}
    OBVIOUS
  <2> HIDE DEF m, to, d, b
  <2>3. proc'[p] = [proc[p] EXCEPT !.tx = b, !.reads = d, !.ordinal = m, !.pc = to]
    BY <1>1, <2>1
  <2>4. \A q \in Procs \ {p} : proc'[q] = proc[q]
    BY <1>1, <2>1
  <2>5. /\ proc'[p].pc = to /\ Keeps(p) /\ proc'[p].cursor = proc[p].cursor
        /\ proc'[p].tx = b /\ proc'[p].reads = d
    BY <1>1, <2>3 DEF Proc, Keeps
  <2>6. Works(p)
    BY <1>3, <2>2, <2>5 DEF WriteChunk, Works, At, d, b
  <2> QED
    BY <1>3, <2>4, <2>6 DEF WriteChunk, Acts, At
<1>4. CASE CommitChunk(p)
  <2> DEFINE to == IF ~Targets(p, proc[p].ordinal, "after-business-commit") THEN "chunk"
                   ELSE IF proc[p].fail.pause THEN "paused" ELSE "uncertain"
             c == proc[p].cursor + proc[p].reads
  <2>1. proc' = [proc EXCEPT ![p].tx = {}, ![p].cursor = @ + proc[p].reads, ![p].pc = to]
    BY <1>4 DEF CommitChunk
  <2>2. to \in {"chunk", "paused", "uncertain"}
    OBVIOUS
  <2> HIDE DEF to
  <2>3. proc'[p] = [proc[p] EXCEPT !.tx = {}, !.cursor = c, !.pc = to]
    BY <1>1, <2>1
  <2>4. \A q \in Procs \ {p} : proc'[q] = proc[q]
    BY <1>1, <2>1
  <2>5. /\ proc'[p].pc = to /\ Keeps(p) /\ proc'[p].cursor = c /\ proc'[p].tx = {}
    BY <1>1, <2>3 DEF Proc, Keeps
  <2>6. Commits(p)
    BY <1>4, <2>2, <2>5 DEF CommitChunk, Commits, NextPosition
  <2> QED
    BY <1>4, <2>4, <2>6 DEF CommitChunk, Acts, At
<1> QED
  BY <1>2, <1>3, <1>4

\* The ends of an execution and of the process.
LEMMA EndStepActs ==
  ASSUME TypeOK, NEW p \in Procs,
         \/ FailChunk(p) \/ InfrastructureError(p) \/ RefuseCommit(p)
         \/ PersistFailure(p) \/ PersistUnknown(p) \/ Complete(p)
         \/ RefuseLaunch(p) \/ LaunchError(p) \/ FinishRun(p)
  PROVE  Acts(p)
<1>1. CASE FailChunk(p) \/ InfrastructureError(p) \/ RefuseCommit(p)
  <2>1. Goto(p, "failing") /\ UNCHANGED <<source, guard, rows, attempts, exec, wiped>>
    BY <1>1 DEF FailChunk, InfrastructureError, RefuseCommit
  <2>2. proc[p].pc \in {"chunk", "written"}
    BY <1>1 DEF FailChunk, InfrastructureError, RefuseCommit, At
  <2>3. Works(p)
    BY <2>1, <2>2, GotoEffect DEF Works
  <2> QED
    BY <2>1, <2>2, <2>3, GotoEffect DEF Acts, At
<1>2. CASE PersistUnknown(p) \/ Complete(p)
  <2>1. Goto(p, "returned") /\ UNCHANGED <<source, guard, rows, attempts, wiped>>
    BY <1>2 DEF PersistUnknown, Complete
  <2>2. proc[p].pc \in Executing
    BY <1>2 DEF PersistUnknown, Complete, At, Executing
  <2>3. \E status \in {"FAILED", "UNKNOWN", "COMPLETED"} :
          /\ SetStatus(proc[p].job, proc[p].attempt, status)
          /\ status = "COMPLETED" => At(p, "chunk") /\ Batch(p) = {}
    BY <1>2 DEF PersistUnknown, Complete
  <2>4. Persists(p)
    BY <2>1, <2>2, <2>3, GotoEffect DEF Persists
  <2> QED
    BY <2>1, <2>2, <2>4, GotoEffect DEF Acts, At, Executing
<1>3. CASE PersistFailure(p)
  <2>1. proc \in [Procs -> Proc] /\ proc[p] \in Proc
    BY DEF TypeOK
  <2>2. proc' = [proc EXCEPT ![p].tx = {}, ![p].pc = "returned"]
    BY <1>3 DEF PersistFailure
  <2>3. proc'[p] = [proc[p] EXCEPT !.tx = {}, !.pc = "returned"]
    BY <2>1, <2>2
  <2>4. \A q \in Procs \ {p} : proc'[q] = proc[q]
    BY <2>1, <2>2
  <2>5. proc'[p].pc = "returned" /\ Keeps(p) /\ proc'[p].tx = {}
    BY <2>1, <2>3 DEF Proc, Keeps
  <2>6. Persists(p)
    BY <1>3, <2>5 DEF PersistFailure, Persists, At, Executing
  <2> QED
    BY <1>3, <2>4, <2>6 DEF PersistFailure, Acts, At
<1>4. CASE RefuseLaunch(p) \/ LaunchError(p) \/ FinishRun(p)
  <2>1. Exit(p) /\ UNCHANGED <<source, rows, attempts, exec, wiped>>
    BY <1>4 DEF RefuseLaunch, LaunchError, FinishRun
  <2>2. proc[p].pc \in Launched \cup {"launch", "recoverFind"}
    BY <1>4 DEF RefuseLaunch, LaunchError, FinishRun, At, Launched, Executing
  <2>3. Leaves(p)
    BY <2>1, <2>2, ExitEffect DEF Leaves
  <2> QED
    BY <2>1, <2>2, <2>3, ExitEffect DEF Acts, At, Launched, Executing
<1> QED
  BY <1>1, <1>2, <1>3, <1>4

LEMMA RecoverStepActs ==
  ASSUME TypeOK, NEW p \in Procs, FindExecution(p) \/ MarkFailed(p)
  PROVE  Acts(p)
<1>1. proc \in [Procs -> Proc] /\ proc[p] \in Proc
  BY DEF TypeOK
<1>2. CASE FindExecution(p)
  <2> DEFINE k == proc[p].job
             found == attempts[k] > 0 /\ Latest(k).status \in InProgress
             s == Latest(k).status
  <2>1. CASE found
    <3>1. proc' = [proc EXCEPT ![p].pc = "recoverMark", ![p].attempt = attempts[k],
                               ![p].seen = s]
      BY <1>2, <2>1 DEF FindExecution
    <3> HIDE DEF s
    <3>2. proc'[p] = [proc[p] EXCEPT !.pc = "recoverMark", !.attempt = attempts[k],
                                     !.seen = s]
      BY <1>1, <3>1
    <3>3. \A q \in Procs \ {p} : proc'[q] = proc[q]
      BY <1>1, <3>1
    <3>4. /\ proc'[p].pc = "recoverMark" /\ proc'[p].job = k
          /\ proc'[p].attempt = attempts[k] /\ proc'[p].tx = proc[p].tx
      BY <1>1, <3>2 DEF Proc
    <3>5. Finds(p)
      BY <1>2, <3>4 DEF FindExecution, Finds
    <3> QED
      BY <1>2, <3>3, <3>5 DEF FindExecution, Acts, At
  <2>2. CASE ~found
    <3>1. Exit(p) /\ UNCHANGED <<source, rows, attempts, exec, wiped>>
          /\ At(p, "recoverFind")
      BY <1>2, <2>2 DEF FindExecution
    <3>2. Leaves(p)
      BY <3>1, ExitEffect DEF Leaves, At
    <3> QED
      BY <3>1, <3>2, ExitEffect DEF Acts, At
  <2> QED
    BY <2>1, <2>2
<1>3. CASE MarkFailed(p)
  <2>1. Exit(p) /\ UNCHANGED <<source, rows, attempts, wiped>> /\ At(p, "recoverMark")
    BY <1>3 DEF MarkFailed
  <2>2. Marks(p)
    BY <1>3, <2>1, ExitEffect DEF MarkFailed, Marks
  <2> QED
    BY <2>1, <2>2, ExitEffect DEF Acts, At
<1> QED
  BY <1>2, <1>3

\* A step of a child that is not a reset.
LEMMA StepActs ==
  ASSUME TypeOK, NEW p \in Procs, Step(p),
         proc[p].pc \notin {"resetLock", "resetTruncate"}
  PROVE  Acts(p)
  BY GuardStepActs, ChunkStepActs, EndStepActs, RecoverStepActs
     DEF Step, TruncateProjection, TruncateSource, At
-----------------------------------------------------------------------------
(* The steps in which children and sessions end, and the marker's.         *)

\* Nothing durable changes, nobody new can act, and an exit status that is
\* seen is the one of a killed child or of the verifier.
Fades ==
    /\ UNCHANGED <<source, rows, attempts, exec, wiped, plan, orch>>
    /\ dead' \subseteq Procs /\ guard' \subseteq Procs
    /\ marker' \in {"none", "created", "during-write", "after-business-commit"}
    /\ troubles \subseteq troubles'
    /\ troubles' \subseteq troubles \union {"crash"} \union (Failing \ {"source"})
    /\ proc' \in [Procs -> Proc]
    /\ \A p \in Procs : proc'[p] = proc[p] \/ proc'[p] = IdleProc(SomeKey)
    /\ \A p \in Procs : Living(p)' => Living(p) /\ proc'[p] = proc[p] /\ exit' = exit
    /\ signalled' \subseteq signalled
    /\ signalled' # {} => exit' = "running"
    /\ exit' \in {"running", "success", "failure", "sigkill", "abort"}
    /\ exit' = "running" => exit = "running" /\ signalled \subseteq signalled'
    /\ exit' = "success" => exit = "success" \/ orch.child = Verifier

LEMMA TransformTypes ==
  ASSUME IterationTypeOK
  PROVE  /\ TypeOK /\ proc \in [Procs -> Proc] /\ guard \subseteq Procs
         /\ dead \subseteq Procs /\ signalled \subseteq Procs
         /\ plan \in [failure : Plans, reader : Modes, import : Imports]
         /\ marker \in {"none", "created", "during-write", "after-business-commit"}
         /\ exit \in {"running", "success", "failure", "sigkill", "abort"}
         /\ troubles \subseteq Failing \union {"error", "crash"}
  BY DEF IterationTypeOK, TypeOK

LEMMA VerifierIsNoProcess ==
  Verifier \notin Procs /\ Failing \subseteq {"observer", "timeout", "marker", "source"}
  BY IterationAssumption

\* A child that dies of a signal, of somebody else's, or of its marker.
LEMMA DieFades ==
  ASSUME IterationTypeOK, ChildInv, NEW p \in Procs, NEW status \in {"sigkill", "abort"},
         Die(p, status), troubles \subseteq troubles',
         troubles' \subseteq troubles \union {"crash"} \union (Failing \ {"source"}),
         p \in signalled \/ Living(p)
  PROVE  Fades
<1>1. p = orch.child /\ exit = "running"
  BY DEF ChildInv
<1>2. /\ dead' = dead \union {p} /\ signalled' = signalled \ {p} /\ exit' = status
      /\ UNCHANGED <<source, guard, rows, attempts, exec, proc, wiped, plan, orch, marker>>
  BY <1>1 DEF Die, ExitStatus, transform
<1>3. signalled' = {}
  BY <1>1, <1>2 DEF ChildInv
<1>4. \A q \in Procs : Living(q)' => FALSE
  <2>1. SUFFICES ASSUME NEW q \in Procs, Living(q)' PROVE FALSE
    OBVIOUS
  <2>2. proc'[q] = proc[q] /\ proc'[q].pc # "idle" /\ q \notin dead /\ q # p
    BY <1>2, <2>1 DEF Living, At
  <2>3. q = orch.child
    BY <2>2 DEF ChildInv, Living, At
  <2> QED
    BY <1>1, <2>2, <2>3
<1>5. proc' \in [Procs -> Proc] /\ guard' \subseteq Procs /\ dead' \subseteq Procs
      /\ marker' \in {"none", "created", "during-write", "after-business-commit"}
  BY <1>2, TransformTypes
<1> QED
  BY <1>2, <1>3, <1>4, <1>5 DEF Fades

LEMMA DeathsFade ==
  ASSUME IterationTypeOK, ChildInv, NEW p \in Procs,
         DieOfSignal(p) \/ DieByItself(p) \/ AbortAtMarker(p)
  PROVE  Fades
<1>1. CASE DieOfSignal(p)
  BY <1>1, DieFades DEF DieOfSignal
<1>2. CASE DieByItself(p)
  BY <1>2, DieFades DEF DieByItself, Living
<1>3. CASE AbortAtMarker(p)
  <2>1. Living(p) /\ Die(p, "abort")
    BY <1>3 DEF AbortAtMarker, Living, At
  <2>2. troubles' = troubles \union {"marker"} /\ "marker" \in Failing \ {"source"}
    BY <1>3 DEF AbortAtMarker, Trouble
  <2> QED
    BY <2>1, <2>2, DieFades
<1> QED
  BY <1>1, <1>2, <1>3

LEMMA SessionFades ==
  ASSUME IterationTypeOK, ChildInv, NEW p \in Procs, SessionEnds(p)
  PROVE  Fades
<1>1. /\ p \in dead /\ dead' = dead \ {p} /\ Exit(p)
      /\ UNCHANGED <<source, rows, attempts, exec, wiped>>
      /\ UNCHANGED <<plan, orch, marker, exit, signalled, troubles>>
  BY DEF SessionEnds
<1>2. proc'[p] = IdleProc(SomeKey) /\ \A q \in Procs \ {p} : proc'[q] = proc[q]
  BY <1>1, TransformTypes, ExitEffect
<1>3. guard' \subseteq Procs /\ proc' \in [Procs -> Proc]
  BY <1>1, TransformTypes, ExitType
<1>4. \A q \in Procs : Living(q)' => Living(q) /\ proc'[q] = proc[q]
  BY <1>1, <1>2, IdleParts DEF Living, At
<1>5. signalled # {} => exit = "running"
  BY DEF ChildInv
<1>6. dead' \subseteq Procs /\ exit' \in {"running", "success", "failure", "sigkill", "abort"}
      /\ marker' \in {"none", "created", "during-write", "after-business-commit"}
  BY <1>1, TransformTypes
<1> QED
  BY <1>1, <1>2, <1>3, <1>4, <1>5, <1>6 DEF Fades

\* The marker's two writes, and steps that change nothing here.
LEMMA MarkerFades ==
  ASSUME IterationTypeOK, ChildInv,
         \/ \E p \in Procs : CreateMarker(p) \/ FillMarker(p)
         \/ UNCHANGED iterVars
  PROVE  Fades
<1>1. UNCHANGED <<source, guard, rows, attempts, exec, proc, wiped>>
      /\ UNCHANGED <<plan, orch, exit, signalled, dead, troubles>>
  BY DEF CreateMarker, FillMarker, iterVars, transform, harness
<1>2. marker' \in {"none", "created", "during-write", "after-business-commit"}
  <2>1. CASE UNCHANGED iterVars
    BY <2>1, TransformTypes DEF iterVars, harness
  <2>2. ASSUME NEW p \in Procs, CreateMarker(p) \/ FillMarker(p)
        PROVE  marker' \in {"none", "created", "during-write", "after-business-commit"}
    <3>1. proc[p].fail.mode \in {"during-write", "after-business-commit"}
      <4>1. proc[p].fail \in FailPoint
        BY TransformTypes, ProcParts
      <4> QED
        BY <4>1 DEF FailPoint
    <3> QED
      BY <2>2, <3>1 DEF CreateMarker, FillMarker
  <2> QED
    BY <2>1, <2>2
<1>3. \A q \in Procs : Living(q)' => Living(q)
  BY <1>1 DEF Living, At
<1>4. signalled # {} => exit = "running"
  BY DEF ChildInv
<1> QED
  BY <1>1, <1>2, <1>3, <1>4, TransformTypes DEF Fades

LEMMA VerifyFades ==
  ASSUME IterationTypeOK, ChildInv, Verify
  PROVE  Fades
<1>1. /\ orch.child = Verifier /\ exit' \in {"success", "failure"}
      /\ UNCHANGED <<source, guard, rows, attempts, exec, proc, wiped>>
      /\ UNCHANGED <<plan, orch, marker, signalled, dead, troubles>>
  BY DEF Verify, transform
<1>2. \A q \in Procs : ~Living(q)
  BY <1>1, VerifierIsNoProcess DEF ChildInv
<1>3. \A q \in Procs : ~Living(q)'
  BY <1>1, <1>2 DEF Living, At
<1>4. signalled = {}
  BY <1>1, VerifierIsNoProcess, TransformTypes DEF ChildInv
<1> QED
  BY <1>1, <1>3, <1>4, TransformTypes DEF Fades

-----------------------------------------------------------------------------
(* The steps of a living child.                                            *)

ChildActs(p) ==
    /\ p \notin dead /\ Acts(p) /\ TypeOK'
    /\ UNCHANGED <<plan, orch, marker, dead>>
    /\ troubles' \in {troubles, troubles \union {"error"}}
    /\ proc'[p].pc = "idle" =>
          /\ ExitStatus(p, IF Succeeds(p) THEN "success" ELSE "failure")
          /\ signalled' = signalled \ {p}
    /\ proc'[p].pc # "idle" => UNCHANGED <<exit, signalled>>

LEMMA ChildStepActs ==
  ASSUME IterationTypeOK, JobInv, NEW p \in Procs, ChildStep(p) \/ ChildError(p)
  PROVE  ChildActs(p)
<1>1. TypeOK
  BY TransformTypes
<1>2. Step(p) \/ InfrastructureError(p)
  BY DEF ChildStep, ChildError
<1>3. TypeOK'
  BY <1>1, <1>2, StepType DEF Next, Environment
<1>4. CASE ChildStep(p)
  <2>1. ~At(p, "idle")
    BY <1>4 DEF ChildStep, Step, LockSource, ComputeDigest, Launch, RefuseLaunch,
       WriteChunk, FailChunk, CommitChunk, RefuseCommit, PersistFailure,
       PersistUnknown, Complete, LaunchError, FinishRun, UnlockForRecovery,
       FindExecution, MarkFailed, TruncateProjection, TruncateSource, At
  <2>2. proc[p].pc \notin {"resetLock", "resetTruncate"}
    BY <2>1 DEF JobInv, Launching, Launched, Recovering, Executing
  <2>3. Acts(p)
    BY <1>1, <1>4, <2>2, StepActs DEF ChildStep
  <2> QED
    BY <1>3, <1>4, <2>1, <2>3 DEF ChildStep, ChildActs, Ends
<1>5. CASE ChildError(p)
  <2>1. Acts(p)
    BY <1>1, <1>5, EndStepActs DEF ChildError
  <2>2. Goto(p, "failing")
    BY <1>5 DEF ChildError, InfrastructureError
  <2>3. proc'[p].pc # "idle"
    BY <1>1, <2>2, GotoEffect
  <2> QED
    BY <1>3, <1>5, <2>1, <2>3 DEF ChildError, ChildActs
<1> QED
  BY <1>4, <1>5

\* The classes of steps.
Spawns == SpawnCrashChild \/ SpawnChild

LEMMA StepClasses ==
  ASSUME IterationTypeOK, FiniteInv, ChildInv, JobInv, [IterationNext]_iterVars
  PROVE  \/ Decides \/ Fades \/ Spawns \/ Seed \/ CleanUp \/ ForeignWrite
         \/ \E p \in Procs : ChildActs(p)
<1>1. CASE Orchestrate
  BY <1>1, CrashHalfDecides, ObservationDecides, PhaseDecides, ObserverDecides
     DEF Orchestrate, Spawns
<1>2. CASE Verify
  BY <1>2, VerifyFades
<1>3. CASE UNCHANGED iterVars
  BY <1>3, MarkerFades
<1>4. ASSUME NEW p \in Procs, ChildProgress(p) \/ ChildError(p) \/ DieByItself(p)
      PROVE  Fades \/ ChildActs(p)
  BY <1>4, ChildStepActs, DeathsFade, SessionFades, MarkerFades DEF ChildProgress
<1> QED
  BY <1>1, <1>2, <1>3, <1>4 DEF IterationNext
-----------------------------------------------------------------------------
(* Type correctness.                                                       *)

\* The plan does not change, and nothing that is derived from it.
LEMMA SamePlan ==
  ASSUME plan' = plan
  PROVE  /\ Phases' = Phases /\ Clean' = Clean /\ ExpectedRows' = ExpectedRows
         /\ Instance' = Instance
  BY DEF Phases, Clean, ExpectedRows, ExpectedCommits, Instance

LEMMA SamePhase ==
  ASSUME plan' = plan, orch'.step = orch.step
  PROVE  Phase' = Phase
  BY SamePlan DEF Phase

LEMMA PlanNeverChanges ==
  ASSUME IterationTypeOK,
         \/ Decides \/ Fades \/ Spawns \/ Seed \/ CleanUp \/ ForeignWrite
         \/ \E p \in Procs : ChildActs(p)
  PROVE  plan' = plan
  BY DEF Decides, Fades, Spawns, SpawnCrashChild, SpawnChild, Seed, CleanUp,
     ForeignWrite, ChildActs

\* The types, from the parts that a step can change.
LEMMA TypesFrom ==
  ASSUME IterationTypeOK, plan' = plan, TypeOK', orch' \in Record,
         marker' \in {"none", "created", "during-write", "after-business-commit"},
         exit' \in {"running", "success", "failure", "sigkill", "abort"},
         signalled' \subseteq Procs, dead' \subseteq Procs,
         troubles' \subseteq Failing \union {"error", "crash"}
  PROVE  IterationTypeOK'
  BY SamePlan DEF IterationTypeOK, Record

\* A source write by the campaign or by somebody else.
LEMMA WriteSourceType ==
  ASSUME IterationTypeOK, NEW c \in Contents, WriteSource(c)
  PROVE  TypeOK'
  BY TransformTypes, StepType DEF Next

LEMMA CleanUpType ==
  ASSUME IterationTypeOK, CleanUp
  PROVE  TypeOK'
<1> DEFINE own == {s \in Scopes : s[1] = plan.import /\ rows[s] # {}}
<1>1. /\ rows' = [s \in Scopes |-> IF s \in own THEN {} ELSE rows[s]]
      /\ wiped' = wiped \union own
      /\ UNCHANGED <<source, guard, attempts, exec, proc>>
  BY DEF CleanUp
<1>2. rows \in [Scopes -> SUBSET (Nat \X Contents)] /\ wiped \in SUBSET Scopes /\ TypeOK
  BY TransformTypes DEF TypeOK
<1>3. own \in SUBSET Scopes
  OBVIOUS
<1> HIDE DEF own
<1>4. rows' \in [Scopes -> SUBSET (Nat \X Contents)] /\ wiped' \in SUBSET Scopes
  BY <1>1, <1>2, <1>3
<1> QED
  BY <1>1, <1>2, <1>4 DEF TypeOK

LEMMA IterationTypeStep ==
  ASSUME IterationTypeOK, FiniteInv, ChildInv, JobInv, [IterationNext]_iterVars
  PROVE  IterationTypeOK'
<1>1. orch \in Record
  BY DEF IterationTypeOK, Record
<1>2. CASE Decides
  <2>1. TypeOK'
    BY <1>2, TransformTypes DEF Decides, transform, TypeOK
  <2>2. signalled' \subseteq Procs
    BY <1>2, TransformTypes DEF Decides, Live
  <2>3. troubles' \subseteq Failing \union {"error", "crash"}
    BY <1>2, TransformTypes DEF Decides
  <2> QED
    BY <1>2, <2>1, <2>2, <2>3, TransformTypes, TypesFrom DEF Decides
<1>3. CASE Fades
  <2>1. TypeOK'
    BY <1>3, TransformTypes DEF Fades, TypeOK
  <2>2. signalled' \subseteq Procs /\ troubles' \subseteq Failing \union {"error", "crash"}
    <3>1. /\ signalled' \subseteq signalled
          /\ troubles' \subseteq troubles \union {"crash"} \union (Failing \ {"source"})
      BY <1>3 DEF Fades
    <3>2. signalled \subseteq Procs /\ troubles \subseteq Failing \union {"error", "crash"}
      BY TransformTypes
    <3> QED
      BY <3>1, <3>2
  <2> QED
    BY <1>1, <1>3, <2>1, <2>2, TypesFrom DEF Fades
<1>4. CASE Spawns
  <2>1. CASE \E p \in Procs : \E next : Starts(p, next)
    BY <2>1, TransformTypes, TypesFrom DEF Starts
  <2>2. CASE /\ orch' \in Record /\ exit' = "running"
             /\ UNCHANGED <<transform, plan, marker, signalled, dead, troubles>>
    <3>1. TypeOK'
      BY <2>2, TransformTypes DEF transform, TypeOK
    <3> QED
      BY <2>2, <3>1, TransformTypes, TypesFrom
  <2> QED
    BY <1>4, <2>1, <2>2, SpawnCrashChildEffect, SpawnChildEffect DEF Spawns
<1>5. CASE Seed
  <2>1. TypeOK'
    BY <1>5, IterationAssumption, WriteSourceType DEF Seed
  <2>2. orch' \in Record
    BY <1>5, ProceedEffect DEF Seed, OrchestratorPCs
  <2> QED
    BY <1>5, <2>1, <2>2, TransformTypes, TypesFrom DEF Seed
<1>6. CASE CleanUp
  <2>1. orch' \in Record
    BY <1>6, ProceedEffect DEF CleanUp, OrchestratorPCs
  <2> QED
    BY <1>6, <2>1, CleanUpType, TransformTypes, TypesFrom DEF CleanUp
<1>7. CASE ForeignWrite
  <2>1. TypeOK'
    BY <1>7, WriteSourceType DEF ForeignWrite
  <2>2. troubles' \subseteq Failing \union {"error", "crash"}
    BY <1>7, TransformTypes DEF ForeignWrite, Trouble
  <2> QED
    BY <1>1, <1>7, <2>1, <2>2, TransformTypes, TypesFrom DEF ForeignWrite
<1>8. ASSUME NEW p \in Procs, ChildActs(p)
      PROVE  IterationTypeOK'
  <2>1. exit' \in {"running", "success", "failure", "sigkill", "abort"}
    BY <1>8, TransformTypes DEF ChildActs, ExitStatus
  <2>2. signalled' \subseteq Procs /\ troubles' \subseteq Failing \union {"error", "crash"}
    BY <1>8, TransformTypes DEF ChildActs
  <2> QED
    BY <1>1, <1>8, <2>1, <2>2, TransformTypes, TypesFrom DEF ChildActs
<1> QED
  BY <1>2, <1>3, <1>4, <1>5, <1>6, <1>7, <1>8, StepClasses

-----------------------------------------------------------------------------
(* What is stored is finite.                                               *)

LEMMA BatchFinite ==
  ASSUME TypeOK, NEW p \in Procs
  PROVE  IsFiniteSet(Batch(p))
<1>1. LastRead(p) \in Int /\ proc[p].cursor + 1 \in Int
  BY BatchType, ProcParts
<1>2. IsFiniteSet((proc[p].cursor + 1)..LastRead(p))
  BY <1>1, FS_Interval
<1>3. IsFiniteSet({Visible(p)})
  BY FS_Singleton
<1> QED
  BY <1>2, <1>3, FS_Product DEF Batch

LEMMA FiniteStep ==
  ASSUME IterationTypeOK, FiniteInv, ChildInv, JobInv, [IterationNext]_iterVars
  PROVE  FiniteInv'
<1>1. IsFiniteSet({})
  BY FS_EmptySet
<1>2. ASSUME rows' = rows, \A p \in Procs : proc'[p].tx = {} \/ proc'[p].tx = proc[p].tx
      PROVE  FiniteInv'
  BY <1>1, <1>2 DEF FiniteInv
<1>3. CASE Decides
  BY <1>2, <1>3 DEF Decides, transform
<1>4. CASE Fades
  BY <1>2, <1>4, IdleParts DEF Fades
<1>5. CASE Spawns
  <2>1. CASE \E p \in Procs : \E next : Starts(p, next)
    BY <1>2, <2>1 DEF Starts
  <2>2. CASE UNCHANGED transform
    BY <1>2, <2>2 DEF transform
  <2> QED
    BY <1>5, <2>1, <2>2, SpawnCrashChildEffect, SpawnChildEffect DEF Spawns
<1>6. CASE Seed \/ ForeignWrite
  BY <1>2, <1>6 DEF Seed, ForeignWrite, WriteSource
<1>7. CASE CleanUp
  <2>1. \A s \in Scopes : rows'[s] = {} \/ rows'[s] = rows[s]
    BY <1>7 DEF CleanUp
  <2> QED
    BY <1>1, <1>7, <2>1 DEF CleanUp, FiniteInv
<1>8. ASSUME NEW p \in Procs, ChildActs(p)
      PROVE  FiniteInv'
  <2>1. Acts(p) /\ TypeOK
    BY <1>8, TransformTypes DEF ChildActs
  <2>2. \A q \in Procs : IsFiniteSet(proc'[q].tx)
    <3>1. \A q \in Procs \ {p} : proc'[q] = proc[q]
      BY <2>1 DEF Acts
    <3>2. proc'[p].tx \in {proc[p].tx, {}, Batch(p)}
      BY <2>1, IdleParts
         DEF Acts, Locks, Digests, Launches, Works, Commits, Persists, Leaves,
             Finds, Marks
    <3> QED
      BY <1>1, <2>1, <3>1, <3>2, BatchFinite DEF FiniteInv
  <2>3. \A s \in Scopes : IsFiniteSet(rows'[s])
    <3>1. CASE rows' = rows
      BY <3>1 DEF FiniteInv
    <3>2. CASE Commits(p)
      <4>1. rows' = [rows EXCEPT ![Scope(proc[p].job)] = @ \union proc[p].tx]
        BY <3>2 DEF Commits
      <4>2. rows \in [Scopes -> SUBSET (Nat \X Contents)]
        BY <2>1 DEF TypeOK
      <4>3. \A s \in Scopes : rows'[s] = rows[s] \/ rows'[s] = rows[s] \union proc[p].tx
        BY <4>1, <4>2
      <4>4. IsFiniteSet(proc[p].tx) /\ \A s \in Scopes : IsFiniteSet(rows[s])
        BY DEF FiniteInv
      <4>5. \A s \in Scopes : IsFiniteSet(rows[s] \union proc[p].tx)
        <5>1. SUFFICES ASSUME NEW s \in Scopes
                       PROVE  IsFiniteSet(rows[s] \union proc[p].tx)
          OBVIOUS
        <5> DEFINE R == rows[s]
                   T == proc[p].tx
        <5>2. IsFiniteSet(R) /\ IsFiniteSet(T)
          BY <4>4
        <5> HIDE DEF R, T
        <5>3. IsFiniteSet(R \union T)
          BY <5>2, FS_Union
        <5> QED
          BY <5>3 DEF R, T
      <4> QED
        BY <4>3, <4>4, <4>5
    <3> QED
      BY <2>1, <3>1, <3>2
         DEF Acts, Locks, Digests, Launches, Works, Persists, Leaves, Finds, Marks
  <2> QED
    BY <2>2, <2>3 DEF FiniteInv
<1> QED
  BY <1>3, <1>4, <1>5, <1>6, <1>7, <1>8, StepClasses
-----------------------------------------------------------------------------
(* One child at a time.                                                    *)

\* Who can act when the processes and the dead stay as they are.
LEMMA SameLiving ==
  ASSUME proc' = proc, dead' = dead, NEW p
  PROVE  Living(p)' <=> Living(p)
  BY DEF Living, At

LEMMA ChildDecides ==
  ASSUME IterationTypeOK, ChildInv, Decides
  PROVE  ChildInv'
<1>1. proc' = proc /\ dead' = dead /\ exit' = exit /\ plan' = plan
      /\ orch'.child = orch.child
  BY DEF Decides, transform
<1>2. Live \subseteq {orch.child}
  BY DEF Live
<1>3. signalled' \subseteq {orch'.child}
  BY <1>1, <1>2 DEF Decides, ChildInv
<1>4. signalled' # {} => exit' = "running"
  BY <1>1 DEF Decides, ChildInv, Live
<1>5. \A p \in Procs : Living(p)' => p = orch'.child /\ exit' = "running"
  BY <1>1, SameLiving DEF ChildInv
<1>6. orch.child \in Procs \union {Verifier}
  BY OrchParts
<1>7. CASE orch'.step = orch.step /\ GoesOn
  BY <1>1, <1>3, <1>4, <1>5, <1>7
     DEF GoesOn, ChildInv, Crashing, Childless, InChild
<1>8. CASE orch'.step = orch.step /\ Fails
  <2>1. exit' = "running" => orch'.child \in signalled' \cup {Verifier}
    BY <1>1, <1>6, <1>8 DEF Fails, Live
  <2> QED
    BY <1>1, <1>3, <1>4, <1>5, <1>8, <2>1 DEF Fails, ChildInv, Childless, InChild
<1>9. CASE orch'.step = orch.step /\ (Observes \/ Begins)
  BY <1>1, <1>3, <1>4, <1>5, <1>9
     DEF Observes, Begins, ChildInv, Childless, InChild
<1>10. CASE orch'.step = orch.step /\ Waits
  <2>1. Phase' = Phase
    BY <1>1, <1>10, SamePhase
  <2> QED
    BY <1>1, <1>3, <1>4, <1>5, <1>10, <2>1 DEF Waits, ChildInv, Childless, InChild
<1>11. CASE Passes \/ Advances
  BY <1>1, <1>3, <1>4, <1>5, <1>11
     DEF Passes, Advances, ChildInv, Childless, InChild
<1>12. CASE Accepts
  BY <1>1, <1>3, <1>4, <1>5, <1>12 DEF Accepts, ChildInv, Childless, InChild
<1> QED
  BY <1>7, <1>8, <1>9, <1>10, <1>11, <1>12 DEF Decides

LEMMA ChildFades ==
  ASSUME IterationTypeOK, ChildInv, Fades
  PROVE  ChildInv'
<1>1. /\ plan' = plan /\ orch' = orch /\ signalled' \subseteq signalled
      /\ signalled' # {} => exit' = "running"
      /\ exit' = "running" => exit = "running" /\ signalled \subseteq signalled'
  BY DEF Fades
<1>2. \A p \in Procs : Living(p)' => Living(p) /\ exit' = exit
  BY DEF Fades
<1>3. Phase' = Phase
  BY <1>1, SamePhase
<1> QED
  BY <1>1, <1>2, <1>3 DEF ChildInv

\* Nobody can act when the next child is started.
LEMMA NobodyLives ==
  ASSUME ChildInv, exit # "running"
  PROVE  signalled = {} /\ \A p \in Procs : ~Living(p)
  BY DEF ChildInv

LEMMA ChildStarts ==
  ASSUME IterationTypeOK, ChildInv, NEW p \in Procs, NEW next \in {"started", "record"},
         Starts(p, next), exit # "running", orch.pc \in {"plan", "spawn"},
         next = "record" => Phase # "verify"
  PROVE  /\ ChildInv'
         /\ \A q \in Procs : Living(q)' => q = p
<1>1. /\ signalled' = {} /\ orch'.child = p /\ exit' = "running" /\ orch'.pc = next
      /\ orch'.outcome = orch.outcome
  BY NobodyLives DEF Starts
<1>2. orch.outcome = "none"
  BY DEF ChildInv
<1>3. \A q \in Procs : Living(q)' => q = p
  <2>1. SUFFICES ASSUME NEW q \in Procs, q # p, Living(q)' PROVE FALSE
    OBVIOUS
  <2>2. proc'[q] = proc[q] /\ dead' = dead
    BY <2>1 DEF Starts
  <2>3. Living(q)
    BY <2>1, <2>2 DEF Living, At
  <2> QED
    BY <2>3, NobodyLives
<1>4. Phase' = Phase
  BY SamePhase DEF Starts
<1>5. orch'.pc \in InChild => (orch'.child = Verifier <=> Phase' = "verify")
  BY <1>1, <1>4, VerifierIsNoProcess DEF InChild
<1>6. orch'.pc \notin Childless \cup {"end"}
  BY <1>1 DEF Childless
<1> QED
  BY <1>1, <1>2, <1>3, <1>5, <1>6 DEF ChildInv

LEMMA ChildSpawns ==
  ASSUME IterationTypeOK, ChildInv, Spawns
  PROVE  ChildInv'
<1>1. CASE SpawnCrashChild
  <2>1. PICK p \in Procs : Starts(p, "started")
    BY <1>1, SpawnCrashChildEffect
  <2>2. orch.pc = "plan" /\ exit # "running"
    BY <1>1, SpawnCrashChildEffect DEF ChildInv, Childless
  <2> QED
    BY <2>1, <2>2, ChildStarts
<1>2. CASE SpawnChild
  <2>1. orch.pc = "spawn" /\ exit # "running"
    BY <1>2, SpawnChildEffect DEF ChildInv, Childless
  <2>2. CASE Phase # "verify"
    <3>1. PICK p \in Procs : Starts(p, "record")
      BY <1>2, <2>2, SpawnChildEffect
    <3> QED
      BY <2>1, <2>2, <3>1, ChildStarts
  <2>3. CASE Phase = "verify"
    <3>1. /\ orch'.child = Verifier /\ orch'.pc = "record" /\ orch'.step = orch.step
          /\ orch'.outcome = orch.outcome /\ exit' = "running"
          /\ UNCHANGED <<transform, plan, marker, signalled, dead, troubles>>
      BY <1>2, <2>3, SpawnChildEffect
    <3>2. \A q \in Procs : ~Living(q)'
      BY <2>1, <3>1, NobodyLives, SameLiving DEF transform
    <3>3. Phase' = "verify"
      BY <2>3, <3>1, SamePhase
    <3>4. signalled' = {}
      BY <2>1, <3>1, NobodyLives
    <3>5. orch.outcome = "none"
      BY <2>1 DEF ChildInv
    <3> QED
      BY <3>1, <3>2, <3>3, <3>4, <3>5 DEF ChildInv, Childless, InChild
  <2> QED
    BY <2>2, <2>3
<1> QED
  BY <1>1, <1>2 DEF Spawns

\* The steps on the database that the orchestrator or others take.
LEMMA ChildWrites ==
  ASSUME IterationTypeOK, ChildInv, Seed \/ CleanUp \/ ForeignWrite
  PROVE  ChildInv'
<1>1. UNCHANGED <<proc, plan, exit, signalled, dead>>
  BY DEF Seed, CleanUp, ForeignWrite, WriteSource
<1>2. \A p \in Procs : Living(p)' <=> Living(p)
  BY <1>1, SameLiving
<1>3. CASE ForeignWrite
  <2>1. orch' = orch
    BY <1>3 DEF ForeignWrite
  <2>2. Phase' = Phase
    BY <1>1, <2>1, SamePhase
  <2> QED
    BY <1>1, <1>2, <2>1, <2>2 DEF ChildInv
<1>4. CASE Seed \/ CleanUp
  <2>1. orch.pc \in {"seed", "cleanup"} /\ exit # "running"
    BY <1>4 DEF Seed, CleanUp, ChildInv, Childless
  <2>2. /\ orch'.pc \in {"plan", "cleaned"} /\ orch'.child = orch.child
        /\ orch'.outcome = orch.outcome
    BY <1>4, ProceedEffect DEF Seed, CleanUp, OrchestratorPCs
  <2> QED
    BY <1>1, <1>2, <2>1, <2>2 DEF ChildInv, InChild
<1> QED
  BY <1>3, <1>4

\* A child that acts is the one the orchestrator waits for.
LEMMA Actor ==
  ASSUME ChildInv, NEW p \in Procs, ChildActs(p)
  PROVE  /\ Living(p) /\ p = orch.child /\ exit = "running"
         /\ \A q \in Procs : Living(q) => q = p
         /\ \A q \in Procs : Living(q)' => q = p /\ proc'[p].pc # "idle" /\ exit' = "running"
         /\ proc'[p].pc = "idle" =>
               exit' = IF Succeeds(p) THEN "success" ELSE "failure"
         /\ proc'[p].pc # "idle" => exit' = "running"
<1>1. Living(p)
  BY DEF ChildActs, Acts, Living
<1>2. p = orch.child /\ exit = "running" /\ \A q \in Procs : Living(q) => q = p
  BY <1>1 DEF ChildInv
<1>3. /\ proc'[p].pc = "idle" => exit' = IF Succeeds(p) THEN "success" ELSE "failure"
      /\ proc'[p].pc # "idle" => exit' = "running"
  BY <1>2 DEF ChildActs, ExitStatus
<1>4. ASSUME NEW q \in Procs, Living(q)'
      PROVE  q = p /\ proc'[p].pc # "idle" /\ exit' = "running"
  <2>1. proc'[q].pc # "idle" /\ q \notin dead
    BY <1>4 DEF Living, At, ChildActs
  <2>2. q # p => Living(q)
    BY <2>1 DEF Living, At, ChildActs, Acts
  <2> QED
    BY <1>2, <1>3, <2>1, <2>2
<1> QED
  BY <1>1, <1>2, <1>3, <1>4

LEMMA ChildActsChild ==
  ASSUME IterationTypeOK, ChildInv, NEW p \in Procs, ChildActs(p)
  PROVE  ChildInv'
<1>1. plan' = plan /\ orch' = orch /\ dead' = dead
  BY DEF ChildActs
<1>2. Phase' = Phase
  BY <1>1, SamePhase
<1>3. p = orch.child /\ exit = "running"
  BY Actor
<1>4. \A q \in Procs : Living(q)' => q = orch'.child /\ exit' = "running"
  BY <1>1, <1>3, Actor
<1>5. CASE proc'[p].pc = "idle"
  <2>1. signalled' = {} /\ exit' # "running"
    BY <1>3, <1>5, Actor DEF ChildActs, ChildInv
  <2> QED
    BY <1>1, <1>2, <1>4, <2>1 DEF ChildInv
<1>6. CASE proc'[p].pc # "idle"
  <2>1. signalled' = signalled /\ exit' = exit
    BY <1>6 DEF ChildActs
  <2> QED
    BY <1>1, <1>2, <1>4, <2>1 DEF ChildInv
<1> QED
  BY <1>5, <1>6

LEMMA ChildStepKept ==
  ASSUME IterationTypeOK, FiniteInv, ChildInv, JobInv, [IterationNext]_iterVars
  PROVE  ChildInv'
  BY StepClasses, ChildDecides, ChildFades, ChildSpawns, ChildWrites, ChildActsChild

-----------------------------------------------------------------------------
(* Every child works for the plan.                                         *)

LEMMA JobStep ==
  ASSUME IterationTypeOK, FiniteInv, ChildInv, JobInv, [IterationNext]_iterVars
  PROVE  JobInv'
<1>1. plan' = plan
  BY StepClasses, PlanNeverChanges
<1> DEFINE Good(r) ==
      r.pc # "idle" =>
         /\ r.pc \in Launching \cup Recovering \cup Launched
         /\ r.job[1] = plan.import /\ r.job[3] = plan.reader
<1>2. \A p \in Procs : Good(proc[p])
  BY DEF JobInv, At
<1>3. SUFFICES \A p \in Procs : Good(proc'[p])
  BY <1>1 DEF JobInv, At
<1>4. Good(IdleProc(SomeKey))
  BY IdleParts
<1>5. CASE Decides \/ Seed \/ CleanUp \/ ForeignWrite
  <2>1. proc' = proc
    BY <1>5 DEF Decides, transform, Seed, CleanUp, ForeignWrite, WriteSource
  <2> HIDE DEF Good
  <2> QED
    BY <1>2, <2>1
<1>6. CASE Fades
  <2> HIDE DEF Good
  <2> QED
    BY <1>2, <1>4, <1>6 DEF Fades
<1>7. CASE Spawns
  <2>1. CASE \E p \in Procs : \E next : Starts(p, next)
    <3>1. PICK p \in Procs : \E next : Starts(p, next)
      BY <2>1
    <3>2. Good(proc'[p])
      BY <3>1 DEF Starts, Launching, Recovering
    <3>3. \A q \in Procs \ {p} : proc'[q] = proc[q]
      BY <3>1 DEF Starts
    <3> HIDE DEF Good
    <3> QED
      BY <1>2, <3>2, <3>3
  <2>2. CASE UNCHANGED transform
    <3> HIDE DEF Good
    <3> QED
      BY <1>2, <2>2 DEF transform
  <2> QED
    BY <1>7, <2>1, <2>2, SpawnCrashChildEffect, SpawnChildEffect DEF Spawns
<1>8. ASSUME NEW p \in Procs, ChildActs(p)
      PROVE  \A q \in Procs : Good(proc'[q])
  <2>1. Acts(p) /\ \A q \in Procs \ {p} : proc'[q] = proc[q]
    BY <1>8 DEF ChildActs, Acts
  <2>2. Good(proc'[p])
    <3>1. proc[p].job[1] = plan.import /\ proc[p].job[3] = plan.reader
      BY <1>2, <2>1 DEF Acts, At
    <3>2. CASE proc'[p].job = proc[p].job
               /\ proc'[p].pc \in Launching \cup Recovering \cup Launched
      BY <3>1, <3>2
    <3>3. CASE Leaves(p) \/ Marks(p)
      BY <1>4, <3>3 DEF Leaves, Marks
    <3>4. CASE Digests(p)
      BY <3>1, <3>4 DEF Digests, Launching, Recovering
    <3>5. CASE Locks(p) \/ Launches(p) \/ Works(p)
      BY <3>2, <3>5 DEF Locks, Launches, Works, Keeps, Launching, Recovering,
         Launched, Executing
    <3>6. CASE Commits(p) \/ Persists(p) \/ Finds(p)
      BY <3>2, <3>6 DEF Commits, Persists, Finds, Keeps, Launching, Recovering,
         Launched, Executing
    <3> QED
      BY <2>1, <3>3, <3>4, <3>5, <3>6 DEF Acts
  <2> HIDE DEF Good
  <2> QED
    BY <1>2, <2>1, <2>2
<1> HIDE DEF Good
<1> QED
  BY <1>5, <1>6, <1>7, <1>8, StepClasses
-----------------------------------------------------------------------------
(* Updates of the job repository.                                          *)

LEMMA StatusUpdate ==
  ASSUME TypeOK, NEW k \in Keys, NEW a, NEW status, SetStatus(k, a, status)
  PROVE  \A l \in Keys : \A b \in 1..MaxAttempts :
            /\ exec'[l][b].position = exec[l][b].position
            /\ l = k /\ b = a => exec'[l][b].status = status
            /\ ~(l = k /\ b = a) => exec'[l][b].status = exec[l][b].status
<1>1. exec \in [Keys -> [1..MaxAttempts -> Execution]]
  BY DEF TypeOK
<1>2. exec' = [exec EXCEPT ![k][a].status = status]
  BY DEF SetStatus
<1>3. SUFFICES ASSUME NEW l \in Keys, NEW b \in 1..MaxAttempts
               PROVE  /\ exec'[l][b].position = exec[l][b].position
                      /\ l = k /\ b = a => exec'[l][b].status = status
                      /\ ~(l = k /\ b = a) => exec'[l][b].status = exec[l][b].status
  OBVIOUS
<1>4. exec[l] \in [1..MaxAttempts -> Execution] /\ exec[l][b] \in Execution
  BY <1>1
<1>5. CASE l = k /\ b = a
  <2>1. exec'[l][b] = [exec[l][b] EXCEPT !.status = status]
    BY <1>1, <1>2, <1>4, <1>5
  <2> QED
    BY <1>4, <1>5, <2>1 DEF Execution
<1>6. CASE ~(l = k /\ b = a)
  <2>1. exec'[l][b] = exec[l][b]
    BY <1>1, <1>2, <1>4, <1>6
  <2> QED
    BY <1>6, <2>1
<1> QED
  BY <1>5, <1>6

SetPosition(k, a, n) == exec' = [exec EXCEPT ![k][a].position = n]

LEMMA PositionUpdate ==
  ASSUME TypeOK, NEW k \in Keys, NEW a, NEW n, SetPosition(k, a, n)
  PROVE  \A l \in Keys : \A b \in 1..MaxAttempts :
            /\ exec'[l][b].status = exec[l][b].status
            /\ l = k /\ b = a => exec'[l][b].position = n
            /\ ~(l = k /\ b = a) => exec'[l][b].position = exec[l][b].position
<1>1. exec \in [Keys -> [1..MaxAttempts -> Execution]]
  BY DEF TypeOK
<1>2. exec' = [exec EXCEPT ![k][a].position = n]
  BY DEF SetPosition
<1>3. SUFFICES ASSUME NEW l \in Keys, NEW b \in 1..MaxAttempts
               PROVE  /\ exec'[l][b].status = exec[l][b].status
                      /\ l = k /\ b = a => exec'[l][b].position = n
                      /\ ~(l = k /\ b = a) => exec'[l][b].position = exec[l][b].position
  OBVIOUS
<1>4. exec[l] \in [1..MaxAttempts -> Execution] /\ exec[l][b] \in Execution
  BY <1>1
<1>5. CASE l = k /\ b = a
  <2>1. exec'[l][b] = [exec[l][b] EXCEPT !.position = n]
    BY <1>1, <1>2, <1>4, <1>5
  <2> QED
    BY <1>4, <1>5, <2>1 DEF Execution
<1>6. CASE ~(l = k /\ b = a)
  <2>1. exec'[l][b] = exec[l][b]
    BY <1>1, <1>2, <1>4, <1>6
  <2> QED
    BY <1>6, <2>1
<1> QED
  BY <1>5, <1>6

LEMMA LaunchUpdate ==
  ASSUME TypeOK, NEW p \in Procs, Launches(p)
  PROVE  /\ proc[p].job \in Keys
         /\ attempts[proc[p].job] + 1 \in 1..MaxAttempts
         /\ attempts'[proc[p].job] = attempts[proc[p].job] + 1
         /\ \A l \in Keys : l # proc[p].job => attempts'[l] = attempts[l]
         /\ exec'[proc[p].job][attempts[proc[p].job] + 1] =
               [status |-> "STARTED", position |-> Inherited(proc[p].job)]
         /\ \A l \in Keys : \A b \in 1..MaxAttempts :
               ~(l = proc[p].job /\ b = attempts[l] + 1) => exec'[l][b] = exec[l][b]
<1> DEFINE k == proc[p].job
           n == attempts[k] + 1
           e == [status |-> "STARTED", position |-> Inherited(k)]
<1>1. exec \in [Keys -> [1..MaxAttempts -> Execution]]
      /\ attempts \in [Keys -> 0..MaxAttempts] /\ MaxAttempts \in Nat
  BY ConstantsAssumption DEF TypeOK
<1>2. k \in Keys
  BY ProcParts
<1>3. attempts[k] < MaxAttempts /\ attempts' = [attempts EXCEPT ![k] = @ + 1]
      /\ exec' = [exec EXCEPT ![k][n] = e]
  BY DEF Launches
<1>4. n \in 1..MaxAttempts
  BY <1>1, <1>2, <1>3
<1>5. attempts'[k] = n /\ \A l \in Keys : l # k => attempts'[l] = attempts[l]
  BY <1>1, <1>2, <1>3
<1> HIDE DEF e
<1>6. exec'[k][n] = e
  BY <1>1, <1>2, <1>3, <1>4
<1>7. ASSUME NEW l \in Keys, NEW b \in 1..MaxAttempts, ~(l = k /\ b = attempts[l] + 1)
      PROVE  exec'[l][b] = exec[l][b]
  <2>1. CASE l # k
    BY <1>1, <1>2, <1>3, <2>1
  <2>2. CASE l = k
    <3>1. b # n
      BY <1>7, <2>2
    <3> HIDE DEF n, k
    <3> QED
      BY <1>1, <1>2, <1>3, <2>2, <3>1
  <2> QED
    BY <2>1, <2>2
<1> QED
  BY <1>2, <1>4, <1>5, <1>6, <1>7 DEF e

-----------------------------------------------------------------------------
(* One execution until the crash is observed.                              *)

LEMMA FirstStep ==
  ASSUME Inv, [IterationNext]_iterVars
  PROVE  FirstInv'
<1> USE DEF Inv
<1>1. CASE Decides
  <2>1. attempts' = attempts /\ proc' = proc /\ dead' = dead
    BY <1>1 DEF Decides, transform
  <2>2. /\ orch'.pc \notin {"seed", "plan"}
        /\ orch'.pc \in Crashing => orch.pc \in Crashing /\ orch'.step = orch.step
    BY <1>1 DEF Decides, GoesOn, Fails, Observes, Begins, Waits, Passes, Accepts,
       Advances, Crashing
  <2> QED
    BY <2>1, <2>2, SameLiving DEF FirstInv
<1>2. CASE Fades
  <2>1. orch' = orch /\ attempts' = attempts
        /\ \A p \in Procs : Living(p)' => Living(p) /\ proc'[p] = proc[p]
    BY <1>2 DEF Fades
  <2> QED
    BY <2>1 DEF FirstInv
<1>3. CASE SpawnCrashChild
  <2>1. PICK p \in Procs : Starts(p, "started") /\ proc'[p].pc = "runLock"
    BY <1>3, SpawnCrashChildEffect
  <2>2. orch.pc = "plan" /\ exit # "running"
    BY <1>3, SpawnCrashChildEffect DEF ChildInv, Childless
  <2>3. \A q \in Procs : Living(q)' => q = p
    BY <2>1, <2>2, ChildStarts
  <2>4. orch'.pc = "started" /\ attempts' = attempts /\ orch'.step = 1
    BY <2>1, <2>2 DEF Starts, FirstInv
  <2>5. \A k \in Keys : attempts'[k] = 0
    BY <2>2, <2>4 DEF FirstInv
  <2> QED
    BY <2>1, <2>3, <2>4, <2>5 DEF FirstInv, Launching
<1>4. CASE SpawnChild
  <2>1. orch'.pc = "record"
    BY <1>4, SpawnChildEffect DEF Starts
  <2> QED
    BY <2>1 DEF FirstInv, Crashing
<1>5. CASE Seed
  <2>1. /\ orch'.pc = "plan" /\ attempts' = attempts /\ orch.pc = "seed"
        /\ orch'.step = orch.step
    BY <1>5, ProceedEffect DEF Seed, WriteSource, OrchestratorPCs
  <2> QED
    BY <2>1 DEF FirstInv, Crashing
<1>6. CASE CleanUp
  <2>1. orch'.pc = "cleaned"
    BY <1>6, ProceedEffect DEF CleanUp, OrchestratorPCs
  <2> QED
    BY <2>1 DEF FirstInv, Crashing
<1>7. CASE ForeignWrite
  <2>1. orch' = orch /\ attempts' = attempts /\ proc' = proc /\ dead' = dead
    BY <1>7 DEF ForeignWrite, WriteSource
  <2> QED
    BY <2>1, SameLiving DEF FirstInv
<1>8. ASSUME NEW p \in Procs, ChildActs(p)
      PROVE  FirstInv'
  <2>1. orch' = orch /\ Living(p) /\ exit = "running"
    BY <1>8, Actor DEF ChildActs
  <2>2. \A q \in Procs : Living(q)' => q = p /\ proc'[p].pc # "idle"
    BY <1>8, Actor
  <2>3. orch.pc \notin {"seed", "plan"}
    BY <2>1 DEF ChildInv, Childless
  <2>4. CASE orch.pc \notin Crashing
    BY <2>1, <2>3, <2>4 DEF FirstInv
  <2>5. CASE orch.pc \in Crashing
    <3>1. /\ \A k \in Keys : attempts[k] <= 1
          /\ proc[p].pc \in Launching \cup Launched
          /\ proc[p].pc \in Launching => \A k \in Keys : attempts[k] = 0
      BY <2>1, <2>5 DEF FirstInv
    <3>2. Acts(p) /\ TypeOK
      BY <1>8, TransformTypes DEF ChildActs
    <3>3. CASE Launches(p)
      <4>1. \A k \in Keys : attempts[k] = 0
        BY <3>1, <3>3 DEF Launches, At, Launching
      <4>2. \A k \in Keys : attempts'[k] <= 1
        <5>1. attempts'[proc[p].job] = attempts[proc[p].job] + 1 /\ proc[p].job \in Keys
              /\ \A l \in Keys : l # proc[p].job => attempts'[l] = attempts[l]
          BY <3>2, <3>3, LaunchUpdate
        <5>2. attempts'[proc[p].job] = 1
          BY <4>1, <5>1
        <5> QED
          BY <4>1, <5>1, <5>2
      <4>3. proc'[p].pc = "chunk"
        BY <3>3 DEF Launches
      <4> QED
        BY <2>1, <2>2, <2>3, <4>2, <4>3 DEF FirstInv, Launching, Launched, Executing
    <3>4. CASE Locks(p) \/ Digests(p)
      <4>1. attempts' = attempts /\ proc[p].pc \in Launching /\ proc'[p].pc \in Launching
        BY <3>1, <3>4 DEF Locks, Digests, Launching, Launched, Executing
      <4> QED
        BY <2>1, <2>2, <2>3, <3>1, <4>1 DEF FirstInv
    <3>5. CASE Works(p) \/ Commits(p) \/ Persists(p)
      <4>1. attempts' = attempts /\ proc'[p].pc \in Launched
        BY <3>5 DEF Works, Commits, Persists, Launched, Executing
      <4>2. proc'[p].pc \notin Launching
        BY <4>1 DEF Launching, Launched, Executing
      <4> QED
        BY <2>1, <2>2, <2>3, <3>1, <4>1, <4>2 DEF FirstInv
    <3>6. CASE Leaves(p) \/ Marks(p)
      <4>1. attempts' = attempts /\ proc'[p].pc = "idle"
        BY <3>6, IdleParts DEF Leaves, Marks
      <4> QED
        BY <2>1, <2>2, <2>3, <3>1, <4>1 DEF FirstInv
    <3>7. CASE Finds(p)
      BY <3>1, <3>7 DEF Finds, At, Launching, Launched, Executing
    <3> QED
      BY <3>2, <3>3, <3>4, <3>5, <3>6, <3>7 DEF Acts
  <2> QED
    BY <2>4, <2>5
<1> QED
  BY <1>1, <1>2, <1>3, <1>4, <1>5, <1>6, <1>7, <1>8, StepClasses DEF Spawns
-----------------------------------------------------------------------------
(* The crashed execution stays as it was observed.                         *)

\* Nothing durable changes, and whoever can act could act before or has not
\* launched anything.
LEMMA CrashedStays ==
  ASSUME NEW k \in Keys, Crashed(k), plan' = plan, attempts' = attempts, exec' = exec,
         \A p \in Procs : Living(p)' =>
            (Living(p) /\ proc'[p] = proc[p]) \/ proc'[p].pc \notin Launched
  PROVE  Crashed(k)'
<1>1. ExpectedRows' = ExpectedRows
  BY SamePlan
<1> QED
  BY <1>1 DEF Crashed

LEMMA CrashedObserved ==
  ASSUME Inv, Decides, Observes
  PROVE  \E k \in Keys : Crashed(k)
<1> USE DEF Inv
<1>1. PICK k \in Keys, a \in 1..MaxAttempts : Observable(k, a) /\ IsCrashState(exec[k][a])
  BY DEF Observes
<1>2. k[1] = plan.import /\ a = attempts[k] /\ a > 0
  BY <1>1 DEF Observable
<1>3. a = 1
  <2>1. attempts[k] <= 1
    BY DEF Observes, FirstInv, Crashing
  <2> QED
    BY <1>2, <2>1
<1>4. exec[k][1].status \in InProgress /\ exec[k][1].position = ExpectedRows
  BY <1>1, <1>3 DEF IsCrashState
<1>5. \A p \in Procs : ~Living(p)
  BY NobodyLives DEF Observes, ChildInv, Childless
<1>6. Crashed(k)
  BY <1>2, <1>4, <1>5 DEF Crashed
<1> QED
  BY <1>6

\* A living child works on a later execution, or does not touch any.
LEMMA CrashedActs ==
  ASSUME Inv, NEW k \in Keys, Crashed(k), NEW p \in Procs, ChildActs(p)
  PROVE  Crashed(k)'
<1> USE DEF Inv
<1>1. TypeOK /\ Acts(p) /\ plan' = plan /\ Living(p)
  BY TransformTypes, Actor DEF ChildActs
<1>2. \A q \in Procs : Living(q)' => q = p /\ proc'[p].pc # "idle"
  BY Actor
<1>3. ExpectedRows' = ExpectedRows
  BY <1>1, SamePlan
<1>4. proc[p].job \in Keys /\ attempts[k] \in 0..MaxAttempts /\ MaxAttempts \in Nat
  BY <1>1, ProcParts, LatestType, ConstantsAssumption
<1>5. 1 \in 1..MaxAttempts
  BY <1>4 DEF Crashed
<1>6. CASE Locks(p) \/ Digests(p) \/ Leaves(p) \/ Finds(p)
  <2>1. attempts' = attempts /\ exec' = exec
    BY <1>6 DEF Locks, Digests, Leaves, Finds
  <2>2. proc'[p].pc \notin Launched
    BY <1>6, IdleParts DEF Locks, Digests, Leaves, Finds, Launched, Executing
  <2> QED
    BY <1>1, <1>2, <2>1, <2>2, CrashedStays
<1>7. CASE Launches(p)
  <2>1. proc'[p].job = proc[p].job /\ proc'[p].attempt = attempts[proc[p].job] + 1
    BY <1>7 DEF Launches
  <2>2. attempts[k] > 0
    BY DEF Crashed
  <2>3. attempts'[k] > 0
    <3>1. attempts'[k] = attempts[k] + 1 \/ attempts'[k] = attempts[k]
      BY <1>1, <1>7, LaunchUpdate
    <3> QED
      BY <1>4, <2>2, <3>1
  <2>4. ~(k = proc[p].job /\ 1 = attempts[k] + 1)
    BY <1>4, <2>2
  <2>5. exec'[k][1] = exec[k][1]
    BY <1>1, <1>5, <1>7, <2>4, LaunchUpdate
  <2>6. proc'[p].job = k => proc'[p].attempt # 1
    BY <2>1, <2>4
  <2> QED
    BY <1>1, <1>2, <1>3, <2>3, <2>5, <2>6 DEF Crashed
<1>8. ASSUME Keeps(p), proc[p].pc \in Launched
      PROVE  /\ ~(proc[p].job = k /\ proc[p].attempt = 1)
             /\ \A q \in Procs : Living(q)' /\ proc'[q].job = k => proc'[q].attempt # 1
  BY <1>1, <1>2, <1>8 DEF Crashed, Keeps
<1>9. CASE Works(p)
  <2>1. Keeps(p) /\ proc[p].pc \in Launched /\ attempts' = attempts /\ exec' = exec
    BY <1>9 DEF Works, Launched, Executing
  <2> QED
    BY <1>1, <1>3, <1>8, <2>1 DEF Crashed
<1>10. CASE Commits(p)
  <2>1. Keeps(p) /\ proc[p].pc \in Launched /\ attempts' = attempts
    BY <1>10 DEF Commits, At, Launched, Executing
  <2> DEFINE n == exec[proc[p].job][proc[p].attempt].position + proc[p].reads
  <2>2. SetPosition(proc[p].job, proc[p].attempt, n)
    BY <1>10 DEF Commits, SetPosition
  <2> HIDE DEF n
  <2>3. /\ exec'[k][1].status = exec[k][1].status
        /\ exec'[k][1].position = exec[k][1].position
    <3>1. \A l \in Keys : \A b \in 1..MaxAttempts :
             /\ exec'[l][b].status = exec[l][b].status
             /\ ~(l = proc[p].job /\ b = proc[p].attempt)
                   => exec'[l][b].position = exec[l][b].position
      BY <1>1, <1>4, <2>2, PositionUpdate
    <3>2. ~(proc[p].job = k /\ proc[p].attempt = 1)
      BY <1>8, <2>1
    <3> QED
      BY <1>5, <3>1, <3>2
  <2> QED
    BY <1>1, <1>3, <1>8, <2>1, <2>3 DEF Crashed
<1>11. CASE Persists(p)
  <2>1. Keeps(p) /\ proc[p].pc \in Launched /\ attempts' = attempts
    BY <1>11 DEF Persists, Launched
  <2>2. PICK status : SetStatus(proc[p].job, proc[p].attempt, status)
    BY <1>11 DEF Persists
  <2>3. /\ exec'[k][1].status = exec[k][1].status
        /\ exec'[k][1].position = exec[k][1].position
    BY <1>1, <1>4, <1>5, <1>8, <2>1, <2>2, StatusUpdate
  <2> QED
    BY <1>1, <1>3, <1>8, <2>1, <2>3 DEF Crashed
<1>12. CASE Marks(p)
  <2>1. attempts' = attempts /\ proc'[p].pc = "idle"
    BY <1>12, IdleParts DEF Marks
  <2>2. /\ exec'[k][1].status \in {exec[k][1].status, "FAILED"}
        /\ exec'[k][1].position = exec[k][1].position
    <3>1. CASE SetStatus(proc[p].job, proc[p].attempt, "FAILED")
      BY <1>1, <1>4, <1>5, <3>1, StatusUpdate
    <3>2. CASE exec' = exec
      BY <3>2
    <3> QED
      BY <1>12, <3>1, <3>2 DEF Marks
  <2> QED
    BY <1>1, <1>2, <1>3, <2>1, <2>2 DEF Crashed
<1> QED
  BY <1>1, <1>6, <1>7, <1>9, <1>10, <1>11, <1>12 DEF Acts

LEMMA PastStep ==
  ASSUME Inv, [IterationNext]_iterVars
  PROVE  PastInv'
<1> USE DEF Inv
<1>1. plan' = plan /\ Clean' = Clean
  BY StepClasses, PlanNeverChanges, SamePlan
<1>2. SUFFICES ASSUME ~Clean, Past' PROVE \E k \in Keys : Crashed(k)'
  BY <1>1 DEF PastInv
<1>3. ASSUME Past PROVE \E k \in Keys : Crashed(k)
  BY <1>2, <1>3 DEF PastInv
<1>4. CASE Decides
  <2>1. attempts' = attempts /\ exec' = exec /\ proc' = proc /\ dead' = dead
    BY <1>4 DEF Decides, transform
  <2>2. Past \/ Observes
    BY <1>2, <1>4 DEF Past, Decides, GoesOn, Fails, Begins, Waits, Passes, Accepts,
       Advances, Crashing, InPhase
  <2>3. PICK k \in Keys : Crashed(k)
    BY <1>3, <1>4, <2>2, CrashedObserved
  <2> QED
    BY <1>1, <2>1, <2>3, SameLiving, CrashedStays
<1>5. CASE Fades
  <2>1. orch' = orch /\ attempts' = attempts /\ exec' = exec
        /\ \A p \in Procs : Living(p)' => Living(p) /\ proc'[p] = proc[p]
    BY <1>5 DEF Fades
  <2>2. PICK k \in Keys : Crashed(k)
    BY <1>2, <1>3, <2>1 DEF Past
  <2> QED
    BY <1>1, <2>1, <2>2, CrashedStays
<1>6. CASE SpawnCrashChild
  <2>1. orch'.pc = "started" /\ orch'.outcome = orch.outcome /\ orch.pc = "plan"
    BY <1>6, SpawnCrashChildEffect DEF Starts
  <2> QED
    BY <1>2, <2>1 DEF Past, InPhase, ChildInv
<1>7. CASE SpawnChild
  <2>1. orch.pc = "spawn" /\ exit # "running"
    BY <1>7, SpawnChildEffect DEF ChildInv, Childless
  <2>2. PICK k \in Keys : Crashed(k)
    BY <1>3, <2>1 DEF Past, InPhase
  <2>3. CASE \E p \in Procs : Starts(p, "record") /\ Phase # "verify"
    <3>1. PICK p \in Procs : Starts(p, "record") /\ Phase # "verify"
      BY <2>3
    <3>2. \A q \in Procs : Living(q)' => q = p
      BY <2>1, <3>1, ChildStarts
    <3>3. attempts' = attempts /\ exec' = exec /\ proc'[p].pc \notin Launched
      BY <3>1 DEF Starts, Launched, Executing
    <3> QED
      BY <1>1, <2>2, <3>2, <3>3, CrashedStays
  <2>4. CASE UNCHANGED transform /\ dead' = dead
    BY <1>1, <2>2, <2>4, SameLiving, CrashedStays DEF transform
  <2> QED
    BY <1>7, <2>3, <2>4, SpawnChildEffect
<1>8. CASE Seed
  <2>1. orch'.pc = "plan" /\ orch'.outcome = orch.outcome /\ orch.pc = "seed"
    BY <1>8, ProceedEffect DEF Seed, OrchestratorPCs
  <2> QED
    BY <1>2, <2>1 DEF Past, InPhase, ChildInv
<1>9. CASE CleanUp
  <2>1. attempts' = attempts /\ exec' = exec /\ proc' = proc /\ dead' = dead
        /\ orch.pc = "cleanup"
    BY <1>9 DEF CleanUp
  <2>2. PICK k \in Keys : Crashed(k)
    BY <1>3, <2>1 DEF Past
  <2> QED
    BY <1>1, <2>1, <2>2, SameLiving, CrashedStays
<1>10. CASE ForeignWrite
  <2>1. attempts' = attempts /\ exec' = exec /\ proc' = proc /\ dead' = dead
        /\ orch' = orch
    BY <1>10 DEF ForeignWrite, WriteSource
  <2>2. PICK k \in Keys : Crashed(k)
    BY <1>2, <1>3, <2>1 DEF Past
  <2> QED
    BY <1>1, <2>1, <2>2, SameLiving, CrashedStays
<1>11. ASSUME NEW p \in Procs, ChildActs(p)
       PROVE  \E k \in Keys : Crashed(k)'
  <2>1. orch' = orch
    BY <1>11 DEF ChildActs
  <2>2. PICK k \in Keys : Crashed(k)
    BY <1>2, <1>3, <2>1 DEF Past
  <2> QED
    BY <1>11, <2>2, CrashedActs
<1> QED
  BY <1>4, <1>5, <1>6, <1>7, <1>8, <1>9, <1>10, <1>11, StepClasses DEF Spawns

-----------------------------------------------------------------------------
(* The cleanup.                                                            *)

LEMMA CleanedStep ==
  ASSUME Inv, [IterationNext]_iterVars
  PROVE  CleanedInv'
<1> USE DEF Inv
<1>1. plan' = plan
  BY StepClasses, PlanNeverChanges
<1>2. ASSUME rows' = rows, orch'.pc = "cleaned" => orch.pc = "cleaned",
             orch'.outcome = "accepted" => orch.pc = "cleaned" \/ orch.outcome = "accepted"
      PROVE  CleanedInv'
  BY <1>1, <1>2 DEF CleanedInv
<1>3. CASE Decides
  <2>1. rows' = rows
    BY <1>3 DEF Decides, transform
  <2>2. /\ orch'.pc # "cleaned"
        /\ orch'.outcome = "accepted" => orch.pc = "cleaned" \/ orch.outcome = "accepted"
    BY <1>3 DEF Decides, GoesOn, Fails, Observes, Begins, Waits, Passes, Accepts,
       Advances, Crashing
  <2> QED
    BY <1>2, <2>1, <2>2
<1>4. CASE Fades
  BY <1>2, <1>4 DEF Fades
<1>5. CASE Spawns
  <2>1. /\ orch'.pc \in {"started", "record"} /\ orch'.outcome = orch.outcome
        /\ rows' = rows
    BY <1>5, SpawnCrashChildEffect, SpawnChildEffect DEF Spawns, Starts, transform
  <2> QED
    BY <1>2, <2>1
<1>6. CASE Seed
  <2>1. orch'.pc = "plan" /\ orch'.outcome = orch.outcome /\ rows' = rows
    BY <1>6, ProceedEffect DEF Seed, WriteSource, OrchestratorPCs
  <2> QED
    BY <1>2, <2>1
<1>7. CASE CleanUp
  <2>1. \A s \in Scopes : s[1] = plan.import => rows'[s] = {}
    BY <1>7 DEF CleanUp
  <2> QED
    BY <1>1, <2>1 DEF CleanedInv
<1>8. CASE ForeignWrite
  BY <1>2, <1>8 DEF ForeignWrite, WriteSource
<1>9. ASSUME NEW p \in Procs, ChildActs(p)
      PROVE  CleanedInv'
  <2>1. orch' = orch /\ exit = "running"
    BY <1>9, Actor DEF ChildActs
  <2>2. orch.pc # "cleaned" /\ orch.outcome # "accepted"
    BY <2>1 DEF ChildInv, Childless
  <2> QED
    BY <2>1, <2>2 DEF CleanedInv
<1> QED
  BY <1>3, <1>4, <1>5, <1>6, <1>7, <1>8, <1>9, StepClasses

-----------------------------------------------------------------------------
(* The source, while nobody else writes it.                                *)

LEMMA SourceStep ==
  ASSUME Inv, [IterationNext]_iterVars
  PROVE  SourceInv'
<1> USE DEF Inv
<1>1. plan' = plan /\ Instance' = Instance
  BY StepClasses, PlanNeverChanges, SamePlan
<1> DEFINE Sound(r) ==
      /\ r.pc \in Identified => r.job = Instance
      /\ r.pc \in Executing => r.snapshot = Canonical
<1>2. ASSUME "source" \notin troubles
      PROVE  /\ orch.pc # "seed" => source = Canonical
             /\ \A k \in Keys : attempts[k] > 0 => k = Instance
             /\ \A p \in Procs : Sound(proc[p])
  BY <1>2 DEF SourceInv
<1>3. SUFFICES
        /\ orch'.pc = "seed" => \A p \in Procs : proc'[p].pc = "idle"
        /\ "source" \notin troubles' =>
              /\ orch'.pc # "seed" => source' = Canonical
              /\ \A k \in Keys : attempts'[k] > 0 => k = Instance
              /\ \A p \in Procs : Sound(proc'[p])
  BY <1>1 DEF SourceInv, At
<1>4. Sound(IdleProc(SomeKey))
  BY IdleParts DEF Identified, Launched, Executing
<1>5. orch.pc = "seed" => \A p \in Procs : proc[p].pc = "idle"
  BY DEF SourceInv, At
<1> HIDE DEF Sound
<1>6. CASE Decides
  <2>1. /\ source' = source /\ attempts' = attempts /\ proc' = proc
        /\ troubles \subseteq troubles'
    BY <1>6 DEF Decides, transform
  <2>2. orch'.pc # "seed" /\ orch.pc # "seed"
    BY <1>6 DEF Decides, GoesOn, Fails, Observes, Begins, Waits, Passes, Accepts,
       Advances, Crashing
  <2> QED
    BY <1>2, <2>1, <2>2
<1>7. CASE Fades
  <2>1. /\ source' = source /\ attempts' = attempts /\ orch' = orch
        /\ troubles \subseteq troubles'
        /\ \A p \in Procs : proc'[p] = proc[p] \/ proc'[p] = IdleProc(SomeKey)
    BY <1>7 DEF Fades
  <2> QED
    BY <1>2, <1>4, <1>5, <2>1, IdleParts
<1>8. CASE Spawns
  <2>1. orch.pc \in {"plan", "spawn"} /\ orch'.pc \in {"started", "record"}
    BY <1>8, SpawnCrashChildEffect, SpawnChildEffect DEF Spawns, Starts
  <2>2. CASE \E p \in Procs : \E next : Starts(p, next)
    <3>1. PICK p \in Procs : \E next : Starts(p, next)
      BY <2>2
    <3>2. /\ source' = source /\ attempts' = attempts /\ troubles' = troubles
          /\ \A q \in Procs \ {p} : proc'[q] = proc[q]
          /\ proc'[p].pc \in {"runLock", "recoverLock"}
      BY <3>1 DEF Starts
    <3>3. Sound(proc'[p])
      BY <3>2 DEF Sound, Identified, Launched, Executing
    <3> QED
      BY <1>2, <2>1, <3>2, <3>3
  <2>3. CASE UNCHANGED transform /\ troubles' = troubles
    BY <1>2, <2>1, <2>3 DEF transform
  <2> QED
    BY <1>8, <2>2, <2>3, SpawnCrashChildEffect, SpawnChildEffect DEF Spawns
<1>9. CASE Seed
  <2>1. /\ orch'.pc = "plan" /\ source' = Canonical /\ attempts' = attempts
        /\ proc' = proc /\ troubles' = troubles
    BY <1>9, ProceedEffect DEF Seed, WriteSource, OrchestratorPCs
  <2> QED
    BY <1>2, <2>1
<1>10. CASE CleanUp
  <2>1. /\ orch'.pc = "cleaned" /\ orch.pc = "cleanup" /\ source' = source
        /\ attempts' = attempts /\ proc' = proc /\ troubles' = troubles
    BY <1>10, ProceedEffect DEF CleanUp, OrchestratorPCs
  <2> QED
    BY <1>2, <2>1
<1>11. CASE ForeignWrite
  <2>1. "source" \in troubles' /\ orch' = orch /\ orch.pc # "seed"
    BY <1>11 DEF ForeignWrite, Trouble
  <2> QED
    BY <2>1
<1>12. ASSUME NEW p \in Procs, ChildActs(p), "source" \notin troubles'
       PROVE  /\ source' = Canonical
              /\ \A k \in Keys : attempts'[k] > 0 => k = Instance
              /\ \A q \in Procs : Sound(proc'[q])
  <2>1. exit = "running" /\ orch' = orch /\ "source" \notin troubles /\ TypeOK
        /\ Acts(p) /\ source' = source
    BY <1>12, Actor, TransformTypes DEF ChildActs, Acts
  <2>2. orch.pc # "seed"
    BY <2>1 DEF ChildInv, Childless
  <2>3. /\ source = Canonical /\ \A k \in Keys : attempts[k] > 0 => k = Instance
        /\ \A q \in Procs : Sound(proc[q])
    BY <1>2, <2>1, <2>2
  <2>4. \A k \in Keys : attempts'[k] > 0 => k = Instance
    <3>1. CASE attempts' = attempts
      BY <2>3, <3>1
    <3>2. CASE Launches(p)
      <4>1. proc[p].job = Instance
        BY <2>3, <3>2 DEF Sound, Launches, At, Identified
      <4> QED
        BY <2>1, <2>3, <3>2, <4>1, LaunchUpdate
    <3> QED
      BY <2>1, <3>1, <3>2
         DEF Acts, Locks, Digests, Works, Commits, Persists, Leaves, Finds, Marks
  <2>5. Sound(proc'[p])
    <3>1. Sound(proc[p])
      BY <2>3
    <3>2. CASE Leaves(p) \/ Marks(p)
      BY <1>4, <3>2 DEF Leaves, Marks
    <3>3. CASE Digests(p)
      <4>1. proc[p].job[1] = plan.import /\ proc[p].job[3] = plan.reader
        BY <2>1 DEF Acts, JobInv
      <4> QED
        BY <2>3, <3>3, <4>1 DEF Digests, Sound, Instance, Executing
    <3>4. CASE Locks(p)
      BY <3>1, <3>4 DEF Locks, Keeps, Sound, Identified, Launched, Executing
    <3>5. CASE Launches(p)
      BY <2>3, <3>1, <3>5 DEF Launches, At, Sound, Identified
    <3>6. CASE Works(p) \/ Commits(p) \/ Persists(p)
      <4>1. Keeps(p) /\ proc[p].pc \in Executing
        BY <3>6 DEF Works, Commits, Persists, At, Executing
      <4>2. proc[p].job = Instance /\ proc[p].snapshot = Canonical
        BY <3>1, <4>1 DEF Sound, Identified, Launched
      <4> QED
        BY <4>1, <4>2 DEF Keeps, Sound
    <3>7. CASE Finds(p)
      BY <3>1, <3>7 DEF Finds, At, Sound, Identified, Executing
    <3> QED
      BY <2>1, <3>2, <3>3, <3>4, <3>5, <3>6, <3>7 DEF Acts
  <2> QED
    BY <2>1, <2>3, <2>4, <2>5 DEF Acts
<1>13. ASSUME NEW p \in Procs, ChildActs(p)
       PROVE  orch'.pc # "seed"
  BY <1>13, Actor DEF ChildActs, ChildInv, Childless
<1> QED
  BY <1>6, <1>7, <1>8, <1>9, <1>10, <1>11, <1>12, <1>13, StepClasses
-----------------------------------------------------------------------------
(* The phases, while nobody else writes the source.                        *)

LEMMA InstanceIsKey ==
  ASSUME IterationTypeOK
  PROVE  Instance \in Keys
  BY IterationAssumption DEF IterationTypeOK, Instance, Keys

\* The planned boundary lies inside the canonical source.
LEMMA ExpectedBound ==
  ExpectedRows \in Nat /\ ExpectedRows <= RowCount[Canonical] /\ RowCount[Canonical] \in Nat
<1>1. /\ CrashChunk \in Nat \ {0} /\ ChunkSize \in Nat \ {0}
      /\ RowCount[Canonical] \in Nat /\ RowCount[Canonical] > CrashChunk * ChunkSize
  BY IterationAssumption, ConstantsAssumption
<1>2. ExpectedCommits \in Nat /\ ExpectedCommits <= CrashChunk
  BY <1>1 DEF ExpectedCommits
<1>3. \A n, m, c \in Nat : n <= m => n * c \in Nat /\ m * c \in Nat /\ n * c <= m * c
  OBVIOUS
<1>4. ExpectedCommits * ChunkSize \in Nat
      /\ ExpectedCommits * ChunkSize <= CrashChunk * ChunkSize
      /\ CrashChunk * ChunkSize \in Nat
  BY <1>1, <1>2, <1>3
<1> HIDE DEF ExpectedCommits
<1> QED
  BY <1>1, <1>4 DEF ExpectedRows

LEMMA CrashedInstance ==
  ASSUME Inv, "source" \notin troubles, ~Clean, Past
  PROVE  Crashed(Instance)
<1>1. PICK k \in Keys : Crashed(k)
  BY DEF Inv, PastInv
<1>2. k = Instance
  BY <1>1 DEF Inv, SourceInv, Crashed
<1> QED
  BY <1>1, <1>2

\* What the observation finds, when there is one instance only.
LEMMA ObservedInstance ==
  ASSUME Inv, "source" \notin troubles, Observes
  PROVE  attempts[Instance] = 1 /\ exec[Instance][1].status \in InProgress
<1> USE DEF Inv
<1>1. PICK k \in Keys, a \in 1..MaxAttempts : Observable(k, a) /\ IsCrashState(exec[k][a])
  BY DEF Observes
<1>2. a = attempts[k] /\ a > 0 /\ k = Instance
  BY <1>1 DEF Observable, SourceInv
<1>3. attempts[k] <= 1
  BY DEF Observes, FirstInv, Crashing
<1>4. a = 1
  BY <1>2, <1>3
<1> QED
  BY <1>1, <1>2, <1>4 DEF IsCrashState

\* The orchestrator's decisions.
LEMMA PhaseKeptByDecision ==
  ASSUME Inv, Decides, "source" \notin troubles'
  PROVE  PhaseInv'
<1> USE DEF Inv
<1>1. /\ UNCHANGED <<proc, attempts, exec, plan, exit, dead>> /\ orch'.child = orch.child
      /\ "source" \notin troubles
  BY DEF Decides, transform
<1>2. Clean' = Clean /\ Instance' = Instance
  BY <1>1, SamePlan
<1>3. RelaunchInv /\ RecoverInv /\ ContinueInv /\ VerifyInv
  BY <1>1 DEF PhaseInv
<1>4. \A p \in Procs : Living(p)' <=> Living(p)
  BY <1>1, SameLiving
<1>5. CASE GoesOn \/ Fails \/ Begins
  <2>1. orch'.outcome # "accepted"
    BY <1>5 DEF GoesOn, Fails, Begins, ChildInv, Crashing
  <2>2. Clean' \/ orch'.pc \notin InPhase \cup {"cleanup", "cleaned"}
    BY <1>2, <1>5 DEF GoesOn, Fails, Begins, Crashing, InPhase
  <2> QED
    BY <2>1, <2>2
       DEF PhaseInv, RelaunchInv, RecoverInv, ContinueInv, VerifyInv, In, Finishing
<1>6. CASE orch'.step = orch.step /\ Observes
  <2>1. orch'.step = 1 /\ orch'.pc = "spawn" /\ orch'.outcome # "accepted"
    BY <1>6 DEF Observes, FirstInv, Crashing, ChildInv
  <2>2. attempts'[Instance'] = 1 /\ exec'[Instance'][1].status \in InProgress
    BY <1>1, <1>2, <1>6, ObservedInstance
  <2>3. \A p \in Procs : ~Living(p)'
    BY <1>4, <1>6, NobodyLives DEF Observes, ChildInv, Childless
  <2> QED
    BY <2>1, <2>2, <2>3
       DEF PhaseInv, RelaunchInv, RecoverInv, ContinueInv, VerifyInv, In, Finishing
<1>7. CASE orch'.step = orch.step /\ Waits
  <2>1. orch.pc = "record" /\ orch'.pc = "wait" /\ orch'.outcome # "accepted"
    BY <1>7 DEF Waits, ChildInv
  <2>2. \A n : In(n)' => In(n)
    BY <1>2, <1>7, <2>1 DEF In, InPhase
  <2>3. RelaunchInv'
    BY <1>1, <1>2, <1>3, <1>4, <2>2 DEF RelaunchInv
  <2>4. RecoverInv'
    BY <1>1, <1>2, <1>3, <1>4, <2>1, <2>2 DEF RecoverInv, At
  <2>5. ContinueInv'
    BY <1>1, <1>2, <1>3, <1>4, <2>1, <2>2 DEF ContinueInv, Continuing, Delivered, At
  <2>6. VerifyInv'
    BY <1>1, <1>2, <1>3, <2>1, <2>2 DEF VerifyInv, Delivered, Finishing
  <2> QED
    BY <2>3, <2>4, <2>5, <2>6 DEF PhaseInv
<1>8. CASE Advances
  <2>1. /\ orch.pc = "wait" /\ exit # "running" /\ AsRequired /\ Phase # "verify"
        /\ orch'.pc = "spawn" /\ orch'.step = orch.step + 1 /\ orch'.outcome # "accepted"
    BY <1>8 DEF Advances, ChildInv
  <2>2. \A p \in Procs : ~Living(p)'
    BY <1>4, <2>1, NobodyLives
  <2>3. CASE Clean
    BY <1>2, <2>3 DEF PhaseInv, RelaunchInv, RecoverInv, ContinueInv, VerifyInv, In
  <2>4. CASE ~Clean /\ orch.step = 1
    <3>1. attempts[Instance] = 1
      BY <1>3, <2>1, <2>4 DEF RelaunchInv, In, InPhase
    <3> QED
      BY <1>1, <1>2, <2>1, <2>2, <2>4, <3>1
         DEF PhaseInv, RelaunchInv, RecoverInv, ContinueInv, VerifyInv, In, Finishing
  <2>5. CASE ~Clean /\ orch.step = 2
    <3>1. exit = "success"
      BY <2>1, <2>5, PhaseNumbers DEF AsRequired
    <3>2. attempts[Instance] = 1 /\ exec[Instance][1].status = "FAILED"
      BY <1>3, <2>1, <2>5, <3>1 DEF RecoverInv, In, InPhase
    <3> QED
      BY <1>1, <1>2, <2>1, <2>2, <2>5, <3>2
         DEF PhaseInv, RelaunchInv, RecoverInv, ContinueInv, VerifyInv, In, Finishing
  <2>6. CASE ~Clean /\ orch.step = 3
    <3>1. exit = "success"
      BY <2>1, <2>6, PhaseNumbers DEF AsRequired
    <3>2. Delivered /\ exec[Instance][1].status = "FAILED"
      BY <1>3, <2>1, <2>6, <3>1 DEF ContinueInv, In, InPhase
    <3>3. Delivered'
      BY <1>1, <1>2, <3>2 DEF Delivered
    <3> QED
      BY <1>1, <1>2, <2>1, <2>6, <3>2, <3>3
         DEF PhaseInv, RelaunchInv, RecoverInv, ContinueInv, VerifyInv, In, Finishing
  <2> QED
    BY <2>1, <2>3, <2>4, <2>5, <2>6, PhaseNumbers
<1>9. CASE Passes \/ Accepts
  <2>1. orch'.pc \notin InPhase
    BY <1>9 DEF Passes, Accepts, InPhase
  <2>2. CASE Clean
    BY <1>2, <2>2 DEF PhaseInv, RelaunchInv, RecoverInv, ContinueInv, VerifyInv, In
  <2>3. CASE ~Clean
    <3>1. In(4) \/ Finishing
      BY <1>9, <2>3, PhaseNumbers DEF Passes, Accepts, In, InPhase, Finishing
    <3>2. exec[Instance][1].status = "FAILED" /\ Delivered
      BY <1>3, <2>3, <3>1 DEF VerifyInv
    <3>3. exec'[Instance'][1].status = "FAILED" /\ Delivered'
      BY <1>1, <1>2, <3>2 DEF Delivered
    <3> QED
      BY <2>1, <3>3 DEF PhaseInv, RelaunchInv, RecoverInv, ContinueInv, VerifyInv, In
  <2> QED
    BY <2>2, <2>3
<1> QED
  BY <1>5, <1>6, <1>7, <1>8, <1>9 DEF Decides

LEMMA PhaseKeptByFading ==
  ASSUME Inv, Fades, "source" \notin troubles'
  PROVE  PhaseInv'
<1> USE DEF Inv
<1>1. /\ UNCHANGED <<attempts, exec, plan, orch>> /\ "source" \notin troubles
      /\ \A p \in Procs : Living(p)' => Living(p) /\ proc'[p] = proc[p] /\ exit' = exit
      /\ exit' = "success" => exit = "success" \/ orch.child = Verifier
  BY DEF Fades
<1>2. Clean' = Clean /\ Instance' = Instance /\ Delivered' = Delivered
  BY <1>1, SamePlan DEF Delivered
<1>3. RelaunchInv /\ RecoverInv /\ ContinueInv /\ VerifyInv
  BY <1>1 DEF PhaseInv
<1>4. \A n : In(n)' => In(n)
  BY <1>1, <1>2 DEF In
<1>5. ASSUME In(2) \/ In(3), orch.pc # "spawn", exit' = "success"
      PROVE  exit = "success"
  <2>1. orch.pc \in InChild /\ Phase # "verify"
    BY <1>5, PhaseNumbers DEF In, InPhase, InChild
  <2> QED
    BY <1>1, <1>5, <2>1 DEF ChildInv
<1>6. RelaunchInv'
  BY <1>1, <1>2, <1>3, <1>4 DEF RelaunchInv
<1>7. RecoverInv'
  BY <1>1, <1>2, <1>3, <1>4, <1>5 DEF RecoverInv, At
<1>8. ContinueInv'
  BY <1>1, <1>2, <1>3, <1>4, <1>5 DEF ContinueInv, Continuing, At
<1>9. VerifyInv'
  BY <1>1, <1>2, <1>3, <1>4 DEF VerifyInv, Finishing
<1> QED
  BY <1>6, <1>7, <1>8, <1>9 DEF PhaseInv

LEMMA PhaseKeptBySpawn ==
  ASSUME Inv, Spawns, "source" \notin troubles'
  PROVE  PhaseInv'
<1> USE DEF Inv
<1>1. CASE SpawnCrashChild
  <2>1. orch'.pc = "started" /\ orch'.outcome = orch.outcome /\ orch.pc = "plan"
    BY <1>1, SpawnCrashChildEffect DEF Starts
  <2> QED
    BY <2>1 DEF PhaseInv, RelaunchInv, RecoverInv, ContinueInv, VerifyInv, In,
       Finishing, InPhase, ChildInv
<1>2. CASE SpawnChild
  <2>1. /\ orch.pc = "spawn" /\ exit # "running" /\ orch'.pc = "record"
        /\ orch'.step = orch.step /\ orch'.outcome = "none" /\ exit' = "running"
        /\ UNCHANGED <<attempts, exec, plan, troubles>>
    BY <1>2, SpawnChildEffect DEF Starts, ChildInv, Childless, transform
  <2>2. Clean' = Clean /\ Instance' = Instance /\ Delivered' = Delivered
    BY <2>1, SamePlan DEF Delivered
  <2>3. RelaunchInv /\ RecoverInv /\ ContinueInv /\ VerifyInv
    BY <2>1 DEF PhaseInv
  <2>4. \A n : In(n)' => In(n)
    BY <2>1, <2>2 DEF In, InPhase
  <2>5. /\ ~Clean /\ orch.step = 1 =>
              \A p \in Procs : Living(p)' => proc'[p].pc \in Launching
        /\ ~Clean /\ orch.step = 2 =>
              \A p \in Procs : Living(p)' => proc'[p].pc = "recoverLock"
        /\ ~Clean /\ orch.step = 3 =>
              \A p \in Procs : Living(p)' => proc'[p].pc = "runLock"
    <3>1. CASE Phase = "verify"
      BY <3>1, PhaseNumbers
    <3>2. CASE Phase # "verify"
      <4>1. PICK p \in Procs :
              /\ Starts(p, "record")
              /\ Phase = "recover" => proc'[p].pc = "recoverLock"
              /\ Phase # "recover" => proc'[p].pc = "runLock"
        BY <1>2, <3>2, SpawnChildEffect
      <4>2. \A q \in Procs : Living(q)' => q = p
        BY <2>1, <3>2, <4>1, ChildStarts
      <4> QED
        BY <4>1, <4>2, PhaseNumbers DEF Launching
    <3> QED
      BY <3>1, <3>2
  <2>6. RelaunchInv'
    BY <2>1, <2>2, <2>3, <2>4, <2>5 DEF RelaunchInv, In
  <2>7. RecoverInv'
    BY <2>1, <2>2, <2>3, <2>4, <2>5 DEF RecoverInv, In, Recovering, At
  <2>8. ContinueInv'
    BY <2>1, <2>2, <2>3, <2>4, <2>5
       DEF ContinueInv, In, Launching, Launched, Executing, At
  <2>9. VerifyInv'
    BY <2>1, <2>2, <2>3, <2>4 DEF VerifyInv, Finishing
  <2> QED
    BY <2>6, <2>7, <2>8, <2>9 DEF PhaseInv
<1> QED
  BY <1>1, <1>2 DEF Spawns

LEMMA PhaseKeptByWrites ==
  ASSUME Inv, Seed \/ CleanUp \/ ForeignWrite, "source" \notin troubles'
  PROVE  PhaseInv'
<1> USE DEF Inv
<1>1. CASE Seed
  <2>1. orch'.pc = "plan" /\ orch'.outcome = orch.outcome /\ orch.pc = "seed"
    BY <1>1, ProceedEffect DEF Seed, OrchestratorPCs
  <2> QED
    BY <2>1 DEF PhaseInv, RelaunchInv, RecoverInv, ContinueInv, VerifyInv, In,
       Finishing, InPhase, ChildInv
<1>2. CASE CleanUp
  <2>1. /\ orch'.pc = "cleaned" /\ orch'.outcome = orch.outcome /\ orch.pc = "cleanup"
        /\ UNCHANGED <<attempts, exec, plan, troubles>>
    BY <1>2, ProceedEffect DEF CleanUp, OrchestratorPCs
  <2>2. Clean' = Clean /\ Instance' = Instance /\ Delivered' = Delivered
    BY <2>1, SamePlan DEF Delivered
  <2>3. VerifyInv
    BY <2>1 DEF PhaseInv
  <2> QED
    BY <2>1, <2>2, <2>3 DEF PhaseInv, RelaunchInv, RecoverInv, ContinueInv, VerifyInv,
       In, Finishing, InPhase
<1>3. CASE ForeignWrite
  BY <1>3 DEF ForeignWrite, Trouble
<1> QED
  BY <1>1, <1>2, <1>3
\* What a phase's child starts from: it works on the one instance, whose
\* first execution crashed.
LEMMA PhaseActor ==
  ASSUME Inv, NEW p \in Procs, ChildActs(p), "source" \notin troubles
  PROVE  /\ TypeOK /\ Acts(p) /\ Living(p) /\ exit = "running"
         /\ UNCHANGED <<plan, orch>>
         /\ Clean' = Clean /\ Instance' = Instance /\ Instance \in Keys
         /\ proc[p].pc \in Identified => proc[p].job = Instance
         /\ source = Canonical
         /\ orch.pc # "spawn" /\ ~Finishing
         /\ In(1) \/ In(2) \/ In(3) \/ ~(\E n \in 1..4 : In(n))
         /\ \A q \in Procs : Living(q)' => q = p /\ proc'[p].pc # "idle" /\ exit' = "running"
         /\ \A n \in 1..4 : In(n) => Crashed(Instance)
<1> USE DEF Inv
<1>1. /\ TypeOK /\ Acts(p) /\ Living(p) /\ exit = "running" /\ p = orch.child
      /\ UNCHANGED <<plan, orch>>
      /\ \A q \in Procs : Living(q)' => q = p /\ proc'[p].pc # "idle" /\ exit' = "running"
  BY TransformTypes, Actor DEF ChildActs
<1>2. Clean' = Clean /\ Instance' = Instance /\ Instance \in Keys
  BY <1>1, SamePlan, InstanceIsKey
<1>3. orch.pc \notin Childless /\ orch.outcome # "accepted"
  BY <1>1 DEF ChildInv
<1>4. orch.pc # "spawn" /\ orch.pc # "seed" /\ ~Finishing
  BY <1>3 DEF Childless, Finishing
<1>5. source = Canonical /\ (proc[p].pc \in Identified => proc[p].job = Instance)
  BY <1>4 DEF SourceInv
<1>6. ~In(4)
  <2>1. SUFFICES ASSUME In(4) PROVE FALSE
    OBVIOUS
  <2>2. orch.pc \in InChild /\ Phase = "verify"
    BY <1>4, <2>1, PhaseNumbers DEF In, InPhase, InChild
  <2> QED
    BY <1>1, <2>2, VerifierIsNoProcess DEF ChildInv
<1>7. In(1) \/ In(2) \/ In(3) \/ ~(\E n \in 1..4 : In(n))
  <2>1. \A n \in 1..4 : n = 1 \/ n = 2 \/ n = 3 \/ n = 4
    OBVIOUS
  <2> QED
    BY <1>6, <2>1
<1>8. \A n \in 1..4 : In(n) => Crashed(Instance)
  BY CrashedInstance DEF In, Past
<1> QED
  BY <1>1, <1>2, <1>4, <1>5, <1>7, <1>8

\* The relaunch stops at the launcher.
LEMMA RelaunchChild ==
  ASSUME Inv, NEW p \in Procs, ChildActs(p), "source" \notin troubles, In(1)
  PROVE  /\ UNCHANGED <<rows, attempts, exec>>
         /\ proc'[p].pc \in Launching \cup {"idle"}
<1> USE DEF Inv
<1>1. /\ attempts[Instance] = 1 /\ exec[Instance][1].status \in InProgress
      /\ \A q \in Procs : Living(q) => proc[q].pc \in Launching
  BY DEF PhaseInv, RelaunchInv
<1>2. proc[p].pc \in Launching /\ Acts(p)
  BY <1>1, PhaseActor
<1>3. CASE Locks(p) \/ Digests(p)
  BY <1>2, <1>3 DEF Locks, Digests, Launching
<1>4. CASE Launches(p)
  <2>1. proc[p].job = Instance /\ Restartable(Instance)
    BY <1>4, PhaseActor DEF Launches, At, Identified
  <2>2. exec[Instance][1].status = "FAILED"
    BY <1>1, <2>1 DEF Restartable, Latest
  <2> QED
    BY <1>1, <2>2 DEF InProgress
<1>5. CASE Leaves(p)
  BY <1>5, IdleParts DEF Leaves
<1>6. CASE Works(p) \/ Commits(p) \/ Persists(p) \/ Finds(p) \/ Marks(p)
  BY <1>2, <1>6
     DEF Works, Commits, Persists, Finds, Marks, At, Launching, Executing
<1> QED
  BY <1>2, <1>3, <1>4, <1>5, <1>6 DEF Acts

\* A recovery closes the crashed execution, or does not succeed.
LEMMA RecoverChild ==
  ASSUME Inv, NEW p \in Procs, ChildActs(p), "source" \notin troubles, In(2)
  PROVE  /\ attempts' = attempts
         /\ proc'[p].pc \in Recovering \cup {"idle"}
         /\ proc'[p].pc = "recoverMark" => proc'[p].attempt = 1
         /\ exit' = "success" => exec'[Instance][1].status = "FAILED"
<1> USE DEF Inv
<1>1. /\ attempts[Instance] = 1
      /\ \A q \in Procs : Living(q) =>
            /\ proc[q].pc \in Recovering
            /\ At(q, "recoverMark") => proc[q].attempt = 1
  BY DEF PhaseInv, RecoverInv
<1>2. /\ proc[p].pc \in Recovering /\ Acts(p) /\ TypeOK /\ Instance \in Keys
      /\ At(p, "recoverMark") => proc[p].attempt = 1
      /\ proc[p].pc \in Identified => proc[p].job = Instance
  BY <1>1, PhaseActor
<1>3. /\ proc'[p].pc = "idle" => exit' = IF Succeeds(p) THEN "success" ELSE "failure"
      /\ proc'[p].pc # "idle" => exit' = "running"
  BY Actor
<1>4. CASE Locks(p) \/ Digests(p)
  BY <1>2, <1>3, <1>4 DEF Locks, Digests, Recovering
<1>5. CASE Finds(p)
  <2>1. proc[p].job = Instance
    BY <1>2, <1>5 DEF Finds, At, Identified
  <2> QED
    BY <1>1, <1>3, <1>5, <2>1 DEF Finds, Recovering
<1>6. CASE Leaves(p)
  <2>1. proc[p].pc = "recoverFind"
    BY <1>2, <1>6 DEF Leaves, Recovering, Launched, Executing
  <2>2. ~Succeeds(p)
    BY <2>1 DEF Succeeds, At
  <2>3. proc'[p].pc = "idle"
    BY <1>6, IdleParts DEF Leaves
  <2> QED
    BY <1>3, <1>6, <2>2, <2>3 DEF Leaves
<1>7. CASE Marks(p)
  <2>1. /\ At(p, "recoverMark") /\ proc[p].attempt = 1 /\ proc[p].job = Instance
        /\ proc'[p].pc = "idle" /\ attempts' = attempts
    BY <1>2, <1>7, IdleParts DEF Marks, At, Identified
  <2>2. CASE SameVersion(p)
    <3>1. SetStatus(Instance, 1, "FAILED")
      BY <1>7, <2>1, <2>2 DEF Marks
    <3>2. 1 \in 1..MaxAttempts
      BY <1>1, <1>2, LatestType
    <3>3. exec'[Instance][1].status = "FAILED"
      BY <1>2, <3>1, <3>2, StatusUpdate
    <3> QED
      BY <2>1, <3>3
  <2>3. CASE ~SameVersion(p)
    <3>1. ~Succeeds(p)
      BY <2>1, <2>3 DEF Succeeds, At
    <3> QED
      BY <1>3, <2>1, <3>1
  <2> QED
    BY <2>2, <2>3
<1>8. CASE Launches(p) \/ Works(p) \/ Commits(p) \/ Persists(p)
  BY <1>2, <1>8 DEF Launches, Works, Commits, Persists, At, Recovering, Executing
<1> QED
  BY <1>2, <1>4, <1>5, <1>6, <1>7, <1>8 DEF Acts

\* The facts that a continuation's child needs before and has after its step.
Continued(p) ==
    /\ exec[Instance][1].status = "FAILED"
    /\ proc[p].pc \in Launching \cup Launched
    /\ proc[p].pc \in Launching => attempts[Instance] = 1
    /\ proc[p].pc \in Launched => attempts[Instance] = 2 /\ proc[p].attempt = 2
    /\ proc[p].pc \in Executing => Continuing(p)
    /\ At(p, "returned") /\ exec[Instance][2].status = "COMPLETED" => Delivered

\* While it launches, the crashed execution's progress is inherited.
LEMMA ContinueLaunches ==
  ASSUME Inv, NEW p \in Procs, ChildActs(p), "source" \notin troubles, In(3),
         Continued(p), Launches(p)
  PROVE  Continued(p)'
<1> USE DEF Inv
<1>1. /\ TypeOK /\ Instance \in Keys /\ Instance' = Instance /\ proc[p].job = Instance
      /\ Crashed(Instance)
  BY PhaseActor DEF Launches, At, Identified
<1>2. attempts[Instance] = 1
  BY DEF Continued, Launches, At, Launching
<1>3. /\ attempts[Instance] + 1 \in 1..MaxAttempts
      /\ attempts'[Instance] = attempts[Instance] + 1
      /\ exec'[Instance][attempts[Instance] + 1] =
            [status |-> "STARTED", position |-> Inherited(Instance)]
      /\ \A b \in 1..MaxAttempts :
            b # attempts[Instance] + 1 => exec'[Instance][b] = exec[Instance][b]
  BY <1>1, LaunchUpdate
<1>4. 2 \in 1..MaxAttempts /\ 1 \in 1..MaxAttempts /\ 1 # 2 /\ attempts[Instance] + 1 = 2
  BY <1>1, <1>2, <1>3, ConstantsAssumption
<1>5. /\ attempts'[Instance] = 2 /\ exec'[Instance][1] = exec[Instance][1]
      /\ exec'[Instance][2] = [status |-> "STARTED", position |-> Inherited(Instance)]
  BY <1>3, <1>4
<1>6. Inherited(Instance) = ExpectedRows
  BY <1>1, <1>2 DEF Inherited, Latest, Crashed
<1>7. /\ proc'[p].pc = "chunk" /\ proc'[p].attempt = 2
      /\ proc'[p].cursor = Inherited(Instance)
  BY <1>1, <1>4 DEF Launches
<1>8. /\ exec'[Instance][2].status = "STARTED"
      /\ exec'[Instance][2].position = proc'[p].cursor
      /\ proc'[p].cursor <= RowCount[Canonical]
  BY <1>5, <1>6, <1>7, ExpectedBound
<1>9. exec'[Instance][1].status = "FAILED"
  BY <1>5 DEF Continued
<1> QED
  BY <1>1, <1>5, <1>7, <1>8, <1>9
     DEF Continued, Continuing, At, Launching, Launched, Executing

\* The rows it reads are those of the canonical source.
LEMMA ContinueReads ==
  ASSUME Inv, NEW p \in Procs, "source" \notin troubles, proc[p].pc \in Executing,
         source = Canonical
  PROVE  /\ Visible(p) = Canonical
         /\ LastRead(p) <= RowCount[Canonical]
         /\ proc[p].cursor <= RowCount[Canonical] /\ Batch(p) = {}
               => proc[p].cursor = RowCount[Canonical]
<1> USE DEF Inv
<1>1. proc[p].snapshot = Canonical /\ TypeOK
  BY TransformTypes DEF SourceInv
<1>2. Visible(p) = Canonical
  BY <1>1 DEF Visible
<1>3. proc[p].cursor \in Nat /\ proc[p].size \in Nat \ {0} /\ RowCount[Canonical] \in Nat
  BY <1>1, ProcParts, ExpectedBound
<1>4. LastRead(p) = IF proc[p].cursor + proc[p].size < RowCount[Canonical]
                    THEN proc[p].cursor + proc[p].size ELSE RowCount[Canonical]
  BY <1>2 DEF LastRead
<1>5. LastRead(p) \in Nat /\ LastRead(p) <= RowCount[Canonical]
  BY <1>3, <1>4
<1>6. ASSUME proc[p].cursor <= RowCount[Canonical], Batch(p) = {}
      PROVE  proc[p].cursor = RowCount[Canonical]
  <2>1. SUFFICES ASSUME proc[p].cursor < RowCount[Canonical] PROVE FALSE
    BY <1>3, <1>6
  <2>2. proc[p].cursor + 1 \in (proc[p].cursor + 1)..LastRead(p)
    BY <1>3, <1>4, <2>1
  <2>3. <<proc[p].cursor + 1, Visible(p)>> \in Batch(p)
    BY <2>2 DEF Batch
  <2> QED
    BY <1>6, <2>3
<1> QED
  BY <1>2, <1>5, <1>6

LEMMA ContinueChunks ==
  ASSUME Inv, NEW p \in Procs, ChildActs(p), "source" \notin troubles, In(3),
         Continued(p), Works(p) \/ Commits(p) \/ Persists(p)
  PROVE  Continued(p)'
<1> USE DEF Inv
<1>1. proc[p].pc \in Executing
  BY DEF Works, Commits, Persists, At, Executing
<1>2. /\ TypeOK /\ Instance \in Keys /\ Instance' = Instance /\ proc[p].job = Instance
      /\ source = Canonical
  BY <1>1, PhaseActor DEF Identified, Launched
<1>3. /\ exec[Instance][1].status = "FAILED" /\ attempts[Instance] = 2
      /\ proc[p].attempt = 2 /\ Continuing(p)
  BY <1>1 DEF Continued, Launched
<1>4. 1 \in 1..MaxAttempts /\ 2 \in 1..MaxAttempts /\ 1 # 2
  <2>1. attempts[Instance] \in 0..MaxAttempts /\ MaxAttempts \in Nat
    BY <1>2, ConstantsAssumption DEF TypeOK
  <2> QED
    BY <1>3, <2>1
<1>5. /\ proc[p].cursor \in Nat /\ proc[p].reads \in Nat /\ RowCount[Canonical] \in Nat
      /\ LastRead(p) \in Nat
  BY <1>2, ProcParts, BatchType, ExpectedBound
<1>6. /\ LastRead(p) <= RowCount[Canonical]
      /\ Batch(p) = {} => proc[p].cursor = RowCount[Canonical]
  BY <1>1, <1>2, <1>3, ContinueReads DEF Continuing
<1>7. CASE Works(p)
  <2>1. /\ proc'[p].pc \in Executing /\ proc'[p].attempt = 2
        /\ proc'[p].cursor = proc[p].cursor /\ UNCHANGED <<attempts, exec>>
        /\ proc'[p].pc = "written" => proc'[p].reads = LastRead(p) - proc[p].cursor
    BY <1>3, <1>7 DEF Works, Keeps, Executing
  <2>2. proc'[p].pc = "written"
          => proc'[p].cursor + proc'[p].reads <= RowCount[Canonical]
    BY <1>5, <1>6, <2>1
  <2>3. Continuing(p)'
    BY <1>2, <1>3, <2>1, <2>2 DEF Continuing, At
  <2> QED
    BY <1>2, <1>3, <2>1, <2>3 DEF Continued, At, Launching, Launched, Executing
<1>8. CASE Commits(p)
  <2> DEFINE n == exec[Instance][2].position + proc[p].reads
  <2>1. /\ At(p, "written") /\ proc'[p].pc \in {"chunk", "paused", "uncertain"}
        /\ proc'[p].attempt = 2 /\ attempts' = attempts
        /\ proc'[p].cursor = proc[p].cursor + proc[p].reads
        /\ SetPosition(Instance, 2, n)
    BY <1>2, <1>3, <1>8 DEF Commits, Keeps, SetPosition
  <2>2. n = proc'[p].cursor /\ n <= RowCount[Canonical]
    BY <1>3, <2>1 DEF Continuing
  <2> HIDE DEF n
  <2>3. /\ exec'[Instance][2].position = n
        /\ exec'[Instance][2].status = exec[Instance][2].status
        /\ exec'[Instance][1].status = exec[Instance][1].status
    BY <1>2, <1>4, <2>1, PositionUpdate
  <2>4. Continuing(p)'
    BY <1>2, <1>3, <2>1, <2>2, <2>3 DEF Continuing, At
  <2> QED
    BY <1>2, <1>3, <2>1, <2>3, <2>4 DEF Continued, At, Launching, Launched, Executing
<1>9. CASE Persists(p)
  <2>1. PICK status \in {"FAILED", "UNKNOWN", "COMPLETED"} :
          /\ SetStatus(Instance, 2, status)
          /\ status = "COMPLETED" => At(p, "chunk") /\ Batch(p) = {}
    BY <1>2, <1>3, <1>9 DEF Persists
  <2>2. proc'[p].pc = "returned" /\ proc'[p].attempt = 2 /\ attempts' = attempts
    BY <1>3, <1>9 DEF Persists, Keeps
  <2>3. /\ exec'[Instance][2].position = exec[Instance][2].position
        /\ exec'[Instance][2].status = status
        /\ exec'[Instance][1].status = exec[Instance][1].status
    BY <1>2, <1>4, <2>1, StatusUpdate
  <2>4. status = "COMPLETED" => Delivered'
    BY <1>2, <1>3, <1>6, <2>1, <2>2, <2>3 DEF Delivered, Continuing
  <2> QED
    BY <1>2, <1>3, <2>2, <2>3, <2>4 DEF Continued, At, Launching, Launched, Executing
<1> QED
  BY <1>7, <1>8, <1>9

\* A continuation delivers the rest, or does not succeed.
LEMMA ContinueChild ==
  ASSUME Inv, NEW p \in Procs, ChildActs(p), "source" \notin troubles, In(3)
  PROVE  /\ exec'[Instance][1].status = "FAILED"
         /\ proc'[p].pc # "idle" => Continued(p)'
         /\ exit' = "success" => Delivered'
<1> USE DEF Inv
<1>1. Acts(p) /\ Living(p) /\ Instance' = Instance
      /\ (proc[p].pc \in Identified => proc[p].job = Instance)
  BY PhaseActor
<1>2. Continued(p)
  BY <1>1 DEF PhaseInv, ContinueInv, Continued
<1>3. /\ proc'[p].pc = "idle" => exit' = IF Succeeds(p) THEN "success" ELSE "failure"
      /\ proc'[p].pc # "idle" => exit' = "running"
  BY Actor
<1>4. CASE Locks(p) \/ Digests(p)
  <2>1. /\ proc[p].pc \in Launching /\ proc'[p].pc \in Launching
        /\ UNCHANGED <<attempts, exec>>
    BY <1>2, <1>4 DEF Locks, Digests, Continued, Launching, Launched, Executing
  <2>2. Continued(p)'
    BY <1>1, <1>2, <2>1 DEF Continued, At, Launching, Launched, Executing
  <2>3. proc'[p].pc # "idle"
    BY <2>1 DEF Launching
  <2> QED
    BY <1>1, <1>2, <1>3, <2>1, <2>2, <2>3 DEF Continued
<1>5. CASE Launches(p) \/ Works(p) \/ Commits(p) \/ Persists(p)
  <2>1. Continued(p)'
    BY <1>2, <1>5, ContinueLaunches, ContinueChunks
  <2>2. proc'[p].pc # "idle"
    BY <1>5 DEF Launches, Works, Commits, Persists
  <2>3. exec'[Instance][1].status = "FAILED"
    BY <1>1, <2>1 DEF Continued
  <2> QED
    BY <1>3, <2>1, <2>2, <2>3
<1>6. CASE Leaves(p)
  <2>1. proc'[p].pc = "idle" /\ UNCHANGED <<attempts, exec>>
    BY <1>6, IdleParts DEF Leaves
  <2>2. ASSUME Succeeds(p) PROVE Delivered
    <3>1. proc[p].pc = "returned" \/ proc[p].pc = "recoverMark"
      BY <2>2 DEF Succeeds, At
    <3>2. proc[p].pc = "returned"
      BY <1>2, <3>1 DEF Continued, Launching, Launched, Executing
    <3>3. proc[p].job = Instance /\ proc[p].attempt = 2
      BY <1>1, <1>2, <3>2 DEF Continued, Identified, Launched
    <3>4. exec[Instance][2].status = "COMPLETED"
      BY <2>2, <3>2, <3>3 DEF Succeeds, At
    <3> QED
      BY <1>2, <3>2, <3>4 DEF Continued, At
  <2>3. Delivered' = Delivered
    BY <1>1, <2>1 DEF Delivered
  <2> QED
    BY <1>2, <1>3, <2>1, <2>2, <2>3 DEF Continued
<1>7. CASE Finds(p) \/ Marks(p)
  BY <1>2, <1>7 DEF Finds, Marks, At, Continued, Launching, Launched, Executing
<1> QED
  BY <1>1, <1>4, <1>5, <1>6, <1>7 DEF Acts

LEMMA PhaseKeptByChild ==
  ASSUME Inv, NEW p \in Procs, ChildActs(p), "source" \notin troubles'
  PROVE  PhaseInv'
<1> USE DEF Inv
<1>1. "source" \notin troubles
  BY DEF ChildActs
<1>2. /\ UNCHANGED <<plan, orch>> /\ Clean' = Clean /\ Instance' = Instance
      /\ orch.pc # "spawn" /\ ~Finishing
      /\ In(1) \/ In(2) \/ In(3) \/ ~(\E n \in 1..4 : In(n))
      /\ \A q \in Procs : Living(q)' => q = p /\ proc'[p].pc # "idle" /\ exit' = "running"
  BY <1>1, PhaseActor
<1>3. /\ In(1)' <=> In(1)
      /\ In(2)' <=> In(2)
      /\ In(3)' <=> In(3)
      /\ In(4)' <=> In(4)
      /\ ~Finishing'
  BY <1>2 DEF In, Finishing
<1>4. ~In(4) /\ (In(1) => ~In(2) /\ ~In(3)) /\ (In(2) => ~In(3))
  BY <1>2 DEF In
<1>5. VerifyInv'
  BY <1>3, <1>4 DEF VerifyInv
<1>6. RelaunchInv'
  <2>1. CASE In(1)
    <3>1. /\ attempts' = attempts /\ exec' = exec
          /\ proc'[p].pc \in Launching \cup {"idle"}
      BY <1>1, <2>1, RelaunchChild
    <3>2. attempts[Instance] = 1 /\ exec[Instance][1].status \in InProgress
      BY <1>1, <2>1 DEF PhaseInv, RelaunchInv
    <3> QED
      BY <1>2, <3>1, <3>2 DEF RelaunchInv
  <2>2. CASE ~In(1)
    BY <1>3, <2>2 DEF RelaunchInv
  <2> QED
    BY <2>1, <2>2
<1>7. RecoverInv'
  <2>1. CASE In(2)
    <3>1. /\ attempts' = attempts
          /\ proc'[p].pc \in Recovering \cup {"idle"}
          /\ proc'[p].pc = "recoverMark" => proc'[p].attempt = 1
          /\ exit' = "success" => exec'[Instance][1].status = "FAILED"
      BY <1>1, <2>1, RecoverChild
    <3>2. attempts[Instance] = 1
      BY <1>1, <2>1 DEF PhaseInv, RecoverInv
    <3> QED
      BY <1>2, <3>1, <3>2 DEF RecoverInv, At
  <2>2. CASE ~In(2)
    BY <1>3, <2>2 DEF RecoverInv
  <2> QED
    BY <2>1, <2>2
<1>8. ContinueInv'
  <2>1. CASE In(3)
    <3>1. /\ exec'[Instance][1].status = "FAILED"
          /\ proc'[p].pc # "idle" => Continued(p)'
          /\ exit' = "success" => Delivered'
      BY <1>1, <2>1, ContinueChild
    <3> QED
      BY <1>2, <3>1 DEF ContinueInv, Continued
  <2>2. CASE ~In(3)
    BY <1>3, <2>2 DEF ContinueInv
  <2> QED
    BY <2>1, <2>2
<1> QED
  BY <1>5, <1>6, <1>7, <1>8 DEF PhaseInv

LEMMA PhaseStep ==
  ASSUME Inv, [IterationNext]_iterVars
  PROVE  PhaseInv'
<1>1. CASE "source" \in troubles'
  BY <1>1 DEF PhaseInv
<1>2. CASE "source" \notin troubles'
  BY <1>2, StepClasses, PhaseKeptByDecision, PhaseKeptByFading, PhaseKeptBySpawn,
     PhaseKeptByWrites, PhaseKeptByChild DEF Inv
<1> QED
  BY <1>1, <1>2

-----------------------------------------------------------------------------
(* The invariant holds in every reachable state.                           *)

LEMMA InitInv == IterationInit => Inv
<1> SUFFICES ASSUME IterationInit PROVE Inv
  OBVIOUS
<1>1. /\ orch.pc = "seed" /\ orch.step = 1 /\ orch.child = Verifier
      /\ orch.content = Empty /\ orch.count = 0 /\ orch.outcome = "none"
      /\ exit = "success" /\ signalled = {} /\ dead = {} /\ troubles = {}
      /\ \A k \in Keys : attempts[k] = 0
      /\ \A s \in Scopes : rows[s] = {}
      /\ \A p \in Procs : proc[p] = IdleProc(SomeKey)
  BY DEF IterationInit, Init
<1>2. \A p \in Procs : proc[p].pc = "idle" /\ proc[p].tx = {} /\ ~Living(p)
  BY <1>1, IdleParts DEF Living, At
<1>3. IterationTypeOK
  <2>1. TypeOK
    BY InitType DEF IterationInit
  <2>2. 1 \in 1..Len(Phases)
    <3>1. Phases \in {<<"run", "verify">>, <<"relaunch", "recover", "continue", "verify">>}
      BY DEF Phases
    <3> QED
      BY <3>1
  <2>3. "seed" \in OrchestratorPCs /\ Empty \in Contents
    BY ConstantsAssumption DEF OrchestratorPCs
  <2>4. orch = [pc |-> "seed", step |-> 1, child |-> Verifier,
                content |-> Empty, count |-> 0, outcome |-> "none"]
    BY DEF IterationInit
  <2>5. orch \in [pc : OrchestratorPCs, step : 1..Len(Phases),
                  child : Procs \union {Verifier}, content : Contents, count : Nat,
                  outcome : {"none", "accepted", "failed"}]
    <3> HIDE DEF Phases, OrchestratorPCs
    <3> QED
      BY <2>2, <2>3, <2>4
  <2> QED
    BY <2>1, <2>5 DEF IterationInit, IterationTypeOK
<1>4. FiniteInv
  BY <1>1, <1>2, FS_EmptySet DEF FiniteInv
<1>5. ChildInv
  BY <1>1, <1>2 DEF ChildInv, InChild
<1>6. JobInv /\ FirstInv
  BY <1>1, <1>2 DEF JobInv, FirstInv, Crashing, At
<1>7. PastInv /\ CleanedInv
  BY <1>1 DEF PastInv, Past, InPhase, CleanedInv
<1>8. SourceInv
  BY <1>1, <1>2 DEF SourceInv, Identified, Launched, Executing, At
<1>9. PhaseInv
  BY <1>1 DEF PhaseInv, RelaunchInv, RecoverInv, ContinueInv, VerifyInv, In,
     InPhase, Finishing
<1> QED
  BY <1>3, <1>4, <1>5, <1>6, <1>7, <1>8, <1>9 DEF Inv

LEMMA InvStep == Inv /\ [IterationNext]_iterVars => Inv'
<1> SUFFICES ASSUME Inv, [IterationNext]_iterVars PROVE Inv'
  OBVIOUS
<1>1. IterationTypeOK' /\ FiniteInv' /\ ChildInv' /\ JobInv'
  BY IterationTypeStep, FiniteStep, ChildStepKept, JobStep DEF Inv
<1>2. FirstInv' /\ PastInv' /\ SourceInv' /\ PhaseInv' /\ CleanedInv'
  BY FirstStep, PastStep, SourceStep, PhaseStep, CleanedStep
<1> QED
  BY <1>1, <1>2 DEF Inv

-----------------------------------------------------------------------------
(* The theorems.                                                           *)

\* The variables of the orchestrator, of its children and of the database keep
\* their types, whatever plan, content and failures the iteration meets.
THEOREM IterationTypes == IterationSpec => []IterationTypeOK
<1>1. Inv => IterationTypeOK
  BY DEF Inv
<1> QED
  BY <1>1, InitInv, InvStep, PTL DEF IterationSpec

\* When run_crash or run_clean has returned, with an error or without, every
\* command it started has ended or has a SIGKILL on its way (terminate_for_error
\* and kill_on_drop).
THEOREM NoChildSurvives == IterationSpec => []NoSurvivor
<1>1. Inv => NoSurvivor
  <2> SUFFICES ASSUME Inv, orch.outcome # "none", NEW p \in Procs, Living(p)
               PROVE  p \in signalled
    BY DEF NoSurvivor, Living
  <2>1. orch.pc = "end" /\ p = orch.child /\ exit = "running"
    BY DEF Inv, ChildInv
  <2> QED
    BY <2>1, VerifierIsNoProcess DEF Inv, ChildInv
<1> QED
  BY <1>1, InitInv, InvStep, PTL DEF IterationSpec

\* An iteration is accepted only if its first execution really ended at the
\* planned boundary; and if nobody else wrote the source, the recovery closed
\* that execution, one continuation delivered the rest, and the cleanup took
\* its rows away (run_crash, require_crash_state).
THEOREM RecoveryAccepted == IterationSpec => []AcceptedMeansRecovered
<1>1. Inv => AcceptedMeansRecovered
  <2> SUFFICES ASSUME Inv, orch.outcome = "accepted", ~Clean
               PROVE  AcceptedMeansRecovered
    BY DEF AcceptedMeansRecovered
  <2>1. Past
    BY DEF Past
  <2>2. PICK k \in Keys : Crashed(k)
    BY <2>1 DEF Inv, PastInv
  <2>3. /\ k[1] = plan.import /\ attempts[k] > 0
        /\ exec[k][1].status # "COMPLETED" /\ exec[k][1].position = ExpectedRows
    BY <2>2 DEF Crashed, InProgress
  <2>4. ASSUME "source" \notin troubles
        PROVE  /\ attempts[k] = 2
               /\ exec[k][1].status = "FAILED"
               /\ Latest(k) = [status |-> "COMPLETED", position |-> RowCount[Canonical]]
               /\ rows[Scope(k)] = {}
    <3>1. k = Instance
      BY <2>3, <2>4 DEF Inv, SourceInv
    <3>2. exec[k][1].status = "FAILED" /\ Delivered
      BY <2>4, <3>1 DEF Inv, PhaseInv, VerifyInv, Finishing
    <3>3. /\ attempts[k] = 2 /\ exec[k][2].status = "COMPLETED"
          /\ exec[k][2].position = RowCount[Canonical]
      BY <3>1, <3>2 DEF Delivered
    <3>4. exec[k][2] \in Execution
      <4>1. TypeOK
        BY TransformTypes DEF Inv
      <4>2. attempts[k] \in 0..MaxAttempts /\ exec[k] \in [1..MaxAttempts -> Execution]
        BY <4>1 DEF TypeOK
      <4>3. 2 \in 1..MaxAttempts
        BY <3>3, <4>2, ConstantsAssumption
      <4> QED
        BY <4>2, <4>3
    <3>5. Latest(k) = [status |-> "COMPLETED", position |-> RowCount[Canonical]]
      BY <3>3, <3>4 DEF Latest, Execution
    <3>6. Scope(k) \in Scopes /\ Scope(k)[1] = plan.import
      BY <2>3 DEF Scope, Scopes, Keys
    <3>7. rows[Scope(k)] = {}
      BY <3>6 DEF Inv, CleanedInv
    <3> QED
      BY <3>2, <3>3, <3>5, <3>7
  <2> QED
    BY <2>3, <2>4 DEF AcceptedMeansRecovered
<1> QED
  BY <1>1, InitInv, InvStep, PTL DEF IterationSpec

\* While the plain relaunch over a crashed execution runs, no row, execution or
\* checkpoint changes: the launcher refuses the job, however its process ends.
THEOREM RelaunchHarmless == IterationSpec => RelaunchChangesNothing
<1> DEFINE Relaunching ==
      /\ ~Clean /\ orch.pc \in {"record", "wait"} /\ Phase = "relaunch"
      /\ "source" \notin troubles
<1>1. Inv /\ [IterationNext]_iterVars
      => [Relaunching => UNCHANGED <<rows, attempts, exec>>]_iterVars
  <2> SUFFICES ASSUME Inv, [IterationNext]_iterVars, Relaunching
               PROVE  UNCHANGED <<rows, attempts, exec>>
    OBVIOUS
  <2>1. In(1)
    BY PhaseNumbers DEF In, InPhase, Inv
  <2>2. CASE Decides \/ Fades \/ ForeignWrite
    BY <2>2 DEF Decides, Fades, ForeignWrite, WriteSource, transform
  <2>3. CASE Spawns \/ Seed \/ CleanUp
    BY <2>3 DEF Spawns, SpawnCrashChild, SpawnChild, Seed, CleanUp
  <2>4. CASE \E p \in Procs : ChildActs(p)
    BY <2>1, <2>4, RelaunchChild
  <2> QED
    BY <2>2, <2>3, <2>4, StepClasses DEF Inv
<1> QED
  BY <1>1, InitInv, InvStep, PTL DEF IterationSpec, RelaunchChangesNothing
=============================================================================
