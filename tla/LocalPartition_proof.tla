------------------------ MODULE LocalPartition_proof ------------------------
(***************************************************************************)
(* What the partitioned transform keeps for any number of processes,       *)
(* partitions and workers: the occupancy within its budget, durable        *)
(* results with their rows, a completed run with its planned rows, as long *)
(* as the source changes only between commands, and what qualify and       *)
(* verify accept, of a run on its own and in the recovery qualification,   *)
(* whose cases fail only for want of partitions to admit.                  *)
(***************************************************************************)
EXTENDS RecoveryCampaign, FiniteSetTheorems, TLAPS

Points ==
    {"idle", "baseline", "identify", "launch", "running", "verify", "report", "expect",
     "compare", "inspect", "mark", "failed", "passed"}
Sources == Contents \union {NoRows}
Record ==
    [status : {"NONE", "STARTED", "COMPLETED", "FAILED", "STOPPED"},
     digest : Sources, done : SUBSET Partitions]

\* A worker that is started fits into the budget.
LEMMA Occupancy ==
  ASSUME TypeOK, NEW p \in Procs, Startable(p) # {}
  PROVE  Active(p) \in Nat /\ Active(p) + 1 <= Workers
<1>1. IsFiniteSet(Partitions) /\ Workers \in Nat
  BY PartitionAssumption
<1>2. InState(p, Occupied) \subseteq Unjoined(p) /\ Unjoined(p) \subseteq Partitions
  BY DEF InState, Occupied, Unjoined
<1>3. IsFiniteSet(Unjoined(p)) /\ Cardinality(Unjoined(p)) \in Nat
  BY <1>1, <1>2, FS_Subset, FS_CardinalityType
<1>4. Active(p) \in Nat /\ Active(p) <= Cardinality(Unjoined(p))
  BY <1>2, <1>3, FS_Subset, FS_CardinalityType DEF Active
<1>5. Cardinality(Unjoined(p)) < Workers
  BY DEF Startable
<1> QED BY <1>1, <1>3, <1>4, <1>5

LEMMA IdleTyped == Idle \in Proc
<1>1. Workers \in Nat
  BY PartitionAssumption
<1> QED BY <1>1 DEF Idle, Proc, WorkerStates

LEMMA Superseded ==
  ASSUME NEW p \in Procs, NEW f \in [Procs -> Proc]
  PROVE  /\ Supersede(p, f) \in [Procs -> Proc]
         /\ \A q \in Procs : Supersede(p, f)[q] = [f[q] EXCEPT !.current = (q = p)]
<1>1. \A r \in Proc, v \in BOOLEAN : [r EXCEPT !.current = v] \in Proc
  BY DEF Proc
<1>2. \A q \in Procs : Supersede(p, f)[q] = [f[q] EXCEPT !.current = (q = p)]
  BY DEF Supersede
<1>3. \A q \in Procs : Supersede(p, f)[q] \in Proc
  BY <1>1, <1>2
<1> QED BY <1>2, <1>3 DEF Supersede

-----------------------------------------------------------------------------
(* Types.                                                                  *)

\* The fields an action sets, within their types.
LEMMA Fields ==
  ASSUME NEW r \in Proc, NEW pc \in Points, NEW d \in Sources
  PROVE  /\ [r EXCEPT !.pc = pc] \in Proc
         /\ [r EXCEPT !.pc = pc, !.baseline = d] \in Proc
         /\ [r EXCEPT !.digest = d, !.pc = pc] \in Proc
         /\ [r EXCEPT !.pc = pc, !.reported = d] \in Proc
         /\ [r EXCEPT !.pc = pc, !.expected = d] \in Proc
         /\ [r EXCEPT !.pc = pc, !.current = TRUE] \in Proc
         /\ [r EXCEPT !.stop = TRUE] \in Proc
<1>1. [r EXCEPT !.pc = pc] \in Proc
  BY DEF Proc, Points
<1>2. [r EXCEPT !.pc = pc, !.baseline = d] \in Proc
  BY DEF Proc, Points, Sources
<1>3. [r EXCEPT !.digest = d, !.pc = pc] \in Proc
  BY DEF Proc, Points, Sources
<1>4. [r EXCEPT !.pc = pc, !.reported = d] \in Proc
  BY DEF Proc, Points, Sources
<1>5. [r EXCEPT !.pc = pc, !.expected = d] \in Proc
  BY DEF Proc, Points, Sources
<1>6. [r EXCEPT !.pc = pc, !.current = TRUE] \in Proc
  BY DEF Proc, Points
<1>7. [r EXCEPT !.stop = TRUE] \in Proc
  BY DEF Proc
<1> QED BY <1>1, <1>2, <1>3, <1>4, <1>5, <1>6, <1>7

LEMMA Counters ==
  ASSUME NEW r \in Proc, NEW slots \in 0..Workers, NEW peak \in 0..Workers,
         NEW w \in [Partitions -> WorkerStates]
  PROVE  [r EXCEPT !.slots = slots, !.peak = peak, !.worker = w] \in Proc
<1>1. [r EXCEPT !.slots = slots] \in Proc
  BY DEF Proc
<1>2. \A t \in Proc : [t EXCEPT !.peak = peak] \in Proc
  BY DEF Proc
<1>3. \A t \in Proc : [t EXCEPT !.worker = w] \in Proc
  BY DEF Proc
<1>4. [[[r EXCEPT !.slots = slots] EXCEPT !.peak = peak] EXCEPT !.worker = w] \in Proc
  BY <1>1, <1>2, <1>3
<1> QED BY <1>4

LEMMA Moved ==
  ASSUME NEW f \in [Procs -> Proc], NEW p \in Procs, NEW pc \in Points
  PROVE  [f EXCEPT ![p].pc = pc] \in [Procs -> Proc]
<1>1. [f[p] EXCEPT !.pc = pc] \in Proc
  BY Fields DEF Sources
<1>2. [f EXCEPT ![p].pc = pc] = [f EXCEPT ![p] = [f[p] EXCEPT !.pc = pc]]
  OBVIOUS
<1> QED BY <1>1, <1>2

LEMMA GotoTyped ==
  ASSUME TypeOK, NEW p \in Procs, NEW pc \in Points, Goto(p, pc)
  PROVE  /\ proc' \in [Procs -> Proc] /\ proc'[p] = [proc[p] EXCEPT !.pc = pc]
         /\ \A q \in Procs : q # p => proc'[q] = proc[q]
<1>1. proc[p] \in Proc /\ proc \in [Procs -> Proc]
  BY DEF TypeOK
<1>2. proc' = [proc EXCEPT ![p] = [proc[p] EXCEPT !.pc = pc]]
  BY <1>1 DEF Goto
<1>3. pc \in Points /\ [proc[p] EXCEPT !.pc = pc] \in Proc
  BY <1>1, Fields, NoRows \in Sources DEF Sources
<1> QED BY <1>1, <1>2, <1>3

LEMMA TypeStep == ASSUME TypeOK, [Next]_vars PROVE TypeOK'
<1>0. /\ Workers \in Nat \ {0} /\ Commands \subseteq {"run", "qualify", "verify", "recover"}
      /\ MaxMutations \in Nat
      /\ proc \in [Procs -> Proc] /\ source \in Contents /\ source \in Sources
      /\ exec \in Record /\ rows \in [Partitions -> Sources]
  BY PartitionAssumption DEF TypeOK, Record, Sources
<1>1. ASSUME proc' \in [Procs -> Proc], exec' \in Record, UNCHANGED <<source, past, rows>>
      PROVE  TypeOK'
  BY <1>1 DEF TypeOK, Record, Sources
<1>2. ASSUME NEW p \in Procs, Start(p) PROVE TypeOK'
  <2>1. PICK cmd \in Commands :
          proc' = [proc EXCEPT ![p] = [Idle EXCEPT !.cmd = cmd,
                     !.pc = IF cmd = "qualify" THEN "baseline" ELSE "identify"]]
    BY <1>2 DEF Start
  <2>2. proc' \in [Procs -> Proc]
    BY <1>0, <2>1, IdleTyped DEF Proc
  <2> QED BY <1>0, <1>1, <1>2, <2>2 DEF Start
<1>3. ASSUME NEW p \in Procs, Command(p) PROVE TypeOK'
  <2>1. CASE ReadBaseline(p)
    <3> DEFINE r == [proc[p] EXCEPT !.pc = "identify", !.baseline = source]
    <3>1. proc' = [proc EXCEPT ![p] = r]
      BY <1>0, <2>1 DEF ReadBaseline
    <3>2. r \in Proc
      BY <1>0, Fields DEF Points
    <3> QED BY <1>0, <1>1, <2>1, <3>1, <3>2 DEF ReadBaseline
  <2>2. CASE Identify(p)
    <3> DEFINE pc == CASE proc[p].cmd \in {"run", "qualify"} -> "launch"
                       [] proc[p].cmd = "verify" -> "verify"
                       [] proc[p].cmd = "recover" -> "inspect"
               r == [proc[p] EXCEPT !.digest = source, !.pc = pc]
    <3>1. proc' = [proc EXCEPT ![p] = r]
      <4>1. proc' = [proc EXCEPT ![p].digest = source, ![p].pc = pc]
        BY <2>2 DEF Identify
      <4> HIDE DEF pc
      <4> QED BY <1>0, <4>1
    <3>2. proc[p].cmd \in {"run", "qualify", "verify", "recover"}
      BY <1>0 DEF Proc
    <3>3. pc \in Points
      BY <3>2 DEF Points
    <3> HIDE DEF pc
    <3>4. r \in Proc
      BY <1>0, <3>3, Fields
    <3> QED BY <1>0, <1>1, <2>2, <3>1, <3>4 DEF Identify
  <2>3. CASE Launch(p)
    <3>1. CASE exec.status \in {"STARTED", "COMPLETED"}
      BY <1>0, <1>1, <2>3, <3>1, GotoTyped DEF Launch, Points
    <3>2. CASE ~(exec.status \in {"STARTED", "COMPLETED"})
      <4>1. [proc EXCEPT ![p].pc = "running"] \in [Procs -> Proc] /\ proc[p].digest \in Sources
        BY <1>0, Moved DEF Proc, Sources, Points
      <4>2. proc' \in [Procs -> Proc]
        <5>1. proc' = Supersede(p, [proc EXCEPT ![p].pc = "running"])
          BY <2>3, <3>2 DEF Launch
        <5> QED BY <4>1, <5>1, Superseded
      <4>3. exec' \in Record
        BY <1>0, <2>3, <3>2, <4>1 DEF Launch, Record
      <4> QED BY <1>1, <2>3, <4>2, <4>3 DEF Launch
    <3> QED BY <3>1, <3>2
  <2>4. CASE Join(p)
    <3>1. proc' \in [Procs -> Proc]
      BY <2>4, GotoTyped DEF Join, Points
    <3>2. exec' \in Record
      BY <1>0, <2>4 DEF Join, Record
    <3> QED BY <1>1, <2>4, <3>1, <3>2 DEF Join
  <2>5. CASE VerifyFramework(p) \/ Compare(p)
    <3>1. proc' \in [Procs -> Proc]
      BY <2>5, GotoTyped DEF VerifyFramework, Compare, Points
    <3> QED BY <1>0, <1>1, <2>5, <3>1 DEF VerifyFramework, Compare
  <2>6. CASE Report(p)
    <3> DEFINE r == [proc[p] EXCEPT !.pc = "expect", !.reported = source]
    <3>1. proc' = [proc EXCEPT ![p] = r]
      BY <1>0, <2>6 DEF Report
    <3>2. r \in Proc
      BY <1>0, Fields DEF Points
    <3> QED BY <1>0, <1>1, <2>6, <3>1, <3>2 DEF Report
  <2>7. CASE Expect(p)
    <3> DEFINE r == [proc[p] EXCEPT !.pc = "compare", !.expected = source]
    <3>1. proc' = [proc EXCEPT ![p] = r]
      BY <1>0, <2>7 DEF Expect
    <3>2. r \in Proc
      BY <1>0, Fields DEF Points
    <3> QED BY <1>0, <1>1, <2>7, <3>1, <3>2 DEF Expect
  <2>8. CASE Inspect(p)
    <3>1. CASE exec.status = "STARTED" /\ AssignmentMatches(p)
      <4> DEFINE r == [proc[p] EXCEPT !.pc = "mark", !.current = TRUE]
      <4>1. proc' = [proc EXCEPT ![p] = r]
        BY <1>0, <2>8, <3>1 DEF Inspect
      <4>2. r \in Proc
        BY <1>0, Fields DEF Points
      <4> QED BY <1>0, <1>1, <2>8, <4>1, <4>2 DEF Inspect
    <3>2. CASE ~(exec.status = "STARTED" /\ AssignmentMatches(p))
      BY <1>0, <1>1, <2>8, <3>2, GotoTyped DEF Inspect, Points
    <3> QED BY <3>1, <3>2
  <2>9. CASE MarkFailed(p)
    <3>1. CASE proc[p].current /\ exec.status = "STARTED"
      <4>1. [proc EXCEPT ![p].pc = "idle"] \in [Procs -> Proc]
        BY <1>0, Moved DEF Points
      <4>2. proc' \in [Procs -> Proc]
        <5>1. proc' = Supersede(p, [proc EXCEPT ![p].pc = "idle"])
          BY <2>9, <3>1 DEF MarkFailed
        <5> QED BY <4>1, <5>1, Superseded
      <4>3. exec' \in Record
        BY <1>0, <2>9, <3>1 DEF MarkFailed, Record
      <4> QED BY <1>1, <2>9, <4>2, <4>3 DEF MarkFailed
    <3>2. CASE ~(proc[p].current /\ exec.status = "STARTED")
      BY <1>0, <1>1, <2>9, <3>2, GotoTyped DEF MarkFailed, Points
    <3> QED BY <3>1, <3>2
  <2> QED
    BY <1>3, <2>1, <2>2, <2>3, <2>4, <2>5, <2>6, <2>7, <2>8, <2>9 DEF Command
<1>4. ASSUME NEW p \in Procs, NEW x \in Partitions, StartWorker(p, x) PROVE TypeOK'
  <2> DEFINE w == proc[p].worker
             entered == [w EXCEPT ![x] = IF PassesGate(p, proc[p].slots)
                                         THEN "admitted" ELSE "waiting"]
             after == IF proc[p].slots + 1 = Workers
                      THEN [y \in Partitions |-> IF entered[y] = "waiting"
                                                 THEN "admitted" ELSE entered[y]]
                      ELSE entered
             peak == IF Active(p) + 1 > proc[p].peak THEN Active(p) + 1 ELSE proc[p].peak
             slots == IF proc[p].slots < Workers THEN proc[p].slots + 1 ELSE proc[p].slots
  <2>1. proc' = [proc EXCEPT ![p].slots = slots, ![p].peak = peak, ![p].worker = after]
    BY <1>0, <1>4 DEF StartWorker
  <2>2. w \in [Partitions -> WorkerStates] /\ proc[p].slots \in 0..Workers
        /\ proc[p].peak \in 0..Workers
    BY <1>0 DEF Proc
  <2>3. after \in [Partitions -> WorkerStates]
    <3>1. entered \in [Partitions -> WorkerStates]
      BY <2>2 DEF WorkerStates
    <3> HIDE DEF entered
    <3> QED BY <3>1 DEF WorkerStates
  <2>4. peak \in 0..Workers /\ slots \in 0..Workers
    <3>1. Active(p) \in Nat /\ Active(p) + 1 <= Workers
      BY <1>4, Occupancy DEF StartWorker
    <3> QED BY <1>0, <2>2, <3>1
  <2> HIDE DEF after, peak, slots
  <2>5. proc' \in [Procs -> Proc]
    <3> DEFINE r == [proc[p] EXCEPT !.slots = slots, !.peak = peak, !.worker = after]
    <3>1. proc' = [proc EXCEPT ![p] = r]
      BY <1>0, <2>1
    <3>2. r \in Proc
      BY <1>0, <2>3, <2>4, Counters
    <3> HIDE DEF r
    <3> QED BY <1>0, <3>1, <3>2
  <2> QED BY <1>0, <1>1, <1>4, <2>5 DEF StartWorker
<1>5. ASSUME NEW p \in Procs, NEW x \in Partitions, NEW to \in WorkerStates, SetWorker(p, x, to)
      PROVE  proc' \in [Procs -> Proc]
  <2> DEFINE r == [proc[p] EXCEPT !.worker[x] = to]
  <2>1. proc' = [proc EXCEPT ![p] = r]
    BY <1>0, <1>5 DEF SetWorker
  <2>2. r \in Proc
    <3>1. proc[p] \in Proc /\ [proc[p].worker EXCEPT ![x] = to] \in [Partitions -> WorkerStates]
      BY <1>0 DEF Proc
    <3>2. r = [proc[p] EXCEPT !.worker = [proc[p].worker EXCEPT ![x] = to]]
      OBVIOUS
    <3> HIDE DEF r
    <3> QED BY <3>1, <3>2 DEF Proc
  <2> HIDE DEF r
  <2> QED BY <1>0, <2>1, <2>2
<1>6. ASSUME NEW p \in Procs, NEW x \in Partitions, AdmissionTimeout(p, x) PROVE TypeOK'
  BY <1>0, <1>1, <1>5, <1>6 DEF AdmissionTimeout, WorkerStates
<1>7. ASSUME NEW p \in Procs, NEW x \in Partitions, Work(p, x) PROVE TypeOK'
  <2>1. proc' \in [Procs -> Proc]
    BY <1>5, <1>7 DEF Work, WorkerStates, ShortWrite
  <2>2. rows' \in [Partitions -> Sources]
    BY <1>0, <1>7 DEF Work
  <2> QED BY <1>7, <2>1, <2>2 DEF Work, TypeOK, Sources
<1>8. ASSUME NEW p \in Procs, NEW x \in Partitions, CommitPartition(p, x) PROVE TypeOK'
  <2>1. proc' \in [Procs -> Proc]
    BY <1>5, <1>8 DEF CommitPartition, WorkerStates
  <2>2. exec' \in Record
    BY <1>0, <1>8 DEF CommitPartition, Record
  <2> QED BY <1>1, <1>8, <2>1, <2>2 DEF CommitPartition
<1>9. ASSUME NEW p \in Procs, RequestStop(p) PROVE TypeOK'
  <2> DEFINE r == [proc[p] EXCEPT !.stop = TRUE]
  <2>1. proc' = [proc EXCEPT ![p] = r]
    BY <1>0, <1>9 DEF RequestStop
  <2>2. r \in Proc
    BY <1>0, Fields DEF Points
  <2> QED BY <1>0, <1>1, <1>9, <2>1, <2>2 DEF RequestStop
<1>10. ASSUME NEW p \in Procs, Crash(p) PROVE TypeOK'
  BY <1>0, <1>1, <1>10, IdleTyped DEF Crash
<1>11. CASE MutateSource
  <2>1. source' \in Contents /\ past' = Append(past, source) /\ Len(past) < MaxMutations
        /\ UNCHANGED <<rows, exec, proc>>
    BY <1>11 DEF MutateSource
  <2>2. past' \in Seq(Contents) /\ Len(past') <= MaxMutations
    BY <1>0, <2>1 DEF TypeOK
  <2> QED BY <2>1, <2>2 DEF TypeOK
<1>12. CASE UNCHANGED vars
  BY <1>12 DEF vars, TypeOK
<1> QED
  BY <1>2, <1>3, <1>4, <1>6, <1>7, <1>8, <1>9, <1>10, <1>11, <1>12 DEF Next, Worker

LEMMA TypeInit == Init => TypeOK
  BY IdleTyped, PartitionAssumption DEF Init, TypeOK

\* Every variable keeps its type, and the occupancy its budget.
THEOREM PartitionTypes == Spec => []TypeOK
<1> QED BY TypeInit, TypeStep, PTL DEF Spec

-----------------------------------------------------------------------------
(* What a step does to the processes, and to what is durable.              *)

\* Process q stands where it stood.
Stands(q) ==
    /\ proc'[q].pc = proc[q].pc /\ proc'[q].digest = proc[q].digest
    /\ proc'[q].worker = proc[q].worker

\* A command changes no worker, nothing of another process, and no rows.
LEMMA CommandLeaves ==
  ASSUME TypeOK, NEW p \in Procs, Command(p)
  PROVE  /\ \A q \in Procs : proc'[q].worker = proc[q].worker
         /\ \A q \in Procs : q # p => Stands(q)
         /\ UNCHANGED <<source, past, rows>>
<1>0. proc \in [Procs -> Proc]
  BY DEF TypeOK
<1>1. ASSUME NEW pc \in Points, Goto(p, pc)
      PROVE  /\ \A q \in Procs : proc'[q].worker = proc[q].worker
             /\ \A q \in Procs : q # p => Stands(q)
  BY <1>0, <1>1 DEF Goto, Stands
<1>2. ASSUME NEW pc \in Points, proc' = Supersede(p, [proc EXCEPT ![p].pc = pc])
      PROVE  /\ \A q \in Procs : proc'[q].worker = proc[q].worker
             /\ \A q \in Procs : q # p => Stands(q)
  <2> DEFINE f == [proc EXCEPT ![p].pc = pc]
  <2>1. f \in [Procs -> Proc]
    BY <1>0, Moved
  <2>2. \A q \in Procs : f[q].worker = proc[q].worker /\ (q # p => f[q] = proc[q])
    BY <1>0
  <2>3. \A q \in Procs : /\ Supersede(p, f)[q].worker = f[q].worker
                         /\ Supersede(p, f)[q].pc = f[q].pc
                         /\ Supersede(p, f)[q].digest = f[q].digest
    <3> SUFFICES ASSUME NEW q \in Procs
                 PROVE  /\ Supersede(p, f)[q].worker = f[q].worker
                        /\ Supersede(p, f)[q].pc = f[q].pc
                        /\ Supersede(p, f)[q].digest = f[q].digest
      OBVIOUS
    <3>1. Supersede(p, f)[q] = [f[q] EXCEPT !.current = (q = p)] /\ f[q] \in Proc
      BY <2>1, Superseded
    <3> QED BY <3>1 DEF Proc
  <2> QED BY <1>2, <2>2, <2>3 DEF Stands
<1>3. CASE ReadBaseline(p)
  BY <1>0, <1>3 DEF ReadBaseline, Stands
<1>4. CASE Identify(p)
  BY <1>0, <1>4 DEF Identify, Stands
<1>5. CASE Launch(p)
  BY <1>1, <1>2, <1>5 DEF Launch, Points
<1>6. CASE Join(p)
  BY <1>1, <1>6 DEF Join, Points
<1>7. CASE VerifyFramework(p) \/ Compare(p)
  BY <1>1, <1>7 DEF VerifyFramework, Compare, Points
<1>8. CASE Report(p) \/ Expect(p)
  <2>1. CASE Report(p)
    BY <1>0, <2>1 DEF Report, Stands
  <2>2. CASE Expect(p)
    BY <1>0, <2>2 DEF Expect, Stands
  <2> QED BY <1>8, <2>1, <2>2
<1>9. CASE Inspect(p)
  <2>1. CASE exec.status = "STARTED" /\ AssignmentMatches(p)
    <3>1. proc' = [proc EXCEPT ![p].pc = "mark", ![p].current = TRUE]
      BY <1>9, <2>1 DEF Inspect
    <3> QED BY <1>0, <1>9, <3>1 DEF Inspect, Stands
  <2>2. CASE ~(exec.status = "STARTED" /\ AssignmentMatches(p))
    BY <1>1, <1>9, <2>2 DEF Inspect, Points
  <2> QED BY <2>1, <2>2
<1>10. CASE MarkFailed(p)
  BY <1>1, <1>2, <1>10 DEF MarkFailed, Points
<1> QED BY <1>3, <1>4, <1>5, <1>6, <1>7, <1>8, <1>9, <1>10 DEF Command

\* No worker returns in this step.
NoneReturns ==
    \A q \in Procs, x \in Partitions :
       proc'[q].worker[x] = "returned" => proc[q].worker[x] = "returned"

\* A worker that moves leaves the others, and the point of its command.
LEMMA WorkerMoves ==
  ASSUME TypeOK, NEW p \in Procs, NEW x \in Partitions, NEW to \in WorkerStates,
         SetWorker(p, x, to)
  PROVE  /\ proc'[p].worker[x] = to
         /\ \A q \in Procs, y \in Partitions :
              (q = p /\ y = x) \/ proc'[q].worker[y] = proc[q].worker[y]
         /\ \A q \in Procs : proc'[q].pc = proc[q].pc /\ proc'[q].digest = proc[q].digest
         /\ to # "returned" => NoneReturns
<1>1. proc \in [Procs -> Proc] /\ proc[p].worker \in [Partitions -> WorkerStates]
  BY DEF TypeOK, Proc
<1>2. proc'[p] = [proc[p] EXCEPT !.worker[x] = to] /\ \A q \in Procs : q # p => proc'[q] = proc[q]
  BY <1>1 DEF SetWorker
<1>3. /\ proc'[p].worker = [proc[p].worker EXCEPT ![x] = to]
      /\ proc'[p].pc = proc[p].pc /\ proc'[p].digest = proc[p].digest
  BY <1>1, <1>2
<1>4. /\ proc'[p].worker[x] = to
      /\ \A y \in Partitions : y # x => proc'[p].worker[y] = proc[p].worker[y]
  BY <1>1, <1>3
<1>5. \A q \in Procs, y \in Partitions :
         (q = p /\ y = x) \/ proc'[q].worker[y] = proc[q].worker[y]
  BY <1>2, <1>4
<1>6. to # "returned" => NoneReturns
  BY <1>4, <1>5 DEF NoneReturns
<1>7. \A q \in Procs : proc'[q].pc = proc[q].pc /\ proc'[q].digest = proc[q].digest
  BY <1>2, <1>3
<1> QED BY <1>4, <1>5, <1>6, <1>7

\* A worker that starts makes no other worker return.
LEMMA AdmissionStep ==
  ASSUME TypeOK, NEW p \in Procs, NEW x \in Partitions, StartWorker(p, x)
  PROVE  /\ NoneReturns
         /\ \A q \in Procs : proc'[q].pc = proc[q].pc /\ proc'[q].digest = proc[q].digest
         /\ \A q \in Procs : q # p => Stands(q)
<1> DEFINE entered == [proc[p].worker EXCEPT ![x] = IF PassesGate(p, proc[p].slots)
                                                    THEN "admitted" ELSE "waiting"]
           after == IF proc[p].slots + 1 = Workers
                    THEN [y \in Partitions |-> IF entered[y] = "waiting"
                                               THEN "admitted" ELSE entered[y]]
                    ELSE entered
           peak == IF Active(p) + 1 > proc[p].peak THEN Active(p) + 1 ELSE proc[p].peak
           slots == IF proc[p].slots < Workers THEN proc[p].slots + 1 ELSE proc[p].slots
<1>1. proc \in [Procs -> Proc] /\ proc[p].worker \in [Partitions -> WorkerStates]
  BY DEF TypeOK, Proc
<1>2. proc' = [proc EXCEPT ![p].slots = slots, ![p].peak = peak, ![p].worker = after]
  BY <1>1 DEF StartWorker
<1>3. \A y \in Partitions : after[y] = "returned" => proc[p].worker[y] = "returned"
  <2>1. \A y \in Partitions : entered[y] = "returned" => proc[p].worker[y] = "returned"
    BY <1>1
  <2> HIDE DEF entered
  <2> QED BY <2>1
<1> HIDE DEF after, peak, slots
<1>4. /\ proc'[p].worker = after
      /\ proc'[p].pc = proc[p].pc /\ proc'[p].digest = proc[p].digest
      /\ \A q \in Procs : q # p => proc'[q] = proc[q]
  BY <1>1, <1>2
<1>5. NoneReturns
  BY <1>3, <1>4 DEF NoneReturns
<1> QED BY <1>4, <1>5 DEF Stands

\* A process that starts or is killed has no workers.
LEMMA FreshStep ==
  ASSUME TypeOK, NEW p \in Procs, Start(p) \/ Crash(p)
  PROVE  /\ proc'[p].pc \in {"idle", "baseline", "identify"}
         /\ proc'[p].worker = [x \in Partitions |-> "none"]
         /\ \A q \in Procs : q # p => Stands(q)
         /\ UNCHANGED <<source, past, rows, exec>>
<1>1. proc \in [Procs -> Proc]
  BY DEF TypeOK
<1>2. CASE Start(p)
  <2>1. PICK cmd \in Commands :
          proc' = [proc EXCEPT ![p] = [Idle EXCEPT !.cmd = cmd,
                     !.pc = IF cmd = "qualify" THEN "baseline" ELSE "identify"]]
    BY <1>2 DEF Start
  <2>2. proc'[p].worker = Idle.worker /\ proc'[p].pc \in {"idle", "baseline", "identify"}
    BY <1>1, <2>1 DEF Idle
  <2>3. \A q \in Procs : q # p => proc'[q] = proc[q]
    BY <1>1, <2>1
  <2>4. Idle.worker = [x \in Partitions |-> "none"]
    BY DEF Idle
  <2> QED BY <1>2, <2>2, <2>3, <2>4 DEF Start, Stands
<1>3. CASE Crash(p)
  BY <1>1, <1>3 DEF Crash, Idle, Stands
<1> QED BY <1>2, <1>3

-----------------------------------------------------------------------------
(* A durable result has its rows.  A worker that has returned has already  *)
(* written, and written rows are only ever replaced by rows.               *)

ReturnedMeansProjected ==
    \A p \in Procs, x \in Partitions :
       proc[p].worker[x] = "returned" => rows[x] # NoRows
Projected == TypeOK /\ DoneMeansProjected /\ ReturnedMeansProjected

LEMMA ProjectedStep == ASSUME Projected, [Next]_vars PROVE Projected'
<1>0. TypeOK /\ TypeOK' /\ exec \in Record /\ rows \in [Partitions -> Sources]
  BY TypeStep DEF Projected, TypeOK, Record, Sources
<1>1. ASSUME UNCHANGED rows, exec'.done \subseteq exec.done, NoneReturns
      PROVE  Projected'
  BY <1>0, <1>1 DEF Projected, DoneMeansProjected, ReturnedMeansProjected, NoneReturns
<1>2. ASSUME NEW p \in Procs, Start(p) \/ Crash(p) PROVE Projected'
  BY <1>0, <1>1, <1>2, FreshStep DEF Stands, NoneReturns
<1>3. ASSUME NEW p \in Procs, Command(p) PROVE Projected'
  <2>1. exec'.done \subseteq exec.done
    BY <1>0, <1>3 DEF Command, ReadBaseline, Identify, Launch, Join, VerifyFramework,
                      Report, Expect, Compare, Inspect, MarkFailed, Record
  <2> QED BY <1>0, <1>1, <1>3, <2>1, CommandLeaves DEF NoneReturns
<1>4. ASSUME NEW p \in Procs, NEW x \in Partitions, StartWorker(p, x) PROVE Projected'
  BY <1>0, <1>1, <1>4, AdmissionStep DEF StartWorker
<1>5. ASSUME NEW p \in Procs, NEW x \in Partitions, AdmissionTimeout(p, x) PROVE Projected'
  <2>1. SetWorker(p, x, "failed") /\ UNCHANGED <<rows, exec>>
    BY <1>5 DEF AdmissionTimeout
  <2> QED BY <1>0, <1>1, <2>1, WorkerMoves DEF WorkerStates
<1>6. ASSUME NEW p \in Procs, NEW x \in Partitions, Work(p, x) PROVE Projected'
  <2>1. ASSUME UNCHANGED rows, NEW to \in {"failed", "stopped"}, SetWorker(p, x, to)
        PROVE  Projected'
    BY <1>0, <1>1, <1>6, <2>1, WorkerMoves DEF Work, WorkerStates
  <2>2. CASE rows' = [rows EXCEPT ![x] = source] /\ SetWorker(p, x, "returned")
    <3>1. source # NoRows
      BY <1>0, PartitionAssumption DEF TypeOK
    <3>2. rows'[x] # NoRows /\ \A y \in Partitions : y # x => rows'[y] = rows[y]
      BY <1>0, <2>2, <3>1
    <3>3. \A q \in Procs, y \in Partitions :
             (q = p /\ y = x) \/ proc'[q].worker[y] = proc[q].worker[y]
      BY <1>0, <2>2, WorkerMoves DEF WorkerStates
    <3>4. exec' = exec
      BY <1>6 DEF Work
    <3>5. DoneMeansProjected'
      BY <1>0, <3>2, <3>4 DEF Projected, DoneMeansProjected, Record
    <3>6. ReturnedMeansProjected'
      <4> SUFFICES ASSUME NEW q \in Procs, NEW y \in Partitions,
                          proc'[q].worker[y] = "returned"
                   PROVE  rows'[y] # NoRows
        BY DEF ReturnedMeansProjected
      <4>1. CASE y = x
        BY <3>2, <4>1
      <4>2. CASE y # x
        BY <3>2, <3>3, <4>2 DEF Projected, ReturnedMeansProjected
      <4> QED BY <4>1, <4>2
    <3> QED BY <1>0, <3>5, <3>6 DEF Projected
  <2> QED BY <1>6, <2>1, <2>2 DEF Work, ShortWrite
<1>7. ASSUME NEW p \in Procs, NEW x \in Partitions, CommitPartition(p, x) PROVE Projected'
  <2>1. proc[p].worker[x] = "returned" /\ SetWorker(p, x, "done") /\ UNCHANGED rows
    BY <1>7 DEF CommitPartition
  <2>2. exec'.done \subseteq exec.done \union {x}
    BY <1>0, <1>7 DEF CommitPartition, Record
  <2>3. NoneReturns
    BY <1>0, <2>1, WorkerMoves DEF WorkerStates
  <2>4. rows[x] # NoRows
    BY <2>1 DEF Projected, ReturnedMeansProjected
  <2> QED
    BY <1>0, <2>1, <2>2, <2>3, <2>4
       DEF Projected, DoneMeansProjected, ReturnedMeansProjected, NoneReturns
<1>8. ASSUME NEW p \in Procs, RequestStop(p) PROVE Projected'
  <2>1. \A q \in Procs : proc'[q].worker = proc[q].worker
    BY <1>0, <1>8 DEF RequestStop, TypeOK
  <2> QED BY <1>1, <1>8, <2>1 DEF RequestStop, NoneReturns
<1>9. CASE MutateSource \/ UNCHANGED vars
  BY <1>1, <1>9 DEF MutateSource, vars, NoneReturns
<1> QED
  BY <1>2, <1>3, <1>4, <1>5, <1>6, <1>7, <1>8, <1>9 DEF Next, Worker

\* A partition whose result is durable has its rows, whatever happens between
\* its two boundaries.
THEOREM ResultsHaveRows == Spec => []DoneMeansProjected
<1>1. Init => Projected
  BY TypeInit DEF Init, Idle, Projected, DoneMeansProjected, ReturnedMeansProjected
<1>2. Projected => DoneMeansProjected
  BY DEF Projected
<1> QED BY <1>1, <1>2, ProjectedStep, PTL DEF Spec

-----------------------------------------------------------------------------
(* While the source changes only between commands, a run that has          *)
(* identified it works with it as it still is, so a worker writes what the *)
(* durable plan records, and no other process can write anything else.     *)

\* The points of a command that has not identified the source, or has ended.
Unbound == {"idle", "baseline", "identify", "failed", "passed"}

\* What a command does to its own point and to the execution.
LEMMA CommandPoint ==
  ASSUME TypeOK, NEW p \in Procs, Command(p)
  PROVE  /\ \/ proc'[p].pc \in Unbound
            \/ proc'[p].digest = source
            \/ proc[p].pc \notin Unbound /\ proc'[p].digest = proc[p].digest
         /\ proc[p].pc = "running" => Unjoined(p) = {}
         /\ proc'[p].pc = "running" => exec'.status = "STARTED"
         /\ \/ UNCHANGED exec
            \/ /\ exec.status = "NONE" /\ exec'.status = "STARTED" /\ exec'.done = {}
            \/ /\ UNCHANGED <<exec.digest, exec.done>> /\ exec'.status # "NONE"
               /\ exec'.status = "COMPLETED" => exec.done = Partitions
<1>0. proc \in [Procs -> Proc] /\ exec \in Record
  BY DEF TypeOK, Record, Sources
<1>1. ASSUME NEW pc \in Points, Goto(p, pc)
      PROVE  proc'[p].pc = pc /\ proc'[p].digest = proc[p].digest
  BY <1>0, <1>1 DEF Goto, Proc
<1>2. ASSUME NEW pc \in Points, proc' = Supersede(p, [proc EXCEPT ![p].pc = pc])
      PROVE  proc'[p].pc = pc /\ proc'[p].digest = proc[p].digest
  <2> DEFINE f == [proc EXCEPT ![p].pc = pc]
  <2>1. f \in [Procs -> Proc]
    BY <1>0, Moved
  <2>2. f[p].pc = pc /\ f[p].digest = proc[p].digest
    BY <1>0 DEF Proc
  <2>3. proc'[p] = [f[p] EXCEPT !.current = (p = p)] /\ f[p] \in Proc
    BY <1>2, <2>1, Superseded
  <2> QED BY <2>2, <2>3 DEF Proc
<1>3. CASE ReadBaseline(p)
  <2>1. proc'[p].pc = "identify"
    BY <1>0, <1>3 DEF ReadBaseline, Proc
  <2> QED BY <1>3, <2>1 DEF ReadBaseline, Unbound, At
<1>4. CASE Identify(p)
  <2> DEFINE pc == CASE proc[p].cmd \in {"run", "qualify"} -> "launch"
                     [] proc[p].cmd = "verify" -> "verify"
                     [] proc[p].cmd = "recover" -> "inspect"
  <2>1. proc' = [proc EXCEPT ![p].digest = source, ![p].pc = pc] /\ At(p, "identify")
        /\ UNCHANGED exec
    BY <1>4 DEF Identify
  <2>2. pc \in {"launch", "verify", "inspect"}
    BY <1>0 DEF Proc
  <2> HIDE DEF pc
  <2>3. proc'[p].digest = source /\ proc'[p].pc = pc
    BY <1>0, <2>1 DEF Proc
  <2> QED BY <2>1, <2>2, <2>3 DEF At
<1>5. CASE Launch(p)
  <2>1. CASE exec.status \in {"STARTED", "COMPLETED"}
    <3>1. Goto(p, "failed") /\ UNCHANGED exec /\ At(p, "launch")
      BY <1>5, <2>1 DEF Launch
    <3> QED BY <1>1, <3>1 DEF Points, Unbound, At
  <2>2. CASE exec.status \notin {"STARTED", "COMPLETED"}
    <3>1. proc' = Supersede(p, [proc EXCEPT ![p].pc = "running"]) /\ At(p, "launch")
          /\ exec' = IF exec.status = "NONE"
                     THEN [status |-> "STARTED", digest |-> proc[p].digest, done |-> {}]
                     ELSE [exec EXCEPT !.status = "STARTED"]
      BY <1>5, <2>2 DEF Launch
    <3>2. proc'[p].pc = "running" /\ proc'[p].digest = proc[p].digest
      BY <1>2, <3>1 DEF Points
    <3>3. \/ exec.status = "NONE" /\ exec'.status = "STARTED" /\ exec'.done = {}
          \/ UNCHANGED <<exec.digest, exec.done>> /\ exec'.status = "STARTED"
      BY <1>0, <3>1 DEF Record
    <3> QED BY <3>1, <3>2, <3>3 DEF Unbound, At
  <2> QED BY <2>1, <2>2
<1>6. CASE Join(p)
  <2>1. Unjoined(p) = {} /\ At(p, "running")
    BY <1>6 DEF Join
  <2>2. CASE UNCHANGED exec /\ Goto(p, "failed")
    BY <1>1, <2>1, <2>2 DEF Points, Unbound
  <2>3. CASE Goto(p, "verify") /\ exec.status = "STARTED" /\ ~ (UNCHANGED exec /\ Goto(p, "failed"))
    <3>1. PICK status \in {"COMPLETED", "STOPPED", "FAILED"} :
             /\ exec' = [exec EXCEPT !.status = status]
             /\ status = "COMPLETED" => exec.done = Partitions
      BY <1>6, <2>3 DEF Join
    <3>2. UNCHANGED <<exec.digest, exec.done>> /\ exec'.status = status
      BY <1>0, <3>1 DEF Record
    <3>3. proc'[p].pc = "verify" /\ proc'[p].digest = proc[p].digest
      BY <1>1, <2>3 DEF Points
    <3> QED BY <2>1, <3>1, <3>2, <3>3 DEF Unbound, At
  <2> QED BY <1>6, <2>2, <2>3 DEF Join
<1>7. CASE VerifyFramework(p) \/ Compare(p)
  <2>1. UNCHANGED exec /\ proc[p].pc \in {"verify", "compare"}
        /\ \E pc \in {"report", "passed", "failed"} : Goto(p, pc)
    BY <1>7 DEF VerifyFramework, Compare, At
  <2> QED BY <1>1, <2>1 DEF Points, Unbound
<1>8. CASE Report(p)
  <2>1. proc'[p].pc = "expect" /\ proc'[p].digest = proc[p].digest
    BY <1>0, <1>8 DEF Report, Proc
  <2> QED BY <1>8, <2>1 DEF Report, At, Unbound
<1>9. CASE Expect(p)
  <2>1. proc'[p].pc = "compare" /\ proc'[p].digest = proc[p].digest
    BY <1>0, <1>9 DEF Expect, Proc
  <2> QED BY <1>9, <2>1 DEF Expect, At, Unbound
<1>10. CASE Inspect(p)
  <2>1. UNCHANGED exec /\ At(p, "inspect")
    BY <1>10 DEF Inspect
  <2>2. proc'[p].pc \in {"mark", "failed"} /\ proc'[p].digest = proc[p].digest
    <3>1. CASE proc' = [proc EXCEPT ![p].pc = "mark", ![p].current = TRUE]
      BY <1>0, <3>1 DEF Proc
    <3>2. CASE Goto(p, "failed")
      BY <1>1, <3>2 DEF Points
    <3> QED BY <1>10, <3>1, <3>2 DEF Inspect
  <2> QED BY <2>1, <2>2 DEF At, Unbound
<1>11. CASE MarkFailed(p)
  <2>1. At(p, "mark")
    BY <1>11 DEF MarkFailed
  <2>2. CASE proc[p].current /\ exec.status = "STARTED"
    <3>1. proc' = Supersede(p, [proc EXCEPT ![p].pc = "idle"])
          /\ exec' = [exec EXCEPT !.status = "FAILED"]
      BY <1>11, <2>2 DEF MarkFailed
    <3>2. proc'[p].pc = "idle"
      BY <1>2, <3>1 DEF Points
    <3>3. UNCHANGED <<exec.digest, exec.done>> /\ exec'.status = "FAILED"
      BY <1>0, <3>1 DEF Record
    <3> QED BY <2>1, <3>2, <3>3 DEF At, Unbound
  <2>3. CASE ~ (proc[p].current /\ exec.status = "STARTED")
    <3>1. Goto(p, "failed") /\ UNCHANGED exec
      BY <1>11, <2>3 DEF MarkFailed
    <3> QED BY <1>1, <2>1, <3>1 DEF At, Points, Unbound
  <2> QED BY <2>2, <2>3
<1> QED
  BY <1>3, <1>4, <1>5, <1>6, <1>7, <1>8, <1>9, <1>10, <1>11 DEF Command

Unfinished == {"waiting", "admitted", "returned"}

WorkersBelongToRun ==
    \A p \in Procs, x \in Partitions :
       proc[p].worker[x] \in Unfinished => proc[p].pc = "running"
RunHasPlan == \A p \in Procs : proc[p].pc = "running" => exec.status # "NONE"
SourceAsIdentified ==
    \A p \in Procs : proc[p].pc \in Unbound \/ proc[p].digest = source
ReturnedFromPlan ==
    \A p \in Procs, x \in Partitions :
       proc[p].worker[x] = "returned" => rows[x] = exec.digest
DoneFromPlan == \A x \in exec.done : rows[x] = exec.digest
CompletedIsAll == exec.status = "COMPLETED" => exec.done = Partitions

Planned ==
    /\ TypeOK
    /\ WorkersBelongToRun /\ RunHasPlan /\ SourceAsIdentified
    /\ ReturnedFromPlan /\ DoneFromPlan /\ CompletedIsAll

LEMMA PlannedCommand ==
  ASSUME Planned, NEW p \in Procs, Command(p) PROVE Planned'
<1>0. TypeOK /\ TypeOK' /\ exec \in Record
  BY TypeStep DEF Planned, TypeOK, Record, Sources, Next
<1>1. /\ \A q \in Procs : proc'[q].worker = proc[q].worker
      /\ \A q \in Procs : q # p => proc'[q].pc = proc[q].pc /\ proc'[q].digest = proc[q].digest
      /\ UNCHANGED <<source, past, rows>>
  BY <1>0, CommandLeaves DEF Stands
<1>2. /\ \/ proc'[p].pc \in Unbound
         \/ proc'[p].digest = source
         \/ proc[p].pc \notin Unbound /\ proc'[p].digest = proc[p].digest
      /\ proc[p].pc = "running" => Unjoined(p) = {}
      /\ proc'[p].pc = "running" => exec'.status = "STARTED"
      /\ \/ UNCHANGED exec
         \/ /\ exec.status = "NONE" /\ exec'.status = "STARTED" /\ exec'.done = {}
         \/ /\ UNCHANGED <<exec.digest, exec.done>> /\ exec'.status # "NONE"
            /\ exec'.status = "COMPLETED" => exec.done = Partitions
  BY <1>0, CommandPoint
<1>3. \A x \in Partitions : proc[p].worker[x] \notin Unfinished
  <2>1. CASE proc[p].pc = "running"
    BY <1>2, <2>1 DEF Unjoined, InState, Unfinished
  <2>2. CASE proc[p].pc # "running"
    BY <2>2 DEF Planned, WorkersBelongToRun
  <2> QED BY <2>1, <2>2
<1>4. WorkersBelongToRun'
  BY <1>1, <1>3 DEF Planned, WorkersBelongToRun
<1>5. RunHasPlan'
  BY <1>1, <1>2 DEF Planned, RunHasPlan
<1>6. SourceAsIdentified'
  BY <1>1, <1>2 DEF Planned, SourceAsIdentified
<1>7. CASE UNCHANGED <<exec.digest, exec.done>>
  <2>1. ReturnedFromPlan' /\ DoneFromPlan'
    BY <1>1, <1>7 DEF Planned, ReturnedFromPlan, DoneFromPlan
  <2>2. CompletedIsAll'
    BY <1>2, <1>7 DEF Planned, CompletedIsAll
  <2> QED BY <1>0, <1>4, <1>5, <1>6, <2>1, <2>2 DEF Planned
<1>8. CASE exec.status = "NONE" /\ exec'.status = "STARTED" /\ exec'.done = {}
  <2>1. \A q \in Procs, x \in Partitions : proc[q].worker[x] # "returned"
    BY <1>8 DEF Planned, WorkersBelongToRun, RunHasPlan, Unfinished
  <2>2. ReturnedFromPlan'
    BY <1>1, <2>1 DEF ReturnedFromPlan
  <2>3. DoneFromPlan' /\ CompletedIsAll'
    BY <1>8 DEF DoneFromPlan, CompletedIsAll
  <2> QED BY <1>0, <1>4, <1>5, <1>6, <2>2, <2>3 DEF Planned
<1> QED BY <1>2, <1>7, <1>8

LEMMA PlannedStep ==
  ASSUME Planned, [Next]_vars, source' # source => \A p \in Procs : ~ Running(p)
  PROVE  Planned'
<1>0. TypeOK /\ TypeOK' /\ exec \in Record /\ rows \in [Partitions -> Sources]
      /\ proc \in [Procs -> Proc]
  BY TypeStep DEF Planned, TypeOK, Record, Sources
<1>1. ASSUME UNCHANGED <<rows, exec>>, NoneReturns,
             WorkersBelongToRun', RunHasPlan', SourceAsIdentified'
      PROVE  Planned'
  BY <1>0, <1>1
     DEF Planned, NoneReturns, ReturnedFromPlan, DoneFromPlan, CompletedIsAll
<1>2. ASSUME NEW p \in Procs, Start(p) \/ Crash(p) PROVE Planned'
  <2>1. /\ proc'[p].pc \in {"idle", "baseline", "identify"}
        /\ \A x \in Partitions : proc'[p].worker[x] = "none"
        /\ \A q \in Procs : q # p => /\ proc'[q].pc = proc[q].pc
                                     /\ proc'[q].digest = proc[q].digest
                                     /\ proc'[q].worker = proc[q].worker
        /\ UNCHANGED <<source, past, rows, exec>>
    BY <1>0, <1>2, FreshStep DEF Stands
  <2>2. WorkersBelongToRun' /\ NoneReturns
    BY <2>1 DEF Planned, WorkersBelongToRun, Unfinished, NoneReturns
  <2>3. RunHasPlan'
    BY <2>1 DEF Planned, RunHasPlan
  <2>4. SourceAsIdentified'
    BY <2>1 DEF Planned, SourceAsIdentified, Unbound
  <2> QED BY <1>1, <2>1, <2>2, <2>3, <2>4
<1>3. ASSUME NEW p \in Procs, Command(p) PROVE Planned'
  BY <1>3, PlannedCommand
<1>4. ASSUME NEW p \in Procs, NEW x \in Partitions, StartWorker(p, x) PROVE Planned'
  <2>1. /\ NoneReturns /\ proc[p].pc = "running" /\ UNCHANGED <<source, past, rows, exec>>
        /\ \A q \in Procs : proc'[q].pc = proc[q].pc /\ proc'[q].digest = proc[q].digest
        /\ \A q \in Procs : q # p => proc'[q].worker = proc[q].worker
    BY <1>0, <1>4, AdmissionStep DEF StartWorker, Stands, At
  <2>2. WorkersBelongToRun'
    BY <2>1 DEF Planned, WorkersBelongToRun
  <2>3. RunHasPlan' /\ SourceAsIdentified'
    BY <2>1 DEF Planned, RunHasPlan, SourceAsIdentified
  <2> QED BY <1>1, <2>1, <2>2, <2>3
<1>5. ASSUME NEW p \in Procs, NEW x \in Partitions, NEW to \in WorkerStates,
             SetWorker(p, x, to), proc[p].worker[x] \in Unfinished, source' = source,
             exec'.status = exec.status
      PROVE  /\ WorkersBelongToRun' /\ RunHasPlan' /\ SourceAsIdentified'
             /\ proc'[p].worker[x] = to /\ (to # "returned" => NoneReturns)
             /\ \A q \in Procs, y \in Partitions :
                  (q = p /\ y = x) \/ proc'[q].worker[y] = proc[q].worker[y]
  <2>1. /\ \A q \in Procs, y \in Partitions :
             (q = p /\ y = x) \/ proc'[q].worker[y] = proc[q].worker[y]
        /\ \A q \in Procs : proc'[q].pc = proc[q].pc /\ proc'[q].digest = proc[q].digest
        /\ proc'[p].worker[x] = to /\ (to # "returned" => NoneReturns)
    BY <1>0, <1>5, WorkerMoves
  <2>2. WorkersBelongToRun'
    <3> SUFFICES ASSUME NEW q \in Procs, NEW y \in Partitions,
                        proc'[q].worker[y] \in Unfinished
                 PROVE  proc'[q].pc = "running"
      BY DEF WorkersBelongToRun
    <3>1. CASE q = p /\ y = x
      BY <1>5, <2>1, <3>1 DEF Planned, WorkersBelongToRun
    <3>2. CASE proc'[q].worker[y] = proc[q].worker[y]
      BY <2>1, <3>2 DEF Planned, WorkersBelongToRun
    <3> QED BY <2>1, <3>1, <3>2
  <2>3. RunHasPlan' /\ SourceAsIdentified'
    BY <1>5, <2>1 DEF Planned, RunHasPlan, SourceAsIdentified
  <2> QED BY <2>1, <2>2, <2>3
<1>6. ASSUME NEW p \in Procs, NEW x \in Partitions, AdmissionTimeout(p, x) PROVE Planned'
  <2>1. /\ SetWorker(p, x, "failed") /\ proc[p].worker[x] \in Unfinished
        /\ UNCHANGED <<source, past, rows, exec>>
    BY <1>6 DEF AdmissionTimeout, Unfinished
  <2> QED BY <1>1, <1>5, <2>1 DEF WorkerStates
<1>7. ASSUME NEW p \in Procs, NEW x \in Partitions, Work(p, x) PROVE Planned'
  <2>1. UNCHANGED <<source, past, exec>> /\ proc[p].worker[x] \in Unfinished
    BY <1>7 DEF Work, Unfinished
  <2>2. ASSUME NEW to \in {"failed", "stopped"}, SetWorker(p, x, to), UNCHANGED rows
        PROVE  Planned'
    BY <1>1, <1>5, <2>1, <2>2 DEF WorkerStates
  <2>3. CASE /\ AssignmentMatches(p) /\ rows' = [rows EXCEPT ![x] = source]
             /\ SetWorker(p, x, "returned")
    <3>1. /\ WorkersBelongToRun' /\ RunHasPlan' /\ SourceAsIdentified'
          /\ \A q \in Procs, y \in Partitions :
               (q = p /\ y = x) \/ proc'[q].worker[y] = proc[q].worker[y]
      BY <1>5, <2>1, <2>3 DEF WorkerStates
    <3>2. proc[p].pc = "running"
      BY <2>1 DEF Planned, WorkersBelongToRun
    <3>3. source = exec.digest
      BY <2>3, <3>2 DEF Planned, SourceAsIdentified, Unbound, AssignmentMatches
    <3>4. rows'[x] = exec.digest /\ \A y \in Partitions : y # x => rows'[y] = rows[y]
      BY <1>0, <2>3, <3>3
    <3>5. ReturnedFromPlan'
      <4> SUFFICES ASSUME NEW q \in Procs, NEW y \in Partitions,
                          proc'[q].worker[y] = "returned"
                   PROVE  rows'[y] = exec.digest
        BY <2>1 DEF ReturnedFromPlan
      <4>1. CASE y = x
        BY <3>4, <4>1
      <4>2. CASE y # x
        BY <3>1, <3>4, <4>2 DEF Planned, ReturnedFromPlan
      <4> QED BY <4>1, <4>2
    <3>6. DoneFromPlan' /\ CompletedIsAll'
      BY <1>0, <2>1, <3>4 DEF Planned, DoneFromPlan, CompletedIsAll, Record
    <3> QED BY <1>0, <3>1, <3>5, <3>6 DEF Planned
  <2> QED BY <1>7, <2>2, <2>3 DEF Work, ShortWrite
<1>8. ASSUME NEW p \in Procs, NEW x \in Partitions, CommitPartition(p, x) PROVE Planned'
  <2>1. /\ SetWorker(p, x, "done") /\ proc[p].worker[x] = "returned"
        /\ UNCHANGED <<source, past, rows>>
    BY <1>8 DEF CommitPartition
  <2>2. /\ exec'.status = exec.status /\ exec'.digest = exec.digest
        /\ exec'.done \subseteq exec.done \union {x} /\ exec.done \subseteq exec'.done
    BY <1>0, <1>8 DEF CommitPartition, Record
  <2>3. WorkersBelongToRun' /\ RunHasPlan' /\ SourceAsIdentified' /\ NoneReturns
    BY <1>5, <2>1, <2>2 DEF WorkerStates, Unfinished
  <2>4. ReturnedFromPlan'
    BY <2>1, <2>2, <2>3 DEF Planned, ReturnedFromPlan, NoneReturns
  <2>5. DoneFromPlan'
    BY <2>1, <2>2 DEF Planned, ReturnedFromPlan, DoneFromPlan
  <2>6. CompletedIsAll'
    BY <1>0, <2>2 DEF Planned, CompletedIsAll, Record
  <2> QED BY <1>0, <2>3, <2>4, <2>5, <2>6 DEF Planned
<1>9. ASSUME NEW p \in Procs, RequestStop(p) PROVE Planned'
  <2>1. /\ \A q \in Procs : /\ proc'[q].worker = proc[q].worker
                            /\ proc'[q].pc = proc[q].pc /\ proc'[q].digest = proc[q].digest
        /\ UNCHANGED <<source, past, rows, exec>>
    BY <1>0, <1>9 DEF RequestStop
  <2>2. WorkersBelongToRun' /\ RunHasPlan' /\ SourceAsIdentified' /\ NoneReturns
    BY <2>1 DEF Planned, WorkersBelongToRun, RunHasPlan, SourceAsIdentified, NoneReturns
  <2> QED BY <1>1, <2>1, <2>2
<1>10. CASE MutateSource
  <2>1. UNCHANGED <<rows, exec, proc>> /\ \A p \in Procs : proc[p].pc \in Unbound
    <3>1. source' # source
      BY <1>10 DEF MutateSource
    <3> QED BY <1>10, <3>1 DEF MutateSource, Running, Unbound
  <2>2. WorkersBelongToRun' /\ RunHasPlan' /\ SourceAsIdentified' /\ NoneReturns
    BY <2>1 DEF Planned, WorkersBelongToRun, RunHasPlan, SourceAsIdentified, NoneReturns
  <2> QED BY <1>1, <2>1, <2>2
<1>11. CASE UNCHANGED vars
  BY <1>0, <1>11 DEF vars, Planned, WorkersBelongToRun, RunHasPlan, SourceAsIdentified,
                     ReturnedFromPlan, DoneFromPlan, CompletedIsAll
<1> QED
  BY <1>2, <1>3, <1>4, <1>6, <1>7, <1>8, <1>9, <1>10, <1>11 DEF Next, Worker

\* The source changes by mutations only.
LEMMA QuietMutations ==
  ASSUME MutateAlways = FALSE, TypeOK, [Next]_vars, source' # source
  PROVE  \A p \in Procs : ~ Running(p)
<1>1. ASSUME NEW p \in Procs, Command(p) PROVE source' = source
  BY <1>1, CommandLeaves
<1> QED
  BY <1>1 DEF Next, vars, Start, Worker, StartWorker, AdmissionTimeout, Work,
     CommitPartition, RequestStop, Crash, MutateSource

\* As long as the source changes only between commands, a completed run has all
\* its rows from the source its durable plan records.
THEOREM CompletionFollowsPlan ==
  ASSUME MutateAlways = FALSE
  PROVE  Spec => []CompletedRowsFromPlan
<1>1. Init => Planned
  BY TypeInit DEF Init, Idle, Planned, WorkersBelongToRun, RunHasPlan, SourceAsIdentified,
                  ReturnedFromPlan, DoneFromPlan, CompletedIsAll, Unfinished, Unbound
<1>2. Planned => CompletedRowsFromPlan
  BY DEF Planned, CompletedIsAll, DoneFromPlan, CompletedRowsFromPlan
<1>3. Planned /\ [Next]_vars => Planned'
  BY PlannedStep, QuietMutations DEF Planned
<1> QED BY <1>1, <1>2, <1>3, PTL DEF Spec

-----------------------------------------------------------------------------
(* What qualify and verify accept.  While the source changes only between  *)
(* commands, an accepted point is a completed run.                         *)

Confirming == {"report", "expect", "compare"}

\* What is being confirmed has completed.
ConfirmedRun ==
    \A p \in Procs : proc[p].pc \in Confirming \union {"passed"} => exec.status = "COMPLETED"

\* A command confirms what the framework has called complete.
LEMMA CommandConfirms ==
  ASSUME TypeOK, NEW p \in Procs, Command(p)
  PROVE  /\ Running(p)
         /\ proc'[p].pc \in Confirming \union {"passed"}
              => \/ proc[p].pc \in Confirming /\ UNCHANGED exec
                 \/ At(p, "verify") /\ exec.status = "COMPLETED" /\ AssignmentMatches(p)
                    /\ UNCHANGED exec /\ proc'[p] = [proc[p] EXCEPT !.pc = "report"]
         /\ exec.status = "COMPLETED" => UNCHANGED exec
<1>0. proc \in [Procs -> Proc] /\ proc[p] \in Proc
  BY DEF TypeOK
<1>1. ASSUME NEW pc \in Points, Goto(p, pc)
      PROVE  proc'[p].pc = pc /\ proc'[p] = [proc[p] EXCEPT !.pc = pc]
  <2>1. proc'[p] = [proc[p] EXCEPT !.pc = pc]
    BY <1>0, <1>1 DEF Goto
  <2> QED BY <1>0, <2>1 DEF Proc
<1>2. CASE ReadBaseline(p)
  <2>1. proc'[p].pc = "identify"
    BY <1>0, <1>2 DEF ReadBaseline, Proc
  <2> QED BY <1>2, <2>1 DEF ReadBaseline, Confirming, At, Running
<1>3. CASE Identify(p)
  <2>1. proc'[p].pc \in {"launch", "verify", "inspect"}
    <3> DEFINE pc == CASE proc[p].cmd \in {"run", "qualify"} -> "launch"
                       [] proc[p].cmd = "verify" -> "verify"
                       [] proc[p].cmd = "recover" -> "inspect"
    <3>1. proc' = [proc EXCEPT ![p].digest = source, ![p].pc = pc]
      BY <1>3 DEF Identify
    <3>2. pc \in {"launch", "verify", "inspect"}
      BY <1>0 DEF Proc
    <3> HIDE DEF pc
    <3> QED BY <1>0, <3>1, <3>2 DEF Proc
  <2> QED BY <1>3, <2>1 DEF Identify, Confirming, At, Running
<1>4. CASE Launch(p)
  <2>1. proc'[p].pc \in {"failed", "running"}
    <3>1. CASE Goto(p, "failed")
      BY <1>1, <3>1 DEF Points
    <3>2. CASE proc' = Supersede(p, [proc EXCEPT ![p].pc = "running"])
      <4> DEFINE f == [proc EXCEPT ![p].pc = "running"]
      <4>1. f \in [Procs -> Proc] /\ f[p].pc = "running"
        <5>1. f \in [Procs -> Proc]
          BY <1>0, Moved DEF Points
        <5>2. f[p].pc = "running"
          BY <1>0 DEF Proc
        <5> QED BY <5>1, <5>2
      <4>2. proc'[p] = [f[p] EXCEPT !.current = (p = p)] /\ f[p] \in Proc
        BY <3>2, <4>1, Superseded
      <4> QED BY <4>1, <4>2 DEF Proc
    <3> QED BY <1>4, <3>1, <3>2 DEF Launch
  <2> QED BY <1>4, <2>1 DEF Launch, Confirming, At, Running
<1>5. CASE Join(p)
  <2>1. proc'[p].pc \in {"verify", "failed"}
    BY <1>1, <1>5 DEF Join, Points
  <2> QED BY <1>5, <2>1 DEF Join, Confirming, At, Running
<1>6. CASE VerifyFramework(p)
  <2>1. UNCHANGED exec /\ At(p, "verify")
    BY <1>6 DEF VerifyFramework
  <2>2. CASE Goto(p, "failed")
    BY <1>1, <2>1, <2>2 DEF Points, Confirming, At, Running
  <2>3. CASE Goto(p, "report") /\ exec.status = "COMPLETED" /\ AssignmentMatches(p)
    BY <1>1, <2>1, <2>3 DEF Points, Confirming, At, Running
  <2> QED BY <1>6, <2>2, <2>3 DEF VerifyFramework
<1>7. CASE Report(p) \/ Expect(p) \/ Compare(p)
  BY <1>7 DEF Report, Expect, Compare, Confirming, At, Running
<1>8. CASE Inspect(p)
  <2>1. proc'[p].pc \in {"mark", "failed"}
    <3>1. CASE proc' = [proc EXCEPT ![p].pc = "mark", ![p].current = TRUE]
      BY <1>0, <3>1 DEF Proc
    <3>2. CASE Goto(p, "failed")
      BY <1>1, <3>2 DEF Points
    <3> QED BY <1>8, <3>1, <3>2 DEF Inspect
  <2> QED BY <1>8, <2>1 DEF Inspect, Confirming, At, Running
<1>9. CASE MarkFailed(p)
  <2>1. proc'[p].pc \in {"idle", "failed"}
    <3>1. CASE Goto(p, "failed")
      BY <1>1, <3>1 DEF Points
    <3>2. CASE proc' = Supersede(p, [proc EXCEPT ![p].pc = "idle"])
      <4> DEFINE f == [proc EXCEPT ![p].pc = "idle"]
      <4>1. f \in [Procs -> Proc] /\ f[p].pc = "idle"
        <5>1. f \in [Procs -> Proc]
          BY <1>0, Moved DEF Points
        <5>2. f[p].pc = "idle"
          BY <1>0 DEF Proc
        <5> QED BY <5>1, <5>2
      <4>2. proc'[p] = [f[p] EXCEPT !.current = (p = p)] /\ f[p] \in Proc
        BY <3>2, <4>1, Superseded
      <4> QED BY <4>1, <4>2 DEF Proc
    <3> QED BY <1>9, <3>1, <3>2 DEF MarkFailed
  <2> QED BY <1>9, <2>1 DEF MarkFailed, Confirming, At, Running
<1> QED BY <1>2, <1>3, <1>4, <1>5, <1>6, <1>7, <1>8, <1>9 DEF Command

\* A worker does not move its command, and keeps what has completed.
LEMMA WorkerKeeps ==
  ASSUME TypeOK, NEW p \in Procs, Worker(p) \/ RequestStop(p)
  PROVE  /\ \A q \in Procs : proc'[q].pc = proc[q].pc /\ proc'[q].digest = proc[q].digest
         /\ exec'.status = exec.status /\ exec'.digest = exec.digest
         /\ UNCHANGED <<source, past>>
<1>0. exec \in Record /\ proc \in [Procs -> Proc]
  BY DEF TypeOK, Record, Sources
<1>1. ASSUME NEW x \in Partitions, StartWorker(p, x)
      PROVE  /\ \A q \in Procs : proc'[q].pc = proc[q].pc /\ proc'[q].digest = proc[q].digest
             /\ UNCHANGED <<source, past, exec>>
  BY <1>1, AdmissionStep DEF StartWorker
<1>2. ASSUME NEW x \in Partitions,
             AdmissionTimeout(p, x) \/ Work(p, x) \/ CommitPartition(p, x)
      PROVE  /\ \A q \in Procs : proc'[q].pc = proc[q].pc /\ proc'[q].digest = proc[q].digest
             /\ exec'.status = exec.status /\ exec'.digest = exec.digest
             /\ UNCHANGED <<source, past>>
  <2>1. PICK to \in WorkerStates : SetWorker(p, x, to)
    BY <1>2 DEF AdmissionTimeout, Work, ShortWrite, CommitPartition, WorkerStates
  <2>2. exec'.status = exec.status /\ exec'.digest = exec.digest
    BY <1>0, <1>2 DEF AdmissionTimeout, Work, CommitPartition, Record
  <2> QED
    BY <1>2, <2>1, <2>2, WorkerMoves DEF AdmissionTimeout, Work, CommitPartition
<1>3. CASE RequestStop(p)
  BY <1>0, <1>3 DEF RequestStop, Proc
<1> QED BY <1>1, <1>2, <1>3 DEF Worker

LEMMA ConfirmedStep ==
  ASSUME TypeOK, ConfirmedRun, [Next]_vars PROVE ConfirmedRun'
<1>1. ASSUME NEW p \in Procs, Command(p) PROVE ConfirmedRun'
  <2> SUFFICES ASSUME NEW q \in Procs, proc'[q].pc \in Confirming \union {"passed"}
               PROVE  exec'.status = "COMPLETED"
    BY DEF ConfirmedRun
  <2>1. CASE q = p
    BY <1>1, <2>1, CommandConfirms DEF ConfirmedRun
  <2>2. CASE q # p
    <3>1. proc'[q].pc = proc[q].pc
      BY <1>1, <2>2, CommandLeaves DEF Stands
    <3>2. exec.status = "COMPLETED"
      BY <3>1 DEF ConfirmedRun
    <3> QED BY <1>1, <3>2, CommandConfirms
  <2> QED BY <2>1, <2>2
<1>2. ASSUME NEW p \in Procs, Start(p) \/ Crash(p) PROVE ConfirmedRun'
  <2>1. /\ proc'[p].pc \in {"idle", "baseline", "identify"} /\ exec' = exec
        /\ \A q \in Procs : q # p => proc'[q].pc = proc[q].pc
    BY <1>2, FreshStep DEF Stands
  <2> QED BY <2>1 DEF ConfirmedRun, Confirming
<1>3. ASSUME NEW p \in Procs, Worker(p) \/ RequestStop(p) PROVE ConfirmedRun'
  BY <1>3, WorkerKeeps DEF ConfirmedRun
<1>4. CASE MutateSource \/ UNCHANGED vars
  BY <1>4 DEF MutateSource, vars, ConfirmedRun
<1> QED BY <1>1, <1>2, <1>3, <1>4 DEF Next

LEMMA PlannedInit == Init => Planned /\ ConfirmedRun
<1> SUFFICES ASSUME Init PROVE Planned /\ ConfirmedRun
  OBVIOUS
<1>1. Planned
  BY TypeInit DEF Init, Idle, Planned, WorkersBelongToRun, RunHasPlan, SourceAsIdentified,
                  ReturnedFromPlan, DoneFromPlan, CompletedIsAll, Unfinished, Unbound
<1>2. \A p \in Procs : proc[p].pc = "idle"
  BY DEF Init, Idle
<1> QED BY <1>1, <1>2 DEF ConfirmedRun, Confirming

LEMMA PlannedIsRecorded ==
  ASSUME Planned, ConfirmedRun PROVE QualifiedMeansRecordedSource
  BY DEF Planned, ConfirmedRun, CompletedIsAll, DoneFromPlan,
     QualifiedMeansRecordedSource, At

\* As long as the source changes only between commands, any number of processes
\* may share a run name: whatever qualify or verify accepts keeps the rows of
\* the source that the durable plan records.
THEOREM QualifiedFollowsPlan ==
  ASSUME MutateAlways = FALSE
  PROVE  Spec => []QualifiedMeansRecordedSource
<1>1. Init => Planned /\ ConfirmedRun
  BY PlannedInit
<1>2. Planned /\ ConfirmedRun /\ [Next]_vars => Planned' /\ ConfirmedRun'
  BY PlannedStep, ConfirmedStep, QuietMutations DEF Planned
<1>3. Planned /\ ConfirmedRun => QualifiedMeansRecordedSource
  BY PlannedIsRecorded
<1> QED BY <1>1, <1>2, <1>3, PTL DEF Spec

-----------------------------------------------------------------------------
(* When the source may change at any time, what is accepted rests on former *)
(* contents not coming back, and on one process that writes the rows.      *)

\* A content that the source has or has had.
Seen == {source} \union {past[i] : i \in DOMAIN past}

\* No row comes from what the source has become since it was c.
NoneBehind(c) == c # source => \A x \in Partitions : rows[x] # source

\* Of an untouched source the baseline and the identity are the same, and a
\* content that rows were written from before it was read is still what was
\* read before them.
ReadInv(p) ==
    LET r == proc[p] IN
    /\ r.pc \in {"launch", "running"} => r.cmd # "verify"
    /\ r.cmd = "qualify" /\ r.pc \in {"identify", "launch", "running", "verify", "report"}
          => r.baseline \in Seen
    /\ r.cmd = "qualify" /\ r.pc \in {"launch", "running", "verify", "report"}
          /\ r.baseline = source => r.digest = source
    /\ r.cmd = "verify" /\ r.pc \in {"verify", "report", "expect"} => NoneBehind(r.digest)
    /\ r.pc \in Confirming => r.digest = exec.digest
    /\ r.cmd = "qualify" /\ r.pc \in {"expect", "compare"} /\ r.reported = r.baseline
          => r.digest = r.reported
    /\ r.cmd = "qualify" /\ r.pc = "expect" => NoneBehind(r.reported)
    /\ r.pc = "compare" /\ (\A x \in Partitions : rows[x] = r.expected) =>
          /\ r.cmd = "verify" => r.expected = r.digest
          /\ r.cmd = "qualify" => r.expected = r.reported
    /\ r.pc = "passed" /\ r.cmd \in {"qualify", "verify"}
          => \A x \in Partitions : rows[x] = exec.digest

ReadOnce(p) ==
    /\ TypeOK
    /\ \A x \in Partitions : proc[p].worker[x] \in Unfinished => At(p, "running")
    /\ \A q \in Procs : q # p => At(q, "idle")
    /\ \A i \in DOMAIN past : past[i] # source
    /\ \A x \in Partitions : rows[x] \in Seen \union {NoRows}
    /\ ReadInv(p)

\* The steps of one process.
StepOf(p) == Start(p) \/ Command(p) \/ Worker(p) \/ RequestStop(p) \/ Crash(p)

LEMMA SomePartition == Partitions # {}
<1>1. IsFiniteSet({}) /\ Cardinality({}) = 0
  BY FS_EmptySet
<1> QED BY <1>1, PartitionAssumption

\* The source moves on to a content that it never had.
LEMMA ReadMutate ==
  ASSUME NEW p \in Procs, ReadOnce(p), MutateAlways, MutateSource
  PROVE  ReadOnce(p)'
<1>1. /\ source' \in Contents /\ source' # source
      /\ \A i \in DOMAIN past : past[i] # source'
      /\ past' = Append(past, source) /\ UNCHANGED <<rows, exec, proc>>
  BY DEF MutateSource
<1>2. past \in Seq(Contents) /\ source \in Contents
  BY DEF ReadOnce, TypeOK
<1>3. /\ DOMAIN past' = 1..Len(past) + 1 /\ DOMAIN past = 1..Len(past)
      /\ Len(past) \in Nat
      /\ \A i \in 1..Len(past) : past'[i] = past[i]
      /\ past'[Len(past) + 1] = source
  BY <1>1, <1>2
<1>4. \A i \in DOMAIN past' : past'[i] # source'
  <2> SUFFICES ASSUME NEW i \in DOMAIN past' PROVE past'[i] # source'
    OBVIOUS
  <2>1. CASE i = Len(past) + 1
    BY <1>1, <1>3, <2>1
  <2>2. CASE i # Len(past) + 1
    <3>1. i \in 1..Len(past)
      BY <1>3, <2>2
    <3> QED BY <1>1, <1>3, <3>1
  <2> QED BY <2>1, <2>2
<1>5. source' \notin Seen
  BY <1>1 DEF Seen
<1>6. Seen' = Seen \union {source'}
  <2>1. ASSUME NEW y \in Seen PROVE y \in Seen'
    <3>1. CASE y = source
      <4>1. Len(past) + 1 \in DOMAIN past' /\ past'[Len(past) + 1] = y
        BY <1>3, <3>1
      <4> QED BY <4>1 DEF Seen
    <3>2. CASE \E i \in DOMAIN past : y = past[i]
      <4>1. PICK i \in DOMAIN past : y = past[i]
        BY <3>2
      <4>2. i \in DOMAIN past' /\ past'[i] = y
        BY <1>3, <4>1
      <4> QED BY <4>2 DEF Seen
    <3> QED BY <2>1, <3>1, <3>2 DEF Seen
  <2>2. ASSUME NEW y \in Seen', y # source' PROVE y \in Seen
    <3>1. PICK i \in DOMAIN past' : y = past'[i]
      BY <2>2 DEF Seen
    <3>2. CASE i = Len(past) + 1
      BY <1>3, <3>1, <3>2 DEF Seen
    <3>3. CASE i # Len(past) + 1
      <4>1. i \in DOMAIN past /\ past[i] = y
        BY <1>3, <3>1, <3>3
      <4> QED BY <4>1 DEF Seen
    <3> QED BY <3>2, <3>3
  <2>3. source' \in Seen'
    BY DEF Seen
  <2> QED BY <2>1, <2>2, <2>3
<1>7. \A x \in Partitions : rows[x] # source'
  <2>1. source' # NoRows
    BY <1>1, PartitionAssumption
  <2> QED BY <1>5, <2>1 DEF ReadOnce
<1>8. TypeOK'
  BY TypeStep DEF ReadOnce, Next
<1>9. ReadInv(p)'
  <2>1. \A c : NoneBehind(c)'
    BY <1>1, <1>7 DEF NoneBehind
  <2>2. proc'[p] = proc[p] /\ rows' = rows /\ exec' = exec
    BY <1>1
  <2>3. ReadInv(p)
    BY DEF ReadOnce
  <2>4. \A c \in Seen : c # source'
    BY <1>5
  <2> HIDE DEF NoneBehind, Seen
  <2> QED BY <1>6, <2>1, <2>2, <2>3, <2>4 DEF ReadInv
<1> QED BY <1>1, <1>4, <1>6, <1>7, <1>8, <1>9 DEF ReadOnce, At

\* A row that a worker writes comes from the source as it is.
LEMMA ReadWorker ==
  ASSUME NEW p \in Procs, ReadOnce(p), Worker(p) \/ RequestStop(p)
  PROVE  ReadOnce(p)'
<1>0. TypeOK /\ TypeOK' /\ proc \in [Procs -> Proc] /\ rows \in [Partitions -> Sources]
  BY TypeStep DEF ReadOnce, TypeOK, Next, Sources
<1>1. /\ \A q \in Procs : proc'[q].pc = proc[q].pc /\ proc'[q].digest = proc[q].digest
      /\ exec'.digest = exec.digest /\ UNCHANGED <<source, past>> /\ Seen' = Seen
  BY <1>0, WorkerKeeps DEF Seen
<1>2. /\ proc'[p].cmd = proc[p].cmd /\ proc'[p].baseline = proc[p].baseline
      /\ proc'[p].reported = proc[p].reported /\ proc'[p].expected = proc[p].expected
  <2>1. ASSUME NEW x \in Partitions, NEW to, SetWorker(p, x, to)
        PROVE  /\ proc'[p].cmd = proc[p].cmd /\ proc'[p].baseline = proc[p].baseline
               /\ proc'[p].reported = proc[p].reported /\ proc'[p].expected = proc[p].expected
    BY <1>0, <2>1 DEF SetWorker, Proc
  <2>2. ASSUME NEW x \in Partitions, StartWorker(p, x)
        PROVE  /\ proc'[p].cmd = proc[p].cmd /\ proc'[p].baseline = proc[p].baseline
               /\ proc'[p].reported = proc[p].reported /\ proc'[p].expected = proc[p].expected
    <3>1. PICK slots, peak, after :
            proc' = [proc EXCEPT ![p].slots = slots, ![p].peak = peak, ![p].worker = after]
      BY <1>0, <2>2 DEF StartWorker
    <3> QED BY <1>0, <3>1 DEF Proc
  <2>3. CASE RequestStop(p)
    BY <1>0, <2>3 DEF RequestStop, Proc
  <2> QED
    BY <2>1, <2>2, <2>3 DEF Worker, AdmissionTimeout, Work, CommitPartition, ShortWrite
<1>3. At(p, "running")
  BY DEF ReadOnce, Worker, StartWorker, AdmissionTimeout, Work, CommitPartition,
     RequestStop, Unfinished
<1>4. \A x \in Partitions : rows'[x] \in Seen \union {NoRows}
  <2>1. \A x \in Partitions : rows'[x] = rows[x] \/ rows'[x] = source
    BY <1>0 DEF Worker, StartWorker, AdmissionTimeout, Work, CommitPartition, RequestStop
  <2>2. source \in Seen
    BY DEF Seen
  <2> QED BY <2>1, <2>2 DEF ReadOnce
<1>5. ReadInv(p)'
  BY <1>1, <1>2, <1>3 DEF ReadOnce, ReadInv, At, Confirming
<1> QED BY <1>0, <1>1, <1>3, <1>4, <1>5 DEF ReadOnce, At

\* What a step of a command leaves of what it has read.
SameReads(p) ==
    /\ proc'[p].cmd = proc[p].cmd /\ proc'[p].digest = proc[p].digest
    /\ proc'[p].baseline = proc[p].baseline /\ proc'[p].reported = proc[p].reported
    /\ proc'[p].expected = proc[p].expected

LEMMA GotoReads ==
  ASSUME TypeOK, NEW p \in Procs, NEW pc \in Points,
         Goto(p, pc) \/ proc' = Supersede(p, [proc EXCEPT ![p].pc = pc])
  PROVE  proc'[p].pc = pc /\ SameReads(p)
<1>0. proc \in [Procs -> Proc] /\ proc[p] \in Proc
  BY DEF TypeOK
<1>1. CASE Goto(p, pc)
  BY <1>0, <1>1 DEF Goto, Proc, SameReads
<1>2. CASE proc' = Supersede(p, [proc EXCEPT ![p].pc = pc])
  <2> DEFINE f == [proc EXCEPT ![p].pc = pc]
  <2>1. f \in [Procs -> Proc]
    BY <1>0, Moved
  <2>2. proc'[p] = [f[p] EXCEPT !.current = (p = p)] /\ f[p] \in Proc
    BY <1>2, <2>1, Superseded
  <2>3. f[p] = [proc[p] EXCEPT !.pc = pc]
    BY <1>0
  <2> HIDE DEF f
  <2>4. /\ proc'[p].pc = f[p].pc /\ proc'[p].cmd = f[p].cmd
        /\ proc'[p].digest = f[p].digest /\ proc'[p].baseline = f[p].baseline
        /\ proc'[p].reported = f[p].reported /\ proc'[p].expected = f[p].expected
    BY <2>2 DEF Proc
  <2> QED BY <1>0, <2>3, <2>4 DEF Proc, SameReads
<1> QED BY <1>1, <1>2

LEMMA ReadCommand ==
  ASSUME NEW p \in Procs, ReadOnce(p), Command(p)
  PROVE  ReadOnce(p)'
<1>0. /\ TypeOK /\ TypeOK' /\ proc \in [Procs -> Proc] /\ proc[p] \in Proc
      /\ exec \in Record /\ ReadInv(p)
  BY TypeStep DEF ReadOnce, TypeOK, Next, Sources, Record
<1>1. /\ \A q \in Procs : proc'[q].worker = proc[q].worker
      /\ \A q \in Procs : q # p => proc'[q].pc = proc[q].pc
      /\ UNCHANGED <<source, past, rows>>
  BY <1>0, CommandLeaves DEF Stands
<1>2. \A x \in Partitions : proc'[p].worker[x] \in Unfinished => proc'[p].pc = "running"
  <2>1. proc[p].pc = "running" => Unjoined(p) = {}
    BY <1>0, CommandPoint
  <2>2. \A x \in Partitions : proc[p].worker[x] \notin Unfinished
    BY <2>1 DEF ReadOnce, At, Unjoined, InState, Unfinished
  <2> QED BY <1>1, <2>2
<1>3. Seen' = Seen /\ source \in Seen /\ \A c : NoneBehind(c)' <=> NoneBehind(c)
  BY <1>1 DEF Seen, NoneBehind
<1>4. SUFFICES ReadInv(p)'
  BY <1>0, <1>1, <1>2, <1>3 DEF ReadOnce, At
<1>5. ASSUME proc'[p].pc \in {"idle", "failed", "mark", "inspect"}
      PROVE  ReadInv(p)'
  BY <1>5 DEF ReadInv, Confirming
<1>6. CASE ReadBaseline(p)
  <2>1. proc'[p].pc = "identify" /\ proc'[p].baseline = source
    BY <1>0, <1>6 DEF ReadBaseline, Proc
  <2> QED BY <1>3, <2>1 DEF ReadInv, Confirming
<1>7. CASE Identify(p)
  <2> DEFINE pc == CASE proc[p].cmd \in {"run", "qualify"} -> "launch"
                     [] proc[p].cmd = "verify" -> "verify"
                     [] proc[p].cmd = "recover" -> "inspect"
  <2>1. proc' = [proc EXCEPT ![p].digest = source, ![p].pc = pc] /\ At(p, "identify")
    BY <1>7 DEF Identify
  <2>2. /\ pc \in {"launch", "verify", "inspect"}
        /\ pc = "launch" => proc[p].cmd # "verify"
    BY <1>0 DEF Proc
  <2> HIDE DEF pc
  <2>3. /\ proc'[p].digest = source /\ proc'[p].pc = pc /\ proc'[p].cmd = proc[p].cmd
        /\ proc'[p].baseline = proc[p].baseline
    BY <1>0, <2>1 DEF Proc
  <2>4. NoneBehind(source)'
    BY <1>1 DEF NoneBehind
  <2> QED BY <1>0, <1>1, <1>3, <2>1, <2>2, <2>3, <2>4 DEF ReadInv, Confirming, At
<1>8. CASE Launch(p)
  <2>1. At(p, "launch") /\ \E pc \in {"failed", "running"} :
          Goto(p, pc) \/ proc' = Supersede(p, [proc EXCEPT ![p].pc = pc])
    BY <1>8 DEF Launch
  <2>2. proc'[p].pc \in {"failed", "running"} /\ SameReads(p)
    BY <1>0, <2>1, GotoReads DEF Points
  <2> QED BY <1>0, <1>1, <1>3, <1>5, <2>1, <2>2 DEF ReadInv, Confirming, At, SameReads
<1>9. CASE Join(p)
  <2>1. At(p, "running") /\ \E pc \in {"verify", "failed"} : Goto(p, pc)
    BY <1>9 DEF Join
  <2>2. proc'[p].pc \in {"verify", "failed"} /\ SameReads(p)
    BY <1>0, <2>1, GotoReads DEF Points
  <2> QED BY <1>0, <1>1, <1>3, <1>5, <2>1, <2>2 DEF ReadInv, Confirming, At, SameReads
<1>10. CASE VerifyFramework(p)
  <2>1. At(p, "verify") /\ UNCHANGED exec
        /\ \/ Goto(p, "failed")
           \/ Goto(p, "report") /\ AssignmentMatches(p)
    BY <1>10 DEF VerifyFramework
  <2>2. /\ SameReads(p)
        /\ \/ proc'[p].pc = "failed"
           \/ proc'[p].pc = "report" /\ exec.digest = proc[p].digest
    BY <1>0, <2>1, GotoReads DEF Points, AssignmentMatches
  <2> QED BY <1>0, <1>1, <1>3, <1>5, <2>1, <2>2 DEF ReadInv, Confirming, At, SameReads
<1>11. CASE Report(p)
  <2>1. /\ At(p, "report") /\ UNCHANGED exec /\ proc'[p].pc = "expect"
        /\ proc'[p].reported = source /\ proc'[p].cmd = proc[p].cmd
        /\ proc'[p].baseline = proc[p].baseline /\ proc'[p].digest = proc[p].digest
    BY <1>0, <1>11 DEF Report, Proc
  <2>2. NoneBehind(source)'
    BY <1>1 DEF NoneBehind
  <2> QED BY <1>0, <1>1, <1>3, <2>1, <2>2 DEF ReadInv, Confirming, At
<1>12. CASE Expect(p)
  <2>1. /\ At(p, "expect") /\ UNCHANGED exec /\ proc'[p].pc = "compare"
        /\ proc'[p].expected = source /\ proc'[p].cmd = proc[p].cmd
        /\ proc'[p].baseline = proc[p].baseline /\ proc'[p].digest = proc[p].digest
        /\ proc'[p].reported = proc[p].reported
    BY <1>0, <1>12 DEF Expect, Proc
  <2>2. ASSUME NEW c, NoneBehind(c), \A x \in Partitions : rows[x] = source
        PROVE  c = source
    BY <2>2, SomePartition DEF NoneBehind
  <2>3. ReadInv(p)'
    <3>1. proc[p].pc = "expect"
      BY <2>1 DEF At
    <3>2. /\ proc[p].cmd = "verify" => NoneBehind(proc[p].digest)
          /\ proc[p].cmd = "qualify" => NoneBehind(proc[p].reported)
          /\ proc[p].digest = exec.digest
          /\ proc[p].cmd = "qualify" /\ proc[p].reported = proc[p].baseline
                => proc[p].digest = proc[p].reported
      BY <1>0, <3>1 DEF ReadInv, Confirming
    <3>3. (\A x \in Partitions : rows'[x] = source) =>
             /\ proc[p].cmd = "verify" => source = proc[p].digest
             /\ proc[p].cmd = "qualify" => source = proc[p].reported
      BY <1>1, <2>2, <3>2
    <3> QED BY <2>1, <3>2, <3>3 DEF ReadInv
  <2> QED BY <2>3
<1>13. CASE Compare(p)
  <2>1. At(p, "compare") /\ UNCHANGED exec
        /\ \/ Goto(p, "failed")
           \/ Goto(p, "passed") /\ (\A x \in Partitions : rows[x] = proc[p].expected)
              /\ BaselineHolds(p)
    BY <1>13 DEF Compare
  <2>2. /\ SameReads(p)
        /\ \/ proc'[p].pc = "failed"
           \/ /\ proc'[p].pc = "passed" /\ BaselineHolds(p)
              /\ \A x \in Partitions : rows[x] = proc[p].expected
    BY <1>0, <2>1, GotoReads DEF Points
  <2>3. CASE proc'[p].pc = "passed" /\ BaselineHolds(p)
             /\ \A x \in Partitions : rows[x] = proc[p].expected
    <3>1. proc[p].pc = "compare"
      BY <2>1 DEF At
    <3>2. /\ proc[p].cmd = "verify" => proc[p].expected = proc[p].digest
          /\ proc[p].cmd = "qualify" =>
               /\ proc[p].expected = proc[p].reported
               /\ proc[p].reported = proc[p].baseline => proc[p].digest = proc[p].reported
          /\ proc[p].digest = exec.digest
      BY <1>0, <2>3, <3>1 DEF ReadInv, Confirming
    <3>3. proc[p].cmd \in {"qualify", "verify"} => proc[p].expected = exec.digest
      BY <2>3, <3>2 DEF BaselineHolds
    <3> QED BY <1>1, <2>1, <2>2, <2>3, <3>3 DEF ReadInv, SameReads, Confirming
  <2> QED BY <1>5, <2>2, <2>3
<1>14. CASE Inspect(p)
  <2>1. proc'[p].pc \in {"mark", "failed"}
    <3>1. CASE proc' = [proc EXCEPT ![p].pc = "mark", ![p].current = TRUE]
      BY <1>0, <3>1 DEF Proc
    <3>2. CASE Goto(p, "failed")
      BY <1>0, <3>2, GotoReads DEF Points
    <3> QED BY <1>14, <3>1, <3>2 DEF Inspect
  <2> QED BY <1>5, <2>1
<1>15. CASE MarkFailed(p)
  <2>1. \E pc \in {"failed", "idle"} :
          Goto(p, pc) \/ proc' = Supersede(p, [proc EXCEPT ![p].pc = pc])
    BY <1>15 DEF MarkFailed
  <2>2. proc'[p].pc \in {"failed", "idle"}
    BY <1>0, <2>1, GotoReads DEF Points
  <2> QED BY <1>5, <2>2
<1> QED
  BY <1>6, <1>7, <1>8, <1>9, <1>10, <1>11, <1>12, <1>13, <1>14, <1>15 DEF Command

LEMMA ReadFresh ==
  ASSUME NEW p \in Procs, ReadOnce(p), Start(p) \/ Crash(p)
  PROVE  ReadOnce(p)'
<1>1. /\ TypeOK /\ TypeOK'
      /\ proc'[p].worker = [x \in Partitions |-> "none"]
      /\ \A q \in Procs : q # p => proc'[q].pc = proc[q].pc
      /\ UNCHANGED <<source, past, rows, exec>>
  BY TypeStep, FreshStep DEF ReadOnce, Next, Stands
<1>2. proc'[p].pc \in {"idle", "baseline"} \/ At(p, "identify")'
  BY <1>1, FreshStep DEF At
<1>3. proc'[p].pc = "identify" => proc'[p].cmd # "qualify"
  <2>1. proc \in [Procs -> Proc]
    BY <1>1 DEF TypeOK
  <2>2. CASE Crash(p)
    BY <2>1, <2>2 DEF Crash, Idle
  <2>3. CASE Start(p)
    <3>1. PICK cmd \in Commands :
            proc' = [proc EXCEPT ![p] = [Idle EXCEPT !.cmd = cmd,
                       !.pc = IF cmd = "qualify" THEN "baseline" ELSE "identify"]]
      BY <2>3 DEF Start
    <3>2. /\ proc'[p].cmd = cmd
          /\ proc'[p].pc = IF cmd = "qualify" THEN "baseline" ELSE "identify"
      BY <2>1, <3>1 DEF Idle
    <3> QED BY <3>2
  <2> QED BY <2>2, <2>3
<1>4. ReadInv(p)'
  BY <1>2, <1>3 DEF ReadInv, Confirming, At
<1>5. \A x \in Partitions : proc'[p].worker[x] \notin Unfinished
  BY <1>1 DEF Unfinished
<1> QED BY <1>1, <1>4, <1>5 DEF ReadOnce, At, Seen

LEMMA ReadInit == ASSUME NEW p \in Procs, Init PROVE ReadOnce(p)
<1>1. /\ TypeOK /\ \A q \in Procs : proc[q] = Idle
      /\ past = <<>> /\ \A x \in Partitions : rows[x] = NoRows
  BY TypeInit DEF Init
<1>2. Idle.pc = "idle" /\ \A x \in Partitions : Idle.worker[x] = "none"
  BY DEF Idle
<1>3. ReadInv(p)
  BY <1>1, <1>2 DEF ReadInv, Confirming
<1> QED BY <1>1, <1>2, <1>3 DEF ReadOnce, At, Unfinished

\* One process, or the source, takes a step.
LEMMA ReadStep ==
  ASSUME NEW p \in Procs, ReadOnce(p), MutateAlways,
         StepOf(p) \/ MutateSource \/ UNCHANGED vars
  PROVE  ReadOnce(p)'
<1>1. CASE UNCHANGED vars
  <2>1. proc' = proc /\ rows' = rows /\ exec' = exec /\ source' = source /\ past' = past
    BY <1>1 DEF vars
  <2>2. Seen' = Seen /\ \A c : NoneBehind(c)' <=> NoneBehind(c)
    BY <2>1 DEF Seen, NoneBehind
  <2>3. TypeOK' /\ ReadInv(p)'
    BY <2>1, <2>2 DEF ReadOnce, TypeOK, ReadInv
  <2> QED BY <2>1, <2>2, <2>3 DEF ReadOnce, At
<1> QED BY <1>1, ReadMutate, ReadWorker, ReadCommand, ReadFresh DEF StepOf

LEMMA ReadIsRecorded ==
  ASSUME NEW p \in Procs, ReadOnce(p) PROVE QualifiedMeansRecordedSource
<1> SUFFICES ASSUME NEW q \in Procs, At(q, "passed"), proc[q].cmd \in {"qualify", "verify"}
             PROVE  \A x \in Partitions : rows[x] = exec.digest
  BY DEF QualifiedMeansRecordedSource
<1>1. q = p
  BY DEF ReadOnce, At
<1> QED BY <1>1 DEF ReadOnce, ReadInv, At

\* One process at a time: whatever qualify or verify accepts has the rows of the
\* source that the durable plan records, even if the source changes at any time,
\* as long as its former contents do not come back (qualify's baseline, the two
\* unlocked reads of verify_business).
THEOREM QualifiedAlone ==
  ASSUME NEW c, Procs = {c}
  PROVE  Spec => []QualifiedMeansRecordedSource
<1>1. CASE MutateAlways = FALSE
  BY <1>1, QualifiedFollowsPlan
<1>2. CASE MutateAlways
  <2>1. Init => ReadOnce(c)
    BY ReadInit
  <2>2. ReadOnce(c) /\ [Next]_vars => ReadOnce(c)'
    BY <1>2, ReadStep DEF Next, StepOf
  <2>3. ReadOnce(c) => QualifiedMeansRecordedSource
    BY ReadIsRecorded
  <2> QED BY <2>1, <2>2, <2>3, PTL DEF Spec
<1> QED BY <1>1, <1>2, PartitionAssumption

-----------------------------------------------------------------------------
(* A run that an operator or a case of the recovery qualification drives.  *)

Steps ==
    {"begin", "watch", "kill", "stopping", "inspect", "mutate", "refuse", "restore",
     "recover", "continue", "verify", "compare", "accepted", "raised"}
Framework == [executions : Nat, worker : [Partitions -> Nat]]
Before == [done : SUBSET Partitions, source : Sources, framework : Framework]

CampaignTypeOK ==
    /\ TypeOK
    /\ case \in Cases
    /\ harness \in [step : Steps, called : BOOLEAN, before : Before]
    /\ marker \in [active : Nat, peak : Nat]
    /\ framework \in Framework

\* The places of a case between the kill and the commands that follow it.
Interim == {"inspect", "mutate", "restore"}

\* A case changes the source, and changes it back, while nothing runs.
CaseInv ==
    /\ CampaignTypeOK
    /\ harness.step \in Interim => ~ Running(Child)
    /\ harness.step \in {"mutate", "refuse", "restore"} => harness.before.source \in Contents
    /\ case = "operator" => harness.step = "begin"
    /\ \A q \in Procs : q # Child => At(q, "idle")
    /\ WorkersBelongToRun

LEMMA ChildIsProc == Child \in Procs
  BY CampaignAssumption DEF Child

LEMMA ActiveNat ==
  ASSUME NEW p \in Procs PROVE Active(p) \in Nat
<1>1. IsFiniteSet(InState(p, Occupied))
  BY PartitionAssumption, FS_Subset DEF InState
<1> QED BY <1>1, FS_CardinalityType DEF Active

\* The steps of a campaign, as steps of the program and of its surroundings.
LEMMA CampaignSteps ==
  ASSUME [CampaignNext]_allVars
  PROVE  /\ \/ StepOf(Child) \/ UNCHANGED vars
            \/ MutateSource /\ case = "operator"
            \/ ChangeSource
         /\ case' = case
<1>1. CASE OperatorStep
  BY <1>1 DEF OperatorStep, StepOf, campaignVars
<1>2. CASE HarnessStep
  BY <1>2 DEF HarnessStep, SpawnArmed, Issue, AwaitMarker, Kill, CheckStopped, InspectKilled,
     ChangeSource, Call, Return, CompareRecovery, StepOf
<1>3. CASE WriteMarker \/ WatcherStep
  BY <1>3 DEF WriteMarker, WatcherStep, StepOf, campaignVars
<1>4. CASE CommandStep
  BY <1>4 DEF CommandStep, StepOf
<1>5. CASE WorkerStep
  BY <1>5 DEF WorkerStep, TakePartition, CampaignWork, StepOf, Worker, campaignVars
<1>6. CASE UNCHANGED allVars
  BY <1>6 DEF allVars, campaignVars
<1> QED BY <1>1, <1>2, <1>3, <1>4, <1>5, <1>6 DEF CampaignNext

\* A process that is not running is moved by a start only.
LEMMA NotRunning ==
  ASSUME TypeOK, NEW p \in Procs, Command(p) \/ Worker(p) \/ RequestStop(p) \/ Crash(p),
         WorkersBelongToRun
  PROVE  Running(p)
<1>1. CASE Command(p)
  BY <1>1, CommandConfirms
<1>2. CASE Worker(p) \/ RequestStop(p)
  <2>1. At(p, "running")
    BY <1>2 DEF Worker, StartWorker, AdmissionTimeout, Work, CommitPartition,
       RequestStop, Unfinished, WorkersBelongToRun, At
  <2> QED BY <2>1 DEF At, Running
<1>3. CASE Crash(p)
  BY <1>3 DEF Crash
<1> QED BY <1>1, <1>2, <1>3

\* Where the harness goes.
LEMMA Goes ==
  ASSUME CampaignTypeOK, NEW to \in Steps, Go(to)
  PROVE  /\ harness'.step = to /\ harness'.called = FALSE /\ harness'.before = harness.before
         /\ harness' \in [step : Steps, called : BOOLEAN, before : Before]
  BY DEF Go, CampaignTypeOK

LEMMA Judges ==
  ASSUME CampaignTypeOK, NEW to \in Steps, NEW claim, Asserts(claim, to)
  PROVE  /\ \/ harness'.step = "raised" /\ ~ claim
            \/ harness'.step = to /\ claim
         /\ harness'.called = FALSE /\ harness'.before = harness.before
         /\ harness' \in [step : Steps, called : BOOLEAN, before : Before]
<1>1. CASE claim
  BY <1>1, Goes DEF Asserts
<1>2. CASE ~ claim
  <2>1. "raised" \in Steps /\ Go("raised")
    BY <1>2 DEF Asserts, Steps
  <2> QED BY <1>2, <2>1, Goes
<1> QED BY <1>1, <1>2

\* Workers that are not joined belong to a run, whatever moves.
LEMMA BelongStep ==
  ASSUME TypeOK, WorkersBelongToRun, NEW p \in Procs, StepOf(p)
  PROVE  WorkersBelongToRun'
<1>1. CASE Start(p) \/ Crash(p)
  <2>1. /\ \A q \in Procs : q # p => proc'[q].pc = proc[q].pc /\ proc'[q].worker = proc[q].worker
        /\ \A x \in Partitions : proc'[p].worker[x] = "none"
    BY <1>1, FreshStep DEF Stands
  <2> QED BY <2>1 DEF WorkersBelongToRun, Unfinished
<1>2. CASE Command(p)
  <2>1. /\ \A q \in Procs : proc'[q].worker = proc[q].worker
        /\ \A q \in Procs : q # p => proc'[q].pc = proc[q].pc
    BY <1>2, CommandLeaves DEF Stands
  <2>2. \A x \in Partitions : proc[p].worker[x] \notin Unfinished
    <3>1. proc[p].pc = "running" => Unjoined(p) = {}
      BY <1>2, CommandPoint
    <3> QED BY <3>1 DEF WorkersBelongToRun, Unjoined, InState, Unfinished
  <2> QED BY <2>1, <2>2 DEF WorkersBelongToRun
<1>3. CASE Worker(p) \/ RequestStop(p)
  <2>1. \A q \in Procs : proc'[q].pc = proc[q].pc
    BY <1>3, WorkerKeeps
  <2>2. proc[p].pc = "running"
    BY <1>3 DEF Worker, StartWorker, AdmissionTimeout, Work, CommitPartition,
       RequestStop, Unfinished, WorkersBelongToRun, At
  <2>3. \A q \in Procs : q # p => proc'[q].worker = proc[q].worker
    BY <1>3 DEF TypeOK, Worker, StartWorker, AdmissionTimeout, Work, CommitPartition,
       RequestStop, SetWorker
  <2> QED BY <2>1, <2>2, <2>3 DEF WorkersBelongToRun
<1> QED BY <1>1, <1>2, <1>3 DEF StepOf

\* What the harness does in a step, and what it needs of it.
LEMMA HarnessTypes ==
  ASSUME CaseInv, HarnessStep
  PROVE  /\ harness' \in [step : Steps, called : BOOLEAN, before : Before]
         /\ case # "operator"
         /\ harness'.step \in Interim => ~ Running(Child)'
         /\ harness'.step \in {"mutate", "refuse", "restore"}
              => harness'.before.source \in Contents
         /\ UNCHANGED <<case, marker, framework>>
<1> USE DEF CaseInv
<1>0. harness \in [step : Steps, called : BOOLEAN, before : Before] /\ CampaignTypeOK
      /\ Child \in Procs /\ TypeOK
  BY ChildIsProc DEF CampaignTypeOK
<1>1. CASE SpawnArmed
  <2>1. harness'.step = "watch" /\ harness'.before = harness.before
        /\ harness' \in [step : Steps, called : BOOLEAN, before : Before]
    BY <1>0, <1>1, Goes DEF SpawnArmed, Steps
  <2> QED BY <1>1, <2>1 DEF SpawnArmed, Interim
<1>2. CASE AwaitMarker
  <2>1. \E claim : Asserts(claim, IF case = "cancellation" THEN "stopping" ELSE "kill")
    BY <1>2 DEF AwaitMarker
  <2>2. harness'.step \in {"stopping", "kill", "raised"}
        /\ harness' \in [step : Steps, called : BOOLEAN, before : Before]
    BY <1>0, <2>1, Judges DEF Steps
  <2> QED BY <1>2, <2>2 DEF AwaitMarker, Interim
<1>3. CASE Kill
  <2>1. harness'.step = "inspect"
        /\ harness' \in [step : Steps, called : BOOLEAN, before : Before]
    BY <1>0, <1>3, Goes DEF Kill, Steps
  <2>2. ~ Running(Child)'
    BY <1>0, <1>3 DEF Kill, Crash, Running, Idle, TypeOK
  <2> QED BY <1>3, <2>1, <2>2 DEF Kill
<1>4. CASE CheckStopped
  <2>1. PICK claim : Asserts(claim, "accepted")
    BY <1>4 DEF CheckStopped
  <2>2. harness'.step \in {"accepted", "raised"}
        /\ harness' \in [step : Steps, called : BOOLEAN, before : Before]
    BY <1>0, <2>1, Judges DEF Steps
  <2> QED BY <1>4, <2>2 DEF CheckStopped, Interim
<1>5. CASE InspectKilled
  <2> DEFINE found == [done |-> exec.done, source |-> source, framework |-> framework]
  <2>1. found \in Before /\ source \in Contents
    BY <1>0 DEF Before, TypeOK, CampaignTypeOK, Sources
  <2>2. PICK to \in {"mutate", "recover", "raised"} :
          harness' = [harness EXCEPT !.before = found, !.step = to]
    BY <1>5 DEF InspectKilled
  <2> HIDE DEF found
  <2>3. harness'.step = to /\ harness'.before = found
        /\ harness' \in [step : Steps, called : BOOLEAN, before : Before]
    BY <1>0, <2>1, <2>2 DEF Steps
  <2>4. found.source \in Contents
    BY <2>1 DEF found
  <2>5. proc' = proc /\ ~ Running(Child)
    BY <1>5 DEF InspectKilled, vars, Interim
  <2> QED BY <1>5, <2>3, <2>4, <2>5 DEF InspectKilled, Running
<1>6. CASE ChangeSource
  <2>1. \E to \in {"refuse", "recover"} : Go(to) /\ (to = "refuse" => harness.step = "mutate")
    BY <1>6 DEF ChangeSource
  <2>2. /\ harness'.step \in {"refuse", "recover"} /\ harness'.before = harness.before
        /\ harness'.step = "refuse" => harness.step = "mutate"
        /\ harness' \in [step : Steps, called : BOOLEAN, before : Before]
    BY <1>0, <2>1, Goes DEF Steps
  <2> QED BY <1>6, <2>2 DEF ChangeSource, Interim
<1>7. CASE Call
  <2>1. harness'.step = harness.step /\ harness'.before = harness.before
        /\ harness' \in [step : Steps, called : BOOLEAN, before : Before]
    BY <1>0, <1>7 DEF Call
  <2>2. harness.step \in {"refuse", "recover", "continue", "verify"}
    BY <1>7 DEF Call, Script
  <2> QED BY <1>7, <2>1, <2>2 DEF Call, Interim
<1>8. CASE Return
  <2>1. /\ ~ Running(Child) /\ proc' = proc
        /\ harness.step \in {"refuse", "recover", "continue", "verify"}
        /\ \E claim : Asserts(claim, Script[harness.step].next)
    BY <1>8 DEF Return, Script, vars
  <2>2. /\ Script[harness.step].next \in {"restore", "continue", "verify", "compare"}
        /\ Script[harness.step].next = "restore" => harness.step = "refuse"
    BY <2>1 DEF Script
  <2>3. /\ harness'.step \in {"restore", "continue", "verify", "compare", "raised"}
        /\ harness'.step = "restore" => harness.step = "refuse"
        /\ harness'.before = harness.before
        /\ harness' \in [step : Steps, called : BOOLEAN, before : Before]
    BY <1>0, <2>1, <2>2, Judges DEF Steps
  <2> QED BY <1>8, <2>1, <2>2, <2>3 DEF Return, Interim, Running
<1>9. CASE CompareRecovery
  <2>1. PICK claim : Asserts(claim, "accepted")
    BY <1>9 DEF CompareRecovery
  <2>2. harness'.step \in {"accepted", "raised"}
        /\ harness' \in [step : Steps, called : BOOLEAN, before : Before]
    BY <1>0, <2>1, Judges DEF Steps
  <2> QED BY <1>9, <2>2 DEF CompareRecovery, Interim
<1> QED
  BY <1>1, <1>2, <1>3, <1>4, <1>5, <1>6, <1>7, <1>8, <1>9 DEF HarnessStep

LEMMA CaseStep ==
  ASSUME CaseInv, [CampaignNext]_allVars
  PROVE  CaseInv'
<1> USE DEF CaseInv
<1> DEFINE c == Child
           H == [step : Steps, called : BOOLEAN, before : Before]
<1>0. /\ c \in Procs /\ CampaignTypeOK /\ TypeOK /\ source \in Contents /\ harness \in H
      /\ marker \in [active : Nat, peak : Nat] /\ framework \in Framework
  BY ChildIsProc DEF CampaignTypeOK, TypeOK
<1>1. TypeOK' /\ WorkersBelongToRun' /\ \A q \in Procs : q # c => At(q, "idle")'
  <2>1. CASE StepOf(c)
    <3>1. TypeOK'
      BY <1>0, <2>1, TypeStep DEF StepOf, Next
    <3>2. WorkersBelongToRun'
      BY <1>0, <2>1, BelongStep
    <3>3. ASSUME NEW q \in Procs, q # c PROVE proc'[q].pc = proc[q].pc
      BY <1>0, <2>1, <3>3, FreshStep, CommandLeaves, WorkerKeeps DEF StepOf, Stands
    <3> QED BY <3>1, <3>2, <3>3 DEF At
  <2>2. CASE MutateSource \/ UNCHANGED vars
    <3>1. TypeOK' /\ proc' = proc
      BY <1>0, <2>2, TypeStep DEF Next, MutateSource, vars
    <3> QED BY <3>1 DEF WorkersBelongToRun, At
  <2>3. CASE ChangeSource
    <3>1. source' \in Contents /\ UNCHANGED <<past, rows, exec, proc>>
      BY <2>3 DEF ChangeSource
    <3> QED BY <1>0, <3>1 DEF TypeOK, WorkersBelongToRun, At
  <2> QED BY <2>1, <2>2, <2>3, CampaignSteps
<1>2. case' = case /\ case' \in Cases
  BY <1>0, CampaignSteps DEF CampaignTypeOK
<1>3. CASE HarnessStep
  BY <1>0, <1>1, <1>2, <1>3, HarnessTypes DEF CampaignTypeOK
<1>4. ASSUME harness' = harness, marker' \in [active : Nat, peak : Nat],
             framework' \in Framework, harness.step \in Interim => proc' = proc
      PROVE  CaseInv'
  BY <1>0, <1>1, <1>2, <1>4 DEF CampaignTypeOK, Running
<1>5. CASE OperatorStep \/ UNCHANGED allVars
  <2>1. harness' = harness /\ marker' = marker /\ framework' = framework
        /\ (harness.step \in Interim => proc' = proc)
    BY <1>5 DEF OperatorStep, campaignVars, allVars, vars, Interim
  <2> QED BY <1>0, <1>4, <2>1
<1>6. CASE WriteMarker
  <2>1. proc[c].peak \in Nat
    BY <1>0, PartitionAssumption DEF TypeOK, Proc
  <2>2. marker' \in [active : Nat, peak : Nat]
    BY <1>0, <1>6, <2>1, ActiveNat DEF WriteMarker
  <2> QED BY <1>0, <1>4, <1>6, <2>2 DEF WriteMarker, vars
<1>7. ASSUME harness' = harness, marker' = marker, framework' \in Framework,
             Command(c) \/ Worker(c) \/ RequestStop(c)
      PROVE  CaseInv'
  <2>1. Running(c)
    BY <1>0, <1>7, NotRunning
  <2> QED BY <1>0, <1>4, <1>7, <2>1
<1>8. CASE WatcherStep
  BY <1>0, <1>7, <1>8 DEF WatcherStep, campaignVars
<1>9. CASE CommandStep
  <2>1. framework' \in {framework, [framework EXCEPT !.executions = @ + 1]}
    BY <1>9 DEF CommandStep
  <2>2. framework' \in Framework
    BY <1>0, <2>1 DEF Framework
  <2> QED BY <1>7, <1>9, <2>2 DEF CommandStep
<1>10. CASE WorkerStep
  <2>1. PICK x \in Partitions :
          \/ TakePartition(x) /\ UNCHANGED <<case, harness, marker>>
          \/ /\ AdmissionTimeout(c, x) \/ CampaignWork(x) \/ CommitPartition(c, x)
             /\ UNCHANGED campaignVars
    BY <1>10 DEF WorkerStep
  <2>2. framework' \in Framework
    <3>1. CASE TakePartition(x)
      <4>1. framework' \in {framework, [framework EXCEPT !.worker[x] = framework.executions]}
        BY <3>1 DEF TakePartition
      <4> QED BY <1>0, <4>1 DEF Framework
    <3>2. CASE UNCHANGED campaignVars
      BY <1>0, <3>2 DEF campaignVars
    <3> QED BY <2>1, <3>1, <3>2
  <2>3. Worker(c)
    BY <2>1 DEF Worker, TakePartition, CampaignWork
  <2> QED BY <1>7, <2>1, <2>2, <2>3 DEF campaignVars
<1> QED BY <1>3, <1>5, <1>6, <1>8, <1>9, <1>10 DEF CampaignNext

LEMMA CaseStart == CampaignInit => CaseInv
<1> SUFFICES ASSUME CampaignInit PROVE CaseInv
  OBVIOUS
<1>1. /\ Init /\ case \in Cases /\ harness = Seeded /\ marker = NoMarker
      /\ framework = [executions |-> 0, worker |-> [x \in Partitions |-> 0]]
  BY DEF CampaignInit
<1>2. TypeOK /\ \A p \in Procs : proc[p] = Idle
  BY <1>1, TypeInit DEF Init
<1>3. framework \in Framework /\ marker \in [active : Nat, peak : Nat]
  BY <1>1 DEF Framework, NoMarker
<1>4. harness \in [step : Steps, called : BOOLEAN, before : Before] /\ harness.step = "begin"
  <2>1. [done |-> {}, source |-> NoRows, framework |-> framework] \in Before
    BY <1>3 DEF Before, Sources
  <2>2. harness = [step |-> "begin", called |-> FALSE,
                   before |-> [done |-> {}, source |-> NoRows, framework |-> framework]]
    BY <1>1 DEF Seeded
  <2> QED BY <2>1, <2>2 DEF Steps
<1>5. WorkersBelongToRun /\ \A p \in Procs : At(p, "idle")
  BY <1>2 DEF Idle, WorkersBelongToRun, Unfinished, At
<1> QED BY <1>1, <1>2, <1>3, <1>4, <1>5 DEF CaseInv, CampaignTypeOK, Interim

\* A campaign keeps what its kind needs: a case changes the source of a stopped
\* program only, and an operator's source may move on at any time.
CampaignInv ==
    /\ CaseInv
    /\ IF case = "operator" /\ MutateAlways THEN ReadOnce(Child)
       ELSE Planned /\ ConfirmedRun

LEMMA StepKeepsSource ==
  ASSUME TypeOK, NEW p \in Procs, StepOf(p)
  PROVE  source' = source
  BY FreshStep, CommandLeaves, WorkerKeeps DEF StepOf

LEMMA ChangePlanned ==
  ASSUME CaseInv, Planned, ConfirmedRun, ChangeSource
  PROVE  Planned' /\ ConfirmedRun'
<1>1. UNCHANGED <<past, rows, exec, proc>> /\ harness.step \in Interim
  BY DEF ChangeSource, Interim
<1>2. \A p \in Procs : proc[p].pc \in Unbound
  BY <1>1 DEF CaseInv, Running, Unbound, At
<1>3. source' \in Contents
  BY DEF ChangeSource, CaseInv
<1>4. TypeOK'
  BY <1>1, <1>3 DEF Planned, TypeOK
<1> QED
  BY <1>1, <1>2, <1>4 DEF Planned, ConfirmedRun, WorkersBelongToRun, RunHasPlan,
     SourceAsIdentified, ReturnedFromPlan, DoneFromPlan, CompletedIsAll

LEMMA CampaignStep ==
  ASSUME CampaignInv, [CampaignNext]_allVars
  PROVE  CampaignInv'
<1>0. CaseInv /\ CaseInv' /\ TypeOK /\ Child \in Procs /\ case' = case
  BY CaseStep, ChildIsProc, CampaignSteps DEF CampaignInv, CaseInv, CampaignTypeOK
<1>1. CASE case = "operator" /\ MutateAlways
  <2>1. ReadOnce(Child)
    BY <1>1 DEF CampaignInv
  <2>2. ~ ChangeSource
    BY <1>0, <1>1 DEF CaseInv, ChangeSource
  <2>3. ReadOnce(Child)'
    BY <1>0, <1>1, <2>1, <2>2, ReadStep, CampaignSteps
  <2> QED BY <1>0, <1>1, <2>3 DEF CampaignInv
<1>2. CASE ~ (case = "operator" /\ MutateAlways)
  <2>1. Planned /\ ConfirmedRun
    BY <1>2 DEF CampaignInv
  <2>2. CASE StepOf(Child) \/ UNCHANGED vars \/ (MutateSource /\ case = "operator")
    <3>1. [Next]_vars
      BY <1>0, <2>2 DEF StepOf, Next
    <3>2. source' # source => \A p \in Procs : ~ Running(p)
      BY <1>0, <1>2, <2>2, StepKeepsSource DEF vars, MutateSource
    <3> QED BY <1>0, <1>2, <2>1, <3>1, <3>2, PlannedStep, ConfirmedStep DEF CampaignInv
  <2>3. CASE ChangeSource
    BY <1>0, <1>2, <2>1, <2>3, ChangePlanned DEF CampaignInv
  <2> QED BY <2>2, <2>3, CampaignSteps
<1> QED BY <1>1, <1>2

LEMMA CampaignStart == CampaignInit => CampaignInv
<1> SUFFICES ASSUME CampaignInit PROVE CampaignInv
  OBVIOUS
<1>1. CaseInv
  BY CaseStart
<1>2. Init
  BY DEF CampaignInit
<1> QED BY <1>1, <1>2, ReadInit, PlannedInit, ChildIsProc DEF CampaignInv

\* Whoever drives the run, an operator while the source moves on at any time or
\* a case of the recovery qualification that changes it and changes it back:
\* what qualify or verify accepts has the rows of the recorded source.
THEOREM QualifiedInCampaign == CampaignSpec => []QualifiedMeansRecordedSource
<1>1. CampaignInit => CampaignInv
  BY CampaignStart
<1>2. CampaignInv /\ [CampaignNext]_allVars => CampaignInv'
  BY CampaignStep
<1>3. CampaignInv => QualifiedMeansRecordedSource
  BY ReadIsRecorded, PlannedIsRecorded, ChildIsProc DEF CampaignInv
<1> QED BY <1>1, <1>2, <1>3, PTL DEF CampaignSpec

-----------------------------------------------------------------------------
(* A case raises only short of workers.  This is what its places rest on,   *)
(* as long as the kill has left as many partitions as there are workers.    *)

Enough == Workers <= Cardinality(Partitions \ harness.before.done)

\* Before the first run.
Untouched ==
    /\ exec.status = "NONE" /\ exec.done = {}
    /\ rows = [x \in Partitions |-> NoRows]
    /\ framework = harness.before.framework /\ marker = NoMarker

\* A process that has not launched yet.
Unlaunched ==
    LET r == proc[Child] IN
    /\ \A x \in Partitions : r.worker[x] = "none"
    /\ r.slots = 0 /\ ~ r.stop

\* Until the barrier opens all started workers wait at it, and no worker waits
\* for another one.
GateInv ==
    LET r == proc[Child] IN
    /\ r.slots < Workers => /\ \A x \in Partitions : r.worker[x] \in {"none", "waiting"}
                            /\ Active(Child) = r.slots /\ ~ r.stop
    /\ r.slots = Workers => /\ \A x \in Partitions : r.worker[x] # "waiting"
                            /\ r.peak = Workers

\* A run goes on where the one before it was killed, and its workers do not
\* fail.
RunInv ==
    LET r == proc[Child]
        before == harness.before
    IN
    /\ exec.status = "STARTED" /\ exec.digest = r.digest /\ r.current
    /\ exec.done = before.done \union InState(Child, {"done"})
    /\ framework.executions = before.framework.executions + 1
    /\ \A x \in Partitions :
          /\ r.worker[x] # "failed" /\ (r.worker[x] = "stopped" => r.stop)
          /\ x \in before.done => r.worker[x] = "none"
          /\ framework.worker[x] = IF r.worker[x] = "none" THEN before.framework.worker[x]
                                   ELSE framework.executions
    /\ GateInv

\* The run to be killed: its target is behind the first workers and does not
\* pass its boundary.
CrashInv ==
    LET target == proc[Child].worker[Target]
        passed == case = "after-business-write"
    IN
    /\ harness.step # "stopping" /\ proc[Child].pc \in {"identify", "launch", "running"}
    /\ ~ proc[Child].stop
    /\ target \in {"none", "waiting", "admitted"} \/ (passed /\ target = "returned")
    /\ rows[Target] = NoRows <=> target # "returned"
    /\ target # "none" => exec.done # {}
    /\ marker # NoMarker => target = IF passed THEN "returned" ELSE "admitted"
    /\ harness.step = "kill" => marker # NoMarker

\* The run to be stopped: the stop catches all its workers behind the barrier.
CancelInv ==
    LET r == proc[Child] IN
    /\ harness.step # "kill" /\ r.pc \in {"identify", "launch", "running", "verify", "failed"}
    /\ rows = [x \in Partitions |-> NoRows]
    /\ \A x \in Partitions : r.worker[x] \in {"none", "waiting", "admitted", "stopped"}
    /\ marker # NoMarker => AllActive /\ r.slots = Workers
    /\ harness.step = "stopping" => marker # NoMarker
    /\ r.stop => harness.step = "stopping" /\ r.slots = Workers
    /\ ~ r.stop => Active(Child) = r.slots
    /\ r.pc \in {"verify", "failed"} =>
          /\ exec.status = "STOPPED" /\ r.stop /\ r.peak = Workers
          /\ \A x \in Partitions : r.worker[x] \in {"none", "stopped"}

ArmedInv ==
    LET r == proc[Child] IN
    /\ r.cmd = "run"
    /\ r.pc \in {"identify", "launch"} => Untouched /\ Unlaunched /\ harness.step = "watch"
    /\ r.pc = "running" => RunInv
    /\ IF case = "cancellation" THEN CancelInv ELSE CrashInv

\* What the kill leaves.
KilledInv ==
    /\ case # "cancellation" /\ ~ harness.called
    /\ exec.status = "STARTED" /\ exec.digest = source
    /\ exec.done # {} /\ Target \notin exec.done
    /\ case # "mutation" => (rows[Target] = NoRows <=> case = "before-write")
    /\ \A x \in Partitions : framework.worker[x] <= framework.executions

\* Nothing has been recovered yet.
AsFound ==
    /\ exec.status = "STARTED" /\ exec.done = harness.before.done
    /\ framework = harness.before.framework
Recovered ==
    /\ exec.status = "FAILED" /\ exec.done = harness.before.done
    /\ framework = harness.before.framework
Delivered ==
    /\ exec.status = "COMPLETED" /\ exec.done = Partitions
    /\ framework.executions = harness.before.framework.executions + 1
    /\ \A x \in harness.before.done : framework.worker[x] = harness.before.framework.worker[x]
    /\ framework.worker[Target] = framework.executions

\* The commands after the kill.
RefuseInv ==
    proc[Child].cmd = "recover" /\ proc[Child].pc \in {"identify", "inspect", "failed"}
RecoverInv ==
    LET r == proc[Child] IN
    /\ r.cmd = "recover" /\ r.pc \in {"identify", "inspect", "mark", "idle"}
    /\ IF r.pc = "idle" THEN Recovered ELSE AsFound
    /\ r.pc = "mark" => r.current
ContinueInv ==
    LET r == proc[Child] IN
    /\ r.cmd = "run" /\ ~ r.stop
    /\ \/ r.pc \in {"identify", "launch"} /\ Recovered /\ Unlaunched
       \/ r.pc = "running" /\ RunInv
       \/ /\ r.pc \in {"verify", "report", "expect", "compare", "passed"}
          /\ Delivered /\ r.peak = Workers
    /\ r.pc = "compare" => r.expected = source
VerifyInv ==
    LET r == proc[Child] IN
    /\ r.cmd = "verify" /\ r.pc \in {"identify", "verify", "report", "expect", "compare", "passed"}
    /\ r.pc = "compare" => r.expected = source

\* The program between two commands, or in one.
InCommand(started, inv) ==
    IF harness.called THEN inv ELSE ~ Running(Child) /\ started

AfterKill == {"mutate", "refuse", "restore", "recover", "continue", "verify", "compare"}
AfterKillInv ==
    LET before == harness.before IN
    /\ before.done # {} /\ Target \notin before.done /\ exec.digest = before.source
    /\ \A x \in Partitions : before.framework.worker[x] <= before.framework.executions
    /\ harness.step = "refuse" => source # before.source
    /\ harness.step \notin {"refuse", "restore"} => source = before.source
    /\ harness.step \in {"mutate", "refuse", "restore"} => AsFound
    /\ harness.step = "refuse" => InCommand(TRUE, RefuseInv)
    /\ harness.step = "recover" => InCommand(AsFound, RecoverInv)
    /\ harness.step = "continue" => InCommand(Recovered, ContinueInv)
    /\ harness.step = "verify" => Delivered /\ InCommand(TRUE, VerifyInv)
    /\ harness.step = "compare" => Delivered /\ ~ Running(Child)

ArmedSteps == {"watch", "kill", "stopping"}
PlaceInv ==
    /\ harness.step # "raised"
    /\ harness.step = "begin" => Untouched /\ ~ Running(Child)
    /\ harness.step \in ArmedSteps => ArmedInv
    /\ harness.step = "inspect" => KilledInv
    /\ harness.step \in AfterKill => AfterKillInv

\* What was found is looked up by the inspection only.
Early == {"begin", "inspect"} \union ArmedSteps
EarlyInv == harness.step \in Early => harness.before = Seeded.before

ScriptInv == case # "operator" => EarlyInv /\ (Enough => PlaceInv)

\* A case that has enough partitions left.
Placed == CaseInv /\ Planned /\ case # "operator" /\ Enough /\ EarlyInv /\ PlaceInv

-----------------------------------------------------------------------------
(* What the steps of a program do, field by field.                          *)

\* Everything a command leaves to the workers, and what it was called with.
SameWork(r, s) ==
    s.cmd = r.cmd /\ s.worker = r.worker /\ s.slots = r.slots /\ s.peak = r.peak
    /\ s.stop = r.stop

\* The outcome of a join.
Outcome(p) ==
    IF exec.done = Partitions THEN "COMPLETED"
    ELSE IF InState(p, {"failed"}) = {} /\ proc[p].stop THEN "STOPPED"
    ELSE "FAILED"

LEMMA GotoEffect ==
  ASSUME TypeOK, NEW p \in Procs, NEW pc \in Points, Goto(p, pc)
  PROVE  proc'[p].pc = pc /\ SameWork(proc[p], proc'[p])
<1>1. proc[p] \in Proc /\ proc'[p] = [proc[p] EXCEPT !.pc = pc]
  BY GotoTyped DEF TypeOK
<1> QED BY <1>1 DEF Proc, SameWork

LEMMA SupersedeEffect ==
  ASSUME TypeOK, NEW p \in Procs, NEW pc \in Points,
         proc' = Supersede(p, [proc EXCEPT ![p].pc = pc])
  PROVE  /\ proc'[p].pc = pc /\ SameWork(proc[p], proc'[p])
         /\ proc'[p].current /\ proc'[p].digest = proc[p].digest
<1> DEFINE f == [proc EXCEPT ![p].pc = pc]
<1>1. proc \in [Procs -> Proc] /\ proc[p] \in Proc
  BY DEF TypeOK
<1>2. f \in [Procs -> Proc]
  BY <1>1, Moved
<1>3. f[p] = [proc[p] EXCEPT !.pc = pc]
  BY <1>1
<1>4. proc'[p] = [f[p] EXCEPT !.current = (p = p)] /\ f[p] \in Proc
  BY <1>2, Superseded
<1>5. f[p].pc = pc /\ SameWork(proc[p], f[p]) /\ f[p].digest = proc[p].digest
  BY <1>1, <1>3 DEF Proc, SameWork
<1> HIDE DEF f
<1> QED BY <1>4, <1>5 DEF Proc, SameWork

LEMMA IdentifyEffect ==
  ASSUME TypeOK, NEW p \in Procs, Identify(p)
  PROVE  /\ At(p, "identify") /\ SameWork(proc[p], proc'[p]) /\ UNCHANGED exec
         /\ proc[p].cmd \in {"run", "qualify"} => proc'[p].pc = "launch"
         /\ proc[p].cmd = "verify" => proc'[p].pc = "verify"
         /\ proc[p].cmd = "recover" => proc'[p].pc = "inspect"
<1> DEFINE pc == CASE proc[p].cmd \in {"run", "qualify"} -> "launch"
                   [] proc[p].cmd = "verify" -> "verify"
                   [] proc[p].cmd = "recover" -> "inspect"
<1>1. proc \in [Procs -> Proc] /\ proc[p] \in Proc
  BY DEF TypeOK
<1>2. proc' = [proc EXCEPT ![p].digest = source, ![p].pc = pc] /\ At(p, "identify")
      /\ UNCHANGED exec
  BY DEF Identify
<1>3. /\ proc[p].cmd \in {"run", "qualify"} => pc = "launch"
      /\ proc[p].cmd = "verify" => pc = "verify"
      /\ proc[p].cmd = "recover" => pc = "inspect"
  OBVIOUS
<1> HIDE DEF pc
<1>4. proc'[p].pc = pc /\ SameWork(proc[p], proc'[p])
  BY <1>1, <1>2 DEF Proc, SameWork
<1> QED BY <1>2, <1>3, <1>4

LEMMA LaunchEffect ==
  ASSUME TypeOK, NEW p \in Procs, Launch(p)
  PROVE  /\ At(p, "launch") /\ SameWork(proc[p], proc'[p])
         /\ exec.status \notin {"STARTED", "COMPLETED"} =>
              /\ proc'[p].pc = "running" /\ proc'[p].current
              /\ proc'[p].digest = proc[p].digest
              /\ exec'.status = "STARTED"
              /\ exec.status = "NONE" => exec'.digest = proc[p].digest /\ exec'.done = {}
              /\ exec.status # "NONE" => exec'.digest = exec.digest /\ exec'.done = exec.done
<1>1. CASE exec.status \in {"STARTED", "COMPLETED"}
  <2>1. Goto(p, "failed") /\ At(p, "launch")
    BY <1>1 DEF Launch
  <2> QED BY <1>1, <2>1, GotoEffect DEF Points
<1>2. CASE exec.status \notin {"STARTED", "COMPLETED"}
  <2>1. /\ proc' = Supersede(p, [proc EXCEPT ![p].pc = "running"]) /\ At(p, "launch")
        /\ exec' = IF exec.status = "NONE"
                   THEN [status |-> "STARTED", digest |-> proc[p].digest, done |-> {}]
                   ELSE [exec EXCEPT !.status = "STARTED"]
    BY <1>2 DEF Launch
  <2>2. exec \in Record
    BY DEF TypeOK, Record, Sources
  <2>3. /\ exec'.status = "STARTED"
        /\ exec.status = "NONE" => exec'.digest = proc[p].digest /\ exec'.done = {}
        /\ exec.status # "NONE" => exec'.digest = exec.digest /\ exec'.done = exec.done
    BY <2>1, <2>2 DEF Record
  <2> QED BY <2>1, <2>3, SupersedeEffect DEF Points
<1> QED BY <1>1, <1>2

LEMMA JoinEffect ==
  ASSUME TypeOK, NEW p \in Procs, Join(p)
  PROVE  /\ At(p, "running") /\ SameWork(proc[p], proc'[p])
         /\ Unjoined(p) = {} /\ Startable(p) = {}
         /\ proc[p].current /\ exec.status = "STARTED" =>
              /\ proc'[p].pc = "verify" /\ exec'.status = Outcome(p)
              /\ exec'.digest = exec.digest /\ exec'.done = exec.done
<1>1. At(p, "running") /\ Unjoined(p) = {} /\ Startable(p) = {}
  BY DEF Join
<1>2. CASE proc[p].current /\ exec.status = "STARTED"
  <2>1. Goto(p, "verify") /\ exec' = [exec EXCEPT !.status = Outcome(p)]
    BY <1>2 DEF Join, Outcome
  <2>2. exec \in Record
    BY DEF TypeOK, Record, Sources
  <2>3. exec'.status = Outcome(p) /\ exec'.digest = exec.digest /\ exec'.done = exec.done
    BY <2>1, <2>2 DEF Record
  <2> QED BY <1>1, <2>1, <2>3, GotoEffect DEF Points
<1>3. CASE ~ (proc[p].current /\ exec.status = "STARTED")
  <2>1. Goto(p, "failed")
    BY <1>3 DEF Join
  <2> QED BY <1>1, <1>3, <2>1, GotoEffect DEF Points
<1> QED BY <1>2, <1>3

LEMMA ConfirmEffect ==
  ASSUME TypeOK, NEW p \in Procs,
         VerifyFramework(p) \/ Report(p) \/ Expect(p) \/ Compare(p)
  PROVE  /\ SameWork(proc[p], proc'[p]) /\ UNCHANGED exec
         /\ At(p, "verify") =>
              proc'[p].pc = IF exec.status = "COMPLETED" /\ AssignmentMatches(p) /\ PeakReached(p)
                            THEN "report" ELSE "failed"
         /\ At(p, "report") => proc'[p].pc = "expect"
         /\ At(p, "expect") => proc'[p].pc = "compare" /\ proc'[p].expected = source
         /\ At(p, "compare") =>
              proc'[p].pc = IF (\A x \in Partitions : rows[x] = proc[p].expected)
                               /\ BaselineHolds(p)
                            THEN "passed" ELSE "failed"
         /\ proc[p].pc \in {"verify", "report", "expect", "compare"}
<1>0. proc \in [Procs -> Proc] /\ proc[p] \in Proc
  BY DEF TypeOK
<1>1. CASE VerifyFramework(p)
  <2> DEFINE pc == IF exec.status = "COMPLETED" /\ AssignmentMatches(p) /\ PeakReached(p)
                   THEN "report" ELSE "failed"
  <2>1. At(p, "verify") /\ Goto(p, pc) /\ UNCHANGED exec /\ pc \in Points
    BY <1>1 DEF VerifyFramework, Points
  <2> HIDE DEF pc
  <2>2. proc'[p].pc = pc /\ SameWork(proc[p], proc'[p])
    BY <2>1, GotoEffect
  <2> QED BY <2>1, <2>2 DEF pc, At
<1>2. CASE Compare(p)
  <2> DEFINE pc == IF (\A x \in Partitions : rows[x] = proc[p].expected) /\ BaselineHolds(p)
                   THEN "passed" ELSE "failed"
  <2>1. At(p, "compare") /\ Goto(p, pc) /\ UNCHANGED exec /\ pc \in Points
    BY <1>2 DEF Compare, Points
  <2> HIDE DEF pc
  <2>2. proc'[p].pc = pc /\ SameWork(proc[p], proc'[p])
    BY <2>1, GotoEffect
  <2> QED BY <2>1, <2>2 DEF pc, At
<1>3. CASE Report(p)
  <2>1. proc'[p].pc = "expect" /\ SameWork(proc[p], proc'[p])
    BY <1>0, <1>3 DEF Report, Proc, SameWork
  <2> QED BY <1>3, <2>1 DEF Report, At
<1>4. CASE Expect(p)
  <2>1. proc'[p].pc = "compare" /\ proc'[p].expected = source /\ SameWork(proc[p], proc'[p])
    BY <1>0, <1>4 DEF Expect, Proc, SameWork
  <2> QED BY <1>4, <2>1 DEF Expect, At
<1> QED BY <1>1, <1>2, <1>3, <1>4

LEMMA RecoverEffect ==
  ASSUME TypeOK, NEW p \in Procs, Inspect(p) \/ MarkFailed(p)
  PROVE  /\ SameWork(proc[p], proc'[p]) /\ proc[p].pc \in {"inspect", "mark"}
         /\ exec'.digest = exec.digest /\ exec'.done = exec.done
         /\ At(p, "inspect") =>
              /\ UNCHANGED exec
              /\ IF exec.status = "STARTED" /\ AssignmentMatches(p)
                 THEN proc'[p].pc = "mark" /\ proc'[p].current
                 ELSE proc'[p].pc = "failed"
         /\ At(p, "mark") /\ proc[p].current /\ exec.status = "STARTED" =>
              proc'[p].pc = "idle" /\ exec'.status = "FAILED"
<1>0. proc \in [Procs -> Proc] /\ proc[p] \in Proc
  BY DEF TypeOK
<1>1. CASE Inspect(p)
  <2>1. CASE exec.status = "STARTED" /\ AssignmentMatches(p)
    <3>1. proc' = [proc EXCEPT ![p].pc = "mark", ![p].current = TRUE]
      BY <1>1, <2>1 DEF Inspect
    <3>2. proc'[p].pc = "mark" /\ proc'[p].current /\ SameWork(proc[p], proc'[p])
      BY <1>0, <3>1 DEF Proc, SameWork
    <3> QED BY <1>1, <2>1, <3>2 DEF Inspect, At
  <2>2. CASE ~ (exec.status = "STARTED" /\ AssignmentMatches(p))
    <3>1. Goto(p, "failed")
      BY <1>1, <2>2 DEF Inspect
    <3>2. proc'[p].pc = "failed" /\ SameWork(proc[p], proc'[p])
      BY <3>1, GotoEffect DEF Points
    <3> QED BY <1>1, <2>2, <3>2 DEF Inspect, At
  <2> QED BY <2>1, <2>2
<1>2. CASE MarkFailed(p)
  <2>1. CASE proc[p].current /\ exec.status = "STARTED"
    <3>1. proc' = Supersede(p, [proc EXCEPT ![p].pc = "idle"])
          /\ exec' = [exec EXCEPT !.status = "FAILED"]
      BY <1>2, <2>1 DEF MarkFailed
    <3>2. exec \in Record
      BY DEF TypeOK, Record, Sources
    <3>3. exec'.status = "FAILED" /\ exec'.digest = exec.digest /\ exec'.done = exec.done
      BY <3>1, <3>2 DEF Record
    <3>4. proc'[p].pc = "idle" /\ SameWork(proc[p], proc'[p])
      BY <3>1, SupersedeEffect DEF Points
    <3> QED BY <1>2, <3>3, <3>4 DEF MarkFailed, At
  <2>2. CASE ~ (proc[p].current /\ exec.status = "STARTED")
    <3>1. Goto(p, "failed") /\ UNCHANGED exec
      BY <1>2, <2>2 DEF MarkFailed
    <3> QED BY <1>2, <2>2, <3>1, GotoEffect DEF MarkFailed, At, Points
  <2> QED BY <2>1, <2>2
<1> QED BY <1>1, <1>2

\* What a worker leaves to its process.
SameRun(r, s) ==
    s.pc = r.pc /\ s.cmd = r.cmd /\ s.digest = r.digest /\ s.current = r.current
    /\ s.stop = r.stop

\* A worker enters; the one that completes the barrier admits all that wait.
LEMMA StartEffect ==
  ASSUME TypeOK, NEW p \in Procs, NEW x \in Partitions, StartWorker(p, x)
  PROVE  LET r == proc[p]
             s == proc'[p]
         IN
         /\ r.pc = "running" /\ x \in Startable(p) /\ SameRun(r, s)
         /\ s.slots = IF r.slots < Workers THEN r.slots + 1 ELSE r.slots
         /\ s.peak \in 0..Workers /\ s.peak >= r.peak /\ s.peak >= Active(p) + 1
         /\ \A y \in Partitions :
              s.worker[y] = IF y = x THEN IF r.slots + 1 < Workers THEN "waiting"
                                          ELSE "admitted"
                            ELSE IF r.slots + 1 = Workers /\ r.worker[y] = "waiting"
                                 THEN "admitted" ELSE r.worker[y]
         /\ Active(p)' = Active(p) + 1
<1> DEFINE r == proc[p]
           slot == proc[p].slots
           entered == [proc[p].worker EXCEPT ![x] = IF PassesGate(p, proc[p].slots)
                                                    THEN "admitted" ELSE "waiting"]
           after == IF proc[p].slots + 1 = Workers
                    THEN [y \in Partitions |-> IF entered[y] = "waiting"
                                               THEN "admitted" ELSE entered[y]]
                    ELSE entered
           peak == IF Active(p) + 1 > proc[p].peak THEN Active(p) + 1 ELSE proc[p].peak
           slots == IF proc[p].slots < Workers THEN proc[p].slots + 1 ELSE proc[p].slots
<1>1. proc \in [Procs -> Proc] /\ r \in Proc /\ r.worker \in [Partitions -> WorkerStates]
      /\ slot \in 0..Workers /\ r.peak \in 0..Workers /\ Workers \in Nat \ {0}
  BY PartitionAssumption DEF TypeOK, Proc
<1>2. proc' = [proc EXCEPT ![p].slots = slots, ![p].peak = peak, ![p].worker = after]
      /\ r.pc = "running" /\ x \in Startable(p)
  BY <1>1 DEF StartWorker, At
<1>3. Active(p) \in Nat /\ Active(p) + 1 <= Workers
  BY <1>2, Occupancy
<1>4. \A y \in Partitions :
         after[y] = IF y = x THEN IF slot + 1 < Workers THEN "waiting" ELSE "admitted"
                    ELSE IF slot + 1 = Workers /\ r.worker[y] = "waiting"
                         THEN "admitted" ELSE r.worker[y]
  <2> SUFFICES ASSUME NEW y \in Partitions
               PROVE  after[y] = IF y = x THEN IF slot + 1 < Workers THEN "waiting" ELSE "admitted"
                                 ELSE IF slot + 1 = Workers /\ r.worker[y] = "waiting"
                                      THEN "admitted" ELSE r.worker[y]
    OBVIOUS
  <2>1. entered[y] = IF y = x THEN IF slot >= Workers THEN "admitted" ELSE "waiting"
                     ELSE r.worker[y]
    BY <1>1 DEF PassesGate
  <2> HIDE DEF entered
  <2>2. after[y] = IF slot + 1 = Workers /\ entered[y] = "waiting" THEN "admitted"
                   ELSE entered[y]
    OBVIOUS
  <2> HIDE DEF after
  <2>3. CASE y = x
    BY <1>1, <2>1, <2>2, <2>3
  <2>4. CASE y # x
    BY <2>1, <2>2, <2>4
  <2> QED BY <2>3, <2>4
<1>5. peak \in 0..Workers /\ peak >= r.peak /\ peak >= Active(p) + 1
  BY <1>1, <1>3
<1> HIDE DEF after, peak
<1>6. /\ proc'[p].worker = after /\ proc'[p].slots = slots /\ proc'[p].peak = peak
      /\ SameRun(proc[p], proc'[p])
  BY <1>1, <1>2 DEF Proc, SameRun
<1>7. Active(p)' = Active(p) + 1
  <2>1. r.worker[x] = "none"
    BY <1>2 DEF Startable
  <2>2. \A y \in Partitions : proc'[p].worker[y] \in Occupied
                               <=> y = x \/ r.worker[y] \in Occupied
    BY <1>4, <1>6 DEF Occupied
  <2>3. InState(p, Occupied)' = InState(p, Occupied) \union {x}
    BY <2>2 DEF InState
  <2>4. x \notin InState(p, Occupied) /\ InState(p, Occupied) \subseteq Partitions
    BY <2>1 DEF InState, Occupied
  <2>5. IsFiniteSet(InState(p, Occupied))
    BY <2>4, PartitionAssumption, FS_Subset
  <2>6. Cardinality(InState(p, Occupied) \union {x}) = Cardinality(InState(p, Occupied)) + 1
    BY <2>4, <2>5, FS_AddElement
  <2> QED BY <2>3, <2>6 DEF Active
<1> QED BY <1>2, <1>4, <1>5, <1>6, <1>7

LEMMA MoveEffect ==
  ASSUME TypeOK, NEW p \in Procs, NEW x \in Partitions, NEW to, SetWorker(p, x, to)
  PROVE  LET r == proc[p]
             s == proc'[p]
         IN
         /\ SameRun(r, s) /\ s.slots = r.slots /\ s.peak = r.peak
         /\ \A y \in Partitions : s.worker[y] = IF y = x THEN to ELSE r.worker[y]
<1>1. proc \in [Procs -> Proc] /\ proc[p] \in Proc /\ proc[p].worker \in [Partitions -> WorkerStates]
  BY DEF TypeOK, Proc
<1>2. proc'[p] = [proc[p] EXCEPT !.worker[x] = to]
  BY <1>1 DEF SetWorker
<1>3. proc'[p].worker = [proc[p].worker EXCEPT ![x] = to]
  BY <1>1, <1>2 DEF Proc
<1> QED BY <1>1, <1>2, <1>3 DEF Proc, SameRun

-----------------------------------------------------------------------------
(* A run within a case.                                                    *)

\* While the barrier is closed there is always a partition to hand out, so that
\* no wait times out and nothing is joined.
LEMMA NotStuck ==
  ASSUME TypeOK, RunInv, Enough, proc[Child].slots < Workers
  PROVE  Startable(Child) # {}
<1> DEFINE c == Child
           W == InState(c, Occupied)
           L == Partitions \ harness.before.done
<1>1. /\ Workers \in Nat /\ IsFiniteSet(Partitions) /\ c \in Procs
      /\ proc[c].slots \in Nat
  BY PartitionAssumption, ChildIsProc DEF TypeOK, Proc
<1>2. /\ \A x \in Partitions : proc[c].worker[x] \in {"none", "waiting"}
      /\ Active(c) = proc[c].slots /\ ~ proc[c].stop
  BY DEF RunInv, GateInv
<1>3. Unjoined(c) = W /\ InState(c, {"failed", "stopped"}) = {} /\ InState(c, {"done"}) = {}
  BY <1>2 DEF Unjoined, InState, Occupied
<1>4. Cardinality(Unjoined(c)) < Workers
  BY <1>2, <1>3 DEF Active
<1>5. W \subseteq Partitions /\ IsFiniteSet(W) /\ IsFiniteSet(L)
  BY <1>1, FS_Subset DEF InState
<1>6. Cardinality(L) \in Nat /\ Cardinality(W) \in Nat /\ Workers <= Cardinality(L)
  BY <1>5, FS_CardinalityType DEF Enough
<1>7. ~ (L \subseteq W)
  <2> SUFFICES ASSUME L \subseteq W PROVE FALSE
    OBVIOUS
  <2>1. Cardinality(L) <= Cardinality(W)
    BY <1>5, FS_Subset
  <2> QED BY <1>1, <1>3, <1>4, <1>6, <2>1
<1>8. PICK x \in L : x \notin W
  BY <1>7
<1>9. proc[c].worker[x] = "none" /\ x \in Partitions \ exec.done
  <2>1. exec.done = harness.before.done
    BY <1>3 DEF RunInv
  <2> QED BY <1>2, <1>8, <2>1 DEF InState, Occupied
<1> QED BY <1>2, <1>3, <1>4, <1>9 DEF Startable

\* Every started partition is the run's own.
LEMMA RunStarts ==
  ASSUME TypeOK, RunInv, case # "operator", UNCHANGED harness,
         NEW x \in Partitions, TakePartition(x), framework \in Framework
  PROVE  RunInv'
<1> DEFINE c == Child
           r == proc[c]
           s == proc'[c]
<1>0. c \in Procs /\ r.slots \in 0..Workers /\ Workers \in Nat \ {0}
  BY ChildIsProc, PartitionAssumption DEF TypeOK, Proc
<1>1. /\ r.pc = "running" /\ x \in Startable(c) /\ SameRun(r, s)
      /\ s.slots = IF r.slots < Workers THEN r.slots + 1 ELSE r.slots
      /\ s.peak \in 0..Workers /\ s.peak >= r.peak /\ s.peak >= Active(c) + 1
      /\ Active(c)' = Active(c) + 1
  BY <1>0, StartEffect DEF TakePartition
<1>2. \A y \in Partitions :
         s.worker[y] = IF y = x THEN IF r.slots + 1 < Workers THEN "waiting" ELSE "admitted"
                       ELSE IF r.slots + 1 = Workers /\ r.worker[y] = "waiting"
                            THEN "admitted" ELSE r.worker[y]
  BY <1>0, StartEffect DEF TakePartition
<1>3. r.worker[x] = "none" /\ x \notin exec.done /\ ~ r.stop
  BY <1>1 DEF Startable
<1>4. exec' = exec /\ framework' = [framework EXCEPT !.worker[x] = framework.executions]
      /\ harness' = harness
  BY DEF TakePartition, StartWorker
<1>5. framework'.executions = framework.executions
      /\ \A y \in Partitions : framework'.worker[y] = IF y = x THEN framework.executions
                                                       ELSE framework.worker[y]
  BY <1>4 DEF Framework
<1>6. exec'.done = harness'.before.done \union InState(c, {"done"})'
  <2>1. \A y \in Partitions : s.worker[y] = "done" <=> r.worker[y] = "done"
    BY <1>2, <1>3
  <2>2. InState(c, {"done"})' = InState(c, {"done"})
    BY <2>1 DEF InState
  <2> QED BY <1>4, <2>2 DEF RunInv
<1>7. x \notin harness.before.done
  BY <1>3 DEF RunInv
<1>8. \A y \in Partitions :
         /\ s.worker[y] # "failed" /\ (s.worker[y] = "stopped" => s.stop)
         /\ y \in harness.before.done => s.worker[y] = "none"
         /\ framework'.worker[y] = IF s.worker[y] = "none" THEN harness.before.framework.worker[y]
                                   ELSE framework.executions
  <2> SUFFICES ASSUME NEW y \in Partitions
               PROVE  /\ s.worker[y] # "failed" /\ (s.worker[y] = "stopped" => s.stop)
                      /\ y \in harness.before.done => s.worker[y] = "none"
                      /\ framework'.worker[y] = IF s.worker[y] = "none"
                                                THEN harness.before.framework.worker[y]
                                                ELSE framework.executions
    OBVIOUS
  <2>0. /\ r.worker[y] # "failed" /\ (r.worker[y] = "stopped" => r.stop)
        /\ y \in harness.before.done => r.worker[y] = "none"
        /\ framework.worker[y] = IF r.worker[y] = "none" THEN harness.before.framework.worker[y]
                                 ELSE framework.executions
    BY DEF RunInv
  <2>1. CASE y = x
    BY <1>2, <1>5, <1>7, <2>1
  <2>2. CASE y # x
    BY <1>1, <1>2, <1>5, <2>0, <2>2 DEF SameRun
  <2> QED BY <2>1, <2>2
<1>9. GateInv'
  <2>1. GateInv
    BY DEF RunInv
  <2>2. CASE r.slots + 1 < Workers
    <3>1. s.slots < Workers /\ s.slots = r.slots + 1 /\ ~ s.stop
      BY <1>0, <1>1, <1>3, <2>2 DEF SameRun
    <3>2. \A y \in Partitions : s.worker[y] \in {"none", "waiting"}
      BY <1>0, <1>2, <2>1, <2>2 DEF GateInv
    <3>3. Active(c)' = s.slots
      BY <1>0, <1>1, <2>1, <2>2, <3>1 DEF GateInv
    <3> QED BY <1>0, <3>1, <3>2, <3>3 DEF GateInv
  <2>3. CASE r.slots + 1 = Workers
    <3>1. s.slots = Workers /\ ~ (s.slots < Workers)
      BY <1>0, <1>1, <2>3
    <3>2. \A y \in Partitions : s.worker[y] # "waiting"
      BY <1>0, <1>2, <2>3
    <3>3. s.peak = Workers
      BY <1>0, <1>1, <2>1, <2>3 DEF GateInv
    <3> QED BY <3>1, <3>2, <3>3 DEF GateInv
  <2>4. CASE r.slots = Workers
    <3>1. s.slots = Workers /\ ~ (s.slots < Workers)
      BY <1>0, <1>1, <2>4
    <3>2. \A y \in Partitions : s.worker[y] # "waiting"
      BY <1>0, <1>2, <2>1, <2>4 DEF GateInv
    <3>3. s.peak = Workers
      BY <1>0, <1>1, <2>1, <2>4 DEF GateInv, TypeOK, Proc
    <3> QED BY <3>1, <3>2, <3>3 DEF GateInv
  <2> QED BY <1>0, <2>2, <2>3, <2>4
<1> HIDE DEF s, r
<1>10. s.current /\ exec'.status = "STARTED" /\ exec'.digest = s.digest
  BY <1>1, <1>4 DEF RunInv, SameRun, r
<1>11. framework'.executions = harness'.before.framework.executions + 1
  BY <1>4, <1>5 DEF RunInv
<1> QED BY <1>4, <1>5, <1>6, <1>8, <1>9, <1>10, <1>11 DEF RunInv, s

\* The moves of a worker that is past its start: it is stopped, writes or
\* commits, for no wait times out.
LEMMA CaseMoves ==
  ASSUME TypeOK, RunInv, Enough, case # "operator", "slow" \notin Failures,
         NEW x \in Partitions,
         \/ AdmissionTimeout(Child, x) \/ CampaignWork(x)
         \/ ~ Paused(x, "after-business-write") /\ CommitPartition(Child, x)
  PROVE  /\ UNCHANGED <<source, past>>
         /\ \/ /\ proc[Child].worker[x] = "admitted" /\ proc[Child].stop
               /\ SetWorker(Child, x, "stopped") /\ UNCHANGED <<rows, exec>>
            \/ /\ proc[Child].worker[x] = "admitted" /\ ~ Held /\ ~ Paused(x, "before-write")
               /\ SetWorker(Child, x, "returned") /\ UNCHANGED exec
               /\ rows' = [rows EXCEPT ![x] = source]
            \/ /\ proc[Child].worker[x] = "returned" /\ ~ Paused(x, "after-business-write")
               /\ SetWorker(Child, x, "done") /\ UNCHANGED rows
               /\ exec'.status = exec.status /\ exec'.digest = exec.digest
               /\ exec'.done = exec.done \union {x}
<1>0. Child \in Procs /\ exec \in Record
  BY ChildIsProc DEF TypeOK, Record, Sources
<1>1. AssignmentMatches(Child)
  BY DEF RunInv, AssignmentMatches
<1>2. CASE AdmissionTimeout(Child, x)
  <2>1. proc[Child].worker[x] = "waiting" /\ Startable(Child) = {}
    BY <1>2 DEF AdmissionTimeout, TimesOut
  <2>2. proc[Child].slots \in 0..Workers /\ Workers \in Nat /\ GateInv
    BY <1>0, PartitionAssumption DEF TypeOK, Proc, RunInv
  <2>3. proc[Child].slots < Workers
    BY <2>1, <2>2 DEF GateInv
  <2> QED BY <2>1, <2>3, NotStuck
<1>3. CASE CampaignWork(x)
  <2>1. /\ Work(Child, x) /\ Undisturbed(x) /\ ~ Paused(x, "before-write")
        /\ proc[Child].worker[x] = "admitted" /\ UNCHANGED <<source, past, exec>>
    BY <1>3 DEF CampaignWork, Work
  <2>2. \A to : SetWorker(Child, x, to) => proc'[Child].worker[x] = to
    BY <1>0, MoveEffect
  <2>3. proc'[Child].worker[x] # "failed"
    BY <1>1, <2>1 DEF Undisturbed
  <2>4. ~ SetWorker(Child, x, "failed")
    BY <2>2, <2>3
  <2>5. \/ proc[Child].stop /\ SetWorker(Child, x, "stopped") /\ UNCHANGED rows
        \/ SetWorker(Child, x, "returned") /\ rows' = [rows EXCEPT ![x] = source]
    BY <1>1, <2>1, <2>4 DEF Work, ShortWrite
  <2>6. SetWorker(Child, x, "returned") => ~ Held
    <3>1. SetWorker(Child, x, "returned") => proc'[Child].worker[x] # "stopped"
      BY <2>2
    <3> QED BY <2>1, <3>1 DEF Undisturbed
  <2> QED BY <2>1, <2>5, <2>6
<1>4. CASE ~ Paused(x, "after-business-write") /\ CommitPartition(Child, x)
  <2>1. /\ proc[Child].worker[x] = "returned" /\ SetWorker(Child, x, "done")
        /\ exec' = [exec EXCEPT !.done = @ \union {x}]
        /\ UNCHANGED <<source, past, rows>>
    BY <1>4 DEF CommitPartition, RunInv
  <2>2. exec'.status = exec.status /\ exec'.digest = exec.digest
        /\ exec'.done = exec.done \union {x}
    BY <1>0, <2>1 DEF Record
  <2> QED BY <1>4, <2>1, <2>2
<1> QED BY <1>2, <1>3, <1>4

LEMMA RunMoves ==
  ASSUME TypeOK, RunInv, Enough, case # "operator", "slow" \notin Failures,
         UNCHANGED campaignVars, NEW x \in Partitions,
         \/ AdmissionTimeout(Child, x) \/ CampaignWork(x)
         \/ ~ Paused(x, "after-business-write") /\ CommitPartition(Child, x)
  PROVE  RunInv'
<1> DEFINE c == Child
           r == proc[c]
           s == proc'[c]
<1>0. c \in Procs /\ r.slots \in 0..Workers /\ Workers \in Nat \ {0}
  BY ChildIsProc, PartitionAssumption DEF TypeOK, Proc
<1>1. harness' = harness /\ framework' = framework
  BY DEF campaignVars
<1>2. PICK to \in {"stopped", "returned", "done"} :
         /\ SetWorker(c, x, to)
         /\ to = "stopped" => r.worker[x] = "admitted" /\ r.stop
         /\ to = "returned" => r.worker[x] = "admitted"
         /\ to = "done" => r.worker[x] = "returned"
         /\ exec'.status = exec.status /\ exec'.digest = exec.digest
         /\ exec'.done = IF to = "done" THEN exec.done \union {x} ELSE exec.done
  BY CaseMoves
<1>3. /\ SameRun(r, s) /\ s.slots = r.slots /\ s.peak = r.peak
      /\ \A y \in Partitions : s.worker[y] = IF y = x THEN to ELSE r.worker[y]
  BY <1>0, <1>2, MoveEffect
<1>4. r.worker[x] \in {"admitted", "returned"}
  BY <1>2
<1>5. exec'.done = harness'.before.done \union InState(c, {"done"})'
  <2>1. CASE to = "done"
    <3>1. InState(c, {"done"})' = InState(c, {"done"}) \union {x}
      BY <1>3, <2>1 DEF InState
    <3> QED BY <1>1, <1>2, <2>1, <3>1 DEF RunInv
  <2>2. CASE to # "done"
    <3>1. \A y \in Partitions : s.worker[y] = "done" <=> r.worker[y] = "done"
      BY <1>3, <1>4, <2>2
    <3>2. InState(c, {"done"})' = InState(c, {"done"})
      BY <3>1 DEF InState
    <3> QED BY <1>1, <1>2, <2>2, <3>2 DEF RunInv
  <2> QED BY <2>1, <2>2
<1>6. \A y \in Partitions :
         /\ s.worker[y] # "failed" /\ (s.worker[y] = "stopped" => s.stop)
         /\ y \in harness.before.done => s.worker[y] = "none"
         /\ framework.worker[y] = IF s.worker[y] = "none" THEN harness.before.framework.worker[y]
                                  ELSE framework.executions
  <2> SUFFICES ASSUME NEW y \in Partitions
               PROVE  /\ s.worker[y] # "failed" /\ (s.worker[y] = "stopped" => s.stop)
                      /\ y \in harness.before.done => s.worker[y] = "none"
                      /\ framework.worker[y] = IF s.worker[y] = "none"
                                               THEN harness.before.framework.worker[y]
                                               ELSE framework.executions
    OBVIOUS
  <2>0. /\ r.worker[y] # "failed" /\ (r.worker[y] = "stopped" => r.stop)
        /\ y \in harness.before.done => r.worker[y] = "none"
        /\ framework.worker[y] = IF r.worker[y] = "none" THEN harness.before.framework.worker[y]
                                 ELSE framework.executions
    BY DEF RunInv
  <2>1. s.worker[y] = (IF y = x THEN to ELSE r.worker[y]) /\ s.stop = r.stop
    BY <1>3 DEF SameRun
  <2>2. CASE y = x
    BY <1>2, <1>4, <2>0, <2>1, <2>2
  <2>3. CASE y # x
    BY <2>0, <2>1, <2>3
  <2> QED BY <2>2, <2>3
<1>7. GateInv'
  <2>1. GateInv
    BY DEF RunInv
  <2>2. r.slots = Workers
    BY <1>0, <1>4, <2>1 DEF GateInv
  <2>3. \A y \in Partitions : s.worker[y] # "waiting"
    BY <1>2, <1>3, <2>1, <2>2 DEF GateInv
  <2>4. s.slots = Workers /\ s.peak = Workers /\ ~ (s.slots < Workers)
    BY <1>0, <1>3, <2>1, <2>2 DEF GateInv
  <2> QED BY <2>3, <2>4 DEF GateInv
<1>8. s.current /\ exec'.status = "STARTED" /\ exec'.digest = s.digest
  BY <1>2, <1>3 DEF RunInv, SameRun
<1>9. framework'.executions = harness'.before.framework.executions + 1
  BY <1>1 DEF RunInv
<1> HIDE DEF s
<1> QED BY <1>1, <1>5, <1>6, <1>7, <1>8, <1>9 DEF RunInv, s

\* What a joined run of a case that is not stopped has reached.
LEMMA RunJoins ==
  ASSUME TypeOK, RunInv, Enough, Unjoined(Child) = {}, Startable(Child) = {},
         ~ proc[Child].stop
  PROVE  /\ exec.done = Partitions /\ proc[Child].peak = Workers
         /\ \A x \in Partitions \ harness.before.done : proc[Child].worker[x] = "done"
<1> DEFINE c == Child
<1>0. /\ c \in Procs /\ proc[c].worker \in [Partitions -> WorkerStates]
      /\ proc[c].slots \in 0..Workers /\ Workers \in Nat \ {0}
      /\ exec.done \subseteq Partitions
  BY ChildIsProc, PartitionAssumption DEF TypeOK, Proc
<1>1. ~ (proc[c].slots < Workers)
  BY NotStuck
<1>2. proc[c].peak = Workers
  BY <1>0, <1>1 DEF RunInv, GateInv
<1>3. \A x \in Partitions : proc[c].worker[x] \in {"none", "done"}
  <2> SUFFICES ASSUME NEW x \in Partitions PROVE proc[c].worker[x] \in {"none", "done"}
    OBVIOUS
  <2>1. proc[c].worker[x] \notin {"waiting", "admitted", "returned"}
    BY DEF Unjoined, InState
  <2>2. proc[c].worker[x] \notin {"failed", "stopped"}
    BY DEF RunInv
  <2> QED BY <1>0, <2>1, <2>2 DEF WorkerStates
<1>4. Cardinality(Unjoined(c)) < Workers
  <2>1. Cardinality({}) = 0
    BY FS_EmptySet
  <2> QED BY <1>0, <2>1
<1>5. InState(c, {"failed", "stopped"}) = {}
  BY <1>3 DEF InState
<1>6. \A x \in Partitions : x \in exec.done
  BY <1>3, <1>4, <1>5 DEF Startable, RunInv, InState
<1>7. \A x \in Partitions \ harness.before.done : proc[c].worker[x] = "done"
  BY <1>6 DEF RunInv, InState
<1> QED BY <1>0, <1>2, <1>6, <1>7

-----------------------------------------------------------------------------
(* The run that is to be killed or stopped.                                *)

LEMMA TargetIsPartition ==
  /\ Target \in Partitions /\ Workers + 1 \in DOMAIN Order
  /\ \A i \in 1..Workers : Order[i] \in Partitions /\ i \in DOMAIN Order /\ i < Workers + 1
  /\ DOMAIN Order = 1..Cardinality(Partitions) /\ Cardinality(Partitions) \in Nat
<1>1. IsFiniteSet(Partitions) /\ Workers \in Nat \ {0} /\ Workers < Cardinality(Partitions)
      /\ Order \in [1..Cardinality(Partitions) -> Partitions]
  BY PartitionAssumption, CampaignAssumption
<1>2. Cardinality(Partitions) \in Nat
  BY <1>1, FS_CardinalityType
<1> QED BY <1>1, <1>2 DEF Target

\* The target is handed out when one of the first workers has been joined.
LEMMA FirstDone ==
  ASSUME TypeOK, RunInv, case # "operator", ~ proc[Child].stop, TakePartition(Target)
  PROVE  exec.done # {}
<1> DEFINE c == Child
           f == [i \in 1..Workers |-> Order[i]]
<1> SUFFICES ASSUME exec.done = {} PROVE FALSE
  OBVIOUS
<1>1. /\ InTurn(Target) /\ Cardinality(Unjoined(c)) < Workers
      /\ Workers \in Nat \ {0} /\ IsFiniteSet(Partitions) /\ c \in Procs
  BY PartitionAssumption, ChildIsProc DEF TakePartition, StartWorker, Startable
<1>2. proc[c].worker \in [Partitions -> WorkerStates]
  BY <1>1 DEF TypeOK, Proc
<1>3. \A i \in 1..Workers : Order[i] \in Unjoined(c)
  <2> SUFFICES ASSUME NEW i \in 1..Workers PROVE Order[i] \in Unjoined(c)
    OBVIOUS
  <2>1. Order[i] \in Partitions /\ i \in DOMAIN Order /\ i < Workers + 1
        /\ Workers + 1 \in DOMAIN Order /\ Order[Workers + 1] = Target
    BY TargetIsPartition DEF Target
  <2>2. proc[c].worker[Order[i]] # "none"
    BY <1>1, <2>1 DEF InTurn
  <2>3. proc[c].worker[Order[i]] # "done"
    BY <2>1 DEF RunInv, InState
  <2>4. proc[c].worker[Order[i]] \notin {"failed", "stopped"}
    BY <2>1 DEF RunInv
  <2>5. proc[c].worker[Order[i]] \in {"waiting", "admitted", "returned"}
    BY <1>2, <2>1, <2>2, <2>3, <2>4 DEF WorkerStates
  <2> QED BY <2>1, <2>5 DEF Unjoined, InState
<1>4. IsFiniteSet(Unjoined(c)) /\ Cardinality(Unjoined(c)) \in Nat
  <2>1. Unjoined(c) \subseteq Partitions
    BY DEF Unjoined, InState
  <2> QED BY <1>1, <2>1, FS_Subset, FS_CardinalityType
<1>5. f \in [1..Workers -> Unjoined(c)]
  BY <1>3
<1>6. \A i, j \in 1..Workers : f[i] = f[j] => i = j
  BY TargetIsPartition, CampaignAssumption
<1>7. f \in Injection(1..Workers, Unjoined(c))
  BY <1>5, <1>6 DEF Injection, IsInjective
<1>8. Cardinality(1..Workers) <= Cardinality(Unjoined(c))
  BY <1>4, <1>7, FS_Injection
<1>9. Cardinality(1..Workers) = Workers
  BY <1>1, FS_Interval
<1> QED BY <1>1, <1>4, <1>8, <1>9

LEMMA CaseKinds ==
  ASSUME CaseInv, case # "operator"
  PROVE  case = "cancellation" \/ case \in CrashCases
BY CampaignAssumption DEF CaseInv, CampaignTypeOK

LEMMA CrashStarts ==
  ASSUME Placed, harness.step \in ArmedSteps, case # "cancellation",
         proc[Child].pc = "running", UNCHANGED <<case, harness, marker>>,
         NEW x \in Partitions, TakePartition(x)
  PROVE  CrashInv'
<1> DEFINE c == Child
           r == proc[c]
           s == proc'[c]
<1>0. /\ TypeOK /\ RunInv /\ CrashInv /\ c \in Procs /\ Target \in Partitions
      /\ r.slots \in 0..Workers /\ Workers \in Nat \ {0}
  BY ChildIsProc, TargetIsPartition, PartitionAssumption
     DEF Placed, PlaceInv, ArmedInv, Planned, TypeOK, Proc
<1>1. /\ SameRun(r, s) /\ x \in Startable(c) /\ r.worker[x] = "none"
      /\ \A y \in Partitions :
           s.worker[y] = IF y = x THEN IF r.slots + 1 < Workers THEN "waiting" ELSE "admitted"
                         ELSE IF r.slots + 1 = Workers /\ r.worker[y] = "waiting"
                              THEN "admitted" ELSE r.worker[y]
  BY <1>0, StartEffect DEF TakePartition, Startable
<1>2. rows' = rows /\ exec' = exec
  BY DEF TakePartition, StartWorker
<1>3. x = Target => exec.done # {}
  BY <1>0, FirstDone DEF Placed, CrashInv
<1>4. s.worker[Target] = IF Target = x THEN IF r.slots + 1 < Workers THEN "waiting" ELSE "admitted"
                         ELSE IF r.slots + 1 = Workers /\ r.worker[Target] = "waiting"
                              THEN "admitted" ELSE r.worker[Target]
  BY <1>0, <1>1
<1>5. r.worker[Target] = "none" => marker = NoMarker
  BY <1>0 DEF CrashInv
<1>6. \/ r.worker[Target] = s.worker[Target]
      \/ /\ r.worker[Target] \in {"none", "waiting"} /\ marker = NoMarker
         /\ s.worker[Target] \in {"waiting", "admitted"} /\ exec.done # {}
  BY <1>0, <1>1, <1>3, <1>4, <1>5 DEF CrashInv
<1> QED BY <1>0, <1>1, <1>2, <1>6 DEF CrashInv, SameRun

LEMMA CrashMoves ==
  ASSUME Placed, harness.step \in ArmedSteps, case # "cancellation", "slow" \notin Failures,
         proc[Child].pc = "running", UNCHANGED campaignVars, NEW x \in Partitions,
         \/ AdmissionTimeout(Child, x) \/ CampaignWork(x)
         \/ ~ Paused(x, "after-business-write") /\ CommitPartition(Child, x)
  PROVE  CrashInv'
<1> DEFINE c == Child
           r == proc[c]
           s == proc'[c]
           t == r.worker[Target]
<1>0. /\ TypeOK /\ RunInv /\ CrashInv /\ c \in Procs /\ Target \in Partitions
      /\ ~ r.stop /\ rows \in [Partitions -> Sources] /\ source # NoRows
      /\ UNCHANGED <<case, harness, marker>>
  BY ChildIsProc, TargetIsPartition, PartitionAssumption
     DEF Placed, PlaceInv, ArmedInv, Planned, TypeOK, CrashInv, campaignVars, Sources
<1>1. Armed /\ case \in CrashCases
  BY CaseKinds DEF Placed, Armed, ArmedSteps
<1>2. \/ /\ r.worker[x] = "admitted" /\ ~ Paused(x, "before-write")
         /\ SetWorker(c, x, "returned") /\ UNCHANGED exec /\ rows' = [rows EXCEPT ![x] = source]
      \/ /\ r.worker[x] = "returned" /\ ~ Paused(x, "after-business-write")
         /\ SetWorker(c, x, "done") /\ UNCHANGED rows /\ exec'.done = exec.done \union {x}
  BY <1>0, CaseMoves DEF Placed
<1>3. CASE x = Target
  <2>1. case = "after-business-write" /\ SetWorker(c, x, "returned") /\ t = "admitted"
        /\ UNCHANGED exec /\ rows' = [rows EXCEPT ![x] = source]
    <3>1. ~ Paused(x, "before-write") => case = "after-business-write"
      BY <1>1, <1>3 DEF Paused, Boundary, CrashCases
    <3>2. t = "returned" => case = "after-business-write"
      BY <1>0 DEF CrashInv
    <3>3. case = "after-business-write" => Paused(x, "after-business-write")
      BY <1>1, <1>3 DEF Paused, Boundary, CrashCases
    <3> QED BY <1>2, <1>3, <3>1, <3>2, <3>3
  <2>2. SameRun(r, s) /\ s.worker[Target] = "returned"
    BY <1>0, <1>3, <2>1, MoveEffect
  <2>3. rows'[Target] # NoRows
    BY <1>0, <1>3, <2>1
  <2>4. marker = NoMarker /\ exec.done # {}
    BY <1>0, <2>1 DEF CrashInv
  <2> QED BY <1>0, <2>1, <2>2, <2>3, <2>4 DEF CrashInv, SameRun
<1>4. CASE x # Target
  <2>1. SameRun(r, s) /\ s.worker[Target] = t
    BY <1>0, <1>2, <1>4, MoveEffect
  <2>2. rows'[Target] = rows[Target]
    BY <1>0, <1>2, <1>4
  <2>3. exec.done \subseteq exec'.done
    BY <1>2
  <2> QED BY <1>0, <2>1, <2>2, <2>3 DEF CrashInv, SameRun
<1> QED BY <1>3, <1>4

LEMMA CancelStarts ==
  ASSUME Placed, harness.step \in ArmedSteps, case = "cancellation",
         proc[Child].pc = "running", UNCHANGED <<case, harness, marker>>,
         NEW x \in Partitions, TakePartition(x)
  PROVE  CancelInv'
<1> DEFINE c == Child
           r == proc[c]
           s == proc'[c]
<1>0. /\ TypeOK /\ RunInv /\ CancelInv /\ c \in Procs
      /\ r.slots \in 0..Workers /\ Workers \in Nat \ {0}
  BY ChildIsProc, PartitionAssumption DEF Placed, PlaceInv, ArmedInv, Planned, TypeOK, Proc
<1>1. /\ SameRun(r, s) /\ x \in Startable(c) /\ ~ r.stop
      /\ s.slots = IF r.slots < Workers THEN r.slots + 1 ELSE r.slots
      /\ Active(c)' = Active(c) + 1
      /\ \A y \in Partitions :
           s.worker[y] = IF y = x THEN IF r.slots + 1 < Workers THEN "waiting" ELSE "admitted"
                         ELSE IF r.slots + 1 = Workers /\ r.worker[y] = "waiting"
                              THEN "admitted" ELSE r.worker[y]
  BY <1>0, StartEffect DEF TakePartition, Startable
<1>2. rows' = rows /\ exec' = exec
  BY DEF TakePartition, StartWorker
<1>3. Active(c) + 1 <= Workers /\ Active(c) = r.slots
  BY <1>0, <1>1, Occupancy DEF CancelInv
<1>4. r.slots < Workers /\ s.slots = r.slots + 1 /\ Active(c)' = s.slots
  BY <1>0, <1>1, <1>3
<1>5. marker = NoMarker /\ harness.step # "stopping"
  BY <1>0, <1>4 DEF CancelInv
<1>6. \A y \in Partitions : s.worker[y] \in {"none", "waiting", "admitted", "stopped"}
  BY <1>0, <1>1 DEF CancelInv
<1> HIDE DEF s
<1>7. s.pc = "running" /\ ~ s.stop
  BY <1>1 DEF SameRun
<1> QED BY <1>0, <1>2, <1>4, <1>5, <1>6, <1>7 DEF CancelInv, s

LEMMA CancelMoves ==
  ASSUME Placed, harness.step \in ArmedSteps, case = "cancellation", "slow" \notin Failures,
         proc[Child].pc = "running", UNCHANGED campaignVars, NEW x \in Partitions,
         \/ AdmissionTimeout(Child, x) \/ CampaignWork(x)
         \/ ~ Paused(x, "after-business-write") /\ CommitPartition(Child, x)
  PROVE  CancelInv'
<1> DEFINE c == Child
           r == proc[c]
           s == proc'[c]
<1>0. /\ TypeOK /\ RunInv /\ CancelInv /\ c \in Procs /\ UNCHANGED <<case, harness, marker>>
  BY ChildIsProc DEF Placed, PlaceInv, ArmedInv, Planned, campaignVars
<1>1. Held
  BY DEF Placed, Held, Armed, ArmedSteps
<1>2. r.worker[x] # "returned"
  BY <1>0 DEF CancelInv
<1>3. r.stop /\ SetWorker(c, x, "stopped") /\ UNCHANGED <<rows, exec>>
  BY <1>0, <1>1, <1>2, CaseMoves DEF Placed
<1>4. /\ SameRun(r, s) /\ s.slots = r.slots /\ s.peak = r.peak
      /\ \A y \in Partitions : s.worker[y] = IF y = x THEN "stopped" ELSE r.worker[y]
  BY <1>0, <1>3, MoveEffect
<1>5. s.stop /\ s.pc = "running"
  BY <1>3, <1>4 DEF SameRun
<1>6. \A y \in Partitions : s.worker[y] \in {"none", "waiting", "admitted", "stopped"}
  BY <1>0, <1>4 DEF CancelInv
<1> HIDE DEF s
<1> QED BY <1>0, <1>3, <1>4, <1>5, <1>6 DEF CancelInv, AllActive, s

\* A step that leaves the harness where it is leaves what it found.
LEMMA StaysArmed ==
  ASSUME Placed, harness.step \in ArmedSteps, UNCHANGED <<case, harness>>, ArmedInv'
  PROVE  PlaceInv'
BY DEF PlaceInv, ArmedSteps, AfterKill

\* Of a worker step, the place it is taken at.
LEMMA WorkerPlace ==
  ASSUME CaseInv, WorkerStep
  PROVE  /\ proc[Child].pc = "running" /\ UNCHANGED <<case, harness, marker>>
         /\ \E x \in Partitions :
              \/ TakePartition(x)
              \/ /\ UNCHANGED campaignVars
                 /\ \/ AdmissionTimeout(Child, x) \/ CampaignWork(x)
                    \/ ~ Paused(x, "after-business-write") /\ CommitPartition(Child, x)
<1>1. PICK x \in Partitions :
        \/ TakePartition(x) /\ UNCHANGED <<case, harness, marker>>
        \/ /\ UNCHANGED campaignVars
           /\ \/ AdmissionTimeout(Child, x) \/ CampaignWork(x)
              \/ ~ Paused(x, "after-business-write") /\ CommitPartition(Child, x)
  BY DEF WorkerStep
<1>2. proc[Child].pc = "running"
  <2>1. CASE TakePartition(x)
    BY <2>1 DEF TakePartition, StartWorker, At
  <2>2. CASE AdmissionTimeout(Child, x) \/ CampaignWork(x) \/ CommitPartition(Child, x)
    <3>1. proc[Child].worker[x] \in Unfinished
      BY <2>2 DEF AdmissionTimeout, CampaignWork, Work, CommitPartition, Unfinished
    <3> QED BY <3>1, ChildIsProc DEF CaseInv, WorkersBelongToRun
  <2> QED BY <1>1, <2>1, <2>2
<1> QED BY <1>1, <1>2 DEF campaignVars

\* A worker step leaves the point of its process.
LEMMA WorkerLeaves ==
  ASSUME TypeOK, NEW x \in Partitions,
         \/ TakePartition(x) \/ AdmissionTimeout(Child, x) \/ CampaignWork(x)
         \/ CommitPartition(Child, x)
  PROVE  SameRun(proc[Child], proc'[Child])
<1>1. CASE TakePartition(x)
  BY <1>1, ChildIsProc, StartEffect DEF TakePartition
<1>2. CASE AdmissionTimeout(Child, x) \/ CampaignWork(x) \/ CommitPartition(Child, x)
  <2>1. PICK to : SetWorker(Child, x, to)
    BY <1>2 DEF AdmissionTimeout, CampaignWork, Work, CommitPartition
  <2> QED BY <2>1, ChildIsProc, MoveEffect
<1> QED BY <1>1, <1>2

LEMMA ArmedWorker ==
  ASSUME Placed, harness.step \in ArmedSteps, "slow" \notin Failures, WorkerStep
  PROVE  PlaceInv'
<1>0. TypeOK /\ CaseInv /\ Enough /\ case # "operator" /\ ArmedInv /\ framework \in Framework
  BY DEF Placed, PlaceInv, CaseInv, CampaignTypeOK
<1>1. proc[Child].pc = "running" /\ UNCHANGED <<case, harness, marker>>
  BY <1>0, WorkerPlace
<1>2. PICK x \in Partitions :
        \/ TakePartition(x)
        \/ /\ UNCHANGED campaignVars
           /\ \/ AdmissionTimeout(Child, x) \/ CampaignWork(x)
              \/ ~ Paused(x, "after-business-write") /\ CommitPartition(Child, x)
  BY <1>0, WorkerPlace
<1>3. SameRun(proc[Child], proc'[Child])
  BY <1>0, <1>2, WorkerLeaves
<1>4. RunInv'
  BY <1>0, <1>1, <1>2, RunStarts, RunMoves DEF ArmedInv
<1>5. IF case = "cancellation" THEN CancelInv' ELSE CrashInv'
  BY <1>1, <1>2, CrashStarts, CrashMoves, CancelStarts, CancelMoves
<1>6. ArmedInv'
  BY <1>0, <1>1, <1>3, <1>4, <1>5 DEF ArmedInv, SameRun
<1> QED BY <1>1, <1>6, StaysArmed

\* What a command does to the execution numbers.
LEMMA CommandCounts ==
  ASSUME CommandStep, case # "operator", framework \in Framework
  PROVE  /\ UNCHANGED <<case, harness, marker>> /\ Command(Child)
         /\ framework'.worker = framework.worker
         /\ framework'.executions =
              IF exec.status # "STARTED" /\ exec'.status = "STARTED"
              THEN framework.executions + 1 ELSE framework.executions
         /\ ~ (exec.status # "STARTED" /\ exec'.status = "STARTED") => framework' = framework
<1>1. framework' = IF exec.status # "STARTED" /\ exec'.status = "STARTED"
                   THEN [framework EXCEPT !.executions = @ + 1] ELSE framework
  BY DEF CommandStep
<1>2. /\ framework'.worker = framework.worker
      /\ framework'.executions =
           IF exec.status # "STARTED" /\ exec'.status = "STARTED"
           THEN framework.executions + 1 ELSE framework.executions
  BY <1>1 DEF Framework
<1> QED BY <1>1, <1>2 DEF CommandStep

\* A step that moves no worker leaves the occupancy.
LEMMA SameActive ==
  ASSUME NEW p \in Procs, SameWork(proc[p], proc'[p])
  PROVE  Active(p)' = Active(p) /\ \A S : InState(p, S)' = InState(p, S)
<1>1. \A S : InState(p, S)' = InState(p, S)
  BY DEF InState, SameWork
<1> QED BY <1>1 DEF Active

\* A launch starts a run behind what has been done.
LEMMA RunBegins ==
  ASSUME TypeOK, NEW p \in Procs, p = Child, Launch(p), CommandStep, case # "operator",
         framework \in Framework, Unlaunched,
         exec.status \in {"NONE", "FAILED"}, exec.done = harness.before.done,
         exec.status = "NONE" => exec.done = {},
         exec.status # "NONE" => exec.digest = proc[p].digest,
         framework = harness.before.framework
  PROVE  RunInv' /\ proc'[p].pc = "running" /\ SameWork(proc[p], proc'[p])
<1> DEFINE s == proc'[p]
<1>1. /\ SameWork(proc[p], s) /\ s.pc = "running" /\ s.current /\ s.digest = proc[p].digest
      /\ exec'.status = "STARTED"
      /\ exec.status = "NONE" => exec'.digest = proc[p].digest /\ exec'.done = {}
      /\ exec.status # "NONE" => exec'.digest = exec.digest /\ exec'.done = exec.done
  BY LaunchEffect
<1>2. harness' = harness /\ framework'.worker = framework.worker
      /\ framework'.executions = framework.executions + 1
  BY <1>1, CommandCounts
<1>3. \A x \in Partitions : s.worker[x] = "none"
  BY <1>1 DEF Unlaunched, SameWork
<1>4. s.slots = 0 /\ ~ s.stop /\ Workers \in Nat \ {0}
  BY <1>1, PartitionAssumption DEF Unlaunched, SameWork
<1>5. Active(p)' = 0
  <2>1. InState(p, Occupied)' = {}
    BY <1>3 DEF InState, Occupied
  <2> QED BY <2>1, FS_EmptySet DEF Active
<1>6. GateInv'
  BY <1>3, <1>4, <1>5 DEF GateInv
<1>7. exec'.done = harness'.before.done \union InState(p, {"done"})'
  BY <1>1, <1>2, <1>3 DEF InState
<1>8. exec'.status = "STARTED" /\ exec'.digest = s.digest
  BY <1>1
<1> HIDE DEF s
<1>9. RunInv'
  BY <1>1, <1>2, <1>3, <1>6, <1>7, <1>8 DEF RunInv, s
<1> QED BY <1>1, <1>9 DEF s

\* A command of a process at a given point.
LEMMA CommandAt ==
  ASSUME NEW p \in Procs, Command(p)
  PROVE  /\ At(p, "identify") => Identify(p)
         /\ At(p, "launch") => Launch(p)
         /\ At(p, "running") => Join(p)
         /\ At(p, "inspect") \/ At(p, "mark") => Inspect(p) \/ MarkFailed(p)
         /\ At(p, "verify") \/ At(p, "report") \/ At(p, "expect") \/ At(p, "compare")
              => VerifyFramework(p) \/ Report(p) \/ Expect(p) \/ Compare(p)
         /\ proc[p].pc \notin {"idle", "failed", "passed"}
BY DEF Command, ReadBaseline, Identify, Launch, Join, VerifyFramework, Report, Expect, Compare,
       Inspect, MarkFailed, At

LEMMA ArmedCommand ==
  ASSUME Placed, harness.step \in ArmedSteps, CommandStep
  PROVE  PlaceInv'
<1> DEFINE c == Child
           r == proc[c]
           s == proc'[c]
<1>0. /\ TypeOK /\ CaseInv /\ Enough /\ case # "operator" /\ ArmedInv /\ framework \in Framework
      /\ c \in Procs /\ harness.before = Seeded.before /\ harness.before.done = {}
      /\ SourceAsIdentified /\ r.cmd = "run" /\ Target \in Partitions /\ Partitions # {}
  BY ChildIsProc, TargetIsPartition
     DEF Placed, PlaceInv, CaseInv, CampaignTypeOK, EarlyInv, Early, Seeded, Planned, ArmedInv
<1>1. UNCHANGED <<case, harness, marker>> /\ Command(c)
  BY <1>0, CommandCounts
<1>2. UNCHANGED <<source, past, rows>>
  BY <1>0, <1>1, CommandLeaves
<1>3. r.pc \in {"identify", "launch", "running", "verify"}
  <2>1. r.pc \notin {"idle", "failed", "passed"}
    BY <1>0, <1>1, CommandAt
  <2> QED BY <1>0, <2>1 DEF ArmedInv, CrashInv, CancelInv
<1>4. CASE r.pc = "identify"
  <2>1. s.pc = "launch" /\ SameWork(r, s) /\ UNCHANGED exec
    BY <1>0, <1>1, <1>4, CommandAt, IdentifyEffect DEF At
  <2>2. framework' = framework /\ Active(c)' = Active(c)
    BY <1>0, <2>1, CommandCounts, SameActive
  <2>3. Untouched' /\ Unlaunched' /\ harness.step = "watch"
    BY <1>0, <1>1, <1>2, <1>4, <2>1, <2>2 DEF ArmedInv, Untouched, Unlaunched, SameWork
  <2>4. IF case = "cancellation" THEN CancelInv' ELSE CrashInv'
    BY <1>0, <1>1, <1>2, <1>4, <2>1, <2>2, <2>3
       DEF ArmedInv, CrashInv, CancelInv, SameWork, Unlaunched, AllActive
  <2>5. ArmedInv'
    BY <1>0, <1>1, <2>1, <2>3, <2>4 DEF ArmedInv, SameWork
  <2> QED BY <1>1, <2>5, StaysArmed
<1>5. CASE r.pc = "launch"
  <2>1. Untouched /\ Unlaunched /\ harness.step = "watch" /\ Launch(c)
    BY <1>0, <1>1, <1>5, CommandAt DEF ArmedInv, At
  <2>2. RunInv' /\ s.pc = "running" /\ SameWork(r, s)
    BY <1>0, <2>1, RunBegins DEF Untouched
  <2>3. Active(c)' = Active(c)
    BY <1>0, <2>2, SameActive
  <2>4. IF case = "cancellation" THEN CancelInv' ELSE CrashInv'
    BY <1>0, <1>1, <1>2, <1>5, <2>1, <2>2, <2>3
       DEF ArmedInv, CrashInv, CancelInv, SameWork, Unlaunched, Untouched
  <2>5. ArmedInv'
    BY <1>0, <1>1, <2>2, <2>4 DEF ArmedInv, SameWork
  <2> QED BY <1>1, <2>5, StaysArmed
<1>6. CASE r.pc = "running"
  <2>1. RunInv /\ Join(c)
    BY <1>0, <1>1, <1>6, CommandAt DEF ArmedInv, At
  <2>2. /\ SameWork(r, s) /\ Unjoined(c) = {} /\ Startable(c) = {}
        /\ s.pc = "verify" /\ exec'.status = Outcome(c)
        /\ exec'.digest = exec.digest /\ exec'.done = exec.done
    BY <1>0, <2>1, JoinEffect DEF RunInv
  <2>3. ~ r.stop => \A x \in Partitions : r.worker[x] = "done"
    BY <1>0, <2>1, <2>2, RunJoins
  <2>4. case = "cancellation" /\ r.stop
    BY <1>0, <2>3 DEF ArmedInv, CrashInv, CancelInv
  <2>5. CancelInv
    BY <1>0, <2>4 DEF ArmedInv
  <2>6. r.slots = Workers /\ r.peak = Workers /\ harness.step = "stopping"
    BY <2>1, <2>4, <2>5 DEF RunInv, GateInv, CancelInv
  <2>7. \A x \in Partitions : r.worker[x] \in {"none", "stopped"}
    BY <2>2, <2>5 DEF CancelInv, Unjoined, InState
  <2>8. exec'.status = "STOPPED"
    <3>1. InState(c, {"done"}) = {} /\ InState(c, {"failed"}) = {}
      BY <2>7 DEF InState
    <3>2. exec.done = {}
      BY <1>0, <2>1, <3>1 DEF RunInv
    <3> QED BY <1>0, <2>2, <2>4, <3>1, <3>2 DEF Outcome
  <2>9. CancelInv'
    BY <1>1, <1>2, <2>2, <2>4, <2>5, <2>6, <2>7, <2>8 DEF CancelInv, SameWork, AllActive
  <2>10. ArmedInv'
    BY <1>0, <1>1, <2>2, <2>4, <2>9 DEF ArmedInv, SameWork
  <2> QED BY <1>1, <2>10, StaysArmed
<1>7. CASE r.pc = "verify"
  <2>1. case = "cancellation" /\ CancelInv
    BY <1>0, <1>7 DEF ArmedInv, CrashInv
  <2>2. exec.status = "STOPPED"
    BY <1>7, <2>1 DEF CancelInv
  <2>3. s.pc = "failed" /\ SameWork(r, s) /\ UNCHANGED exec
    BY <1>0, <1>1, <1>7, <2>2, CommandAt, ConfirmEffect DEF At
  <2>4. Active(c)' = Active(c)
    BY <1>0, <2>3, SameActive
  <2>5. CancelInv'
    BY <1>1, <1>2, <1>7, <2>1, <2>3, <2>4 DEF CancelInv, SameWork, AllActive
  <2>6. ArmedInv'
    BY <1>0, <1>1, <2>1, <2>3, <2>5 DEF ArmedInv, SameWork
  <2> QED BY <1>1, <2>6, StaysArmed
<1> QED BY <1>3, <1>4, <1>5, <1>6, <1>7

\* The process that a start makes.
LEMMA Called ==
  ASSUME TypeOK, NEW p \in Procs, Start(p)
  PROVE  \E cmd \in Commands :
           /\ proc'[p].cmd = cmd /\ proc'[p].stop = FALSE /\ proc'[p].slots = 0
           /\ proc'[p].pc = IF cmd = "qualify" THEN "baseline" ELSE "identify"
<1>1. proc \in [Procs -> Proc] /\ Start(p)
  BY DEF TypeOK
<1>2. PICK cmd \in Commands :
        proc' = [proc EXCEPT ![p] = [Idle EXCEPT !.cmd = cmd,
                   !.pc = IF cmd = "qualify" THEN "baseline" ELSE "identify"]]
  BY <1>1, Zenon DEF Start
<1> DEFINE pc == IF cmd = "qualify" THEN "baseline" ELSE "identify"
<1>3. proc' = [proc EXCEPT ![p] = [Idle EXCEPT !.cmd = cmd, !.pc = pc]]
  BY <1>2
<1> HIDE DEF pc
<1>4. proc'[p] = [Idle EXCEPT !.cmd = cmd, !.pc = pc]
  BY <1>1, <1>3
<1>5. proc'[p].cmd = cmd /\ proc'[p].pc = pc /\ proc'[p].stop = FALSE /\ proc'[p].slots = 0
  BY <1>4 DEF Idle
<1> QED BY <1>5 DEF pc

\* A process that starts is called with a command and has nothing behind it.
LEMMA IssueEffect ==
  ASSUME TypeOK, NEW given, Issue(given), given # "qualify"
  PROVE  /\ proc'[Child].cmd = given /\ proc'[Child].pc = "identify"
         /\ Unlaunched' /\ Active(Child)' = 0 /\ ~ Running(Child)
         /\ UNCHANGED <<source, past, rows, exec>>
<1>2. Start(Child) /\ Child \in Procs
  BY ChildIsProc DEF Issue
<1>3. PICK cmd \in Commands :
        /\ proc'[Child].cmd = cmd /\ proc'[Child].stop = FALSE /\ proc'[Child].slots = 0
        /\ proc'[Child].pc = IF cmd = "qualify" THEN "baseline" ELSE "identify"
  BY <1>2, Called
<1>4. proc'[Child].cmd = given /\ cmd = given
  BY <1>3 DEF Issue
<1>5. proc'[Child].pc = "identify"
  BY <1>3, <1>4
<1>6. \A x \in Partitions : proc'[Child].worker[x] = "none"
  BY <1>2, FreshStep
<1>7. proc'[Child].slots = 0 /\ proc'[Child].stop = FALSE
  BY <1>3
<1>8. Active(Child)' = 0
  <2>1. InState(Child, Occupied)' = {}
    BY <1>6 DEF InState, Occupied
  <2> QED BY <2>1, FS_EmptySet DEF Active
<1> QED BY <1>4, <1>5, <1>6, <1>7, <1>8 DEF Issue, Start, Unlaunched

LEMMA ArmedSpawn ==
  ASSUME Placed, SpawnArmed
  PROVE  PlaceInv'
<1>0. /\ TypeOK /\ Untouched /\ Target \in Partitions /\ harness.step = "begin"
      /\ harness \in [step : Steps, called : BOOLEAN, before : Before]
      /\ case # "operator"
  BY TargetIsPartition DEF Placed, PlaceInv, CaseInv, CampaignTypeOK, SpawnArmed
<1>1. /\ proc'[Child].cmd = "run" /\ proc'[Child].pc = "identify"
      /\ Unlaunched' /\ Active(Child)' = 0 /\ UNCHANGED <<rows, exec>>
  BY <1>0, IssueEffect DEF SpawnArmed
<1>2. harness'.step = "watch" /\ harness'.before = harness.before
      /\ UNCHANGED <<case, marker, framework>>
  BY <1>0 DEF SpawnArmed, Go
<1>3. Untouched'
  BY <1>0, <1>1, <1>2 DEF Untouched
<1>4. CrashInv'
  BY <1>0, <1>1, <1>2, <1>3 DEF CrashInv, Unlaunched, Untouched
<1>5. CancelInv'
  BY <1>0, <1>1, <1>2, <1>3 DEF CancelInv, Unlaunched, Untouched
<1>6. ArmedInv'
  BY <1>1, <1>2, <1>3, <1>4, <1>5 DEF ArmedInv
<1> QED BY <1>2, <1>6 DEF PlaceInv, ArmedSteps, AfterKill

\* The marker comes before the run can end.
LEMMA MarkerFirst ==
  ASSUME Placed, harness.step = "watch", marker # NoMarker \/ ~ Running(Child)
  PROVE  marker # NoMarker /\ (case = "cancellation" => AllActive)
<1>1. ArmedInv
  BY DEF Placed, PlaceInv, ArmedSteps
<1>2. CASE case = "cancellation"
  BY <1>1, <1>2 DEF ArmedInv, CancelInv, Running
<1>3. CASE case # "cancellation"
  BY <1>1, <1>3 DEF ArmedInv, CrashInv, Running
<1> QED BY <1>2, <1>3

LEMMA ArmedAwait ==
  ASSUME Placed, AwaitMarker
  PROVE  PlaceInv'
<1> DEFINE to == IF case = "cancellation" THEN "stopping" ELSE "kill"
           claim == marker # NoMarker /\ (case = "cancellation" => AllActive)
<1>0. /\ harness.step = "watch" /\ CampaignTypeOK /\ ArmedInv /\ Asserts(claim, to)
      /\ UNCHANGED <<vars, case, marker, framework>> /\ to \in Steps
  BY DEF AwaitMarker, Placed, CaseInv, PlaceInv, ArmedSteps, Steps
<1>1. claim
  BY <1>0, MarkerFirst DEF AwaitMarker
<1>2. Go(to)
  BY <1>0, <1>1 DEF Asserts
<1>3. harness'.step = to /\ harness'.before = harness.before
  BY <1>0, <1>2, Goes
<1>4. proc' = proc /\ exec' = exec /\ rows' = rows /\ UNCHANGED <<marker, framework, case>>
  BY <1>0 DEF vars
<1>5. proc[Child].pc \notin {"identify", "launch"}
  BY <1>0, <1>1 DEF ArmedInv, Untouched
<1>6. RunInv => RunInv'
  BY <1>3, <1>4 DEF RunInv, GateInv, Active, InState
<1>7. case # "cancellation" => CrashInv'
  BY <1>0, <1>1, <1>3, <1>4 DEF ArmedInv, CrashInv
<1>8. case = "cancellation" => CancelInv'
  <2> SUFFICES ASSUME case = "cancellation" PROVE CancelInv'
    OBVIOUS
  <2>1. CancelInv /\ ~ proc[Child].stop /\ proc[Child].pc \notin {"verify", "failed"}
    BY <1>0 DEF ArmedInv, CancelInv
  <2>2. Active(Child)' = Active(Child)
    BY <1>4 DEF Active, InState
  <2> QED BY <1>1, <1>3, <1>4, <2>1, <2>2 DEF CancelInv, AllActive
<1>9. ArmedInv'
  BY <1>0, <1>4, <1>5, <1>6, <1>7, <1>8 DEF ArmedInv
<1> QED BY <1>3, <1>9 DEF PlaceInv, ArmedSteps, AfterKill

LEMMA ArmedMarker ==
  ASSUME Placed, WriteMarker
  PROVE  PlaceInv'
<1> DEFINE c == Child
           r == proc[c]
<1>0. /\ TypeOK /\ CaseInv /\ harness.step \in ArmedSteps /\ ArmedInv /\ marker = NoMarker
      /\ case # "operator" /\ c \in Procs /\ Target \in Partitions
      /\ r.slots \in 0..Workers /\ Workers \in Nat \ {0}
      /\ UNCHANGED <<vars, case, harness, framework>>
      /\ marker' = [active |-> Active(c), peak |-> r.peak]
  BY ChildIsProc, TargetIsPartition, PartitionAssumption
     DEF WriteMarker, Armed, ArmedSteps, Placed, PlaceInv, CaseInv, CampaignTypeOK, TypeOK, Proc
<1>1. PICK x \in Partitions :
        /\ r.worker[x] \in {"admitted", "returned"}
        /\ case = "cancellation" => r.worker[x] = "admitted"
        /\ case # "cancellation" =>
              x = Target /\ r.worker[x] = IF case = "after-business-write" THEN "returned"
                                          ELSE "admitted"
  <2>1. CASE Held /\ InState(c, {"admitted"}) # {}
    <3>1. PICK x \in Partitions : r.worker[x] = "admitted"
      BY <2>1 DEF InState
    <3> QED BY <2>1, <3>1 DEF Held
  <2>2. CASE Paused(Target, "before-write") /\ r.worker[Target] = "admitted"
    BY <1>0, <2>2 DEF Paused, Boundary, CrashCases
  <2>3. CASE Paused(Target, "after-business-write") /\ r.worker[Target] = "returned"
    BY <1>0, <2>3 DEF Paused, Boundary, CrashCases
  <2> QED BY <2>1, <2>2, <2>3 DEF WriteMarker
<1>2. r.pc = "running" /\ RunInv
  <2>1. r.pc = "running"
    BY <1>0, <1>1 DEF CaseInv, WorkersBelongToRun, Unfinished
  <2> QED BY <1>0, <2>1 DEF ArmedInv
<1>3. r.slots = Workers /\ r.peak = Workers
  <2>1. ~ (r.slots < Workers)
    BY <1>1, <1>2 DEF RunInv, GateInv
  <2> QED BY <1>0, <1>2, <2>1 DEF RunInv, GateInv
<1>4. proc' = proc /\ exec' = exec /\ rows' = rows /\ UNCHANGED <<case, harness, framework>>
  BY <1>0 DEF vars
<1>5. RunInv'
  BY <1>2, <1>4 DEF RunInv, GateInv, Active, InState
<1>6. case # "cancellation" => CrashInv'
  BY <1>0, <1>1, <1>4 DEF ArmedInv, CrashInv
<1>7. case = "cancellation" => CancelInv'
  <2> SUFFICES ASSUME case = "cancellation" PROVE CancelInv'
    OBVIOUS
  <2>1. CancelInv
    BY <1>0 DEF ArmedInv
  <2>2. ~ r.stop /\ harness.step # "stopping"
    BY <1>0, <2>1 DEF CancelInv
  <2>3. Active(c) = Workers /\ Active(c)' = Active(c)
    BY <1>3, <1>4, <2>1, <2>2 DEF CancelInv, Active, InState
  <2>4. AllActive'
    BY <1>0, <1>3, <2>3 DEF AllActive
  <2> QED BY <1>3, <1>4, <2>1, <2>2, <2>3, <2>4 DEF CancelInv
<1>8. ArmedInv'
  BY <1>0, <1>2, <1>4, <1>5, <1>6, <1>7 DEF ArmedInv
<1> QED BY <1>0, <1>8, StaysArmed

LEMMA ArmedWatcher ==
  ASSUME Placed, WatcherStep
  PROVE  PlaceInv'
<1> DEFINE c == Child
           r == proc[c]
           s == proc'[c]
<1>0. /\ TypeOK /\ harness.step = "stopping" /\ case = "cancellation"
      /\ ArmedInv /\ CancelInv /\ RunInv /\ r.pc = "running"
      /\ UNCHANGED <<case, harness, marker, framework, source, past, rows, exec>>
      /\ proc' = [proc EXCEPT ![c].stop = TRUE] /\ proc \in [Procs -> Proc] /\ c \in Procs
  BY ChildIsProc DEF WatcherStep, RequestStop, campaignVars, Placed, PlaceInv, ArmedSteps,
     ArmedInv, Planned, At, TypeOK
<1>1. /\ s.pc = r.pc /\ s.cmd = r.cmd /\ s.worker = r.worker /\ s.slots = r.slots
      /\ s.peak = r.peak /\ s.digest = r.digest /\ s.current = r.current /\ s.stop = TRUE
  BY <1>0 DEF Proc
<1>2. r.slots = Workers
  BY <1>0 DEF CancelInv
<1>3. \A S : InState(c, S)' = InState(c, S)
  BY <1>1 DEF InState
<1> HIDE DEF s
<1>4. GateInv'
  <2>1. ~ (s.slots < Workers)
    BY <1>1, <1>2, PartitionAssumption
  <2> QED BY <1>0, <1>1, <1>2, <2>1 DEF RunInv, GateInv, s
<1>5. RunInv'
  BY <1>0, <1>1, <1>3, <1>4 DEF RunInv, s
<1>6. CancelInv'
  BY <1>0, <1>1, <1>2 DEF CancelInv, AllActive, s
<1>7. ArmedInv'
  BY <1>0, <1>1, <1>5, <1>6 DEF ArmedInv, s
<1> QED BY <1>0, <1>7, StaysArmed DEF ArmedSteps

LEMMA ArmedStopped ==
  ASSUME Placed, CheckStopped
  PROVE  PlaceInv'
<1> DEFINE r == proc[Child]
           claim == /\ r.pc = "failed" /\ r.peak = Workers
                    /\ Active(Child) = 0 /\ exec.status = "STOPPED"
                    /\ \A x \in Partitions : rows[x] = NoRows
<1>0. /\ harness.step = "stopping" /\ CampaignTypeOK /\ ArmedInv /\ ~ Running(Child)
      /\ Asserts(claim, "accepted")
  BY DEF CheckStopped, Placed, CaseInv, PlaceInv, ArmedSteps
<1>1. CancelInv /\ r.pc = "failed"
  BY <1>0 DEF ArmedInv, CrashInv, CancelInv, Running
<1>2. Active(Child) = 0
  <2>1. InState(Child, Occupied) = {}
    BY <1>1 DEF CancelInv, InState, Occupied
  <2> QED BY <2>1, FS_EmptySet DEF Active
<1>3. claim
  BY <1>1, <1>2 DEF CancelInv
<1>4. Go("accepted")
  BY <1>0, <1>3 DEF Asserts
<1>5. harness'.step = "accepted"
  BY <1>0, <1>4, Goes DEF Steps
<1> QED BY <1>5 DEF PlaceInv, ArmedSteps, AfterKill

LEMMA ArmedKill ==
  ASSUME Placed, Kill
  PROVE  PlaceInv'
<1> DEFINE c == Child
           r == proc[c]
<1>0. /\ TypeOK /\ CampaignTypeOK /\ CaseInv /\ harness.step = "kill" /\ ArmedInv
      /\ harness.before = Seeded.before /\ c \in Procs /\ Target \in Partitions
      /\ UNCHANGED <<case, marker, framework, source, past, rows, exec>> /\ Go("inspect")
      /\ SourceAsIdentified /\ case # "operator"
  BY ChildIsProc, TargetIsPartition DEF Kill, Crash, Placed, CaseInv, PlaceInv, ArmedSteps,
     EarlyInv, Early, Planned
<1>1. case # "cancellation" /\ CrashInv /\ case \in CrashCases
  BY <1>0, CaseKinds DEF ArmedInv, CancelInv
<1>2. r.worker[Target] \in {"admitted", "returned"} /\ exec.done # {}
      /\ (r.worker[Target] = "returned" <=> case = "after-business-write")
      /\ (rows[Target] = NoRows <=> r.worker[Target] # "returned")
  BY <1>0, <1>1 DEF CrashInv
<1>3. r.pc = "running" /\ RunInv
  <2>1. r.pc = "running"
    BY <1>0, <1>2 DEF CaseInv, WorkersBelongToRun, Unfinished
  <2> QED BY <1>0, <2>1 DEF ArmedInv
<1>4. exec.status = "STARTED" /\ exec.digest = source
  <2>1. r.digest = source
    BY <1>0, <1>3 DEF SourceAsIdentified, Unbound
  <2> QED BY <1>3, <2>1 DEF RunInv
<1>5. Target \notin exec.done
  BY <1>0, <1>2, <1>3 DEF RunInv, Seeded, InState
<1>6. \A x \in Partitions : framework.worker[x] <= framework.executions
  BY <1>0, <1>3 DEF RunInv, Seeded
<1>7. harness'.step = "inspect" /\ ~ harness'.called
  BY <1>0, Goes DEF Steps
<1>8. KilledInv'
  BY <1>0, <1>1, <1>2, <1>4, <1>5, <1>6, <1>7 DEF KilledInv, CrashCases
<1> QED BY <1>7, <1>8 DEF PlaceInv, ArmedSteps, AfterKill

\* The inspection finds what the kill left, and looks it up.
LEMMA KilledInspect ==
  ASSUME CaseInv, Planned, case # "operator", EarlyInv, PlaceInv, InspectKilled
  PROVE  PlaceInv'
<1> DEFINE found == [done |-> exec.done, source |-> source, framework |-> framework]
           to == IF case = "mutation" THEN "mutate"
                 ELSE IF /\ exec.status = "STARTED" /\ Target \notin exec.done
                         /\ (rows[Target] = NoRows) <=> (case = "before-write")
                      THEN "recover" ELSE "raised"
<1>0. /\ harness.step = "inspect" /\ KilledInv /\ ~ Running(Child)
      /\ harness \in [step : Steps, called : BOOLEAN, before : Before]
      /\ UNCHANGED <<vars, case, marker, framework>>
  BY DEF InspectKilled, PlaceInv, CaseInv, CampaignTypeOK, Interim
<1>1. harness' = [harness EXCEPT !.before = found, !.step = to]
  BY DEF InspectKilled
<1>2. to = IF case = "mutation" THEN "mutate" ELSE "recover"
  BY <1>0 DEF KilledInv
<1> HIDE DEF to
<1>3. harness'.step = to /\ harness'.before = found /\ harness'.called = harness.called
  <2> HIDE DEF found
  <2> QED BY <1>0, <1>1 DEF Before
<1>4. ~ Running(Child)' /\ UNCHANGED <<source, exec, rows, framework>> /\ ~ harness'.called
  BY <1>0, <1>3 DEF vars, Running, KilledInv
<1>5. /\ harness'.before.done = exec.done /\ harness'.before.source = source
      /\ harness'.before.framework = framework
  BY <1>3
<1>6. AsFound'
  BY <1>0, <1>4, <1>5 DEF AsFound, KilledInv
<1>7. AfterKillInv'
  BY <1>0, <1>2, <1>3, <1>4, <1>5, <1>6 DEF AfterKillInv, InCommand, KilledInv
<1> QED BY <1>2, <1>3, <1>7 DEF PlaceInv, ArmedSteps, AfterKill

-----------------------------------------------------------------------------
(* After the kill.                                                         *)

\* What a step after the kill starts from.
AfterFacts ==
    /\ TypeOK /\ CampaignTypeOK /\ CaseInv /\ Enough /\ case # "operator"
    /\ AfterKillInv /\ ~ Armed
    /\ SourceAsIdentified /\ DoneFromPlan
    /\ Child \in Procs /\ Target \in Partitions

LEMMA AfterIs ==
  ASSUME Placed, harness.step \in AfterKill PROVE AfterFacts
BY ChildIsProc, TargetIsPartition
   DEF Placed, PlaceInv, AfterFacts, AfterKill, Planned, CaseInv, Armed

\* The commands of a case keep what was found.
LEMMA StaysAfter ==
  ASSUME harness.step \in AfterKill, AfterKillInv, UNCHANGED <<case, harness, source>>,
         exec'.digest = exec.digest,
         harness.step \notin {"mutate", "restore", "compare"},
         harness.step = "refuse" => AsFound' /\ InCommand(TRUE, RefuseInv)',
         harness.step = "recover" => InCommand(AsFound, RecoverInv)',
         harness.step = "continue" => InCommand(Recovered, ContinueInv)',
         harness.step = "verify" => Delivered' /\ InCommand(TRUE, VerifyInv)'
  PROVE  PlaceInv'
<1>1. harness' = harness /\ source' = source
  OBVIOUS
<1>2. AfterKillInv'
  BY <1>1 DEF AfterKillInv
<1> QED BY <1>1, <1>2 DEF PlaceInv, AfterKill, ArmedSteps

LEMMA RefuseCommand ==
  ASSUME Placed, harness.step = "refuse", CommandStep
  PROVE  PlaceInv'
<1> DEFINE c == Child
           r == proc[c]
           s == proc'[c]
<1>0. /\ TypeOK /\ CaseInv /\ case # "operator" /\ framework \in Framework /\ c \in Procs
      /\ AfterKillInv /\ AsFound /\ SourceAsIdentified /\ InCommand(TRUE, RefuseInv)
  BY AfterIs DEF AfterKill, AfterFacts, CampaignTypeOK, AfterKillInv
<1>1. UNCHANGED <<case, harness, marker>> /\ Command(c)
  BY <1>0, CommandCounts
<1>2. UNCHANGED <<source, past, rows>>
  BY <1>0, <1>1, CommandLeaves
<1>3. harness.called /\ RefuseInv /\ r.pc \notin {"idle", "failed", "passed"}
  BY <1>0, <1>1, CommandAt DEF Running, InCommand
<1>4. CASE r.pc = "identify"
  <2>1. s.pc = "inspect" /\ SameWork(r, s) /\ UNCHANGED exec
    BY <1>0, <1>1, <1>3, <1>4, CommandAt, IdentifyEffect DEF At, RefuseInv
  <2>2. framework' = framework
    BY <1>0, <2>1, CommandCounts
  <2>3. RefuseInv' /\ AsFound'
    BY <1>0, <1>1, <1>3, <2>1, <2>2 DEF RefuseInv, AsFound, SameWork
  <2> QED BY <1>0, <1>1, <1>2, <1>3, <2>1, <2>3, StaysAfter DEF InCommand, AfterKill
<1>5. CASE r.pc = "inspect"
  <2>1. r.digest = source /\ exec.digest # source
    BY <1>0, <1>5 DEF SourceAsIdentified, Unbound, AfterKillInv
  <2>2. s.pc = "failed" /\ SameWork(r, s) /\ UNCHANGED exec
    BY <1>0, <1>1, <1>5, <2>1, CommandAt, RecoverEffect DEF At, AssignmentMatches
  <2>3. framework' = framework
    BY <1>0, <2>2, CommandCounts
  <2>4. RefuseInv' /\ AsFound'
    BY <1>0, <1>1, <1>3, <2>2, <2>3 DEF RefuseInv, AsFound, SameWork
  <2> QED BY <1>0, <1>1, <1>2, <1>3, <2>2, <2>4, StaysAfter DEF InCommand, AfterKill
<1> QED BY <1>3, <1>4, <1>5 DEF RefuseInv

LEMMA RecoverCommand ==
  ASSUME Placed, harness.step = "recover", CommandStep
  PROVE  PlaceInv'
<1> DEFINE c == Child
           r == proc[c]
           s == proc'[c]
<1>0. /\ TypeOK /\ CaseInv /\ case # "operator" /\ framework \in Framework /\ c \in Procs
      /\ AfterKillInv /\ SourceAsIdentified /\ InCommand(AsFound, RecoverInv)
  BY AfterIs DEF AfterKill, AfterFacts, CampaignTypeOK, AfterKillInv
<1>1. UNCHANGED <<case, harness, marker>> /\ Command(c)
  BY <1>0, CommandCounts
<1>2. UNCHANGED <<source, past, rows>>
  BY <1>0, <1>1, CommandLeaves
<1>3. harness.called /\ RecoverInv /\ r.pc \notin {"idle", "failed", "passed"}
  BY <1>0, <1>1, CommandAt DEF Running, InCommand
<1>4. AsFound
  BY <1>3 DEF RecoverInv
<1>5. CASE r.pc = "identify"
  <2>1. s.pc = "inspect" /\ SameWork(r, s) /\ UNCHANGED exec
    BY <1>0, <1>1, <1>3, <1>5, CommandAt, IdentifyEffect DEF At, RecoverInv
  <2>2. framework' = framework
    BY <1>0, <2>1, CommandCounts
  <2>3. RecoverInv'
    BY <1>1, <1>3, <1>4, <2>1, <2>2 DEF RecoverInv, AsFound, SameWork
  <2> QED BY <1>0, <1>1, <1>2, <1>3, <2>1, <2>3, StaysAfter DEF InCommand, AfterKill
<1>6. CASE r.pc = "inspect"
  <2>1. r.digest = source /\ exec.digest = source /\ exec.status = "STARTED"
    BY <1>0, <1>4, <1>6 DEF SourceAsIdentified, Unbound, AfterKillInv, AsFound
  <2>2. s.pc = "mark" /\ s.current /\ SameWork(r, s) /\ UNCHANGED exec
    BY <1>0, <1>1, <1>6, <2>1, CommandAt, RecoverEffect DEF At, AssignmentMatches
  <2>3. framework' = framework
    BY <1>0, <2>2, CommandCounts
  <2>4. RecoverInv'
    BY <1>1, <1>3, <1>4, <2>2, <2>3 DEF RecoverInv, AsFound, SameWork
  <2> QED BY <1>0, <1>1, <1>2, <1>3, <2>2, <2>4, StaysAfter DEF InCommand, AfterKill
<1>7. CASE r.pc = "mark"
  <2>1. r.current /\ exec.status = "STARTED"
    BY <1>3, <1>4, <1>7 DEF RecoverInv, AsFound
  <2>2. /\ s.pc = "idle" /\ exec'.status = "FAILED" /\ SameWork(r, s)
        /\ exec'.digest = exec.digest /\ exec'.done = exec.done
    BY <1>0, <1>1, <1>7, <2>1, CommandAt, RecoverEffect DEF At
  <2>3. framework' = framework
    BY <1>0, <2>1, CommandCounts
  <2>4. RecoverInv'
    BY <1>1, <1>3, <1>4, <2>2, <2>3 DEF RecoverInv, AsFound, Recovered, SameWork
  <2> QED BY <1>0, <1>1, <1>2, <1>3, <2>2, <2>4, StaysAfter DEF InCommand, AfterKill
<1> QED BY <1>3, <1>5, <1>6, <1>7 DEF RecoverInv

\* A joined continuation has delivered everything.
LEMMA RunDelivers ==
  ASSUME TypeOK, RunInv, Enough, ~ proc[Child].stop, Target \in Partitions,
         Target \notin harness.before.done, Join(Child), CommandStep, case # "operator",
         framework \in Framework
  PROVE  /\ Delivered' /\ proc'[Child].pc = "verify" /\ proc[Child].peak = Workers
         /\ SameWork(proc[Child], proc'[Child]) /\ exec'.digest = exec.digest
<1> DEFINE c == Child
<1>1. /\ SameWork(proc[c], proc'[c]) /\ Unjoined(c) = {} /\ Startable(c) = {}
      /\ proc'[c].pc = "verify" /\ exec'.status = Outcome(c)
      /\ exec'.digest = exec.digest /\ exec'.done = exec.done
  BY ChildIsProc, JoinEffect DEF RunInv
<1>2. /\ exec.done = Partitions /\ proc[c].peak = Workers
      /\ proc[c].worker[Target] = "done"
  BY <1>1, RunJoins
<1>3. exec'.status = "COMPLETED" /\ exec'.done = Partitions
  BY <1>1, <1>2 DEF Outcome
<1>4. framework' = framework /\ harness' = harness
  BY CommandCounts DEF RunInv
<1>5. harness.before.done \subseteq Partitions
  BY <1>2 DEF RunInv
<1>6. Delivered'
  BY <1>2, <1>3, <1>4, <1>5 DEF Delivered, RunInv
<1> QED BY <1>1, <1>2, <1>6

LEMMA ContinueCommand ==
  ASSUME Placed, harness.step = "continue", CommandStep
  PROVE  PlaceInv'
<1> DEFINE c == Child
           r == proc[c]
           s == proc'[c]
<1>0. /\ TypeOK /\ CaseInv /\ Enough /\ case # "operator" /\ framework \in Framework
      /\ c \in Procs /\ AfterKillInv /\ SourceAsIdentified /\ DoneFromPlan
      /\ InCommand(Recovered, ContinueInv) /\ exec.digest = source
      /\ Target \in Partitions /\ Target \notin harness.before.done
  BY AfterIs DEF AfterKill, AfterFacts, CampaignTypeOK, AfterKillInv
<1>1. UNCHANGED <<case, harness, marker>> /\ Command(c)
  BY <1>0, CommandCounts
<1>2. UNCHANGED <<source, past, rows>>
  BY <1>0, <1>1, CommandLeaves
<1>3. harness.called /\ ContinueInv /\ r.pc \notin {"idle", "failed", "passed"}
      /\ r.cmd = "run" /\ ~ r.stop
  <2>1. harness.called /\ ContinueInv /\ r.pc \notin {"idle", "failed", "passed"}
    BY <1>0, <1>1, CommandAt DEF Running, InCommand
  <2> QED BY <2>1 DEF ContinueInv
<1>4. ASSUME ContinueInv', exec'.digest = exec.digest PROVE PlaceInv'
  BY <1>0, <1>1, <1>2, <1>3, <1>4, StaysAfter DEF InCommand, AfterKill
<1>5. CASE r.pc = "identify"
  <2>1. s.pc = "launch" /\ SameWork(r, s) /\ UNCHANGED exec
    BY <1>0, <1>1, <1>3, <1>5, CommandAt, IdentifyEffect DEF At
  <2>2. framework' = framework /\ Recovered /\ Unlaunched
    BY <1>0, <1>3, <1>5, <2>1, CommandCounts DEF ContinueInv
  <2>3. Recovered' /\ Unlaunched'
    BY <1>1, <2>1, <2>2 DEF Recovered, Unlaunched, SameWork
  <2>4. ContinueInv'
    BY <1>3, <2>1, <2>3 DEF ContinueInv, SameWork
  <2> QED BY <1>4, <2>1, <2>4
<1>6. CASE r.pc = "launch"
  <2>1. Recovered /\ Unlaunched /\ r.digest = source
    BY <1>0, <1>3, <1>6 DEF ContinueInv, SourceAsIdentified, Unbound
  <2>2. Launch(c) /\ exec.status = "FAILED"
    BY <1>0, <1>1, <1>6, <2>1, CommandAt DEF At, Recovered
  <2>3. RunInv' /\ s.pc = "running" /\ SameWork(r, s)
    BY <1>0, <2>1, <2>2, RunBegins DEF Recovered
  <2>4. exec'.digest = exec.digest
    BY <1>0, <2>2, LaunchEffect
  <2>5. ContinueInv'
    BY <1>3, <2>3 DEF ContinueInv, SameWork
  <2> QED BY <1>4, <2>4, <2>5
<1>7. CASE r.pc = "running"
  <2>1. RunInv /\ Join(c)
    BY <1>0, <1>1, <1>3, <1>7, CommandAt DEF ContinueInv, At
  <2>2. /\ Delivered' /\ s.pc = "verify" /\ r.peak = Workers
        /\ SameWork(r, s) /\ exec'.digest = exec.digest
    BY <1>0, <1>3, <2>1, RunDelivers
  <2>3. ContinueInv'
    BY <1>3, <2>2 DEF ContinueInv, SameWork
  <2> QED BY <1>4, <2>2, <2>3
<1>8. CASE r.pc \in {"verify", "report", "expect", "compare"}
  <2>1. Delivered /\ r.peak = Workers /\ (r.pc = "compare" => r.expected = source)
    BY <1>3, <1>8 DEF ContinueInv
  <2>2. r.digest = source
    BY <1>0, <1>8 DEF SourceAsIdentified, Unbound
  <2>3. \A x \in Partitions : rows[x] = source
    BY <1>0, <2>1 DEF DoneFromPlan, Delivered
  <2>4. SameWork(r, s) /\ UNCHANGED exec /\ s.pc \in {"report", "expect", "compare", "passed"}
        /\ (s.pc = "compare" => s.expected = source)
    <3>1. VerifyFramework(c) \/ Report(c) \/ Expect(c) \/ Compare(c)
      BY <1>0, <1>1, <1>8, CommandAt DEF At
    <3>2. BaselineHolds(c) /\ PeakReached(c) /\ AssignmentMatches(c) /\ exec.status = "COMPLETED"
      BY <1>0, <1>3, <2>1, <2>2 DEF BaselineHolds, PeakReached, AssignmentMatches, Delivered
    <3>3. r.pc = "compare" => \A x \in Partitions : rows[x] = r.expected
      BY <2>1, <2>3
    <3> QED BY <1>0, <1>8, <3>1, <3>2, <3>3, ConfirmEffect DEF At
  <2>5. framework' = framework
    BY <1>0, <2>4, CommandCounts
  <2>6. Delivered'
    BY <1>1, <2>1, <2>4, <2>5 DEF Delivered
  <2>7. ContinueInv'
    BY <1>2, <1>3, <2>1, <2>4, <2>6 DEF ContinueInv, SameWork
  <2> QED BY <1>4, <2>4, <2>7
<1> QED BY <1>3, <1>5, <1>6, <1>7, <1>8 DEF ContinueInv

LEMMA VerifyCommand ==
  ASSUME Placed, harness.step = "verify", CommandStep
  PROVE  PlaceInv'
<1> DEFINE c == Child
           r == proc[c]
           s == proc'[c]
<1>0. /\ TypeOK /\ CaseInv /\ case # "operator" /\ framework \in Framework
      /\ c \in Procs /\ AfterKillInv /\ SourceAsIdentified /\ DoneFromPlan
      /\ InCommand(TRUE, VerifyInv) /\ Delivered /\ exec.digest = source
  BY AfterIs DEF AfterKill, AfterFacts, CampaignTypeOK, AfterKillInv
<1>1. UNCHANGED <<case, harness, marker>> /\ Command(c)
  BY <1>0, CommandCounts
<1>2. UNCHANGED <<source, past, rows>>
  BY <1>0, <1>1, CommandLeaves
<1>3. harness.called /\ VerifyInv /\ r.pc \notin {"idle", "failed", "passed"} /\ r.cmd = "verify"
  <2>1. harness.called /\ VerifyInv /\ r.pc \notin {"idle", "failed", "passed"}
    BY <1>0, <1>1, CommandAt DEF Running, InCommand
  <2> QED BY <2>1 DEF VerifyInv
<1>4. ASSUME UNCHANGED exec, VerifyInv' PROVE PlaceInv'
  <2>1. framework' = framework
    BY <1>0, <1>4, CommandCounts
  <2>2. Delivered'
    BY <1>0, <1>1, <1>4, <2>1 DEF Delivered
  <2> QED BY <1>0, <1>1, <1>2, <1>3, <1>4, <2>2, StaysAfter DEF InCommand, AfterKill
<1>5. CASE r.pc = "identify"
  <2>1. s.pc = "verify" /\ SameWork(r, s) /\ UNCHANGED exec
    BY <1>0, <1>1, <1>3, <1>5, CommandAt, IdentifyEffect DEF At
  <2>2. VerifyInv'
    BY <1>3, <2>1 DEF VerifyInv, SameWork
  <2> QED BY <1>4, <2>1, <2>2
<1>6. CASE r.pc \in {"verify", "report", "expect", "compare"}
  <2>1. r.digest = source
    BY <1>0, <1>6 DEF SourceAsIdentified, Unbound
  <2>2. \A x \in Partitions : rows[x] = source
    BY <1>0 DEF DoneFromPlan, Delivered
  <2>3. SameWork(r, s) /\ UNCHANGED exec /\ s.pc \in {"report", "expect", "compare", "passed"}
        /\ (s.pc = "compare" => s.expected = source)
    <3>1. VerifyFramework(c) \/ Report(c) \/ Expect(c) \/ Compare(c)
      BY <1>0, <1>1, <1>6, CommandAt DEF At
    <3>2. BaselineHolds(c) /\ PeakReached(c) /\ AssignmentMatches(c) /\ exec.status = "COMPLETED"
      BY <1>0, <1>3, <2>1 DEF BaselineHolds, PeakReached, AssignmentMatches, Delivered
    <3>3. r.pc = "compare" => \A x \in Partitions : rows[x] = r.expected
      BY <1>3, <2>2 DEF VerifyInv
    <3> QED BY <1>0, <1>6, <3>1, <3>2, <3>3, ConfirmEffect DEF At
  <2>4. VerifyInv'
    BY <1>2, <1>3, <2>3 DEF VerifyInv, SameWork
  <2> QED BY <1>4, <2>3, <2>4
<1> QED BY <1>3, <1>5, <1>6 DEF VerifyInv

LEMMA ContinueWorker ==
  ASSUME Placed, harness.step = "continue", "slow" \notin Failures, WorkerStep
  PROVE  PlaceInv'
<1> DEFINE c == Child
           r == proc[c]
           s == proc'[c]
<1>0. /\ TypeOK /\ CaseInv /\ Enough /\ case # "operator" /\ framework \in Framework
      /\ AfterKillInv /\ InCommand(Recovered, ContinueInv) /\ ~ Armed
  BY AfterIs DEF AfterKill, AfterFacts, CampaignTypeOK, AfterKillInv
<1>1. r.pc = "running" /\ UNCHANGED <<case, harness, marker>>
  BY <1>0, WorkerPlace
<1>2. harness.called /\ ContinueInv /\ RunInv
  BY <1>0, <1>1 DEF InCommand, Running, ContinueInv
<1>3. PICK x \in Partitions :
        \/ TakePartition(x)
        \/ /\ UNCHANGED campaignVars
           /\ \/ AdmissionTimeout(Child, x) \/ CampaignWork(x)
              \/ ~ Paused(x, "after-business-write") /\ CommitPartition(Child, x)
  BY <1>0, WorkerPlace
<1>4. SameRun(r, s)
  BY <1>0, <1>3, WorkerLeaves
<1>5. RunInv'
  BY <1>0, <1>1, <1>2, <1>3, RunStarts, RunMoves
<1>6. ContinueInv'
  BY <1>1, <1>2, <1>4, <1>5 DEF ContinueInv, SameRun
<1>7. UNCHANGED source /\ exec'.digest = exec.digest
  <2>1. Worker(Child)
    BY <1>3 DEF Worker, TakePartition, CampaignWork
  <2> QED BY <1>0, <2>1, ChildIsProc, WorkerKeeps
<1> QED BY <1>0, <1>1, <1>2, <1>6, <1>7, StaysAfter DEF InCommand, AfterKill

LEMMA AfterChange ==
  ASSUME Placed, ChangeSource
  PROVE  PlaceInv'
<1>0. /\ harness.step \in {"mutate", "restore"} /\ CampaignTypeOK /\ AfterKillInv /\ AsFound
      /\ ~ Running(Child) /\ UNCHANGED <<past, rows, exec, proc, case, marker, framework>>
  BY AfterIs DEF ChangeSource, AfterKill, AfterFacts, AfterKillInv, Placed, CaseInv, Interim
<1>1. CASE harness.step = "mutate"
  <2>1. Go("refuse") /\ source' # source
    BY <1>1 DEF ChangeSource
  <2>2. harness'.step = "refuse" /\ ~ harness'.called /\ harness'.before = harness.before
    BY <1>0, <2>1, Goes DEF Steps
  <2>3. AsFound' /\ ~ Running(Child)'
    BY <1>0, <2>2 DEF AsFound, Running
  <2>4. AfterKillInv'
    BY <1>0, <1>1, <2>1, <2>2, <2>3 DEF AfterKillInv, InCommand
  <2> QED BY <2>2, <2>4 DEF PlaceInv, AfterKill, ArmedSteps
<1>2. CASE harness.step = "restore"
  <2>1. Go("recover") /\ source' = harness.before.source
    BY <1>2 DEF ChangeSource
  <2>2. harness'.step = "recover" /\ ~ harness'.called /\ harness'.before = harness.before
    BY <1>0, <2>1, Goes DEF Steps
  <2>3. AsFound' /\ ~ Running(Child)'
    BY <1>0, <2>2 DEF AsFound, Running
  <2>4. AfterKillInv'
    BY <1>0, <1>2, <2>1, <2>2, <2>3 DEF AfterKillInv, InCommand
  <2> QED BY <2>2, <2>4 DEF PlaceInv, AfterKill, ArmedSteps
<1> QED BY <1>0, <1>1, <1>2

LEMMA AfterCall ==
  ASSUME Placed, Call
  PROVE  PlaceInv'
<1>0. /\ harness.step \in {"refuse", "recover", "continue", "verify"} /\ ~ harness.called
      /\ TypeOK /\ CampaignTypeOK /\ AfterKillInv
      /\ UNCHANGED <<case, marker, framework>>
      /\ harness' = [harness EXCEPT !.called = TRUE]
  <2>1. harness.step \in {"refuse", "recover", "continue", "verify"}
    BY DEF Call, Script
  <2> QED BY <2>1, AfterIs DEF Call, AfterKill, AfterFacts
<1>1. harness'.step = harness.step /\ harness'.called /\ harness'.before = harness.before
  BY <1>0 DEF CampaignTypeOK
<1>2. \E given \in {"recover", "run", "verify"} :
         /\ Issue(given)
         /\ harness.step \in {"refuse", "recover"} => given = "recover"
         /\ harness.step = "continue" => given = "run"
         /\ harness.step = "verify" => given = "verify"
  <2>1. Issue(Script[harness.step].cmd)
    BY DEF Call
  <2>2. CASE harness.step \in {"refuse", "recover"}
    <3>1. Script[harness.step].cmd = "recover"
      BY <2>2 DEF Script
    <3>2. Issue("recover")
      BY <2>1, <3>1
    <3> QED BY <2>2, <3>2
  <2>3. CASE harness.step = "continue"
    <3>1. Script[harness.step].cmd = "run"
      BY <2>3 DEF Script
    <3>2. Issue("run")
      BY <2>1, <3>1
    <3> QED BY <2>3, <3>2
  <2>4. CASE harness.step = "verify"
    <3>1. Script[harness.step].cmd = "verify"
      BY <2>4 DEF Script
    <3>2. Issue("verify")
      BY <2>1, <3>1
    <3> QED BY <2>4, <3>2
  <2> QED BY <1>0, <2>2, <2>3, <2>4
<1>3. PICK given \in {"recover", "run", "verify"} :
         /\ Issue(given)
         /\ harness.step \in {"refuse", "recover"} => given = "recover"
         /\ harness.step = "continue" => given = "run"
         /\ harness.step = "verify" => given = "verify"
  BY <1>2
<1>4. /\ proc'[Child].cmd = given /\ proc'[Child].pc = "identify"
      /\ Unlaunched' /\ UNCHANGED <<source, past, rows, exec>>
  BY <1>0, <1>3, IssueEffect
<1>5. harness.step = "refuse" => AsFound' /\ RefuseInv'
  BY <1>0, <1>1, <1>3, <1>4 DEF AfterKillInv, AsFound, RefuseInv
<1>6. harness.step = "recover" => RecoverInv'
  BY <1>0, <1>1, <1>3, <1>4 DEF AfterKillInv, InCommand, AsFound, RecoverInv
<1>7. harness.step = "continue" => ContinueInv'
  BY <1>0, <1>1, <1>3, <1>4 DEF AfterKillInv, InCommand, Recovered, ContinueInv, Unlaunched
<1>8. harness.step = "verify" => Delivered' /\ VerifyInv'
  BY <1>0, <1>1, <1>3, <1>4 DEF AfterKillInv, Delivered, VerifyInv
<1>9. AfterKillInv'
  BY <1>0, <1>1, <1>4, <1>5, <1>6, <1>7, <1>8 DEF AfterKillInv, InCommand
<1> QED BY <1>0, <1>1, <1>9 DEF PlaceInv, AfterKill, ArmedSteps

LEMMA AfterReturn ==
  ASSUME Placed, Return
  PROVE  PlaceInv'
<1> DEFINE r == proc[Child]
           ends == Script[harness.step].ends
           to == Script[harness.step].next
<1>0. /\ harness.step \in {"refuse", "recover", "continue", "verify"} /\ harness.called
      /\ ~ Running(Child) /\ CampaignTypeOK /\ AfterKillInv
      /\ UNCHANGED <<vars, case, marker, framework>>
      /\ Asserts(r.pc = ends, to)
  <2>1. harness.step \in {"refuse", "recover", "continue", "verify"}
    BY DEF Return, Script
  <2> QED BY <2>1, AfterIs DEF Return, AfterKill, AfterFacts
<1>1. /\ harness.step = "refuse" => ends = "failed" /\ to = "restore"
      /\ harness.step = "recover" => ends = "idle" /\ to = "continue"
      /\ harness.step = "continue" => ends = "passed" /\ to = "verify"
      /\ harness.step = "verify" => ends = "passed" /\ to = "compare"
  BY DEF Script
<1>2. r.pc \in {"idle", "failed", "passed"}
  BY <1>0 DEF Running
<1>3. /\ harness.step = "refuse" => AsFound /\ r.pc = "failed"
      /\ harness.step = "recover" => Recovered /\ r.pc = "idle"
      /\ harness.step = "continue" => Delivered /\ r.pc = "passed"
      /\ harness.step = "verify" => Delivered /\ r.pc = "passed"
  BY <1>0, <1>2 DEF AfterKillInv, InCommand, RefuseInv, RecoverInv, ContinueInv, VerifyInv
<1>4. r.pc = ends
  BY <1>0, <1>1, <1>3
<1> HIDE DEF ends
<1>5. Go(to) /\ to \in Steps
  BY <1>0, <1>1, <1>4 DEF Asserts, Steps
<1> HIDE DEF to
<1>6. harness'.step = to /\ ~ harness'.called /\ harness'.before = harness.before
  BY <1>0, <1>5, Goes
<1>7. UNCHANGED <<source, exec, proc>> /\ UNCHANGED framework /\ ~ Running(Child)'
  BY <1>0 DEF vars, Running
<1>8. /\ AsFound => AsFound'
      /\ Recovered => Recovered'
      /\ Delivered => Delivered'
  BY <1>6, <1>7 DEF AsFound, Recovered, Delivered
<1>9. AfterKillInv'
  BY <1>0, <1>1, <1>3, <1>6, <1>7, <1>8 DEF AfterKillInv, InCommand
<1> QED BY <1>0, <1>1, <1>6, <1>9 DEF PlaceInv, AfterKill, ArmedSteps

LEMMA AfterCompare ==
  ASSUME Placed, CompareRecovery
  PROVE  PlaceInv'
<1> DEFINE before == harness.before
           claim == /\ exec.status = "COMPLETED" /\ exec.done = Partitions
                    /\ framework.executions = before.framework.executions + 1
                    /\ before.done # {}
                    /\ \A x \in before.done : framework.worker[x] = before.framework.worker[x]
                    /\ framework.worker[Target] # before.framework.worker[Target]
<1>0. /\ harness.step = "compare" /\ CampaignTypeOK /\ AfterKillInv /\ Delivered
      /\ Asserts(claim, "accepted") /\ Target \in Partitions
  BY AfterIs DEF CompareRecovery, AfterKill, AfterFacts, AfterKillInv
<1>1. framework.worker[Target] # before.framework.worker[Target]
  <2>1. before.framework.worker[Target] <= before.framework.executions
    BY <1>0 DEF AfterKillInv
  <2>2. before.framework.executions \in Nat /\ before.framework.worker[Target] \in Nat
    BY <1>0 DEF CampaignTypeOK, Before, Framework
  <2>3. framework.worker[Target] = before.framework.executions + 1
    BY <1>0 DEF Delivered
  <2> QED BY <2>1, <2>2, <2>3
<1>2. claim
  BY <1>0, <1>1 DEF Delivered, AfterKillInv
<1>3. Go("accepted")
  BY <1>0, <1>2 DEF Asserts
<1>4. harness'.step = "accepted"
  BY <1>0, <1>3, Goes DEF Steps
<1> QED BY <1>4 DEF PlaceInv, ArmedSteps, AfterKill

-----------------------------------------------------------------------------
(* The case as a whole.                                                    *)

\* Only the inspection looks anything up, and no case starts again.
LEMMA EarlyStep ==
  ASSUME CaseInv, EarlyInv, [CampaignNext]_allVars, case # "operator"
  PROVE  EarlyInv' /\ (harness'.before = harness.before \/ InspectKilled)
<1>0. CampaignTypeOK /\ harness \in [step : Steps, called : BOOLEAN, before : Before]
  BY DEF CaseInv, CampaignTypeOK
<1>1. CASE SpawnArmed
  BY <1>0, <1>1, Goes DEF SpawnArmed, EarlyInv, Early, ArmedSteps, Steps
<1>2. CASE AwaitMarker
  <2> DEFINE to == IF case = "cancellation" THEN "stopping" ELSE "kill"
  <2>1. harness.step = "watch" /\ to \in Steps /\ \E claim : Asserts(claim, to)
    BY <1>2 DEF AwaitMarker, Steps
  <2> HIDE DEF to
  <2>2. harness'.before = harness.before
    BY <1>0, <2>1, Judges
  <2> QED BY <2>1, <2>2 DEF EarlyInv, Early, ArmedSteps
<1>3. CASE Kill
  <2>1. harness.step = "kill" /\ harness'.before = harness.before
    BY <1>0, <1>3, Goes DEF Kill, Steps
  <2> QED BY <2>1 DEF EarlyInv, Early, ArmedSteps
<1>4. CASE CheckStopped \/ CompareRecovery
  <2>1. \E claim : Asserts(claim, "accepted")
    BY <1>4 DEF CheckStopped, CompareRecovery
  <2>2. harness'.step \in {"raised", "accepted"} /\ harness'.before = harness.before
    BY <1>0, <2>1, Judges DEF Steps
  <2> QED BY <2>2 DEF EarlyInv, Early, ArmedSteps
<1>5. CASE InspectKilled
  <2>1. harness'.step \in {"mutate", "recover", "raised"}
    BY <1>0, <1>5 DEF InspectKilled
  <2> QED BY <1>5, <2>1 DEF EarlyInv, Early, ArmedSteps
<1>6. CASE ChangeSource
  <2>1. \E to \in {"refuse", "recover"} : Go(to)
    BY <1>6 DEF ChangeSource
  <2>2. harness'.step \in {"refuse", "recover"} /\ harness'.before = harness.before
    BY <1>0, <2>1, Goes DEF Steps
  <2> QED BY <2>2 DEF EarlyInv, Early, ArmedSteps
<1>7. CASE Call
  <2>1. harness'.before = harness.before /\ harness'.step = harness.step
    BY <1>0, <1>7 DEF Call
  <2> QED BY <2>1 DEF EarlyInv
<1>8. CASE Return
  <2>1. /\ harness.step \in {"refuse", "recover", "continue", "verify"}
        /\ \E claim : Asserts(claim, Script[harness.step].next)
    BY <1>8 DEF Return, Script
  <2>2. Script[harness.step].next \in {"restore", "continue", "verify", "compare"}
    BY <2>1 DEF Script
  <2>3. harness'.step \in {"restore", "continue", "verify", "compare", "raised"}
        /\ harness'.before = harness.before
    BY <1>0, <2>1, <2>2, Judges DEF Steps
  <2> QED BY <2>3 DEF EarlyInv, Early, ArmedSteps
<1>9. CASE WriteMarker \/ WatcherStep \/ CommandStep \/ WorkerStep \/ UNCHANGED allVars
  <2>1. harness' = harness
    BY <1>9, WorkerPlace DEF WriteMarker, WatcherStep, CommandStep, allVars, campaignVars
  <2> QED BY <2>1 DEF EarlyInv
<1> QED
  BY <1>1, <1>2, <1>3, <1>4, <1>5, <1>6, <1>7, <1>8, <1>9
     DEF CampaignNext, HarnessStep, OperatorStep

\* Where nothing runs, no step of the program is taken.
LEMMA QuietPlaces ==
  ASSUME Placed, harness.step \in {"begin", "inspect", "mutate", "restore", "compare"}
  PROVE  ~ Running(Child)
<1>1. CASE harness.step = "compare"
  BY <1>1, AfterIs DEF AfterFacts, AfterKillInv, AfterKill
<1>2. CASE harness.step # "compare"
  BY <1>2 DEF Placed, PlaceInv, CaseInv, Interim
<1> QED BY <1>1, <1>2

\* Where no run is under way, no worker moves.
LEMMA CommandPlaces ==
  ASSUME Placed, harness.step \in {"refuse", "recover", "verify"}
  PROVE  proc[Child].pc # "running"
BY AfterIs DEF AfterFacts, AfterKillInv, AfterKill, InCommand, Running, RefuseInv, RecoverInv,
   VerifyInv

LEMMA PlaceStep ==
  ASSUME Placed, [CampaignNext]_allVars, "slow" \notin Failures
  PROVE  PlaceInv'
<1>0. /\ CaseInv /\ case # "operator" /\ harness.step \in Steps /\ TypeOK /\ Child \in Procs
      /\ PlaceInv
  BY ChildIsProc DEF Placed, CaseInv, CampaignTypeOK
<1>1. CASE CommandStep
  <2>1. Running(Child) /\ harness' = harness
    BY <1>1, ChildIsProc, CommandAt DEF CommandStep, Running
  <2>2. CASE harness.step \in {"accepted"}
    BY <2>1, <2>2 DEF PlaceInv, ArmedSteps, AfterKill
  <2>3. CASE harness.step \in ArmedSteps
    BY <1>1, <2>3, ArmedCommand
  <2>4. CASE harness.step \in {"refuse", "recover", "continue", "verify"}
    BY <1>1, <2>4, RefuseCommand, RecoverCommand, ContinueCommand, VerifyCommand
  <2>5. harness.step \notin {"begin", "inspect", "mutate", "restore", "compare", "raised"}
    BY <1>0, <2>1, QuietPlaces DEF PlaceInv
  <2> QED BY <1>0, <2>2, <2>3, <2>4, <2>5 DEF Steps, ArmedSteps
<1>2. CASE WorkerStep
  <2>1. proc[Child].pc = "running" /\ Running(Child) /\ harness' = harness
    BY <1>0, <1>2, WorkerPlace DEF Running
  <2>2. CASE harness.step \in {"accepted"}
    BY <2>1, <2>2 DEF PlaceInv, ArmedSteps, AfterKill
  <2>3. CASE harness.step \in ArmedSteps
    BY <1>2, <2>3, ArmedWorker
  <2>4. CASE harness.step = "continue"
    BY <1>2, <2>4, ContinueWorker
  <2>5. harness.step \notin {"begin", "inspect", "mutate", "restore", "compare", "raised",
                             "refuse", "recover", "verify"}
    BY <1>0, <2>1, QuietPlaces, CommandPlaces DEF PlaceInv
  <2> QED BY <1>0, <2>2, <2>3, <2>4, <2>5 DEF Steps, ArmedSteps
<1>3. CASE WriteMarker \/ WatcherStep
  BY <1>3, ArmedMarker, ArmedWatcher
<1>4. CASE HarnessStep
  <2>1. CASE InspectKilled
    BY <2>1, KilledInspect DEF Placed
  <2> QED
    BY <1>4, <2>1, ArmedSpawn, ArmedAwait, ArmedKill, ArmedStopped, AfterChange, AfterCall,
       AfterReturn, AfterCompare DEF HarnessStep
<1>5. CASE UNCHANGED allVars
  BY <1>0, <1>5 DEF PlaceInv, ArmedInv, AfterKillInv, KilledInv, Untouched, Unlaunched, RunInv, GateInv,
     CrashInv, CancelInv, AsFound, Recovered, Delivered, RefuseInv, RecoverInv, ContinueInv,
     VerifyInv, InCommand, Running, Active, InState, AllActive, allVars, campaignVars, vars
<1> QED BY <1>0, <1>1, <1>2, <1>3, <1>4, <1>5 DEF CampaignNext, OperatorStep

LEMMA ScriptStep ==
  ASSUME CampaignInv, ScriptInv, [CampaignNext]_allVars, "slow" \notin Failures
  PROVE  ScriptInv'
<1> SUFFICES ASSUME case' # "operator" PROVE EarlyInv' /\ (Enough' => PlaceInv')
  BY DEF ScriptInv
<1>0. CaseInv /\ Planned /\ case # "operator" /\ EarlyInv
  BY CampaignSteps DEF CampaignInv, ScriptInv
<1>1. EarlyInv' /\ (harness'.before = harness.before \/ InspectKilled)
  BY <1>0, EarlyStep
<1>2. ASSUME Enough' PROVE PlaceInv'
  <2>1. Enough
    <3>1. CASE harness'.before = harness.before
      BY <1>2, <3>1 DEF Enough
    <3>2. CASE InspectKilled
      <4>1. harness.before.done = {}
        BY <1>0, <3>2 DEF InspectKilled, EarlyInv, Early, Seeded
      <4>2. Partitions \ {} = Partitions /\ Workers <= Cardinality(Partitions)
        BY PartitionAssumption
      <4> QED BY <4>1, <4>2 DEF Enough
    <3> QED BY <1>1, <3>1, <3>2
  <2>2. Placed
    BY <1>0, <2>1 DEF Placed, ScriptInv
  <2> QED BY <2>2, PlaceStep
<1> QED BY <1>1, <1>2

LEMMA ScriptStart == CampaignInit => ScriptInv
<1> SUFFICES ASSUME CampaignInit PROVE EarlyInv /\ PlaceInv
  BY DEF ScriptInv
<1>1. /\ Init /\ harness = Seeded /\ marker = NoMarker
      /\ framework = [executions |-> 0, worker |-> [x \in Partitions |-> 0]]
  BY DEF CampaignInit
<1>2. harness.step = "begin" /\ harness.before = Seeded.before
      /\ harness.before.framework = framework /\ harness.before.done = {}
  BY <1>1 DEF Seeded
<1>3. Untouched
  BY <1>1, <1>2 DEF Init, Untouched
<1>4. ~ Running(Child)
  BY <1>1, ChildIsProc DEF Init, Idle, Running
<1> QED BY <1>2, <1>3, <1>4 DEF EarlyInv, PlaceInv, ArmedSteps, AfterKill

\* No assertion of the recovery qualification fails of the program, for any
\* number of partitions, workers and contents, however the workers interleave
\* with the kill and the stop, unless the kill left fewer partitions than the
\* admission barrier needs.  In a case the launcher starts what it may start
\* within the admission timeout.
THEOREM CasesAccept ==
  ASSUME "slow" \notin Failures
  PROVE  CampaignSpec => []RaisesOnlyShortOfWorkers
<1>1. CampaignInit => CampaignInv /\ ScriptInv
  BY CampaignStart, ScriptStart
<1>2. CampaignInv /\ ScriptInv /\ [CampaignNext]_allVars => CampaignInv' /\ ScriptInv'
  BY CampaignStep, ScriptStep
<1>3. CampaignInv /\ ScriptInv => RaisesOnlyShortOfWorkers
  <2> SUFFICES ASSUME CampaignInv, ScriptInv, harness.step = "raised"
               PROVE  Cardinality(Partitions \ harness.before.done) < Workers
    BY DEF RaisesOnlyShortOfWorkers
  <2>1. case # "operator"
    BY DEF CampaignInv, CaseInv
  <2>2. ~ Enough
    BY <2>1 DEF ScriptInv, PlaceInv
  <2>3. Cardinality(Partitions \ harness.before.done) \in Nat /\ Workers \in Nat
    <3>1. IsFiniteSet(Partitions \ harness.before.done)
      BY PartitionAssumption, FS_Subset
    <3> QED BY <3>1, PartitionAssumption, FS_CardinalityType
  <2> QED BY <2>2, <2>3 DEF Enough
<1> QED BY <1>1, <1>2, <1>3, PTL DEF CampaignSpec
=============================================================================
