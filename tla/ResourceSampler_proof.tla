----------------------- MODULE ResourceSampler_proof -----------------------
(***************************************************************************)
(* What the two tasks of a sampled iteration keep, for any plans, failures *)
(* and number of periodic samples: a failed sampler is reported, a success *)
(* has a sample of every boundary in their order, and a periodic sample    *)
(* names the process whose start was written last.                         *)
(***************************************************************************)
EXTENDS ResourceSampler, SequenceTheorems, WellFoundedInduction, TLAPS

-----------------------------------------------------------------------------
(* The scripts.                                                            *)

Start == "process-role-start"

\* A phase that starts a process names it, and no other phase is a start.
Ops ==
    {o \in [op : {"boundary", "set", "clear", "current"}, kind : Kinds \cup {"none"},
            role : Roles] :
       /\ o.op = "set" <=> o.kind = Start
       /\ o.op = "clear" <=> o.kind = "none"
       /\ o.op # "set" => o.role = "none"}

LEMMA OpKinds ==
  /\ \A kind \in Kinds \ {Start} : Boundary(kind) \in Ops
  /\ \A role \in Roles : Child(role) \in Seq(Ops) /\ Child(role)[1] \in Ops /\ Child(role)[2] \in Ops
  /\ [op |-> "current", kind |-> "crash-marker-observed", role |-> "none"] \in Ops
<1>1. \A kind \in Kinds \ {Start} : Boundary(kind) \in Ops
  BY DEF Boundary, Ops, Start, Kinds, Roles
<1>2. [op |-> "current", kind |-> "crash-marker-observed", role |-> "none"] \in Ops
  BY DEF Ops, Start, Kinds, Roles
<1>3. ASSUME NEW role \in Roles
      PROVE  Child(role) \in Seq(Ops) /\ Child(role)[1] \in Ops /\ Child(role)[2] \in Ops
  <2> DEFINE x == [op |-> "set", kind |-> "process-role-start", role |-> role]
             y == [op |-> "clear", kind |-> "none", role |-> "none"]
  <2>1. x \in Ops /\ y \in Ops
    BY DEF Ops, Start, Kinds, Roles
  <2>2. Child(role) = <<x, y>>
    BY DEF Child
  <2> HIDE DEF x, y
  <2> QED
    BY <2>1, <2>2
<1> QED
  BY <1>1, <1>2, <1>3

LEMMA ScriptParts ==
  /\ CleanScript \in Seq(Ops) /\ Len(CleanScript) > 0
  /\ CrashScript \in Seq(Ops) /\ Len(CrashScript) > 0
<1>1. CleanScript \in Seq(Ops) /\ Len(CleanScript) > 0
  <2> DEFINE a == <<Boundary("sampler-start")>>
             b == Child("clean-workload")
             c == Child("verifier")
             d == <<Boundary("post-cleanup")>>
  <2>1. /\ a \in Seq(Ops) /\ b \in Seq(Ops) /\ c \in Seq(Ops) /\ d \in Seq(Ops)
        /\ Len(a) > 0
    BY OpKinds DEF Kinds, Roles, Start
  <2>2. CleanScript = a \o b \o c \o d
    BY DEF CleanScript
  <2> HIDE DEF a, b, c, d
  <2>3. a \o b \in Seq(Ops) /\ Len(a \o b) > 0
    BY <2>1, ConcatProperties, LenProperties
  <2>4. a \o b \o c \in Seq(Ops) /\ Len(a \o b \o c) > 0
    BY <2>1, <2>3, ConcatProperties, LenProperties
  <2> QED
    BY <2>1, <2>2, <2>4, ConcatProperties, LenProperties
<1>2. CrashScript \in Seq(Ops) /\ Len(CrashScript) > 0
  <2> DEFINE a == <<Boundary("sampler-start"), Child("crash-target")[1],
                    [op |-> "current", kind |-> "crash-marker-observed", role |-> "none"],
                    Child("crash-target")[2], Boundary("post-crash-state")>>
             b == Child("plain-relaunch")
             c == Child("recovery")
             d == Child("continuation")
             e == Child("verifier")
             f == <<Boundary("post-cleanup")>>
  <2>1. /\ a \in Seq(Ops) /\ b \in Seq(Ops) /\ c \in Seq(Ops) /\ d \in Seq(Ops)
        /\ e \in Seq(Ops) /\ f \in Seq(Ops) /\ Len(a) > 0
    BY OpKinds DEF Kinds, Roles, Start
  <2>2. CrashScript = a \o b \o c \o d \o e \o f
    BY DEF CrashScript
  <2> HIDE DEF a, b, c, d, e, f
  <2>3. a \o b \in Seq(Ops) /\ Len(a \o b) > 0
    BY <2>1, ConcatProperties, LenProperties
  <2>4. a \o b \o c \in Seq(Ops) /\ Len(a \o b \o c) > 0
    BY <2>1, <2>3, ConcatProperties, LenProperties
  <2>5. a \o b \o c \o d \in Seq(Ops) /\ Len(a \o b \o c \o d) > 0
    BY <2>1, <2>4, ConcatProperties, LenProperties
  <2>6. a \o b \o c \o d \o e \in Seq(Ops) /\ Len(a \o b \o c \o d \o e) > 0
    BY <2>1, <2>5, ConcatProperties, LenProperties
  <2> QED
    BY <2>1, <2>2, <2>6, ConcatProperties, LenProperties
<1> QED
  BY <1>1, <1>2

-----------------------------------------------------------------------------
(* The latest start in a sequence of samples or requests.                  *)

NoStart(s) == \A k \in 1..Len(s) : s[k][1] # Start

LatestStart(s, role) ==
    \E j \in 1..Len(s) :
       s[j] = <<Start, role>> /\ \A k \in (j + 1)..Len(s) : s[k][1] # Start

\* s is continued by t.
LatestIn(s, t, role) == LatestStart(t, role) \/ (NoStart(t) /\ LatestStart(s, role))

Sample == (Kinds \cup {"periodic"}) \X Roles

LEMMA StartAppends ==
  ASSUME NEW s \in Seq(Sample), NEW x \in Sample, NEW role
  PROVE  /\ x[1] # Start /\ LatestStart(s, role) => LatestStart(Append(s, x), role)
         /\ x[1] # Start /\ NoStart(s) => NoStart(Append(s, x))
         /\ x = <<Start, role>> => LatestStart(Append(s, x), role)
<1> DEFINE t == Append(s, x)
           n == Len(s)
<1>1. /\ n \in Nat /\ Len(t) = n + 1 /\ t[n + 1] = x
      /\ \A i \in 1..n : t[i] = s[i]
  BY AppendProperties, LenProperties
<1> HIDE DEF t
<1>2. \A i \in 1..(n + 1) : i \in 1..n \/ i = n + 1
  BY <1>1
<1>3. ASSUME x[1] # Start, LatestStart(s, role)
      PROVE  LatestStart(t, role)
  <2>1. PICK j \in 1..n : s[j] = <<Start, role>> /\ \A k \in (j + 1)..n : s[k][1] # Start
    BY <1>3 DEF LatestStart
  <2>2. j \in 1..Len(t) /\ t[j] = <<Start, role>>
    BY <1>1, <2>1
  <2>3. \A k \in (j + 1)..Len(t) : t[k][1] # Start
    BY <1>1, <1>3, <2>1
  <2> QED
    BY <2>2, <2>3 DEF LatestStart
<1>4. x[1] # Start /\ NoStart(s) => NoStart(t)
  BY <1>1, <1>2 DEF NoStart
<1>5. ASSUME x = <<Start, role>>
      PROVE  LatestStart(t, role)
  <2>1. n + 1 \in 1..Len(t) /\ (n + 1 + 1)..Len(t) = {}
    BY <1>1
  <2> QED
    BY <1>1, <1>5, <2>1 DEF LatestStart
<1> QED
  BY <1>3, <1>4, <1>5 DEF t

\* A request is taken from the batch and written.
LEMMA StartMoves ==
  ASSUME NEW s \in Seq(Sample), NEW t \in Seq(Sample), t # <<>>, NEW role,
         LatestIn(s, t, role)
  PROVE  LatestIn(Append(s, Head(t)), Tail(t), role)
<1> DEFINE x == Head(t)
           u == Tail(t)
           n == Len(t)
<1>1. /\ n \in Nat /\ n > 0 /\ x = t[1] /\ x \in Sample /\ u \in Seq(Sample)
      /\ Len(u) = n - 1 /\ \A i \in 1..(n - 1) : u[i] = t[i + 1]
  BY LenProperties, HeadTailProperties, EmptySeq, ElementOfSeq
<1> HIDE DEF x, u
<1>2. CASE LatestStart(t, role)
  <2>1. PICK j \in 1..n : t[j] = <<Start, role>> /\ \A k \in (j + 1)..n : t[k][1] # Start
    BY <1>2 DEF LatestStart
  <2>2. CASE j = 1
    <3>1. LatestStart(Append(s, x), role)
      BY <1>1, <2>1, <2>2, StartAppends
    <3>2. \A k \in 1..Len(u) : k + 1 \in (j + 1)..n /\ u[k] = t[k + 1]
      BY <1>1, <2>2
    <3>3. NoStart(u)
      BY <2>1, <3>2 DEF NoStart
    <3> QED
      BY <3>1, <3>3 DEF LatestIn, x, u
  <2>3. CASE j # 1
    <3>1. j - 1 \in 1..Len(u) /\ u[j - 1] = <<Start, role>>
      <4>1. j - 1 \in 1..(n - 1) /\ (j - 1) + 1 = j
        BY <1>1, <2>3
      <4> QED
        BY <1>1, <2>1, <4>1
    <3>2. \A k \in ((j - 1) + 1)..Len(u) : k + 1 \in (j + 1)..n /\ u[k] = t[k + 1]
      BY <1>1, <2>3
    <3>3. \A k \in ((j - 1) + 1)..Len(u) : u[k][1] # Start
      BY <2>1, <3>2
    <3>4. LatestStart(u, role)
      BY <3>1, <3>3 DEF LatestStart
    <3> QED
      BY <3>4 DEF LatestIn, u
  <2> QED
    BY <2>2, <2>3
<1>3. CASE NoStart(t) /\ LatestStart(s, role)
  <2>1. x[1] # Start
    BY <1>1, <1>3 DEF NoStart
  <2>2. LatestStart(Append(s, x), role)
    BY <1>1, <1>3, <2>1, StartAppends
  <2>3. \A k \in 1..Len(u) : k + 1 \in 1..n /\ u[k] = t[k + 1]
    BY <1>1
  <2>4. NoStart(u)
    BY <1>3, <2>3 DEF NoStart
  <2> QED
    BY <2>2, <2>4 DEF LatestIn, x, u
<1> QED
  BY <1>2, <1>3 DEF LatestIn

-----------------------------------------------------------------------------
(* The invariant.                                                          *)

IterationRecord ==
    [pc : {"record", "look", "probe", "push", "terminal", "stop", "join", "done"},
     plan : Plans, step : Nat, role : Roles, ok : BOOLEAN, error : BOOLEAN,
     outcome : {"none", "success", "failure"}]

SamplerRecord ==
    [pc : {"drain", "collect", "leave", "fail", "finished"}, batch : Requests,
     active : Roles, started : BOOLEAN, stop : BOOLEAN, error : BOOLEAN]

TypeInv ==
    /\ active \in Roles /\ boundaries \in Requests
    /\ failure \in BOOLEAN /\ started \in BOOLEAN /\ stop \in BOOLEAN
    /\ iteration \in IterationRecord /\ iteration.step \in 1..Len(Script)
    /\ sampler \in SamplerRecord /\ samples \in Seq(Sample)

\* Only the sampler fails by itself, and then it is over; nobody asks a sampler
\* that has not failed to stop before the iteration has nothing more to request.
EndInv ==
    /\ failure <=> sampler.error
    /\ sampler.error => sampler.pc = "finished"
    /\ stop /\ ~failure => iteration.pc \in {"join", "done"}
    /\ sampler.pc \in {"drain", "leave"} => sampler.batch = <<>>
    /\ sampler.pc = "finished" /\ ~sampler.error =>
          stop /\ sampler.batch = <<>> /\ boundaries = <<>>
    /\ iteration.pc # "done" => iteration.outcome = "none"
    /\ iteration.pc = "done" =>
          /\ sampler.pc = "finished" /\ iteration.outcome # "none"
          /\ iteration.outcome = "success" =>
                iteration.ok /\ ~iteration.error /\ ~sampler.error

Occurs(s, x) == \E i \in 1..Len(s) : s[i] = x

\* The terminal request is queued, taken or written.
TerminalInv ==
    iteration.pc \in {"stop", "join", "done"} /\ ~iteration.error =>
        \/ Occurs(samples, <<TerminalKind, "none">>)
        \/ Occurs(sampler.batch, <<TerminalKind, "none">>)
        \/ Occurs(boundaries, <<TerminalKind, "none">>)

\* The active process is the latest one whose start is written, taken or
\* queued, and the one the sampler saw the latest that is written or taken.
NamesInv ==
    /\ iteration.pc \in {"probe", "push"} /\ Op.op = "set" => iteration.role = Op.role
    /\ iteration.pc = "look" => Op.op # "set"
    /\ active # "none" =>
          \/ LatestStart(boundaries, active)
          \/ NoStart(boundaries) /\ LatestIn(samples, sampler.batch, active)
    /\ sampler.pc = "collect" /\ sampler.active # "none" =>
          LatestIn(samples, sampler.batch, sampler.active)

LEMMA RequestsAreSamples ==
  ASSUME NEW s \in Requests
  PROVE  s \in Seq(Sample)
<1>1. Len(s) \in Nat /\ s \in [1..Len(s) -> Kinds \X Roles]
  BY LenProperties DEF Requests
<1>2. s \in [1..Len(s) -> Sample]
  BY <1>1 DEF Sample
<1> QED
  BY <1>1, <1>2

LEMMA OpType ==
  ASSUME TypeInv
  PROVE  Op \in Ops /\ Len(Script) \in Nat /\ Script \in Seq(Ops)
<1>1. Script \in Seq(Ops)
  BY ScriptParts DEF Script
<1>2. Len(Script) \in Nat /\ iteration.step \in 1..Len(Script)
  BY <1>1, LenProperties DEF TypeInv
<1> QED
  BY <1>1, <1>2, ElementOfSeq DEF Op

LEMMA SamePlan ==
  ASSUME iteration'.plan = iteration.plan
  PROVE  Script' = Script
  BY DEF Script

\* What a phase requests, unless it is the end of a process.
LEMMA RequestType ==
  ASSUME TypeInv
  PROVE  Op.op # "clear" => Request \in Kinds \X Roles
<1>1. Op \in Ops /\ iteration.role \in Roles
  BY OpType DEF TypeInv, IterationRecord
<1>2. "none" \in Roles
  BY DEF Roles
<1> QED
  BY <1>1, <1>2 DEF Ops, Request

LEMMA Ended ==
  ASSUME TypeInv, FailExecution, UNCHANGED <<state, sampler, samples>>
  PROVE  TypeInv'
<1>1. iteration' \in IterationRecord /\ iteration'.plan = iteration.plan
      /\ iteration'.step = iteration.step
  BY DEF TypeInv, IterationRecord, FailExecution
<1>2. Script' = Script
  BY <1>1, SamePlan
<1> QED
  BY <1>1, <1>2 DEF TypeInv, state

LEMMA TypeStep ==
  ASSUME TypeInv, [Next]_vars
  PROVE  TypeInv'
<1>0. "none" \in Roles /\ <<>> \in Requests
  BY EmptySeq DEF Roles, Requests
<1>1. CASE ExecutionFails
  BY <1>1, Ended DEF ExecutionFails
<1>2. CASE Record
  <2>1. CASE failure
    BY <1>2, <2>1, Ended DEF Record
  <2>2. CASE ~failure
    <3> DEFINE pc == CASE Op.op = "set" -> "probe" [] Op.op = "current" -> "look"
                       [] OTHER -> "push"
    <3>1. Op.role \in Roles /\ pc \in {"probe", "look", "push"}
      BY OpType DEF Ops
    <3>2. iteration' = [iteration EXCEPT !.role = Op.role, !.pc = pc]
      BY <1>2, <2>2 DEF Record
    <3> HIDE DEF pc
    <3>3. iteration' \in IterationRecord /\ iteration'.plan = iteration.plan
          /\ iteration'.step = iteration.step
      BY <3>1, <3>2 DEF TypeInv, IterationRecord
    <3>4. Script' = Script
      BY <3>3, SamePlan
    <3> QED
      BY <1>2, <3>3, <3>4 DEF TypeInv, Record, state
  <2> QED
    BY <2>1, <2>2
<1>3. CASE Look
  <2>1. CASE failure
    BY <1>3, <2>1, Ended DEF Look
  <2>2. CASE ~failure
    <3>1. iteration' \in IterationRecord /\ iteration'.plan = iteration.plan
          /\ iteration'.step = iteration.step
      BY <1>3, <2>2 DEF Look, TypeInv, IterationRecord
    <3>2. Script' = Script
      BY <3>1, SamePlan
    <3> QED
      BY <1>3, <3>1, <3>2 DEF TypeInv, Look, state
  <2> QED
    BY <2>1, <2>2
<1>4. CASE Probe
  <2>1. CASE FailExecution
    BY <1>4, <2>1, Ended DEF Probe
  <2>2. CASE iteration' = [iteration EXCEPT !.pc = "push"]
    <3>1. iteration' \in IterationRecord /\ iteration'.plan = iteration.plan
          /\ iteration'.step = iteration.step
      BY <2>2 DEF TypeInv, IterationRecord
    <3>2. Script' = Script
      BY <3>1, SamePlan
    <3> QED
      BY <1>4, <3>1, <3>2 DEF TypeInv, Probe, state
  <2> QED
    BY <1>4, <2>1, <2>2 DEF Probe
<1>5. CASE Push
  <2>1. CASE failure
    BY <1>5, <2>1, Ended DEF Push
  <2>2. CASE ~failure
    <3>1. Continue /\ UNCHANGED <<failure, stop, sampler, samples>>
      BY <1>5, <2>2 DEF Push
    <3>2. /\ iteration' \in IterationRecord /\ iteration'.plan = iteration.plan
          /\ iteration'.step \in 1..Len(Script)
      <4>1. Len(Script) \in Nat /\ iteration.step \in 1..Len(Script)
        BY OpType DEF TypeInv
      <4> QED
        <5> DEFINE pc == IF iteration.step = Len(Script) THEN "terminal" ELSE "record"
                   step == IF iteration.step = Len(Script) THEN iteration.step
                           ELSE iteration.step + 1
        <5>1. pc \in {"terminal", "record"} /\ step \in 1..Len(Script) /\ step \in Nat
          BY <4>1
        <5>2. iteration' = [iteration EXCEPT !.pc = pc, !.step = step]
          BY <3>1 DEF Continue
        <5> HIDE DEF pc, step
        <5> QED
          BY <5>1, <5>2 DEF TypeInv, IterationRecord
    <3>3. Script' = Script
      BY <3>2, SamePlan
    <3>4. active' \in Roles /\ started' \in BOOLEAN
      <4>1. Op.role \in Roles
        BY OpType DEF Ops
      <4> QED
        BY <1>5, <2>2, <4>1 DEF Push, TypeInv
    <3>5. boundaries' \in Requests
      <4>1. boundaries' = boundaries \/ (Op.op # "clear" /\ boundaries' = Append(boundaries, Request))
        BY <1>5, <2>2 DEF Push
      <4> QED
        BY <4>1, RequestType, AppendProperties DEF TypeInv, Requests
    <3> QED
      BY <3>1, <3>2, <3>3, <3>4, <3>5 DEF TypeInv
  <2> QED
    BY <2>1, <2>2
<1>6. CASE EnqueueTerminal
  <2>1. /\ iteration' \in IterationRecord /\ iteration'.plan = iteration.plan
        /\ iteration'.step = iteration.step
    BY <1>6 DEF EnqueueTerminal, TypeInv, IterationRecord
  <2>2. Script' = Script
    BY <2>1, SamePlan
  <2>3. <<TerminalKind, "none">> \in Kinds \X Roles
    BY <1>0 DEF TerminalKind, Kinds
  <2>4. boundaries' \in Requests
    BY <1>6, <2>3, AppendProperties DEF EnqueueTerminal, TypeInv, Requests
  <2> QED
    BY <1>6, <2>1, <2>2, <2>4 DEF EnqueueTerminal, TypeInv
<1>7. CASE StopSampler
  <2>1. /\ iteration' \in IterationRecord /\ iteration'.plan = iteration.plan
        /\ iteration'.step = iteration.step
    BY <1>7 DEF StopSampler, TypeInv, IterationRecord
  <2>2. Script' = Script
    BY <2>1, SamePlan
  <2>3. stop' \in BOOLEAN
    BY <1>7, Zenon DEF StopSampler
  <2> QED
    BY <1>7, <2>1, <2>2, <2>3 DEF StopSampler, TypeInv
<1>8. CASE Finish
  <2>1. /\ iteration' \in IterationRecord /\ iteration'.plan = iteration.plan
        /\ iteration'.step = iteration.step
    BY <1>8 DEF Finish, TypeInv, IterationRecord
  <2>2. Script' = Script
    BY <2>1, SamePlan
  <2> QED
    BY <1>8, <2>1, <2>2 DEF Finish, TypeInv, state
<1>9. ASSUME sampler' \in SamplerRecord, samples' \in Seq(Sample), boundaries' \in Requests,
             failure' \in BOOLEAN, stop' \in BOOLEAN, UNCHANGED <<active, started, iteration>>
      PROVE  TypeInv'
  BY <1>9, SamePlan DEF TypeInv
<1>10. CASE Drain
  <2>1. sampler' \in SamplerRecord
    BY <1>10 DEF Drain, TypeInv, SamplerRecord
  <2> QED
    BY <1>0, <1>9, <1>10, <2>1 DEF Drain, TypeInv
<1>11. CASE Collect
  <2>1. /\ Head(sampler.batch) \in Kinds \X Roles /\ Tail(sampler.batch) \in Requests
    BY <1>11, HeadTailProperties DEF Collect, TypeInv, SamplerRecord, Requests
  <2>2. sampler' \in SamplerRecord
    BY <1>11, <2>1 DEF Collect, TypeInv, SamplerRecord
  <2>3. samples' \in Seq(Sample)
    BY <1>11, <2>1, AppendProperties DEF Collect, TypeInv, Sample
  <2> QED
    BY <1>9, <1>11, <2>2, <2>3 DEF Collect, TypeInv, state
<1>12. CASE Periodic
  <2>1. sampler' \in SamplerRecord /\ <<"periodic", ActiveThen>> \in Sample
    BY <1>12 DEF Periodic, SamplerGoto, TypeInv, SamplerRecord, Sample, ActiveThen
  <2>2. samples' = samples \/ samples' = Append(samples, <<"periodic", ActiveThen>>)
    BY <1>12 DEF Periodic
  <2>3. samples' \in Seq(Sample)
    BY <2>1, <2>2, AppendProperties DEF TypeInv
  <2> QED
    BY <1>9, <1>12, <2>1, <2>3 DEF Periodic, TypeInv, state
<1>13. CASE CollectFails
  <2>1. sampler' \in SamplerRecord
    BY <1>13 DEF CollectFails, SamplerGoto, TypeInv, SamplerRecord
  <2> QED
    BY <1>9, <1>13, <2>1 DEF CollectFails, TypeInv, state
<1>14. CASE Leave
  <2>1. sampler' \in SamplerRecord
    BY <1>14 DEF Leave, SamplerGoto, TypeInv, SamplerRecord
  <2> QED
    BY <1>9, <1>14, <2>1 DEF Leave, TypeInv, state
<1>15. CASE FailSampler
  <2>1. failure' \in BOOLEAN /\ stop' \in BOOLEAN
    BY <1>15, Zenon DEF FailSampler
  <2>2. sampler' \in SamplerRecord
    BY <1>15 DEF FailSampler, TypeInv, SamplerRecord
  <2> QED
    BY <1>9, <1>15, <2>1, <2>2 DEF FailSampler, TypeInv
<1>16. CASE UNCHANGED vars
  BY <1>16, SamePlan DEF vars, TypeInv
<1> QED
  BY <1>1, <1>2, <1>3, <1>4, <1>5, <1>6, <1>7, <1>8, <1>10, <1>11, <1>12, <1>13,
     <1>14, <1>15, <1>16 DEF Next, Iteration, Sampler, Done

-----------------------------------------------------------------------------
(* The end of the tasks.                                                   *)

\* What the steps of the iteration, and those of the sampler, do to both.
LEMMA EarlyEnd ==
  ASSUME TypeInv, EndInv, FailExecution, UNCHANGED <<state, sampler, samples>>,
         iteration.pc \in {"record", "look", "probe", "push"}
  PROVE  EndInv'
<1>1. /\ iteration'.pc = "terminal" /\ iteration'.outcome = iteration.outcome
  BY DEF FailExecution, TypeInv, IterationRecord
<1> QED
  BY <1>1 DEF EndInv, state

LEMMA EndStep ==
  ASSUME TypeInv, EndInv, [Next]_vars
  PROVE  EndInv'
<1>1. CASE ExecutionFails
  BY <1>1, EarlyEnd DEF ExecutionFails
<1>2. CASE Record
  <2>1. CASE failure
    BY <1>2, <2>1, EarlyEnd DEF Record
  <2>2. CASE ~failure
    <3>1. /\ iteration'.pc \notin {"join", "done"} /\ iteration.pc = "record"
          /\ iteration'.outcome = iteration.outcome
      BY <1>2, <2>2 DEF Record, TypeInv, IterationRecord
    <3> QED
      BY <1>2, <2>2, <3>1 DEF EndInv, Record, state
  <2> QED
    BY <2>1, <2>2
<1>3. CASE Look
  <2>1. CASE failure
    BY <1>3, <2>1, EarlyEnd DEF Look
  <2>2. CASE ~failure
    <3>1. /\ iteration'.pc = "probe" /\ iteration.pc = "look"
          /\ iteration'.outcome = iteration.outcome
      BY <1>3, <2>2 DEF Look, TypeInv, IterationRecord
    <3> QED
      BY <1>3, <2>2, <3>1 DEF EndInv, Look, state
  <2> QED
    BY <2>1, <2>2
<1>4. CASE Probe
  <2>1. CASE FailExecution
    BY <1>4, <2>1, EarlyEnd DEF Probe
  <2>2. CASE iteration' = [iteration EXCEPT !.pc = "push"]
    <3>1. iteration'.pc = "push" /\ iteration.pc = "probe"
          /\ iteration'.outcome = iteration.outcome
      BY <1>4, <2>2 DEF Probe, TypeInv, IterationRecord
    <3> QED
      BY <1>4, <3>1 DEF EndInv, Probe, state
  <2> QED
    BY <1>4, <2>1, <2>2 DEF Probe
<1>5. CASE Push
  <2>1. CASE failure
    BY <1>5, <2>1, EarlyEnd DEF Push
  <2>2. CASE ~failure
    <3>1. Continue /\ UNCHANGED <<failure, stop, sampler, samples>> /\ iteration.pc = "push"
      BY <1>5, <2>2 DEF Push
    <3>2. iteration'.pc \in {"terminal", "record"} /\ iteration'.outcome = iteration.outcome
      BY <3>1 DEF Continue, TypeInv, IterationRecord
    <3> QED
      BY <2>2, <3>1, <3>2 DEF EndInv
  <2> QED
    BY <2>1, <2>2
<1>6. CASE EnqueueTerminal
  <2>1. /\ iteration'.pc = "stop" /\ iteration.pc = "terminal"
        /\ iteration'.outcome = iteration.outcome /\ UNCHANGED <<failure, stop, sampler>>
    BY <1>6 DEF EnqueueTerminal, TypeInv, IterationRecord
  <2>2. sampler.pc = "finished" /\ ~sampler.error => FALSE
    BY <2>1 DEF EndInv
  <2> QED
    BY <2>1, <2>2 DEF EndInv
<1>7. CASE StopSampler
  <2>1. /\ iteration'.pc = "join" /\ iteration.pc = "stop"
        /\ iteration'.outcome = iteration.outcome /\ UNCHANGED <<failure, boundaries, sampler>>
        /\ stop' = TRUE
    BY <1>7 DEF StopSampler, TypeInv, IterationRecord
  <2> QED
    BY <2>1 DEF EndInv
<1>8. CASE Finish
  <2>1. /\ iteration'.pc = "done" /\ sampler.pc = "finished" /\ iteration.pc = "join"
        /\ iteration'.ok = iteration.ok /\ iteration'.error = iteration.error
        /\ iteration'.outcome = (IF iteration.ok /\ ~SamplingError THEN "success" ELSE "failure")
        /\ UNCHANGED <<failure, stop, boundaries, sampler>>
    BY <1>8 DEF Finish, TypeInv, IterationRecord, state
  <2> QED
    BY <2>1 DEF EndInv, SamplingError
<1>9. CASE Drain
  <2>1. /\ sampler'.pc = "collect" /\ sampler.pc = "drain" /\ sampler'.error = sampler.error
        /\ UNCHANGED <<failure, stop, iteration>>
    BY <1>9 DEF Drain, TypeInv, SamplerRecord
  <2> QED
    BY <2>1 DEF EndInv
<1>10. CASE Collect
  <2>1. /\ sampler'.pc = "collect" /\ sampler.pc = "collect" /\ sampler'.error = sampler.error
        /\ UNCHANGED <<failure, stop, iteration, boundaries>>
    BY <1>10 DEF Collect, TypeInv, SamplerRecord, state
  <2> QED
    BY <2>1 DEF EndInv
<1>11. CASE Periodic
  <2>1. /\ sampler'.pc = "leave" /\ sampler.pc = "collect" /\ sampler'.error = sampler.error
        /\ sampler.batch = <<>> /\ sampler'.batch = sampler.batch
        /\ UNCHANGED <<failure, stop, iteration, boundaries>>
    BY <1>11 DEF Periodic, SamplerGoto, TypeInv, SamplerRecord, state
  <2> QED
    BY <2>1 DEF EndInv
<1>12. CASE CollectFails
  <2>1. /\ sampler'.pc = "fail" /\ sampler.pc = "collect" /\ sampler'.error = sampler.error
        /\ UNCHANGED <<failure, stop, iteration, boundaries>>
    BY <1>12 DEF CollectFails, SamplerGoto, TypeInv, SamplerRecord, state
  <2> QED
    BY <2>1 DEF EndInv
<1>13. CASE Leave
  <2>1. /\ sampler.pc = "leave" /\ sampler'.error = sampler.error
        /\ sampler'.batch = sampler.batch
        /\ \/ sampler'.pc = "finished" /\ stop /\ boundaries = <<>>
           \/ sampler'.pc = "drain"
        /\ UNCHANGED <<failure, stop, iteration, boundaries>>
    BY <1>13 DEF Leave, MayLeave, SamplerGoto, TypeInv, SamplerRecord, state
  <2> QED
    BY <2>1 DEF EndInv
<1>14. CASE FailSampler
  <2>1. /\ sampler.pc = "fail" /\ sampler'.error = TRUE /\ sampler'.pc = "finished"
        /\ failure' = TRUE /\ UNCHANGED <<iteration>>
    BY <1>14 DEF FailSampler, TypeInv, SamplerRecord
  <2> QED
    BY <2>1 DEF EndInv
<1>15. CASE UNCHANGED vars
  BY <1>15 DEF vars, EndInv
<1> QED
  BY <1>1, <1>2, <1>3, <1>4, <1>5, <1>6, <1>7, <1>8, <1>9, <1>10, <1>11, <1>12,
     <1>13, <1>14, <1>15 DEF Next, Iteration, Sampler, Done

LEMMA InitEnd ==
  ASSUME Init
  PROVE  TypeInv /\ EndInv
<1>1. "none" \in Roles /\ <<>> \in Requests /\ <<>> \in Seq(Sample)
  BY EmptySeq DEF Roles, Requests
<1>2. iteration \in IterationRecord /\ iteration.step = 1 /\ iteration.pc = "record"
      /\ iteration.outcome = "none"
  <2>1. /\ iteration = [pc |-> iteration.pc, plan |-> iteration.plan,
                        step |-> iteration.step, role |-> iteration.role,
                        ok |-> iteration.ok, error |-> iteration.error,
                        outcome |-> iteration.outcome]
        /\ iteration.pc = "record" /\ iteration.plan \in Plans /\ iteration.step = 1
        /\ iteration.role = "none" /\ iteration.outcome = "none"
    BY DEF Init
  <2>2. iteration.ok \in {TRUE} /\ iteration.error \in {FALSE}
    BY DEF Init
  <2>3. iteration.ok \in BOOLEAN /\ iteration.error \in BOOLEAN
    BY <2>2, Zenon
  <2> QED
    BY <1>1, <2>1, <2>3 DEF IterationRecord
<1>3. Script \in Seq(Ops) /\ Len(Script) > 0
  BY ScriptParts DEF Script
<1>4. Len(Script) \in Nat
  BY <1>3, LenProperties
<1>5. iteration.step \in 1..Len(Script)
  BY <1>2, <1>3, <1>4
<1>6. sampler \in SamplerRecord
  BY <1>1 DEF Init, SamplerRecord
<1>7. failure \in BOOLEAN /\ started \in BOOLEAN /\ stop \in BOOLEAN
  BY Zenon DEF Init
<1>8. TypeInv
  BY <1>1, <1>2, <1>5, <1>6, <1>7 DEF Init, TypeInv
<1>9. EndInv
  BY <1>2 DEF Init, EndInv
<1> QED
  BY <1>8, <1>9

\* The iteration and the sampler never leave their places, queues and types.
THEOREM TypeCorrect == Spec => []TypeOK
<1>1. Init => TypeInv
  BY InitEnd
<1>2. TypeInv /\ [Next]_vars => TypeInv'
  BY TypeStep
<1>3. TypeInv => TypeOK
  BY DEF TypeInv, TypeOK, IterationRecord, SamplerRecord, Sample
<1> QED
  BY <1>1, <1>2, <1>3, PTL DEF Spec

\* run_sampler and finalize_success: whenever the sampler fails, before, at or
\* after the last phase or while it is being stopped, the iteration is recorded
\* as a failure.
THEOREM SamplerFailureReported == Spec => []SamplerFailureIsReported
<1>1. Init => TypeInv /\ EndInv
  BY InitEnd
<1>2. TypeInv /\ EndInv /\ [Next]_vars => TypeInv' /\ EndInv'
  BY TypeStep, EndStep
<1>3. TypeInv /\ EndInv => SamplerFailureIsReported
  BY DEF EndInv, SamplerFailureIsReported, TypeInv, IterationRecord
<1> QED
  BY <1>1, <1>2, <1>3, PTL DEF Spec

-----------------------------------------------------------------------------
(* The terminal request.                                                   *)

LEMMA OccursAppends ==
  ASSUME NEW T, NEW s \in Seq(T), NEW x \in T, NEW y
  PROVE  /\ Occurs(s, y) => Occurs(Append(s, x), y)
         /\ Occurs(Append(s, x), x)
<1> DEFINE t == Append(s, x)
           n == Len(s)
<1>1. /\ n \in Nat /\ Len(t) = n + 1 /\ t[n + 1] = x /\ \A i \in 1..n : t[i] = s[i]
  BY AppendProperties, LenProperties
<1> HIDE DEF t
<1>2. n + 1 \in 1..Len(t) /\ 1..n \subseteq 1..Len(t)
  BY <1>1
<1> QED
  BY <1>1, <1>2 DEF Occurs, t

LEMMA OccursMoves ==
  ASSUME NEW T, NEW t \in Seq(T), t # <<>>, NEW y, Occurs(t, y)
  PROVE  y = Head(t) \/ Occurs(Tail(t), y)
<1> DEFINE u == Tail(t)
           n == Len(t)
<1>1. /\ n \in Nat /\ Head(t) = t[1] /\ Len(u) = n - 1
      /\ \A i \in 1..(n - 1) : u[i] = t[i + 1]
  BY LenProperties, HeadTailProperties
<1> HIDE DEF u
<1>2. PICK i \in 1..n : t[i] = y
  BY DEF Occurs
<1>3. CASE i = 1
  BY <1>1, <1>2, <1>3
<1>4. CASE i # 1
  <2>1. i - 1 \in 1..(n - 1) /\ (i - 1) + 1 = i
    BY <1>1, <1>4
  <2>2. u[i - 1] = y
    BY <1>1, <1>2, <2>1
  <2> QED
    BY <1>1, <2>1, <2>2 DEF Occurs, u
<1> QED
  BY <1>3, <1>4

LEMMA NeverInNothing ==
  ASSUME NEW y
  PROVE  ~Occurs(<<>>, y)
<1>1. 1..Len(<<>>) = {}
  BY EmptySeq
<1> QED
  BY <1>1 DEF Occurs

LEMMA TerminalStep ==
  ASSUME TypeInv, EndInv, TerminalInv, [Next]_vars
  PROVE  TerminalInv'
<1> DEFINE Late == {"stop", "join", "done"}
           T(ok) == <<IF ok THEN "terminal-success" ELSE "terminal-failure", "none">>
           Somewhere(y) == Occurs(samples, y) \/ Occurs(sampler.batch, y) \/ Occurs(boundaries, y)
<1>0. /\ boundaries \in Seq(Kinds \X Roles) /\ sampler.batch \in Seq(Kinds \X Roles)
      /\ samples \in Seq(Sample) /\ \A ok : T(ok) \in Kinds \X Roles
  BY DEF TypeInv, SamplerRecord, Requests, Kinds, Roles
<1>1. ASSUME iteration'.pc \notin Late
      PROVE  TerminalInv'
  BY <1>1 DEF TerminalInv
<1>2. ASSUME iteration.pc \in Late, iteration'.ok = iteration.ok,
             iteration'.error = iteration.error, Somewhere(T(iteration.ok)) => Somewhere(T(iteration.ok))'
      PROVE  TerminalInv'
  BY <1>2 DEF TerminalInv, TerminalKind
<1>3. CASE ExecutionFails \/ Record \/ Look \/ Probe
  <2>1. iteration'.pc \notin Late
    BY <1>3 DEF ExecutionFails, Record, Look, Probe, FailExecution, TypeInv, IterationRecord
  <2> QED
    BY <1>1, <2>1
<1>4. CASE Push
  <2>1. iteration'.pc \in {"terminal", "record"}
    BY <1>4 DEF Push, Continue, FailExecution, TypeInv, IterationRecord
  <2> QED
    BY <1>1, <2>1
<1>5. CASE EnqueueTerminal
  <2>1. /\ iteration'.ok = iteration.ok /\ iteration'.error = failure
        /\ boundaries' = IF failure THEN boundaries ELSE Append(boundaries, T(iteration.ok))
    BY <1>5 DEF EnqueueTerminal, TypeInv, IterationRecord, TerminalKind
  <2>2. ~failure => Occurs(boundaries', T(iteration.ok))
    BY <1>0, <2>1, OccursAppends
  <2> QED
    BY <2>1, <2>2 DEF TerminalInv, TerminalKind
<1>6. CASE StopSampler \/ Finish
  <2>1. /\ iteration.pc \in Late /\ iteration'.ok = iteration.ok
        /\ iteration'.error = iteration.error /\ UNCHANGED <<samples, sampler, boundaries>>
    BY <1>6 DEF StopSampler, Finish, TypeInv, IterationRecord, state
  <2> QED
    BY <1>2, <2>1
<1>7. ASSUME UNCHANGED iteration, \A y \in Kinds \X Roles : Somewhere(y) => Somewhere(y)'
      PROVE  TerminalInv'
  <2>1. CASE iteration.pc \in Late
    BY <1>0, <1>2, <1>7, <2>1
  <2>2. CASE iteration.pc \notin Late
    BY <1>1, <1>7, <2>2
  <2> QED
    BY <2>1, <2>2
<1>8. CASE Drain
  <2>1. /\ sampler.batch = <<>> /\ sampler'.batch = boundaries /\ UNCHANGED <<samples, iteration>>
    BY <1>8 DEF Drain, EndInv, TypeInv, SamplerRecord
  <2> QED
    BY <1>7, <2>1, NeverInNothing
<1>9. CASE Collect
  <2>1. /\ sampler.batch # <<>> /\ sampler'.batch = Tail(sampler.batch)
        /\ samples' = Append(samples, Head(sampler.batch))
        /\ UNCHANGED <<iteration, boundaries>>
    BY <1>9 DEF Collect, TypeInv, SamplerRecord, state
  <2>2. Head(sampler.batch) \in Sample
    BY <1>0, <2>1, HeadTailProperties DEF Sample
  <2>3. /\ \A y : Occurs(samples, y) => Occurs(samples', y)
        /\ Occurs(samples', Head(sampler.batch))
    BY <1>0, <2>1, <2>2, OccursAppends
  <2>4. \A y : Occurs(sampler.batch, y) =>
                  y = Head(sampler.batch) \/ Occurs(sampler'.batch, y)
    BY <1>0, <2>1, OccursMoves
  <2> QED
    BY <1>7, <2>1, <2>3, <2>4
<1>10. CASE Periodic
  <2>1. /\ sampler'.batch = sampler.batch /\ UNCHANGED <<iteration, boundaries>>
        /\ samples' = samples \/ samples' = Append(samples, <<"periodic", ActiveThen>>)
        /\ <<"periodic", ActiveThen>> \in Sample
    BY <1>10 DEF Periodic, SamplerGoto, TypeInv, SamplerRecord, state, Sample, ActiveThen
  <2>2. \A y : Occurs(samples, y) => Occurs(samples', y)
    <3> DEFINE x == <<"periodic", ActiveThen>>
    <3>1. x \in Sample /\ (samples' = samples \/ samples' = Append(samples, x))
      BY <2>1
    <3> HIDE DEF x
    <3>2. CASE samples' = samples
      BY <3>2
    <3>3. CASE samples' = Append(samples, x)
      BY <1>0, <3>1, <3>3, OccursAppends
    <3> QED
      BY <3>1, <3>2, <3>3
  <2> QED
    BY <1>7, <2>1, <2>2
<1>11. CASE CollectFails \/ Leave \/ FailSampler
  <2>1. sampler'.batch = sampler.batch /\ UNCHANGED <<iteration, boundaries, samples>>
    BY <1>11 DEF CollectFails, Leave, FailSampler, SamplerGoto, TypeInv, SamplerRecord, state
  <2> QED
    BY <1>7, <2>1
<1>12. CASE UNCHANGED vars
  BY <1>7, <1>12 DEF vars
<1> QED
  BY <1>3, <1>4, <1>5, <1>6, <1>8, <1>9, <1>10, <1>11, <1>12
     DEF Next, Iteration, Sampler, Done

\* Nothing is left in the queue or in the sampler's hands, and the terminal
\* sample is in the file.
NothingLeft ==
    iteration.outcome = "success" =>
        /\ boundaries = <<>> /\ sampler.batch = <<>>
        /\ Occurs(samples, <<"terminal-success", "none">>)

\* drain and the sampler's way out: an iteration that is recorded as a success has
\* no request that was queued and never sampled, and its terminal sample is
\* written, also when the request came while the sampler was at work or about
\* to leave.
THEOREM SuccessLeavesNothing == Spec => []NothingLeft
<1>1. Init => TypeInv /\ EndInv /\ TerminalInv
  <2>1. Init => iteration.pc = "record"
    BY DEF Init
  <2> QED
    BY <2>1, InitEnd DEF TerminalInv
<1>2. TypeInv /\ EndInv /\ TerminalInv /\ [Next]_vars => TypeInv' /\ EndInv' /\ TerminalInv'
  BY TypeStep, EndStep, TerminalStep
<1>3. TypeInv /\ EndInv /\ TerminalInv => NothingLeft
  <2> SUFFICES ASSUME TypeInv, EndInv, TerminalInv, iteration.outcome = "success"
               PROVE  /\ boundaries = <<>> /\ sampler.batch = <<>>
                      /\ Occurs(samples, <<"terminal-success", "none">>)
    BY DEF NothingLeft
  <2>1. /\ iteration.pc = "done" /\ iteration.ok /\ ~iteration.error
        /\ boundaries = <<>> /\ sampler.batch = <<>>
    BY DEF EndInv
  <2> QED
    BY <2>1, NeverInNothing DEF TerminalInv, TerminalKind
<1> QED
  BY <1>1, <1>2, <1>3, PTL DEF Spec

-----------------------------------------------------------------------------
(* Whose the periodic samples are.                                         *)

LEMMA NoStartInNothing ==
  /\ NoStart(<<>>) /\ \A role : ~LatestStart(<<>>, role)
<1>1. 1..Len(<<>>) = {}
  BY EmptySeq
<1> QED
  BY <1>1 DEF NoStart, LatestStart

\* The start of a process is somewhere on its way to the file, the latest one.
Traced(role) ==
    \/ LatestStart(boundaries, role)
    \/ NoStart(boundaries) /\ LatestIn(samples, sampler.batch, role)

\* What was taken and written last is kept in its order.
LEMMA NamesKeep ==
  ASSUME TypeInv, NamesInv, UNCHANGED <<active, iteration>>,
         active # "none" /\ Traced(active) => Traced(active)',
         sampler'.pc = "collect" /\ sampler'.active # "none" =>
            LatestIn(samples', sampler'.batch, sampler'.active)
  PROVE  NamesInv'
<1>1. Op' = Op
  BY DEF Op, Script
<1> QED
  BY <1>1 DEF NamesInv, Traced

\* The iteration goes on and requests nothing.
LEMMA NamesGoOn ==
  ASSUME TypeInv, NamesInv, UNCHANGED <<active, boundaries, sampler, samples>>,
         iteration'.plan = iteration.plan, iteration'.step = iteration.step,
         iteration'.pc \in {"probe", "push"} /\ Op.op = "set" => iteration'.role = Op.role,
         iteration'.pc = "look" => Op.op # "set"
  PROVE  NamesInv'
<1>1. Op' = Op
  BY DEF Op, Script
<1> QED
  BY <1>1 DEF NamesInv

LEMMA NamesFail ==
  ASSUME TypeInv, NamesInv, UNCHANGED <<state, sampler, samples>>, FailExecution
  PROVE  NamesInv'
<1>1. /\ iteration'.pc = "terminal" /\ iteration'.plan = iteration.plan
      /\ iteration'.step = iteration.step
  BY DEF FailExecution, TypeInv, IterationRecord
<1> QED
  BY <1>1, NamesGoOn DEF state

LEMMA NamesPush ==
  ASSUME TypeInv, NamesInv, Push
  PROVE  NamesInv'
<1>1. CASE failure
  BY <1>1, NamesFail DEF Push
<1>2. CASE ~failure
  <2>1. /\ iteration'.pc \in {"terminal", "record"} /\ UNCHANGED <<sampler, samples>>
        /\ iteration.pc = "push"
    BY <1>2 DEF Push, Continue, TypeInv, IterationRecord
  <2>2. Op \in Ops /\ boundaries \in Seq(Kinds \X Roles) /\ boundaries \in Seq(Sample)
    BY OpType, RequestsAreSamples DEF TypeInv, Requests
  <2>3. CASE Op.op = "set"
    <3>1. /\ active' = Op.role /\ boundaries' = Append(boundaries, Request)
          /\ Request = <<Start, Op.role>>
      BY <1>2, <2>1, <2>2, <2>3 DEF Push, Request, NamesInv, Ops
    <3>2. Request \in Sample
      BY <2>3, RequestType DEF Sample
    <3>3. LatestStart(boundaries', active')
      <4> DEFINE x == Request
                 r == Op.role
      <4>1. x \in Sample /\ x = <<Start, r>> /\ boundaries' = Append(boundaries, x) /\ active' = r
        BY <3>1, <3>2
      <4> HIDE DEF x, r
      <4> QED
        BY <2>2, <4>1, StartAppends
    <3> QED
      BY <2>1, <3>3 DEF NamesInv
  <2>4. CASE Op.op = "clear"
    <3>1. active' = "none"
      BY <1>2, <2>2, <2>4 DEF Push, Ops
    <3> QED
      BY <2>1, <3>1 DEF NamesInv
  <2>5. CASE Op.op \notin {"set", "clear"}
    <3>1. /\ active' = active /\ boundaries' = Append(boundaries, Request)
          /\ Request[1] # Start
      BY <1>2, <2>2, <2>5 DEF Push, Request, Ops
    <3>2. Request \in Sample
      BY <2>5, RequestType DEF Sample
    <3>3. /\ LatestStart(boundaries, active) => LatestStart(boundaries', active)
          /\ NoStart(boundaries) => NoStart(boundaries')
      <4> DEFINE x == Request
      <4>1. x \in Sample /\ x[1] # Start /\ boundaries' = Append(boundaries, x)
        BY <3>1, <3>2
      <4> HIDE DEF x
      <4> QED
        BY <2>2, <4>1, StartAppends
    <3> QED
      BY <2>1, <3>1, <3>3 DEF NamesInv
  <2> QED
    BY <2>3, <2>4, <2>5
<1> QED
  BY <1>1, <1>2

LEMMA NamesIteration ==
  ASSUME TypeInv, NamesInv, Iteration
  PROVE  NamesInv'
<1>1. CASE ExecutionFails
  BY <1>1, NamesFail DEF ExecutionFails
<1>2. CASE Record
  <2>1. CASE failure
    BY <1>2, <2>1, NamesFail DEF Record
  <2>2. CASE ~failure
    <3>1. /\ iteration'.plan = iteration.plan /\ iteration'.step = iteration.step
          /\ iteration'.role = Op.role /\ (iteration'.pc = "look" => Op.op # "set")
      BY <1>2, <2>2 DEF Record, TypeInv, IterationRecord
    <3> QED
      BY <1>2, <3>1, NamesGoOn DEF Record, state
  <2> QED
    BY <2>1, <2>2
<1>3. CASE Look
  <2>1. CASE failure
    BY <1>3, <2>1, NamesFail DEF Look
  <2>2. CASE ~failure
    <3>1. /\ iteration'.plan = iteration.plan /\ iteration'.step = iteration.step
          /\ iteration'.pc = "probe" /\ iteration.pc = "look"
      BY <1>3, <2>2 DEF Look, TypeInv, IterationRecord
    <3>2. Op.op # "set"
      BY <3>1 DEF NamesInv
    <3> QED
      BY <1>3, <3>1, <3>2, NamesGoOn DEF Look, state
  <2> QED
    BY <2>1, <2>2
<1>4. CASE Probe
  <2>1. CASE FailExecution
    BY <1>4, <2>1, NamesFail DEF Probe
  <2>2. CASE iteration' = [iteration EXCEPT !.pc = "push"]
    <3>1. /\ iteration'.plan = iteration.plan /\ iteration'.step = iteration.step
          /\ iteration'.role = iteration.role /\ iteration.pc = "probe"
      BY <1>4, <2>2 DEF Probe, TypeInv, IterationRecord
    <3>2. /\ Op.op = "set" => iteration'.role = Op.role
          /\ iteration'.pc = "push" /\ UNCHANGED <<active, boundaries, sampler, samples>>
      BY <1>4, <2>2, <3>1 DEF Probe, state, NamesInv, TypeInv, IterationRecord
    <3> QED
      BY <3>1, <3>2, NamesGoOn
  <2> QED
    BY <1>4, <2>1, <2>2 DEF Probe
<1>5. CASE Push
  BY <1>5, NamesPush
<1>6. CASE EnqueueTerminal
  <2>1. /\ iteration'.pc = "stop" /\ UNCHANGED <<active, sampler, samples>>
        /\ boundaries' = boundaries \/ boundaries' = Append(boundaries, <<TerminalKind, "none">>)
    BY <1>6 DEF EnqueueTerminal, TypeInv, IterationRecord
  <2>2. /\ boundaries \in Seq(Sample) /\ <<TerminalKind, "none">> \in Sample
        /\ TerminalKind # Start
    BY RequestsAreSamples DEF TypeInv, TerminalKind, Sample, Kinds, Roles, Start
  <2>3. /\ LatestStart(boundaries, active) => LatestStart(boundaries', active)
        /\ NoStart(boundaries) => NoStart(boundaries')
    <3> DEFINE x == <<TerminalKind, "none">>
    <3>1. /\ x \in Sample /\ x[1] # Start
          /\ boundaries' = boundaries \/ boundaries' = Append(boundaries, x)
      BY <2>1, <2>2
    <3> HIDE DEF x
    <3> QED
      BY <2>2, <3>1, StartAppends
  <2> QED
    BY <2>1, <2>3 DEF NamesInv
<1>7. CASE StopSampler \/ Finish
  <2>1. /\ iteration'.plan = iteration.plan /\ iteration'.step = iteration.step
        /\ iteration'.pc \in {"join", "done"}
        /\ UNCHANGED <<active, boundaries, sampler, samples>>
    BY <1>7 DEF StopSampler, Finish, TypeInv, IterationRecord, state
  <2> QED
    BY <2>1, NamesGoOn
<1> QED
  BY <1>1, <1>2, <1>3, <1>4, <1>5, <1>6, <1>7 DEF Iteration

LEMMA NamesSampler ==
  ASSUME TypeInv, EndInv, NamesInv, Sampler
  PROVE  NamesInv'
<1>0. /\ samples \in Seq(Sample) /\ sampler.batch \in Seq(Sample) /\ boundaries \in Seq(Sample)
      /\ sampler.batch \in Requests
  BY RequestsAreSamples DEF TypeInv, SamplerRecord
<1>1. CASE Drain
  <2>1. /\ sampler.batch = <<>> /\ sampler'.batch = boundaries /\ sampler'.active = active
        /\ boundaries' = <<>> /\ UNCHANGED <<active, iteration, samples>>
    BY <1>1 DEF Drain, EndInv, TypeInv, SamplerRecord
  <2>2. \A role : Traced(role) => LatestIn(samples', sampler'.batch, role)
    BY <2>1, NoStartInNothing DEF Traced, LatestIn
  <2>3. \A role : Traced(role) => Traced(role)'
    BY <2>1, <2>2, NoStartInNothing DEF Traced
  <2> QED
    BY <2>1, <2>2, <2>3, NamesKeep DEF NamesInv, Traced
<1>2. CASE Collect
  <2>1. /\ sampler.pc = "collect" /\ sampler.batch # <<>> /\ sampler'.batch = Tail(sampler.batch)
        /\ samples' = Append(samples, Head(sampler.batch)) /\ sampler'.active = sampler.active
        /\ UNCHANGED <<active, iteration, boundaries>>
    BY <1>2 DEF Collect, TypeInv, SamplerRecord, state
  <2>2. \A role : LatestIn(samples, sampler.batch, role) =>
                     LatestIn(samples', sampler'.batch, role)
    BY <1>0, <2>1, StartMoves
  <2> QED
    BY <2>1, <2>2, NamesKeep DEF NamesInv, Traced
<1>3. CASE Periodic
  <2>1. /\ sampler'.pc = "leave" /\ sampler'.batch = sampler.batch
        /\ UNCHANGED <<active, iteration, boundaries>>
        /\ samples' = samples \/ samples' = Append(samples, <<"periodic", ActiveThen>>)
        /\ <<"periodic", ActiveThen>> \in Sample
    BY <1>3 DEF Periodic, SamplerGoto, TypeInv, SamplerRecord, state, Sample, ActiveThen
  <2>2. \A role : LatestIn(samples, sampler.batch, role) =>
                     LatestIn(samples', sampler'.batch, role)
    <3> DEFINE x == <<"periodic", ActiveThen>>
    <3>1. /\ x \in Sample /\ x[1] # Start
          /\ samples' = samples \/ samples' = Append(samples, x)
      BY <2>1 DEF Start
    <3> HIDE DEF x
    <3> QED
      BY <1>0, <2>1, <3>1, StartAppends DEF LatestIn
  <2> QED
    BY <2>1, <2>2, NamesKeep DEF Traced
<1>4. CASE CollectFails \/ Leave \/ FailSampler
  <2>1. /\ sampler'.pc # "collect" /\ sampler'.batch = sampler.batch
        /\ UNCHANGED <<active, iteration, boundaries, samples>>
    BY <1>4 DEF CollectFails, Leave, FailSampler, SamplerGoto, TypeInv, SamplerRecord, state
  <2> QED
    BY <2>1, NamesKeep DEF Traced
<1> QED
  BY <1>1, <1>2, <1>3, <1>4 DEF Sampler

LEMMA NamesStep ==
  ASSUME TypeInv, EndInv, NamesInv, [Next]_vars
  PROVE  NamesInv'
<1>1. CASE UNCHANGED vars
  <2>1. /\ UNCHANGED <<active, boundaries, sampler, samples, iteration>>
    BY <1>1 DEF vars
  <2> QED
    BY <2>1, NamesKeep DEF NamesInv, Traced
<1> QED
  BY <1>1, NamesIteration, NamesSampler DEF Next, Done

\* The property of the samples written so far is kept by the next one.
LEMMA PeriodicStep ==
  ASSUME TypeInv, EndInv, NamesInv, PeriodicNamesLatestRole, [Next]_vars
  PROVE  PeriodicNamesLatestRole'
<1> DEFINE n == Len(samples)
<1>0. samples \in Seq(Sample) /\ n \in Nat
  BY LenProperties DEF TypeInv
<1>1. ASSUME samples' = samples
      PROVE  PeriodicNamesLatestRole'
  BY <1>1 DEF PeriodicNamesLatestRole
<1>2. ASSUME NEW x \in Sample, samples' = Append(samples, x),
             x[1] = "periodic" /\ x[2] # "none" => LatestStart(samples, x[2])
      PROVE  PeriodicNamesLatestRole'
  <2>1. /\ Len(samples') = n + 1 /\ samples'[n + 1] = x
        /\ \A i \in 1..n : samples'[i] = samples[i]
    BY <1>0, <1>2, AppendProperties
  <2>2. \A i \in 1..(n + 1) : i \in 1..n \/ i = n + 1
    BY <1>0
  <2> SUFFICES ASSUME NEW i \in 1..(n + 1), samples'[i][1] = "periodic",
                      samples'[i][2] # "none"
               PROVE  \E j \in 1..(i - 1) :
                         /\ samples'[j] = <<"process-role-start", samples'[i][2]>>
                         /\ \A k \in (j + 1)..(i - 1) : samples'[k][1] # "process-role-start"
    BY <2>1 DEF PeriodicNamesLatestRole
  <2>3. CASE i \in 1..n
    <3>1. PICK j \in 1..(i - 1) :
             /\ samples[j] = <<"process-role-start", samples[i][2]>>
             /\ \A k \in (j + 1)..(i - 1) : samples[k][1] # "process-role-start"
      BY <2>1, <2>3 DEF PeriodicNamesLatestRole
    <3>2. j \in 1..n /\ \A k \in (j + 1)..(i - 1) : k \in 1..n
      BY <1>0, <2>3
    <3> QED
      BY <2>1, <2>3, <3>1, <3>2
  <2>4. CASE i = n + 1
    <3>1. PICK j \in 1..n : /\ samples[j] = <<Start, x[2]>>
                            /\ \A k \in (j + 1)..n : samples[k][1] # Start
      BY <1>2, <2>1, <2>4 DEF LatestStart
    <3>2. i - 1 = n /\ \A k \in (j + 1)..n : k \in 1..n
      BY <1>0, <2>4
    <3> QED
      BY <2>1, <2>4, <3>1, <3>2 DEF Start
  <2> QED
    BY <2>2, <2>3, <2>4
<1>3. CASE Collect
  <2>1. /\ sampler.batch # <<>> /\ samples' = Append(samples, Head(sampler.batch))
        /\ sampler.batch \in Seq(Kinds \X Roles)
    BY <1>3 DEF Collect, TypeInv, SamplerRecord, Requests
  <2>2. Head(sampler.batch) \in Kinds \X Roles
    BY <2>1, HeadTailProperties
  <2>3. Head(sampler.batch) \in Sample /\ Head(sampler.batch)[1] # "periodic"
    BY <2>2 DEF Sample, Kinds
  <2> QED
    BY <1>2, <2>1, <2>3
<1>4. CASE Periodic
  <2>1. /\ sampler.pc = "collect" /\ sampler.batch = <<>>
        /\ samples' = samples \/ samples' = Append(samples, <<"periodic", sampler.active>>)
        /\ <<"periodic", sampler.active>> \in Sample
    BY <1>4 DEF Periodic, TypeInv, SamplerRecord, Sample, ActiveThen
  <2>2. sampler.active # "none" => LatestStart(samples, sampler.active)
    BY <2>1, NoStartInNothing DEF NamesInv, LatestIn
  <2> QED
    BY <1>1, <1>2, <2>1, <2>2
<1>5. CASE \/ Iteration \/ Drain \/ CollectFails \/ Leave \/ FailSampler \/ UNCHANGED vars
  <2>1. samples' = samples
    BY <1>5 DEF Iteration, Drain, CollectFails, Leave, FailSampler, vars, ExecutionFails,
                Record, Look, Probe, Push, EnqueueTerminal, StopSampler, Finish
  <2> QED
    BY <1>1, <2>1
<1> QED
  BY <1>3, <1>4, <1>5 DEF Next, Sampler, Done

\* set_process and run_sampler: a periodic sample carries the process that came
\* with the requests of its round, and never names one whose start is not in
\* the file yet or one whose successor's is.
THEOREM PeriodicNamed == Spec => []PeriodicNamesLatestRole
<1> DEFINE I == TypeInv /\ EndInv /\ NamesInv /\ PeriodicNamesLatestRole
<1>1. Init => I
  <2> SUFFICES ASSUME Init PROVE I
    OBVIOUS
  <2>1. TypeInv /\ EndInv
    BY InitEnd
  <2>2. iteration.pc = "record" /\ active = "none" /\ sampler.pc = "drain" /\ samples = <<>>
    BY DEF Init
  <2>3. 1..Len(samples) = {}
    BY <2>2, EmptySeq
  <2> QED
    BY <2>1, <2>2, <2>3 DEF NamesInv, PeriodicNamesLatestRole
<1>2. I /\ [Next]_vars => I'
  BY TypeStep, EndStep, NamesStep, PeriodicStep
<1>3. I => PeriodicNamesLatestRole
  OBVIOUS
<1> QED
  BY <1>1, <1>2, <1>3, PTL DEF Spec

-----------------------------------------------------------------------------
(* What is sampled, and in which order.                                    *)

Phases == {"record", "look", "probe", "push"}

\* The requests, written, taken and queued.
OnTheWay == BoundarySamples(samples) \o sampler.batch \o boundaries

\* What is on its way are the boundaries of the phases that are over.
SentInv ==
    /\ iteration.pc \in Phases => OnTheWay = Sent(Script)[iteration.step - 1]
    /\ iteration.pc = "terminal" /\ iteration.ok => OnTheWay = Expected
    /\ iteration.pc \in {"stop", "join", "done"} /\ iteration.ok /\ ~iteration.error =>
          OnTheWay = Append(Expected, <<"terminal-success", "none">>)

\* When the crash marker is observed, the crash target is the active process.
TargetInv ==
    /\ iteration.pc \in Phases /\ Op.op = "current" => active = "crash-target"
    /\ iteration.pc \in {"probe", "push"} /\ Op.op = "current" => iteration.role = "crash-target"

\* The smallest of some numbers.
LEMMA SmallestOf ==
  ASSUME NEW S, S \in SUBSET Nat, S # {}
  PROVE  \E k \in S : \A j \in S : k <= j
<1>1. \E k \in S : \A j \in S : <<j, k>> \notin OpToRel(<, Nat)
  BY NatLessThanWellFounded, WFMin, Zenon
<1>2. \A j \in S, k \in S : <<j, k>> \notin OpToRel(<, Nat) => k <= j
  BY DEF OpToRel
<1> QED
  BY <1>1, <1>2

\* The sequence of the v[k] without those of Out, for every number of them.
Collects(n, Out, v, g) ==
    g = [k \in 0..n |-> IF k = 0 THEN <<>>
                        ELSE IF k \in Out THEN g[k - 1] ELSE Append(g[k - 1], v[k])]

LEMMA CollectsStep ==
  ASSUME NEW n \in Nat, NEW Out, NEW v, NEW g, Collects(n, Out, v, g)
  PROVE  /\ g[0] = <<>>
         /\ \A k \in 1..n : g[k] = IF k \in Out THEN g[k - 1] ELSE Append(g[k - 1], v[k])
<1> DEFINE Val(k) == IF k = 0 THEN <<>>
                     ELSE IF k \in Out THEN g[k - 1] ELSE Append(g[k - 1], v[k])
<1>1. g = [k \in 0..n |-> Val(k)]
  BY DEF Collects
<1> HIDE DEF Val
<1>2. \A k \in 0..n : g[k] = Val(k)
  BY <1>1
<1>3. 0 \in 0..n /\ \A k \in 1..n : k \in 0..n /\ k # 0
  OBVIOUS
<1> QED
  BY <1>2, <1>3 DEF Val

\* There is such a sequence.
LEMMA CollectsExists ==
  ASSUME NEW n \in Nat, NEW Out, NEW v
  PROVE  \E g : Collects(n, Out, v, g)
<1> DEFINE Unsolved == {m \in 0..n : ~ \E g : Collects(m, Out, v, g)}
<1>1. Unsolved = {}
  <2> SUFFICES ASSUME Unsolved # {} PROVE FALSE OBVIOUS
  <2>1. Unsolved \in SUBSET Nat
    OBVIOUS
  <2>2. PICK m \in Unsolved : \A j \in Unsolved : m <= j
    BY <2>1, SmallestOf
  <2>3. m \in 0..n /\ ~ \E g : Collects(m, Out, v, g)
    OBVIOUS
  <2>4. CASE m = 0
    <3> DEFINE g == [k \in 0..0 |-> <<>>]
    <3>1. Collects(0, Out, v, g)
      BY DEF Collects
    <3> QED
      BY <2>3, <2>4, <3>1
  <2>5. CASE m # 0
    <3>1. m - 1 \in 0..n /\ m \in 1..n /\ m - 1 \in Nat
      BY <2>3, <2>5
    <3>2. m - 1 \notin Unsolved
      <4>1. ~ m <= m - 1
        BY <2>3
      <4> QED
        BY <2>2, <4>1
    <3>3. PICK h : Collects(m - 1, Out, v, h)
      BY <3>1, <3>2
    <3> DEFINE last == IF m \in Out THEN h[m - 1] ELSE Append(h[m - 1], v[m])
               g == [k \in 0..m |-> IF k = m THEN last ELSE h[k]]
               Val(f, k) == IF k = 0 THEN <<>>
                            ELSE IF k \in Out THEN f[k - 1] ELSE Append(f[k - 1], v[k])
    <3>4. \A k \in 0..(m - 1) : g[k] = h[k] /\ h[k] = Val(h, k)
      <4>1. h[0] = <<>> /\ \A k \in 1..(m - 1) : h[k] = Val(h, k)
        BY <3>1, <3>3, CollectsStep
      <4>2. \A k \in 0..(m - 1) : k = 0 \/ k \in 1..(m - 1)
        BY <3>1
      <4>3. \A k \in 0..(m - 1) : k \in 0..m /\ k # m
        BY <3>1
      <4> QED
        BY <4>1, <4>2, <4>3
    <3>5. ASSUME NEW k \in 0..m PROVE g[k] = Val(g, k)
      <4>1. CASE k = m
        <5>1. m # 0 /\ m - 1 \in 0..(m - 1)
          BY <3>1
        <5>2. g[m] = last /\ g[m - 1] = h[m - 1]
          BY <3>1, <3>4, <5>1
        <5> QED
          BY <4>1, <5>1, <5>2
      <4>2. CASE k # m
        <5>1. k \in 0..(m - 1)
          BY <3>1, <4>2
        <5>2. k # 0 => k - 1 \in 0..(m - 1) /\ g[k - 1] = h[k - 1]
          BY <3>1, <3>4, <5>1
        <5> QED
          BY <3>4, <5>1, <5>2
      <4> QED
        BY <4>1, <4>2
    <3>6. g = [k \in 0..m |-> Val(g, k)]
      <4> HIDE DEF Val, last
      <4> QED
        BY <3>5
    <3>7. Collects(m, Out, v, g)
      BY <3>6 DEF Collects
    <3> QED
      BY <2>3, <3>7
  <2> QED
    BY <2>4, <2>5
<1> QED
  BY <1>1

\* There is one only, and what is appended to v does not change it.
LEMMA CollectsAgree ==
  ASSUME NEW n \in Nat, NEW m \in Nat, n <= m, NEW Out, NEW Out2, NEW v, NEW w, NEW g, NEW h,
         Collects(n, Out, v, g), Collects(m, Out2, w, h),
         \A k \in 1..n : (k \in Out <=> k \in Out2) /\ v[k] = w[k]
  PROVE  g[n] = h[n]
<1> DEFINE Differ == {k \in 0..n : g[k] # h[k]}
<1>1. Differ = {}
  <2> SUFFICES ASSUME Differ # {} PROVE FALSE OBVIOUS
  <2>1. Differ \in SUBSET Nat
    OBVIOUS
  <2>2. PICK k \in Differ : \A j \in Differ : k <= j
    BY <2>1, SmallestOf
  <2>3. k \in 0..n /\ g[k] # h[k]
    OBVIOUS
  <2>4. k # 0
    BY <2>3, CollectsStep
  <2>5. k \in 1..n /\ k \in 1..m /\ k - 1 \in 0..n /\ ~ k <= k - 1
    BY <2>3, <2>4
  <2>6. g[k - 1] = h[k - 1]
    BY <2>2, <2>5
  <2>7. /\ g[k] = IF k \in Out THEN g[k - 1] ELSE Append(g[k - 1], v[k])
        /\ h[k] = IF k \in Out2 THEN h[k - 1] ELSE Append(h[k - 1], w[k])
    BY <2>5, CollectsStep
  <2> QED
    BY <2>3, <2>5, <2>6, <2>7
<1> QED
  BY <1>1

LEMMA CollectsType ==
  ASSUME NEW n \in Nat, NEW Out, NEW v, NEW g, Collects(n, Out, v, g), NEW S,
         \A k \in 1..n : k \notin Out => v[k] \in S
  PROVE  \A k \in 0..n : g[k] \in Seq(S)
<1> DEFINE Untyped == {k \in 0..n : g[k] \notin Seq(S)}
<1>1. Untyped = {}
  <2> SUFFICES ASSUME Untyped # {} PROVE FALSE OBVIOUS
  <2>1. Untyped \in SUBSET Nat
    OBVIOUS
  <2>2. PICK k \in Untyped : \A j \in Untyped : k <= j
    BY <2>1, SmallestOf
  <2>3. k \in 0..n /\ g[k] \notin Seq(S)
    OBVIOUS
  <2>4. k # 0
    <3>1. <<>> \in Seq(S)
      BY EmptySeq
    <3>2. g[0] = <<>>
      BY CollectsStep
    <3> QED
      BY <2>3, <3>1, <3>2
  <2>5. k \in 1..n /\ k - 1 \in 0..n /\ ~ k <= k - 1
    BY <2>3, <2>4
  <2>6. g[k - 1] \in Seq(S)
    BY <2>2, <2>5
  <2>7. g[k] = IF k \in Out THEN g[k - 1] ELSE Append(g[k - 1], v[k])
    BY <2>5, CollectsStep
  <2> QED
    BY <2>3, <2>5, <2>6, <2>7, AppendProperties
<1> QED
  BY <1>1

\* What a sample adds to the boundary samples.
Periodics(s) == {k \in 1..Len(s) : s[k][1] = "periodic"}

LEMMA BoundarySamplesAre ==
  ASSUME NEW s \in Seq(Sample)
  PROVE  \E g : Collects(Len(s), Periodics(s), s, g) /\ BoundarySamples(s) = g[Len(s)]
<1> DEFINE n == Len(s)
           Solves(g) == g = [k \in 0..n |-> IF k = 0 THEN <<>>
                                            ELSE IF s[k][1] = "periodic" THEN g[k - 1]
                                            ELSE Append(g[k - 1], s[k])]
<1>1. n \in Nat
  BY LenProperties
<1>2. ASSUME NEW g PROVE Solves(g) <=> Collects(n, Periodics(s), s, g)
  <2> DEFINE L(k) == IF k = 0 THEN <<>> ELSE IF s[k][1] = "periodic" THEN g[k - 1]
                     ELSE Append(g[k - 1], s[k])
             R(k) == IF k = 0 THEN <<>> ELSE IF k \in Periodics(s) THEN g[k - 1]
                     ELSE Append(g[k - 1], s[k])
  <2>1. \A k \in 0..n : k # 0 => (k \in Periodics(s) <=> s[k][1] = "periodic")
    BY <1>1 DEF Periodics
  <2>2. \A k \in 0..n : L(k) = R(k)
    BY <2>1
  <2> HIDE DEF L, R
  <2>3. [k \in 0..n |-> L(k)] = [k \in 0..n |-> R(k)]
    BY <2>2
  <2> QED
    BY <2>3 DEF L, R, Collects
<1> DEFINE upto == CHOOSE g : Solves(g)
<1>3. BoundarySamples(s) = upto[n]
  BY Zenon DEF BoundarySamples
<1> HIDE DEF Solves
<1>4. \E g : Solves(g)
  BY <1>1, <1>2, CollectsExists
<1>5. Solves(upto)
  BY <1>4
<1> QED
  BY <1>2, <1>3, <1>5

LEMMA SampleAdds ==
  ASSUME NEW s \in Seq(Sample), NEW x \in Sample
  PROVE  /\ BoundarySamples(s) \in Seq(Sample)
         /\ BoundarySamples(Append(s, x)) = IF x[1] = "periodic" THEN BoundarySamples(s)
                                            ELSE Append(BoundarySamples(s), x)
<1> DEFINE t == Append(s, x)
           n == Len(s)
<1>1. /\ t \in Seq(Sample) /\ n \in Nat /\ Len(t) = n + 1 /\ t[n + 1] = x
      /\ \A i \in 1..n : t[i] = s[i]
  BY AppendProperties, LenProperties
<1>2. PICK g : Collects(n, Periodics(s), s, g) /\ BoundarySamples(s) = g[n]
  BY BoundarySamplesAre
<1>3. PICK h : Collects(n + 1, Periodics(t), t, h) /\ BoundarySamples(t) = h[n + 1]
  BY <1>1, BoundarySamplesAre
<1> HIDE DEF t
<1>4. \A k \in 1..n : (k \in Periodics(s) <=> k \in Periodics(t)) /\ s[k] = t[k]
  BY <1>1 DEF Periodics
<1>5. g[n] = h[n]
  BY <1>1, <1>2, <1>3, <1>4, CollectsAgree
<1>6. n + 1 \in 1..(n + 1) /\ (n + 1) - 1 = n /\ (n + 1 \in Periodics(t) <=> x[1] = "periodic")
  BY <1>1 DEF Periodics
<1>7. h[n + 1] = IF n + 1 \in Periodics(t) THEN h[(n + 1) - 1]
                 ELSE Append(h[(n + 1) - 1], t[n + 1])
  BY <1>1, <1>3, <1>6, CollectsStep
<1>8. g[n] \in Seq(Sample)
  <2>1. \A k \in 1..n : s[k] \in Sample
    BY ElementOfSeq
  <2> QED
    BY <1>1, <1>2, <2>1, CollectsType
<1> QED
  BY <1>1, <1>2, <1>3, <1>5, <1>6, <1>7, <1>8 DEF t

LEMMA NothingSampled == BoundarySamples(<<>>) = <<>>
<1>1. <<>> \in Seq(Sample) /\ Len(<<>>) = 0
  BY EmptySeq
<1>2. PICK g : Collects(0, Periodics(<<>>), <<>>, g) /\ BoundarySamples(<<>>) = g[0]
  BY <1>1, BoundarySamplesAre
<1> QED
  BY <1>2, CollectsStep

\* The boundary that a phase requests.
RequestOf(o) == <<o.kind, IF o.op = "current" THEN "crash-target" ELSE o.role>>

LEMMA SentIs ==
  ASSUME NEW script \in Seq(Ops)
  PROVE  /\ Sent(script)[0] = <<>>
         /\ \A k \in 1..Len(script) :
              Sent(script)[k] = IF script[k].op = "clear" THEN Sent(script)[k - 1]
                                ELSE Append(Sent(script)[k - 1], RequestOf(script[k]))
         /\ \A k \in 0..Len(script) : Sent(script)[k] \in Seq(Sample)
<1> DEFINE n == Len(script)
           Out == {k \in 1..n : script[k].op = "clear"}
           v == [k \in 1..n |-> RequestOf(script[k])]
           Solves(g) == g = [k \in 0..n |-> IF k = 0 THEN <<>>
                               ELSE IF script[k].op = "clear" THEN g[k - 1]
                               ELSE Append(g[k - 1],
                                      <<script[k].kind,
                                        IF script[k].op = "current" THEN "crash-target"
                                        ELSE script[k].role>>)]
<1>1. n \in Nat
  BY LenProperties
<1>2. ASSUME NEW g PROVE Solves(g) <=> Collects(n, Out, v, g)
  <2> DEFINE L(k) == IF k = 0 THEN <<>> ELSE IF script[k].op = "clear" THEN g[k - 1]
                     ELSE Append(g[k - 1], RequestOf(script[k]))
             R(k) == IF k = 0 THEN <<>> ELSE IF k \in Out THEN g[k - 1]
                     ELSE Append(g[k - 1], v[k])
  <2>1. \A k \in 0..n : k # 0 => /\ k \in Out <=> script[k].op = "clear"
                                 /\ v[k] = RequestOf(script[k])
    BY <1>1
  <2> HIDE DEF v, Out
  <2>2. \A k \in 0..n : L(k) = R(k)
    BY <2>1
  <2> HIDE DEF L, R
  <2>3. [k \in 0..n |-> L(k)] = [k \in 0..n |-> R(k)]
    BY <2>2
  <2> QED
    BY <2>3 DEF L, R, Collects, RequestOf
<1>3. Sent(script) = CHOOSE g : Solves(g)
  BY Zenon DEF Sent
<1> HIDE DEF Solves
<1>4. \E g : Solves(g)
  BY <1>1, <1>2, CollectsExists
<1>5. Collects(n, Out, v, Sent(script))
  BY <1>2, <1>3, <1>4
<1>6. \A k \in 1..n : k \notin Out => v[k] \in Sample
  <2> SUFFICES ASSUME NEW k \in 1..n, script[k].op # "clear" PROVE RequestOf(script[k]) \in Sample
    OBVIOUS
  <2>1. script[k] \in Ops
    BY ElementOfSeq
  <2>2. "crash-target" \in Roles
    BY DEF Roles
  <2> QED
    BY <2>1, <2>2 DEF Ops, RequestOf, Sample
<1>7. \A k \in 1..n : (k \in Out <=> script[k].op = "clear") /\ v[k] = RequestOf(script[k])
  OBVIOUS
<1> HIDE DEF Out, v
<1>8. /\ Sent(script)[0] = <<>>
      /\ \A k \in 1..n : Sent(script)[k] = IF k \in Out THEN Sent(script)[k - 1]
                                           ELSE Append(Sent(script)[k - 1], v[k])
  BY <1>1, <1>5, CollectsStep
<1>9. \A k \in 0..n : Sent(script)[k] \in Seq(Sample)
  BY <1>1, <1>5, <1>6, CollectsType
<1> QED
  BY <1>7, <1>8, <1>9

\* The crash marker is observed next after the start of the crash target, once.
Others == {o \in Ops : o.op # "current"}

FirstCurrent(s) ==
    /\ s \in Seq(Ops) /\ Len(s) > 4
    /\ s[2].op = "set" /\ s[2].role = "crash-target"
    /\ \A i \in 1..Len(s) : s[i].op = "current" => i = 3

LEMMA FirstCurrentKept ==
  ASSUME NEW s, FirstCurrent(s), NEW t \in Seq(Others)
  PROVE  FirstCurrent(s \o t)
<1> DEFINE u == s \o t
<1>1. s \in Seq(Ops) /\ t \in Seq(Ops)
  <2>1. Others \subseteq Ops
    BY DEF Others
  <2> QED
    BY <2>1 DEF FirstCurrent
<1>2. /\ u \in Seq(Ops) /\ Len(u) = Len(s) + Len(t) /\ Len(s) \in Nat /\ Len(t) \in Nat
      /\ \A i \in 1..(Len(s) + Len(t)) : u[i] = IF i <= Len(s) THEN s[i] ELSE t[i - Len(s)]
  BY <1>1, ConcatProperties, LenProperties
<1> HIDE DEF u
<1>3. Len(u) > 4 /\ u[2] = s[2]
  BY <1>2 DEF FirstCurrent
<1>4. ASSUME NEW i \in 1..Len(u), u[i].op = "current" PROVE i = 3
  <2>1. CASE i <= Len(s)
    BY <1>2, <1>4, <2>1 DEF FirstCurrent
  <2>2. CASE ~ i <= Len(s)
    <3>1. i - Len(s) \in 1..Len(t) /\ u[i] = t[i - Len(s)]
      BY <1>2, <2>2
    <3>2. t[i - Len(s)] \in Others
      BY <3>1, ElementOfSeq
    <3> QED
      BY <1>4, <3>1, <3>2 DEF Others
  <2> QED
    BY <2>1, <2>2
<1> QED
  BY <1>2, <1>3, <1>4 DEF FirstCurrent, u

\* The crash marker is observed next after the start of the crash target.
LEMMA Currents ==
  ASSUME NEW n \in 1..Len(Script), Script[n].op = "current"
  PROVE  n = 3 /\ Script[2].op = "set" /\ Script[2].role = "crash-target"
<1>1. /\ \A kind \in Kinds \ {Start} : <<Boundary(kind)>> \in Seq(Others)
      /\ \A role \in Roles : Child(role) \in Seq(Others)
  <2>1. \A kind \in Kinds \ {Start} : Boundary(kind) \in Others
    BY OpKinds DEF Boundary, Others
  <2>2. ASSUME NEW role \in Roles PROVE Child(role) \in Seq(Others)
    <3> DEFINE x == [op |-> "set", kind |-> "process-role-start", role |-> role]
               y == [op |-> "clear", kind |-> "none", role |-> "none"]
    <3>1. x \in Others /\ y \in Others
      BY DEF Others, Ops, Start, Kinds, Roles
    <3>2. Child(role) = <<x, y>>
      BY DEF Child
    <3> HIDE DEF x, y
    <3> QED
      BY <3>1, <3>2
  <2>3. \A o \in Others : <<o>> \in Seq(Others)
    OBVIOUS
  <2> QED
    BY <2>1, <2>2, <2>3
<1>2. \A s, t \in Seq(Others) : s \o t \in Seq(Others)
  BY ConcatProperties
<1>3. CASE Script = CleanScript
  <2> DEFINE a == <<Boundary("sampler-start")>>
             b == Child("clean-workload")
             c == Child("verifier")
             d == <<Boundary("post-cleanup")>>
  <2>1. a \in Seq(Others) /\ b \in Seq(Others) /\ c \in Seq(Others) /\ d \in Seq(Others)
    BY <1>1 DEF Kinds, Roles, Start
  <2>2. CleanScript = a \o b \o c \o d
    BY DEF CleanScript
  <2> HIDE DEF a, b, c, d
  <2>3. CleanScript \in Seq(Others)
    BY <1>2, <2>1, <2>2
  <2>4. CleanScript[n] \in Others
    BY <1>3, <2>3, ElementOfSeq
  <2> QED
    BY <1>3, <2>4 DEF Others
<1>4. CASE Script = CrashScript
  <2> DEFINE h == <<Boundary("sampler-start"), Child("crash-target")[1],
                    [op |-> "current", kind |-> "crash-marker-observed", role |-> "none"],
                    Child("crash-target")[2], Boundary("post-crash-state")>>
             b == Child("plain-relaunch")
             c == Child("recovery")
             d == Child("continuation")
             e == Child("verifier")
             f == <<Boundary("post-cleanup")>>
  <2>1. /\ b \in Seq(Others) /\ c \in Seq(Others) /\ d \in Seq(Others)
        /\ e \in Seq(Others) /\ f \in Seq(Others)
    BY <1>1 DEF Kinds, Roles, Start
  <2>2. CrashScript = h \o b \o c \o d \o e \o f
    BY DEF CrashScript
  <2>3. /\ h \in Seq(Ops) /\ Len(h) = 5
        /\ h[1].op # "current" /\ h[4].op # "current" /\ h[5].op # "current"
        /\ h[2].op = "set" /\ h[2].role = "crash-target"
    <3>1. h \in Seq(Ops) /\ Len(h) = 5
      BY OpKinds DEF Kinds, Roles, Start
    <3> QED
      BY <3>1 DEF Boundary, Child
  <2>4. FirstCurrent(h)
    <3>1. \A i \in 1..5 : i \in {1, 2, 3, 4, 5}
      OBVIOUS
    <3> HIDE DEF h
    <3> QED
      BY <2>3, <3>1 DEF FirstCurrent
  <2> HIDE DEF h, b, c, d, e, f
  <2>5. FirstCurrent(h \o b \o c)
    BY <2>1, <2>4, FirstCurrentKept
  <2>6. FirstCurrent(h \o b \o c \o d \o e)
    BY <2>1, <2>5, FirstCurrentKept
  <2>7. FirstCurrent(h \o b \o c \o d \o e \o f)
    BY <2>1, <2>6, FirstCurrentKept
  <2> QED
    BY <1>4, <2>2, <2>7 DEF FirstCurrent
<1> QED
  BY <1>3, <1>4 DEF Script

\* A request is written.
LEMMA Moves ==
  ASSUME NEW T, NEW a \in Seq(T), NEW b \in Seq(T), NEW c \in Seq(T), b # <<>>
  PROVE  Append(a, Head(b)) \o Tail(b) \o c = a \o b \o c
<1> SUFFICES Append(a, Head(b)) \o Tail(b) = a \o b
  OBVIOUS
<1>1. Head(b) \in T /\ Tail(b) \in Seq(T)
  BY HeadTailProperties
<1> DEFINE y == Head(b)
           u == Tail(b)
<1>2. b = <<y>> \o u
  BY ConcatProperties, HeadTailProperties, ConcatSimplifications
<1> HIDE DEF y, u
<1>3. Append(a, y) = a \o <<y>> /\ <<y>> \in Seq(T)
  BY <1>1, AppendIsConcat DEF y
<1>4. (a \o <<y>>) \o u = a \o (<<y>> \o u)
  BY <1>1, <1>3, ConcatAssociative DEF u
<1> QED
  BY <1>2, <1>3, <1>4 DEF y, u

\* One is queued, and all that is queued is taken.
LEMMA Queues ==
  ASSUME NEW T, NEW a \in Seq(T), NEW b \in Seq(T), NEW c \in Seq(T), NEW x \in T
  PROVE  /\ a \o b \o c \in Seq(T)
         /\ a \o b \o Append(c, x) = Append(a \o b \o c, x)
         /\ a \o c \o <<>> = a \o <<>> \o c
         /\ a \o <<>> \o <<>> = a
<1>1. a \o b \in Seq(T) /\ a \o b \o c \in Seq(T)
  BY ConcatProperties
<1>2. a \o b \o Append(c, x) = Append(a \o b \o c, x)
  <2>1. <<x>> \in Seq(T) /\ Append(c, x) = c \o <<x>>
    BY AppendIsConcat
  <2>2. Append(a \o b \o c, x) = (a \o b \o c) \o <<x>>
    BY <1>1, AppendIsConcat
  <2>3. (a \o b) \o (c \o <<x>>) = ((a \o b) \o c) \o <<x>>
    BY <1>1, <2>1, ConcatAssociative
  <2> QED
    BY <2>1, <2>2, <2>3
<1>3. a \o <<>> = a /\ a \o c \o <<>> = a \o c
  BY ConcatProperties, ConcatEmptySeq
<1> QED
  BY <1>1, <1>2, <1>3

\* The observation of the marker finds the crash target.
LEMMA TargetStep ==
  ASSUME TypeInv, TargetInv, [Next]_vars
  PROVE  TargetInv'
<1>1. ASSUME iteration'.pc \notin Phases PROVE TargetInv'
  BY <1>1 DEF TargetInv, Phases
<1>2. ASSUME iteration'.plan = iteration.plan, iteration'.step = iteration.step,
             active' = active, iteration.pc \in Phases,
             iteration'.pc \in {"probe", "push"} /\ Op.op = "current" =>
                iteration'.role = "crash-target"
      PROVE  TargetInv'
  <2>1. Op' = Op
    BY <1>2 DEF Op, Script
  <2> QED
    BY <1>2, <2>1 DEF TargetInv
<1>3. ASSUME FailExecution PROVE TargetInv'
  <2>1. iteration'.pc = "terminal"
    BY <1>3 DEF FailExecution, TypeInv, IterationRecord
  <2> QED
    BY <1>1, <2>1 DEF Phases
<1>4. CASE ExecutionFails
  BY <1>3, <1>4 DEF ExecutionFails
<1>5. CASE Record
  <2>1. CASE failure
    BY <1>3, <1>5, <2>1 DEF Record
  <2>2. CASE ~failure
    <3> DEFINE pc == CASE Op.op = "set" -> "probe" [] Op.op = "current" -> "look"
                       [] OTHER -> "push"
    <3>1. iteration' = [iteration EXCEPT !.role = Op.role, !.pc = pc] /\ UNCHANGED active
      BY <1>5, <2>2 DEF Record, state
    <3>2. Op.op = "current" => pc = "look"
      OBVIOUS
    <3> HIDE DEF pc
    <3>3. /\ iteration'.plan = iteration.plan /\ iteration'.step = iteration.step
          /\ iteration'.pc = pc /\ iteration.pc = "record"
      BY <1>5, <3>1 DEF Record, TypeInv, IterationRecord
    <3> QED
      BY <1>2, <3>1, <3>2, <3>3 DEF Phases
  <2> QED
    BY <2>1, <2>2
<1>6. CASE Look
  <2>1. CASE failure
    BY <1>3, <1>6, <2>1 DEF Look
  <2>2. CASE ~failure
    <3>1. /\ iteration'.plan = iteration.plan /\ iteration'.step = iteration.step
          /\ iteration'.role = active /\ iteration.pc = "look" /\ UNCHANGED active
      BY <1>6, <2>2 DEF Look, state, TypeInv, IterationRecord
    <3> QED
      BY <1>2, <3>1 DEF Phases, TargetInv
  <2> QED
    BY <2>1, <2>2
<1>7. CASE Probe
  <2>1. CASE FailExecution
    BY <1>3, <2>1
  <2>2. CASE iteration' = [iteration EXCEPT !.pc = "push"]
    <3>1. /\ iteration'.plan = iteration.plan /\ iteration'.step = iteration.step
          /\ iteration'.role = iteration.role /\ iteration.pc = "probe" /\ UNCHANGED active
      BY <1>7, <2>2 DEF Probe, state, TypeInv, IterationRecord
    <3> QED
      BY <1>2, <3>1 DEF Phases, TargetInv
  <2> QED
    BY <1>7, <2>1, <2>2 DEF Probe
<1>8. CASE Push
  <2>1. CASE failure
    BY <1>3, <1>8, <2>1 DEF Push
  <2>2. CASE ~failure
    <3>1. /\ iteration'.plan = iteration.plan
          /\ iteration.step = Len(Script) => iteration'.pc = "terminal"
          /\ iteration.step # Len(Script) => iteration'.step = iteration.step + 1
          /\ iteration'.pc \in {"terminal", "record"}
      BY <1>8, <2>2 DEF Push, Continue, TypeInv, IterationRecord
    <3>2. CASE iteration.step = Len(Script)
      BY <1>1, <3>1, <3>2 DEF Phases
    <3>3. CASE iteration.step # Len(Script)
      <4>1. Op' = Script[iteration.step + 1] /\ iteration.step + 1 \in 1..Len(Script)
        <5>1. Len(Script) \in Nat /\ iteration.step \in 1..Len(Script) /\ Script' = Script
          BY <3>1, OpType, SamePlan DEF TypeInv
        <5> QED
          BY <3>1, <3>3, <5>1 DEF Op
      <4>2. ASSUME Op'.op = "current" PROVE active' = "crash-target"
        <5>1. /\ iteration.step + 1 = 3
              /\ Script[2].op = "set" /\ Script[2].role = "crash-target"
          BY <4>1, <4>2, Currents
        <5>2. Op = Script[2]
          BY <5>1, OpType DEF Op, TypeInv
        <5> QED
          BY <1>8, <2>2, <5>1, <5>2 DEF Push
      <4> QED
        BY <3>1, <4>2 DEF TargetInv
    <3> QED
      BY <3>2, <3>3
  <2> QED
    BY <2>1, <2>2
<1>9. CASE EnqueueTerminal \/ StopSampler \/ Finish
  <2>1. iteration'.pc \in {"stop", "join", "done"}
    BY <1>9 DEF EnqueueTerminal, StopSampler, Finish, TypeInv, IterationRecord
  <2> QED
    BY <1>1, <2>1 DEF Phases
<1>10. CASE Sampler \/ UNCHANGED vars
  <2>1. UNCHANGED <<active, iteration>>
    BY <1>10 DEF Sampler, Drain, Collect, Periodic, CollectFails, Leave, FailSampler, vars, state
  <2>2. Op' = Op
    BY <2>1 DEF Op, Script
  <2> QED
    BY <2>1, <2>2 DEF TargetInv
<1> QED
  BY <1>4, <1>5, <1>6, <1>7, <1>8, <1>9, <1>10 DEF Next, Iteration, Done

\* The sampler loses, adds and reorders nothing.
LEMMA WayKept ==
  ASSUME TypeInv, EndInv, Sampler
  PROVE  OnTheWay' = OnTheWay
<1> DEFINE B == BoundarySamples(samples)
<1>0. /\ samples \in Seq(Sample) /\ sampler.batch \in Seq(Sample) /\ boundaries \in Seq(Sample)
      /\ B \in Seq(Sample)
  <2>1. sampler.batch \in Requests /\ boundaries \in Requests /\ samples \in Seq(Sample)
    BY DEF TypeInv, SamplerRecord
  <2>2. <<"periodic", "none">> \in Sample
    BY DEF Sample, Roles
  <2> QED
    BY <2>1, <2>2, RequestsAreSamples, SampleAdds
<1>1. CASE Drain
  <2>1. /\ sampler.batch = <<>> /\ sampler'.batch = boundaries /\ boundaries' = <<>>
        /\ UNCHANGED samples
    BY <1>1 DEF Drain, EndInv, TypeInv, SamplerRecord
  <2>2. <<"periodic", "none">> \in Sample
    BY DEF Sample, Roles
  <2>3. B \o boundaries \o <<>> = B \o <<>> \o boundaries
    BY <1>0, <2>2, Queues
  <2> QED
    BY <2>1, <2>3 DEF OnTheWay
<1>2. CASE Collect
  <2>1. /\ sampler.batch # <<>> /\ sampler'.batch = Tail(sampler.batch)
        /\ samples' = Append(samples, Head(sampler.batch)) /\ UNCHANGED boundaries
        /\ sampler.batch \in Seq(Kinds \X Roles)
    BY <1>2 DEF Collect, TypeInv, SamplerRecord, state, Requests
  <2>2. Head(sampler.batch) \in Kinds \X Roles
    BY <2>1, HeadTailProperties
  <2>3. Head(sampler.batch) \in Sample /\ Head(sampler.batch)[1] # "periodic"
    BY <2>2 DEF Sample, Kinds
  <2>4. BoundarySamples(samples') = Append(B, Head(sampler.batch))
    BY <1>0, <2>1, <2>3, SampleAdds
  <2>5. Append(B, Head(sampler.batch)) \o Tail(sampler.batch) \o boundaries
           = B \o sampler.batch \o boundaries
    <3> DEFINE b == sampler.batch
               c == boundaries
    <3>1. B \in Seq(Sample) /\ b \in Seq(Sample) /\ c \in Seq(Sample) /\ b # <<>>
      BY <1>0, <2>1
    <3> HIDE DEF B, b, c
    <3>2. Append(B, Head(b)) \o Tail(b) \o c = B \o b \o c
      BY <3>1, Moves
    <3> QED
      BY <3>2 DEF b, c
  <2> QED
    BY <2>1, <2>4, <2>5 DEF OnTheWay
<1>3. CASE Periodic
  <2>1. /\ sampler'.batch = sampler.batch /\ UNCHANGED boundaries
        /\ samples' = samples \/ samples' = Append(samples, <<"periodic", ActiveThen>>)
        /\ <<"periodic", ActiveThen>> \in Sample
    BY <1>3 DEF Periodic, SamplerGoto, TypeInv, SamplerRecord, state, Sample, ActiveThen
  <2>2. BoundarySamples(samples') = B
    <3> DEFINE x == <<"periodic", ActiveThen>>
    <3>1. x[1] = "periodic"
      OBVIOUS
    <3> HIDE DEF x
    <3> QED
      BY <1>0, <2>1, <3>1, SampleAdds DEF x
  <2> QED
    BY <2>1, <2>2 DEF OnTheWay
<1>4. CASE CollectFails \/ Leave \/ FailSampler
  <2>1. sampler'.batch = sampler.batch /\ UNCHANGED <<boundaries, samples>>
    BY <1>4 DEF CollectFails, Leave, FailSampler, SamplerGoto, TypeInv, SamplerRecord, state
  <2> QED
    BY <2>1 DEF OnTheWay
<1> QED
  BY <1>1, <1>2, <1>3, <1>4 DEF Sampler

\* What is sent is on its way.
LEMMA SentStep ==
  ASSUME TypeInv, EndInv, NamesInv, TargetInv, SentInv, [Next]_vars
  PROVE  SentInv'
<1> DEFINE B == BoundarySamples(samples)
           Terminal == <<"terminal-success", "none">>
<1>0. /\ samples \in Seq(Sample) /\ sampler.batch \in Seq(Sample) /\ boundaries \in Seq(Sample)
      /\ B \in Seq(Sample) /\ Terminal \in Sample
  <2>1. sampler.batch \in Requests /\ boundaries \in Requests /\ samples \in Seq(Sample)
    BY DEF TypeInv, SamplerRecord
  <2>2. <<"terminal-success", "none">> \in Sample
    BY DEF Sample, Roles, Kinds
  <2> QED
    BY <2>1, <2>2, RequestsAreSamples, SampleAdds
<1>a. \A x \in Sample : B \o sampler.batch \o Append(boundaries, x)
                              = Append(B \o sampler.batch \o boundaries, x)
  <2> DEFINE b == sampler.batch
             c == boundaries
  <2>1. B \in Seq(Sample) /\ b \in Seq(Sample) /\ c \in Seq(Sample)
    BY <1>0
  <2> HIDE DEF B, b, c
  <2>2. ASSUME NEW x \in Sample PROVE B \o b \o Append(c, x) = Append(B \o b \o c, x)
    BY <2>1, <2>2, Queues
  <2> QED
    BY <2>2 DEF b, c
<1>1. ASSUME UNCHANGED <<boundaries, sampler, samples>>
      PROVE  OnTheWay' = OnTheWay
  BY <1>1 DEF OnTheWay
<1>2. ASSUME iteration'.plan = iteration.plan PROVE Script' = Script /\ Expected' = Expected
  BY <1>2 DEF Script, Expected
<1>3. ASSUME FailExecution PROVE SentInv'
  <2>1. iteration'.pc = "terminal" /\ iteration'.ok = FALSE
    BY <1>3 DEF FailExecution, TypeInv, IterationRecord
  <2> QED
    BY <2>1 DEF SentInv, Phases
<1>4. ASSUME iteration'.plan = iteration.plan, iteration'.step = iteration.step,
             iteration.pc \in Phases, iteration'.pc \in Phases, OnTheWay' = OnTheWay
      PROVE  SentInv'
  BY <1>2, <1>4 DEF SentInv, Phases
<1>5. CASE ExecutionFails
  BY <1>3, <1>5 DEF ExecutionFails
<1>6. CASE Record
  <2>1. CASE failure
    BY <1>3, <1>6, <2>1 DEF Record
  <2>2. CASE ~failure
    <3> DEFINE pc == CASE Op.op = "set" -> "probe" [] Op.op = "current" -> "look"
                       [] OTHER -> "push"
    <3>1. /\ iteration' = [iteration EXCEPT !.role = Op.role, !.pc = pc]
          /\ UNCHANGED <<boundaries, sampler, samples>>
      BY <1>6, <2>2 DEF Record, state
    <3>2. pc \in {"probe", "look", "push"}
      OBVIOUS
    <3> HIDE DEF pc
    <3>3. /\ iteration'.plan = iteration.plan /\ iteration'.step = iteration.step
          /\ iteration'.pc = pc /\ iteration.pc = "record"
      BY <1>6, <3>1 DEF Record, TypeInv, IterationRecord
    <3> QED
      BY <1>1, <1>4, <3>1, <3>2, <3>3 DEF Phases
  <2> QED
    BY <2>1, <2>2
<1>7. CASE Look
  <2>1. CASE failure
    BY <1>3, <1>7, <2>1 DEF Look
  <2>2. CASE ~failure
    <3>1. /\ iteration'.plan = iteration.plan /\ iteration'.step = iteration.step
          /\ iteration'.pc = "probe" /\ iteration.pc = "look"
          /\ UNCHANGED <<boundaries, sampler, samples>>
      BY <1>7, <2>2 DEF Look, state, TypeInv, IterationRecord
    <3> QED
      BY <1>1, <1>4, <3>1 DEF Phases
  <2> QED
    BY <2>1, <2>2
<1>8. CASE Probe
  <2>1. CASE FailExecution
    BY <1>3, <2>1
  <2>2. CASE iteration' = [iteration EXCEPT !.pc = "push"]
    <3>1. /\ iteration'.plan = iteration.plan /\ iteration'.step = iteration.step
          /\ iteration'.pc = "push" /\ iteration.pc = "probe"
          /\ UNCHANGED <<boundaries, sampler, samples>>
      BY <1>8, <2>2 DEF Probe, state, TypeInv, IterationRecord
    <3> QED
      BY <1>1, <1>4, <3>1 DEF Phases
  <2> QED
    BY <1>8, <2>1, <2>2 DEF Probe
<1>9. CASE Push
  <2>1. CASE failure
    BY <1>3, <1>9, <2>1 DEF Push
  <2>2. CASE ~failure
    <3> DEFINE k == iteration.step
               n == Len(Script)
    <3>1. /\ iteration'.plan = iteration.plan /\ iteration.pc = "push"
          /\ k = n => iteration'.pc = "terminal" /\ iteration'.step = k
          /\ k # n => iteration'.pc = "record" /\ iteration'.step = k + 1
          /\ UNCHANGED <<sampler, samples>>
          /\ boundaries' = IF Op.op = "clear" THEN boundaries ELSE Append(boundaries, Request)
      BY <1>9, <2>2 DEF Push, Continue, TypeInv, IterationRecord
    <3>2. /\ Script' = Script /\ Expected' = Expected /\ Script \in Seq(Ops) /\ Op \in Ops
          /\ k \in 1..n /\ n \in Nat /\ Op = Script[k]
      BY <1>2, <3>1, OpType DEF TypeInv, Op
    <3>3. OnTheWay = Sent(Script)[k - 1]
      BY <3>1 DEF SentInv, Phases
    <3>4. Op.op # "clear" => Request = RequestOf(Op) /\ Request \in Sample
      <4>1. Op.op = "set" => iteration.role = Op.role
        BY <3>1 DEF NamesInv
      <4>2. Op.op = "current" => iteration.role = "crash-target"
        BY <3>1 DEF TargetInv
      <4>3. Op.op # "clear" => Request = RequestOf(Op)
        BY <3>2, <4>1, <4>2 DEF Request, RequestOf, Ops
      <4>4. Op.op # "clear" => Request \in Sample
        BY RequestType DEF Sample
      <4> QED
        BY <4>3, <4>4
    <3>5. OnTheWay' = IF Op.op = "clear" THEN OnTheWay ELSE Append(OnTheWay, RequestOf(Op))
      <4>1. CASE Op.op = "clear"
        BY <3>1, <4>1 DEF OnTheWay
      <4>2. CASE Op.op # "clear"
        <5> DEFINE x == RequestOf(Op)
        <5>1. boundaries' = Append(boundaries, x) /\ x \in Sample
          BY <3>1, <3>4, <4>2
        <5> HIDE DEF x
        <5>2. B \o sampler.batch \o Append(boundaries, x)
                 = Append(B \o sampler.batch \o boundaries, x)
          BY <1>a, <5>1
        <5>3. OnTheWay' = Append(OnTheWay, x)
          BY <3>1, <5>1, <5>2 DEF OnTheWay
        <5> QED
          BY <4>2, <5>3 DEF x
      <4> QED
        BY <4>1, <4>2
    <3>6. Sent(Script)[k] = IF Op.op = "clear" THEN Sent(Script)[k - 1]
                            ELSE Append(Sent(Script)[k - 1], RequestOf(Op))
      BY <3>2, SentIs
    <3>7. OnTheWay' = Sent(Script)[k]
      BY <3>3, <3>5, <3>6
    <3>8. CASE k = n
      BY <3>1, <3>2, <3>7, <3>8 DEF SentInv, Phases, Expected
    <3>9. CASE k # n
      <4>1. (k + 1) - 1 = k
        BY <3>2
      <4> QED
        BY <3>1, <3>2, <3>7, <3>9, <4>1 DEF SentInv, Phases
    <3> QED
      BY <3>8, <3>9
  <2> QED
    BY <2>1, <2>2
<1>10. CASE EnqueueTerminal
  <2>1. /\ iteration'.ok = iteration.ok /\ iteration'.plan = iteration.plan
        /\ iteration'.pc = "stop" /\ iteration'.error = failure /\ iteration.pc = "terminal"
        /\ UNCHANGED <<sampler, samples>>
        /\ ~failure /\ iteration.ok => boundaries' = Append(boundaries, Terminal)
    BY <1>10 DEF EnqueueTerminal, TypeInv, IterationRecord, TerminalKind
  <2>2. ASSUME ~failure, iteration.ok
        PROVE  OnTheWay' = Append(Expected, Terminal)
    <3>1. OnTheWay = Expected
      BY <2>1, <2>2 DEF SentInv
    <3>2. B \o sampler.batch \o Append(boundaries, Terminal)
             = Append(B \o sampler.batch \o boundaries, Terminal)
      BY <1>0, <1>a DEF Terminal
    <3> QED
      BY <2>1, <2>2, <3>1, <3>2 DEF OnTheWay
  <2> QED
    BY <1>2, <2>1, <2>2 DEF SentInv, Phases
<1>11. CASE StopSampler \/ Finish
  <2>1. /\ iteration'.ok = iteration.ok /\ iteration'.plan = iteration.plan
        /\ iteration'.pc \in {"join", "done"} /\ iteration'.error = iteration.error
        /\ iteration.pc \in {"stop", "join"} /\ UNCHANGED <<boundaries, sampler, samples>>
    BY <1>11 DEF StopSampler, Finish, TypeInv, IterationRecord, state
  <2> QED
    BY <1>1, <1>2, <2>1 DEF SentInv, Phases
<1>12. CASE Sampler \/ UNCHANGED vars
  <2>1. UNCHANGED iteration
    BY <1>12 DEF Sampler, Drain, Collect, Periodic, CollectFails, Leave, FailSampler, vars
  <2>2. OnTheWay' = OnTheWay
    BY <1>1, <1>12, WayKept DEF vars
  <2> QED
    BY <1>2, <2>1, <2>2 DEF SentInv
<1> QED
  BY <1>5, <1>6, <1>7, <1>8, <1>9, <1>10, <1>11, <1>12 DEF Next, Iteration, Done

\* set_process, enqueue_boundary, enqueue_terminal and run_sampler: an iteration
\* is recorded as a success only with a sample of each of its boundaries and of
\* its end, once and in the order in which they were requested, whatever the
\* sampler was doing when the requests came.
THEOREM FullySampled == Spec => []SuccessIsFullySampled
<1> DEFINE I == TypeInv /\ EndInv /\ NamesInv /\ TargetInv /\ SentInv
<1>1. Init => I
  <2> SUFFICES ASSUME Init PROVE I
    OBVIOUS
  <2>1. TypeInv /\ EndInv
    BY InitEnd
  <2>2. /\ iteration.pc = "record" /\ iteration.step = 1 /\ active = "none"
        /\ sampler.pc = "drain" /\ samples = <<>> /\ boundaries = <<>> /\ sampler.batch = <<>>
    BY DEF Init
  <2>3. NamesInv
    BY <2>2 DEF NamesInv
  <2>4. TargetInv
    <3>1. Op.op # "current"
      <4>1. iteration.step \in 1..Len(Script) /\ iteration.step # 3
        BY <2>1, <2>2 DEF TypeInv
      <4> QED
        BY <4>1, Currents DEF Op
    <3> QED
      BY <3>1 DEF TargetInv
  <2>5. SentInv
    <3>1. OnTheWay = <<>>
      <4>1. <<>> \o <<>> \o <<>> = <<>>
        OBVIOUS
      <4> QED
        BY <2>2, <4>1, NothingSampled DEF OnTheWay
    <3>2. Sent(Script)[iteration.step - 1] = <<>>
      <4>1. Script \in Seq(Ops) /\ iteration.step - 1 = 0
        BY <2>1, <2>2, OpType
      <4> QED
        BY <4>1, SentIs
    <3> QED
      BY <2>2, <3>1, <3>2 DEF SentInv
  <2> QED
    BY <2>1, <2>3, <2>4, <2>5
<1>2. I /\ [Next]_vars => I'
  BY TypeStep, EndStep, NamesStep, TargetStep, SentStep
<1>3. I => SuccessIsFullySampled
  <2> SUFFICES ASSUME I, iteration.outcome = "success"
               PROVE  BoundarySamples(samples) = Append(Expected, <<"terminal-success", "none">>)
    BY DEF SuccessIsFullySampled
  <2>1. /\ iteration.pc = "done" /\ iteration.ok /\ ~iteration.error
        /\ boundaries = <<>> /\ sampler.batch = <<>>
    BY DEF EndInv
  <2>2. OnTheWay = Append(Expected, <<"terminal-success", "none">>)
    BY <2>1 DEF SentInv
  <2>3. OnTheWay = BoundarySamples(samples)
    <3> DEFINE B == BoundarySamples(samples)
    <3>1. samples \in Seq(Sample) /\ <<"periodic", "none">> \in Sample
      BY DEF TypeInv, Sample, Roles
    <3>2. B \in Seq(Sample)
      BY <3>1, SampleAdds
    <3> HIDE DEF B
    <3>3. B \o <<>> \o <<>> = B
      BY <3>2, ConcatEmptySeq
    <3> QED
      BY <2>1, <3>3 DEF OnTheWay, B
  <2> QED
    BY <2>2, <2>3
<1> QED
  BY <1>1, <1>2, <1>3, PTL DEF Spec
=============================================================================
