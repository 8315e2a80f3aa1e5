----------------------- MODULE EnduranceEvidence_proof -----------------------
(***************************************************************************)
(* What the endurance evidence keeps, for any bounds, floors and batch     *)
(* sizes: with any number of controllers the frontier covers delivered     *)
(* imports only and no sequence is recorded twice; with one controller the *)
(* sequences run once and in order, an accepted campaign has reached its   *)
(* floors, and the evidence implements the ledger.                         *)
(***************************************************************************)
EXTENDS EnduranceEvidence, WellFoundedInduction, TLAPS

\* The points of a recorded iteration.
Recording ==
    {"begin", "work", "record", "succeed", "publish", "announce", "fail",
     "publish-failure", "announce-failure"}

Opening == {"open", "create", "open-log"}

\* A process record has its type, iterations only run when they were asked
\* for, and a driver counts down from a positive number.
Fit(r) ==
    /\ r \in Proc
    /\ r.pc \in Recording \union {"guard"} => r.goal = "select"
    /\ r.pc \in Opening => r.goal # "confirm"
    /\ (r.goal = "select" /\ r.cmd \notin {"recorded", "next"}) => r.left > 0

TypeInv == TypeOK /\ \A p \in Procs : Fit(proc[p])

-----------------------------------------------------------------------------
(* The frontier.                                                           *)

\* The recorded successes without a gap are those up to n.
FrontierIs(l, f, n) ==
    /\ n \in 0..MaxSeq
    /\ \A s \in 1..n : Recorded(l, f, s)
    /\ n < MaxSeq => ~ Recorded(l, f, n + 1)

LEMMA SmallestOf ==
  ASSUME NEW S, S \in SUBSET Nat, S # {}
  PROVE  \E k \in S : \A j \in S : k <= j
<1>1. \E k \in S : \A j \in S : <<j, k>> \notin OpToRel(<, Nat)
  BY NatLessThanWellFounded, WFMin
<1>2. \A j \in S, k \in S : <<j, k>> \notin OpToRel(<, Nat) => k <= j
  BY DEF OpToRel
<1> QED BY <1>1, <1>2

\* There is exactly one such n, and a reader finds it.
LEMMA FrontierFound ==
  ASSUME NEW l, NEW f
  PROVE  FrontierIs(l, f, Frontier(l, f))
<1> DEFINE S == {n \in 0..MaxSeq : n < MaxSeq => ~ Recorded(l, f, n + 1)}
<1>1. MaxSeq \in Nat
  BY EvidenceAssumption
<1>2. MaxSeq \in S /\ S \in SUBSET Nat
  BY <1>1
<1>3. PICK k \in S : \A j \in S : k <= j
  BY <1>2, SmallestOf
<1>4. ASSUME NEW s \in 1..k PROVE Recorded(l, f, s)
  <2>1. s - 1 \in 0..MaxSeq /\ s - 1 < k /\ s - 1 < MaxSeq /\ (s - 1) + 1 = s
    BY <1>1, <1>3
  <2> QED
    BY <1>1, <1>3, <2>1
<1>5. \E n \in 0..MaxSeq :
         /\ \A s \in 1..n : Recorded(l, f, s)
         /\ n < MaxSeq => ~ Recorded(l, f, n + 1)
  BY <1>3, <1>4
<1> QED
  BY <1>5 DEF Frontier, FrontierIs

LEMMA FrontierUnique ==
  ASSUME NEW l, NEW f, NEW n, FrontierIs(l, f, n)
  PROVE  Frontier(l, f) = n
<1> DEFINE m == Frontier(l, f)
<1>1. FrontierIs(l, f, m)
  BY FrontierFound
<1>2. MaxSeq \in Nat /\ n \in 0..MaxSeq /\ m \in 0..MaxSeq
  BY <1>1, EvidenceAssumption DEF FrontierIs
<1> HIDE DEF m
<1>3. ASSUME m < n PROVE FALSE
  <2>1. m + 1 \in 1..n /\ m < MaxSeq
    BY <1>2, <1>3
  <2> QED
    BY <1>1, <2>1 DEF FrontierIs
<1>4. ASSUME n < m PROVE FALSE
  <2>1. n + 1 \in 1..m /\ n < MaxSeq
    BY <1>2, <1>4
  <2> QED
    BY <1>1, <2>1 DEF FrontierIs
<1>5. m = n
  BY <1>2, <1>3, <1>4
<1> QED
  BY <1>5 DEF m

LEMMA StatusType ==
  ASSUME NEW l, NEW f
  PROVE  [state |-> State(l, f), frontier |-> Frontier(l, f)] \in Statuses
<1>1. Frontier(l, f) \in 0..MaxSeq
  BY FrontierFound DEF FrontierIs
<1>2. State(l, f) \in {"ready", "incomplete", "failure", "inconsistent"}
  BY DEF State
<1> QED
  BY <1>1, <1>2 DEF Statuses

LEMMA ReconcileType == \A l : Reconcile(l) \in Statuses
<1>1. Inconsistent \in Statuses
  BY EvidenceAssumption DEF Inconsistent, Statuses
<1> QED
  BY <1>1, StatusType DEF Reconcile

\* A look finds what a reader concludes, or fails.
LEMMA LooksType ==
  \A l : \A st \in Looks(l) :
     st \in Statuses /\ (st = Reconcile(l) \/ st = Inconsistent)
<1>1. Inconsistent \in Statuses
  BY EvidenceAssumption DEF Inconsistent, Statuses
<1> QED
  BY <1>1, ReconcileType DEF Looks

-----------------------------------------------------------------------------
(* The event log.                                                          *)

LEMMA BumpType == \A n \in 0..2 : Bump(n) \in 0..2 /\ Bump(n) > 0
  BY DEF Bump

LEMMA EmptyLogType ==
  /\ EmptyLog \in Logs
  /\ EmptyLog.begun = {} /\ EmptyLog.tail = "whole"
  /\ \A s \in Seqs : EmptyLog.won[s] = 0 /\ EmptyLog.lost[s] = 0
  BY DEF EmptyLog, Logs

\* A line of each kind, and what it adds.
LEMMA LifecycleLine ==
  ASSUME log \in Logs, NEW s \in Seqs
  PROVE  /\ Lifecycle(s) \in Logs
         /\ Lifecycle(s).begun = log.begun \union {s}
         /\ Lifecycle(s).won = log.won /\ Lifecycle(s).lost = log.lost
  BY DEF Lifecycle, Logs

LEMMA SuccessLine ==
  ASSUME log \in Logs, NEW s \in Seqs
  PROVE  /\ TerminalSuccess(s) \in Logs
         /\ TerminalSuccess(s).begun = log.begun \union {s}
         /\ TerminalSuccess(s).won[s] = Bump(log.won[s])
         /\ \A t \in Seqs \ {s} : TerminalSuccess(s).won[t] = log.won[t]
         /\ TerminalSuccess(s).lost = log.lost
<1> DEFINE w == [log.won EXCEPT ![s] = Bump(@)]
<1>1. /\ w \in [Seqs -> 0..2] /\ w[s] = Bump(log.won[s])
      /\ \A t \in Seqs \ {s} : w[t] = log.won[t]
  BY BumpType DEF Logs
<1>2. /\ log.begun \union {s} \in SUBSET Seqs /\ log.won \in [Seqs -> 0..2]
      /\ log.lost \in [Seqs -> 0..2]
  BY DEF Logs
<1>3. TerminalSuccess(s) = [log EXCEPT !.begun = log.begun \union {s}, !.won = w]
  BY DEF TerminalSuccess, Logs
<1>4. TerminalSuccess(s) = [begun |-> log.begun \union {s}, won |-> w, lost |-> log.lost,
                            tail |-> log.tail]
  <2> HIDE DEF w
  <2> QED
    BY <1>3 DEF Logs
<1>5. log.tail \in {"whole", "cut", "torn"}
  BY DEF Logs
<1> HIDE DEF w
<1> QED
  BY <1>1, <1>2, <1>4, <1>5 DEF Logs

LEMMA FailureLine ==
  ASSUME log \in Logs, NEW s \in Seqs
  PROVE  /\ TerminalFailure(s) \in Logs
         /\ TerminalFailure(s).begun = log.begun \union {s}
         /\ TerminalFailure(s).lost[s] = Bump(log.lost[s])
         /\ \A t \in Seqs \ {s} : TerminalFailure(s).lost[t] = log.lost[t]
         /\ TerminalFailure(s).won = log.won
<1> DEFINE w == [log.lost EXCEPT ![s] = Bump(@)]
<1>1. /\ w \in [Seqs -> 0..2] /\ w[s] = Bump(log.lost[s])
      /\ \A t \in Seqs \ {s} : w[t] = log.lost[t]
  BY BumpType DEF Logs
<1>2. /\ log.begun \union {s} \in SUBSET Seqs /\ log.won \in [Seqs -> 0..2]
      /\ log.lost \in [Seqs -> 0..2]
  BY DEF Logs
<1>3. TerminalFailure(s) = [log EXCEPT !.begun = log.begun \union {s}, !.lost = w]
  BY DEF TerminalFailure, Logs
<1>4. TerminalFailure(s) = [begun |-> log.begun \union {s}, won |-> log.won, lost |-> w,
                            tail |-> log.tail]
  <2> HIDE DEF w
  <2> QED
    BY <1>3 DEF Logs
<1>5. log.tail \in {"whole", "cut", "torn"}
  BY DEF Logs
<1> HIDE DEF w
<1> QED
  BY <1>1, <1>2, <1>4, <1>5 DEF Logs

\* The events of x are those of l.
SameEvents(l, x) == x.begun = l.begun /\ x.won = l.won /\ x.lost = l.lost

\* A whole line is appended to a whole log; anything else tears it.
LEMMA AppendParts ==
  ASSUME NEW l \in Logs, NEW l2 \in Logs
  PROVE  /\ Append(l, l2) \in Logs
         /\ \/ /\ l.tail = "whole" /\ Append(l, l2).tail = "whole"
               /\ SameEvents(l2, Append(l, l2))
            \/ /\ l.tail # "whole" /\ Append(l, l2).tail = "torn"
               /\ SameEvents(l, Append(l, l2))
  BY DEF Append, Logs, SameEvents

LEMMA InterruptedParts ==
  ASSUME NEW l \in Logs, NEW l2 \in Logs, NEW x \in Interrupted(l, l2)
  PROVE  /\ x \in Logs
         /\ \/ /\ x.tail \in {l.tail, "torn"} /\ SameEvents(l, x)
            \/ /\ l.tail = "whole" /\ x.tail \in {"whole", "cut"}
               /\ SameEvents(l2, x)
<1>1. CASE x = l
  BY <1>1 DEF SameEvents
<1>2. CASE x = [l EXCEPT !.tail = "torn"]
  BY <1>2 DEF Logs, SameEvents
<1>3. CASE x = Append(l, l2)
  BY <1>3, AppendParts
<1>4. CASE l.tail = "whole" /\ x = [l2 EXCEPT !.tail = "cut"]
  BY <1>4 DEF Logs, SameEvents
<1> QED
  BY <1>1, <1>2, <1>3, <1>4 DEF Interrupted

LEMMA LineType ==
  ASSUME TypeOK, NEW p \in Procs, Appending(p)
  PROVE  Line(p) \in Logs
<1>1. proc[p].seq \in Seqs /\ log \in Logs
  BY DEF TypeOK, Proc
<1> QED
  BY <1>1, LifecycleLine, SuccessLine, FailureLine DEF Line, At, Appending
-----------------------------------------------------------------------------
(* The records of the processes.                                           *)

\* A process that goes from one point to the next.
LEMMA Goes ==
  ASSUME NEW r \in Proc, NEW pc \in Points, NEW x, x = [r EXCEPT !.pc = pc]
  PROVE  /\ x \in Proc /\ x.pc = pc /\ x.cmd = r.cmd /\ x.goal = r.goal
         /\ x.seq = r.seq /\ x.left = r.left /\ x.status = r.status
         /\ x.expected = r.expected /\ x.started = r.started
         /\ x.seen = r.seen /\ x.stop = r.stop /\ x.elapsed = r.elapsed
  BY DEF Proc

Reasons == {"none", "done", "error", "bound", "disagreement", "resume-blocked",
            "guard-blocked", "accepted"}

LEMMA IdleParts ==
  /\ Idle \in Proc /\ Fit(Idle)
  /\ Idle.pc = "idle" /\ Idle.stop = "none"
<1>1. Inconsistent \in Statuses
  BY EvidenceAssumption DEF Inconsistent, Statuses
<1>2. 1 \in Seqs /\ 0 \in 0..MaxSeq /\ 0 \in 0..MaxClock
  BY EvidenceAssumption DEF Seqs
<1>3. Idle \in Proc
  BY <1>1, <1>2, EmptyLogType DEF Idle, Proc, Points
<1>4. Idle.pc = "idle" /\ Idle.stop = "none" /\ Idle.cmd = "recorded"
  BY DEF Idle
<1> QED
  BY <1>3, <1>4 DEF Fit, Recording, Opening

\* A command as it is issued.
Issued(r) ==
    \/ r.pc = "open" /\ r.cmd = "recorded" /\ r.goal = "select" /\ "recorded" \in Commands
    \/ /\ r.pc = "scan" /\ r.goal = "select" /\ r.left > 0
       /\ r.cmd \in {"next", "batch", "guarded"}
    \/ r.pc = "open" /\ r.cmd = "campaign" /\ r.goal = "initial"

LEMMA StartParts ==
  ASSUME NEW p \in Procs, Start(p), proc \in [Procs -> Proc]
  PROVE  \E r : /\ Fit(r) /\ Issued(r) /\ r.stop = "none"
                /\ proc' = [proc EXCEPT ![p] = r]
<1>1. CASE \E s \in Seqs : /\ proc' = [proc EXCEPT ![p] = [Idle EXCEPT !.pc = "open", !.seq = s]]
                           /\ "recorded" \in Commands
  <2>1. PICK s \in Seqs : /\ proc' = [proc EXCEPT ![p] = [Idle EXCEPT !.pc = "open", !.seq = s]]
                          /\ "recorded" \in Commands
    BY <1>1
  <2> DEFINE r == [Idle EXCEPT !.pc = "open", !.seq = s]
  <2>2. r \in Proc
    BY IdleParts DEF Proc, Points
  <2>3. /\ r.pc = "open" /\ r.cmd = "recorded" /\ r.goal = "select" /\ r.stop = "none"
    BY DEF Idle
  <2> HIDE DEF r
  <2>4. Fit(r) /\ Issued(r)
    BY <2>1, <2>2, <2>3 DEF Fit, Issued, Recording, Opening
  <2> QED
    BY <2>1, <2>3, <2>4 DEF r
<1>2. CASE proc' = [proc EXCEPT ![p] = [Idle EXCEPT !.pc = "scan", !.cmd = "next",
                                                      !.left = 1]]
  <2> DEFINE r == [Idle EXCEPT !.pc = "scan", !.cmd = "next", !.left = 1]
  <2>2. r \in Proc
    BY IdleParts DEF Proc, Points
  <2>3. /\ r.pc = "scan" /\ r.cmd = "next" /\ r.goal = "select" /\ r.stop = "none"
        /\ r.left = 1
    BY DEF Idle
  <2> HIDE DEF r
  <2>4. Fit(r) /\ Issued(r)
    BY <2>2, <2>3 DEF Fit, Issued, Recording, Opening
  <2> QED
    BY <1>2, <2>3, <2>4 DEF r
<1>3. CASE \E cmd \in Commands \intersect {"batch", "guarded"} : \E n \in BatchSizes :
             proc' = [proc EXCEPT ![p] = [Idle EXCEPT !.pc = "scan", !.cmd = cmd,
                                                      !.left = n]]
  <2>1. PICK cmd \in {"batch", "guarded"}, n \in Nat \ {0} :
             proc' = [proc EXCEPT ![p] = [Idle EXCEPT !.pc = "scan", !.cmd = cmd,
                                                      !.left = n]]
    BY <1>3, EvidenceAssumption
  <2> DEFINE r == [Idle EXCEPT !.pc = "scan", !.cmd = cmd, !.left = n]
  <2>2. r \in Proc
    BY IdleParts DEF Proc, Points
  <2>3. /\ r.pc = "scan" /\ r.cmd = cmd /\ r.goal = "select" /\ r.stop = "none"
        /\ r.left = n
    BY DEF Idle
  <2> HIDE DEF r
  <2>4. Fit(r) /\ Issued(r)
    BY <2>2, <2>3 DEF Fit, Issued, Recording, Opening
  <2> QED
    BY <2>1, <2>3, <2>4 DEF r
<1>4. CASE proc' = [proc EXCEPT ![p] = [Idle EXCEPT !.pc = "open", !.cmd = "campaign",
                                                    !.goal = "initial"]]
  <2> DEFINE r == [Idle EXCEPT !.pc = "open", !.cmd = "campaign", !.goal = "initial"]
  <2>2. r \in Proc
    BY IdleParts DEF Proc, Points
  <2>3. /\ r.pc = "open" /\ r.cmd = "campaign" /\ r.goal = "initial" /\ r.stop = "none"
    BY DEF Idle
  <2> HIDE DEF r
  <2>4. Fit(r) /\ Issued(r)
    BY <2>2, <2>3 DEF Fit, Issued, Recording, Opening
  <2> QED
    BY <1>4, <2>3, <2>4 DEF r
<1> QED
  BY <1>1, <1>2, <1>3, <1>4 DEF Start
-----------------------------------------------------------------------------
(* What the steps do to the processes and to the log.                      *)

\* Only process p moves.
Moves(p) ==
    /\ proc' \in [Procs -> Proc]
    /\ \A q \in Procs \ {p} : proc'[q] = proc[q]

\* It stays at the same work.
Keeps(p) ==
    /\ proc'[p].cmd = proc[p].cmd /\ proc'[p].goal = proc[p].goal
    /\ proc'[p].seq = proc[p].seq /\ proc'[p].left = proc[p].left
    /\ proc'[p].expected = proc[p].expected
    /\ proc'[p].elapsed = proc[p].elapsed

LEMMA ProcParts ==
  ASSUME TypeOK, NEW p \in Procs
  PROVE  /\ proc \in [Procs -> Proc] /\ proc[p] \in Proc
         /\ proc[p].pc \in Points /\ proc[p].seq \in Seqs /\ proc[p].left \in Nat
         /\ proc[p].started \in 0..MaxClock /\ proc[p].expected \in 0..MaxSeq
         /\ proc[p].goal \in {"initial", "select", "confirm"}
         /\ proc[p].cmd \in {"recorded", "next", "batch", "guarded", "campaign"}
         /\ proc[p].status \in Statuses /\ proc[p].stop \in Reasons
  BY DEF TypeOK, Proc, Reasons

\* A process that changes to a record of its type.
LEMMA MovesTo ==
  ASSUME TypeOK, NEW p \in Procs, NEW r \in Proc, proc' = [proc EXCEPT ![p] = r]
  PROVE  Moves(p) /\ proc'[p] = r
  BY ProcParts DEF Moves

LEMMA GotoEffect ==
  ASSUME TypeOK, NEW p \in Procs, NEW pc \in Points, Goto(p, pc)
  PROVE  /\ Moves(p) /\ Keeps(p) /\ proc'[p].pc = pc /\ proc'[p].stop = proc[p].stop
         /\ proc'[p].status = proc[p].status /\ proc'[p].seen = proc[p].seen
<1> DEFINE r == [proc[p] EXCEPT !.pc = pc]
<1>1. proc' = [proc EXCEPT ![p] = r]
  BY DEF Goto
<1>2. proc[p] \in Proc
  BY ProcParts
<1>3. r = [proc[p] EXCEPT !.pc = pc]
  OBVIOUS
<1> HIDE DEF r
<1>4. /\ r \in Proc /\ r.pc = pc /\ r.cmd = proc[p].cmd /\ r.goal = proc[p].goal
      /\ r.seq = proc[p].seq /\ r.left = proc[p].left /\ r.status = proc[p].status
      /\ r.expected = proc[p].expected /\ r.seen = proc[p].seen
      /\ r.stop = proc[p].stop /\ r.elapsed = proc[p].elapsed
  BY <1>2, <1>3, Goes
<1> QED
  BY <1>1, <1>4, MovesTo DEF Keeps

LEMMA StopEffect ==
  ASSUME TypeOK, NEW p \in Procs, NEW reason \in Reasons, Stop(p, reason)
  PROVE  /\ Moves(p) /\ Keeps(p) /\ proc'[p].pc = "stopped"
         /\ proc'[p].stop = reason
<1> DEFINE r == [proc[p] EXCEPT !.pc = "stopped", !.stop = reason, !.seen = EmptyLog]
<1>1. proc' = [proc EXCEPT ![p] = r]
  BY DEF Stop
<1>2. proc[p] \in Proc
  BY ProcParts
<1>3. r = [proc[p] EXCEPT !.pc = "stopped", !.stop = reason, !.seen = EmptyLog]
  OBVIOUS
<1> HIDE DEF r
<1>4. /\ r \in Proc /\ r.pc = "stopped" /\ r.cmd = proc[p].cmd /\ r.goal = proc[p].goal
      /\ r.seq = proc[p].seq /\ r.left = proc[p].left /\ r.stop = reason
      /\ r.expected = proc[p].expected /\ r.elapsed = proc[p].elapsed
  BY <1>2, <1>3, EmptyLogType DEF Proc, Points, Reasons
<1> QED
  BY <1>1, <1>4, MovesTo DEF Keeps

\* A driver counts down after an iteration, any other command is done.
LEMMA AfterEffect ==
  ASSUME TypeInv, NEW p \in Procs, At(p, "announce"), AfterIteration(p)
  PROVE  /\ Moves(p) /\ Fit(proc'[p]) /\ proc[p].goal = "select"
         /\ proc'[p].cmd = proc[p].cmd /\ proc'[p].seq = proc[p].seq
         /\ proc'[p].expected = proc[p].expected
         /\ \/ /\ proc[p].cmd \in {"recorded", "next"}
               /\ proc'[p].pc = "stopped" /\ proc'[p].stop = "done"
            \/ /\ proc[p].cmd \notin {"recorded", "next"}
               /\ proc'[p].pc = "scan" /\ proc'[p].stop = proc[p].stop
               /\ proc'[p].goal = (IF proc[p].left = 1 THEN "confirm" ELSE "select")
               /\ proc'[p].left = proc[p].left - 1
<1>1. /\ proc[p].goal = "select" /\ proc[p] \in Proc /\ proc[p].left \in Nat
      /\ proc[p].cmd \notin {"recorded", "next"} => proc[p].left > 0
  BY ProcParts DEF TypeInv, Fit, At, Recording
<1>2. CASE proc[p].cmd \in {"recorded", "next"}
  <2>1. Stop(p, "done")
    BY <1>2 DEF AfterIteration
  <2>2. /\ Moves(p) /\ Keeps(p) /\ proc'[p].pc = "stopped" /\ proc'[p].stop = "done"
    BY <2>1, StopEffect DEF TypeInv, Reasons
  <2>3. Fit(proc'[p])
    BY <1>1, <1>2, <2>2 DEF Fit, Moves, Keeps, Recording, Opening
  <2> QED
    BY <1>1, <1>2, <2>2, <2>3 DEF Keeps
<1>3. CASE proc[p].cmd \notin {"recorded", "next"}
  <2> DEFINE n == proc[p].left - 1
             g == IF proc[p].left = 1 THEN "confirm" ELSE "select"
             r == [proc[p] EXCEPT !.pc = "scan", !.left = n, !.goal = g]
  <2>1. proc' = [proc EXCEPT ![p] = r]
    BY <1>3 DEF AfterIteration
  <2>2. n \in Nat /\ g \in {"initial", "select", "confirm"} /\ (g = "select" => n > 0)
    BY <1>1, <1>3
  <2>3. r = [proc[p] EXCEPT !.pc = "scan", !.left = n, !.goal = g]
    OBVIOUS
  <2> HIDE DEF r
  <2>4. /\ r \in Proc /\ r.pc = "scan" /\ r.cmd = proc[p].cmd /\ r.goal = g
        /\ r.seq = proc[p].seq /\ r.left = n /\ r.expected = proc[p].expected
        /\ r.stop = proc[p].stop
    <3> HIDE DEF n, g
    <3> QED
      BY <1>1, <2>2, <2>3 DEF Proc, Points
  <2>5. Moves(p) /\ proc'[p] = r
    BY <2>1, <2>4, MovesTo DEF TypeInv
  <2>6. Fit(r)
    BY <2>2, <2>4 DEF Fit, Recording, Opening
  <2> QED
    BY <1>1, <1>3, <2>4, <2>5, <2>6
<1> QED
  BY <1>2, <1>3

\* A command that opens the store goes on to its first look, to the iteration
\* or to a failure.
LEMMA OpenEffect ==
  ASSUME TypeInv, NEW p \in Procs,
         OpenCampaign(p) \/ CreateCampaign(p) \/ OpenLog(p)
  PROVE  /\ Moves(p) /\ Keeps(p) /\ Fit(proc'[p]) /\ proc[p].pc \in Opening
         /\ proc'[p].stop = proc[p].stop
         /\ \/ proc'[p].pc \in {"create", "open-log"} /\ ~ OpenLog(p)
            \/ proc'[p].pc = "scan" /\ proc[p].goal = "initial" /\ OpenLog(p)
            \/ proc'[p].pc \in {"begin", "fail"} /\ proc[p].goal = "select" /\ OpenLog(p)
         /\ OpenLog(p) \/ store' = store \/ (store = "absent" /\ store' = "campaign")
         /\ created' \in 0..MaxClock
         /\ UNCHANGED <<log, files, imported, runs, clock>>
<1>0. proc[p] \in Proc /\ Fit(proc[p]) /\ TypeOK
  BY ProcParts DEF TypeInv
<1>1. CASE OpenCampaign(p)
  <2>1. PICK pc \in {"create", "open-log"}, t \in 0..MaxClock :
          proc' = [proc EXCEPT ![p] = [proc[p] EXCEPT !.pc = pc, !.started = t]]
    <3>1. CASE store = "absent"
      <4>1. proc' = [proc EXCEPT ![p] = [proc[p] EXCEPT !.pc = "create", !.started = clock]]
        BY <1>1, <3>1 DEF OpenCampaign
      <4> QED
        BY <1>0, <4>1 DEF TypeOK
    <3>2. CASE store # "absent"
      <4>1. proc' = [proc EXCEPT ![p] = [proc[p] EXCEPT !.pc = "open-log",
                                                        !.started = StartedAt(p)]]
        BY <1>1, <3>2 DEF OpenCampaign
      <4>2. StartedAt(p) \in 0..MaxClock
        BY <1>0, ProcParts DEF StartedAt, TypeOK
      <4> QED
        BY <4>1, <4>2
    <3> QED
      BY <3>1, <3>2
  <2>2. pc \in Points
    BY DEF Points
  <2> DEFINE r == [proc[p] EXCEPT !.pc = pc, !.started = t]
  <2>3. r = [proc[p] EXCEPT !.pc = pc, !.started = t] /\ proc' = [proc EXCEPT ![p] = r]
    BY <2>1
  <2> HIDE DEF r
  <2>4. /\ r \in Proc /\ r.pc = pc /\ r.cmd = proc[p].cmd /\ r.goal = proc[p].goal
        /\ r.seq = proc[p].seq /\ r.left = proc[p].left
        /\ r.expected = proc[p].expected /\ r.stop = proc[p].stop
        /\ r.elapsed = proc[p].elapsed
    BY <1>0, <2>1, <2>2, <2>3 DEF Proc
  <2>5. Moves(p) /\ proc'[p] = r
    BY <1>0, <2>3, <2>4, MovesTo
  <2>6. proc[p].pc = "open" /\ UNCHANGED <<store, created, log, files, imported, runs, clock>>
    BY <1>1 DEF OpenCampaign, At
  <2>7. Fit(r)
    BY <1>0, <2>4, <2>6 DEF Fit, Recording, Opening
  <2>8. ~ OpenLog(p)
    BY <2>6 DEF OpenLog, At
  <2> QED
    BY <1>0, <2>4, <2>5, <2>6, <2>7, <2>8 DEF Keeps, Opening, TypeOK
<1>2. CASE CreateCampaign(p)
  <2>1. /\ proc[p].pc = "create" /\ Goto(p, "open-log")
        /\ store' = (IF store = "absent" THEN "campaign" ELSE store)
        /\ created' = proc[p].started /\ UNCHANGED <<log, files, imported, runs, clock>>
    BY <1>2 DEF CreateCampaign, At
  <2>2. /\ Moves(p) /\ Keeps(p) /\ proc'[p].pc = "open-log" /\ proc'[p].stop = proc[p].stop
    BY <1>0, <2>1, GotoEffect DEF Points
  <2>3. Fit(proc'[p])
    BY <1>0, <2>1, <2>2 DEF Fit, Moves, Keeps, Recording, Opening
  <2>4. ~ OpenLog(p)
    BY <2>1 DEF OpenLog, At
  <2> QED
    BY <1>0, <2>1, <2>2, <2>3, <2>4, ProcParts DEF Opening
<1>3. CASE OpenLog(p)
  <2>1. PICK pc \in {"scan", "begin", "fail"} :
          /\ Goto(p, pc)
          /\ IF pc = "scan" THEN proc[p].goal = "initial" ELSE proc[p].goal = "select"
    BY <1>3 DEF OpenLog
  <2>2. /\ proc[p].pc = "open-log" /\ UNCHANGED <<created, log, files, imported, runs, clock>>
    BY <1>3 DEF OpenLog, At
  <2>3. /\ Moves(p) /\ Keeps(p) /\ proc'[p].pc = pc /\ proc'[p].stop = proc[p].stop
    BY <1>0, <2>1, GotoEffect DEF Points
  <2>4. Fit(proc'[p])
    BY <1>0, <2>1, <2>3 DEF Fit, Moves, Keeps, Recording, Opening
  <2> QED
    BY <1>0, <1>3, <2>1, <2>2, <2>3, <2>4 DEF Opening, TypeOK
<1> QED
  BY <1>1, <1>2, <1>3

\* An open that fails ends the command; the file may be there all the same.
LEMMA OpenFailsEffect ==
  ASSUME TypeInv, NEW p \in Procs, OpenFails(p)
  PROVE  /\ Moves(p) /\ Keeps(p) /\ Fit(proc'[p]) /\ proc[p].pc \in Opening
         /\ proc'[p].pc = "stopped" /\ proc'[p].stop = "error"
         /\ \/ store' = store
            \/ store = "absent" /\ store' = "campaign"
            \/ proc[p].pc = "open-log" /\ store' = "open"
         /\ store' \in {"absent", "campaign", "open"} /\ created' \in 0..MaxClock
         /\ UNCHANGED <<log, files, imported, runs, clock>>
<1>0. proc[p] \in Proc /\ Fit(proc[p]) /\ TypeOK
  BY ProcParts DEF TypeInv
<1>1. /\ Stop(p, "error") /\ UNCHANGED <<log, files, imported, runs, clock>>
      /\ proc[p].pc \in Opening
  BY DEF OpenFails, Opening
<1>2. /\ \/ store' = store
         \/ store = "absent" /\ store' = "campaign"
         \/ proc[p].pc = "open-log" /\ store' = "open"
      /\ created' = created \/ created' = proc[p].started
  BY DEF OpenFails, At
<1>3. store' \in {"absent", "campaign", "open"} /\ created' \in 0..MaxClock
  BY <1>0, <1>2, ProcParts DEF TypeOK
<1>4. Moves(p) /\ Keeps(p) /\ proc'[p].pc = "stopped" /\ proc'[p].stop = "error"
  BY <1>0, <1>1, StopEffect DEF Reasons
<1>5. Fit(proc'[p])
  BY <1>0, <1>4 DEF Fit, Moves, Keeps, Recording, Opening
<1> QED
  BY <1>1, <1>2, <1>3, <1>4, <1>5

\* A line is written, or what an interrupted write leaves of it.
Writes(p) == Appending(p) /\ log' \in Interrupted(log, Line(p))

LEMMA WriteParts ==
  ASSUME TypeOK, NEW p \in Procs, Writes(p)
  PROVE  /\ log' \in Logs
         /\ \/ log'.tail \in {log.tail, "torn"} /\ SameEvents(log, log')
            \/ /\ log.tail = "whole" /\ log'.tail \in {"whole", "cut"}
               /\ SameEvents(Line(p), log')
  BY LineType, InterruptedParts DEF Writes, TypeOK

\* Every way to write a line is one of them.
LEMMA WriteForms ==
  ASSUME NEW p \in Procs, Appending(p), log' = Append(log, Line(p)) \/ AppendFails(p)
  PROVE  Writes(p)
  BY DEF Writes, AppendFails, Interrupted

\* Only a success at its announcement adds to the successes.
LEMMA WriteWins ==
  ASSUME TypeOK, NEW p \in Procs, Writes(p)
  PROVE  \/ log'.won = log.won
         \/ /\ At(p, "announce") /\ log'.won[proc[p].seq] = Bump(log.won[proc[p].seq])
            /\ \A t \in Seqs \ {proc[p].seq} : log'.won[t] = log.won[t]
<1>1. proc[p].seq \in Seqs /\ log \in Logs
  BY ProcParts DEF TypeOK
<1>2. SameEvents(log, log') \/ SameEvents(Line(p), log')
  BY WriteParts
<1>3. CASE SameEvents(log, log')
  BY <1>3 DEF SameEvents
<1>4. CASE SameEvents(Line(p), log') /\ proc[p].pc \in {"begin", "work", "record"}
  <2>1. Line(p) = Lifecycle(proc[p].seq)
    BY <1>4 DEF Line, At
  <2> QED
    BY <1>1, <1>4, <2>1, LifecycleLine DEF SameEvents
<1>5. CASE SameEvents(Line(p), log') /\ proc[p].pc = "announce"
  <2>1. Line(p) = TerminalSuccess(proc[p].seq)
    BY <1>5 DEF Line, At
  <2> QED
    BY <1>1, <1>5, <2>1, SuccessLine DEF SameEvents, At
<1>6. CASE SameEvents(Line(p), log') /\ proc[p].pc = "announce-failure"
  <2>1. Line(p) = TerminalFailure(proc[p].seq)
    BY <1>6 DEF Line, At
  <2> QED
    BY <1>1, <1>6, <2>1, FailureLine DEF SameEvents
<1> QED
  BY <1>2, <1>3, <1>4, <1>5, <1>6 DEF Writes, Appending
\* A driver reads the log.
LEMMA ScanEffect ==
  ASSUME TypeInv, NEW p \in Procs, ScanEvents(p)
  PROVE  /\ Moves(p) /\ Keeps(p) /\ Fit(proc'[p]) /\ proc[p].pc = "scan"
         /\ proc'[p].pc = "judge" /\ proc'[p].seen = log /\ proc'[p].stop = proc[p].stop
<1> DEFINE r == [proc[p] EXCEPT !.pc = "judge", !.seen = log]
<1>0. proc[p] \in Proc /\ Fit(proc[p]) /\ TypeOK /\ log \in Logs
  BY ProcParts DEF TypeInv, TypeOK
<1>1. proc[p].pc = "scan" /\ proc' = [proc EXCEPT ![p] = r]
  BY DEF ScanEvents, At
<1>2. /\ r \in Proc /\ r.pc = "judge" /\ r.cmd = proc[p].cmd /\ r.goal = proc[p].goal
      /\ r.seq = proc[p].seq /\ r.left = proc[p].left /\ r.expected = proc[p].expected
      /\ r.stop = proc[p].stop /\ r.elapsed = proc[p].elapsed /\ r.seen = log
  BY <1>0 DEF Proc, Points
<1> HIDE DEF r
<1>3. Moves(p) /\ proc'[p] = r
  BY <1>0, <1>1, <1>2, MovesTo
<1>4. Fit(r)
  BY <1>0, <1>2 DEF Fit, Recording, Opening
<1> QED
  BY <1>1, <1>2, <1>3, <1>4 DEF Keeps

\* It stops, or goes to the sequence behind the frontier it found.
LEMMA SelectEffect ==
  ASSUME TypeInv, NEW p \in Procs, Select(p)
  PROVE  /\ Moves(p) /\ Fit(proc'[p]) /\ proc[p].pc = "judge" /\ proc[p].goal = "select"
         /\ proc'[p].cmd = proc[p].cmd /\ proc'[p].goal = "select"
         /\ proc'[p].expected = proc[p].expected /\ proc'[p].left = proc[p].left
         /\ \E st \in Looks(proc[p].seen) :
            \/ \E reason \in {"resume-blocked", "disagreement", "error", "bound"} :
                 /\ proc'[p].pc = "stopped" /\ proc'[p].stop = reason
                 /\ reason # "bound" => st.state # "ready"
                 /\ reason = "disagreement" =>
                       proc[p].cmd = "campaign" /\ st.frontier # proc[p].expected
            \/ /\ st.state = "ready" /\ st.frontier + 1 \in Seqs
               /\ proc'[p].pc \in {"guard", "open"} /\ proc'[p].stop = proc[p].stop
               /\ proc'[p].seq = st.frontier + 1 /\ proc'[p].status = st
<1>0. proc[p] \in Proc /\ Fit(proc[p]) /\ TypeOK
  BY ProcParts DEF TypeInv
<1> DEFINE selected(st) ==
             [proc EXCEPT
               ![p].pc = IF proc[p].cmd \in {"guarded", "campaign"} THEN "guard" ELSE "open",
               ![p].status = st, ![p].seq = Next1(st), ![p].seen = EmptyLog]
<1>look. PICK st \in Looks(proc[p].seen) :
         IF st.state # "ready" THEN StopBefore(p, st, "resume-blocked")
         ELSE IF Next1(st) > MaxSeq THEN Stop(p, "bound")
         ELSE proc' = selected(st)
  BY DEF Select
<1>1. proc[p].pc = "judge" /\ proc[p].goal = "select" /\ st \in Statuses
  BY <1>look, LooksType DEF Select, At
<1>2. ASSUME NEW reason \in {"resume-blocked", "disagreement", "error", "bound"},
             Stop(p, reason)
      PROVE  /\ Moves(p) /\ Fit(proc'[p]) /\ Keeps(p)
             /\ proc'[p].pc = "stopped" /\ proc'[p].stop = reason
  <2>1. /\ Moves(p) /\ Keeps(p) /\ proc'[p].pc = "stopped" /\ proc'[p].stop = reason
    BY <1>0, <1>2, StopEffect DEF Reasons
  <2> QED
    BY <1>0, <2>1 DEF Fit, Moves, Keeps, Recording, Opening
<1>3. CASE st.state # "ready"
  <2>1. StopBefore(p, st, "resume-blocked")
    BY <1>3, <1>look
  <2>2. PICK reason \in {"resume-blocked", "disagreement", "error"} :
          /\ Stop(p, reason)
          /\ reason = "disagreement" =>
                proc[p].cmd = "campaign" /\ st.frontier # proc[p].expected
    <3>1. CASE proc[p].cmd # "campaign"
      BY <2>1, <3>1 DEF StopBefore
    <3>2. CASE proc[p].cmd = "campaign" /\ st.frontier # proc[p].expected
      BY <2>1, <3>2 DEF StopBefore
    <3>3. CASE proc[p].cmd = "campaign" /\ st.frontier = proc[p].expected
      BY <2>1, <3>3 DEF StopBefore
    <3> QED
      BY <3>1, <3>2, <3>3
  <2> QED
    BY <1>1, <1>2, <1>3, <2>2 DEF Keeps
<1>4. CASE st.state = "ready" /\ st.frontier + 1 > MaxSeq
  <2>1. Stop(p, "bound")
    BY <1>4, <1>look DEF Next1
  <2> QED
    BY <1>1, <1>2, <2>1 DEF Keeps
<1>5. CASE st.state = "ready" /\ ~ (st.frontier + 1 > MaxSeq)
  <2> DEFINE pc == IF proc[p].cmd \in {"guarded", "campaign"} THEN "guard" ELSE "open"
             s == st.frontier + 1
             r == [proc[p] EXCEPT !.pc = pc, !.status = st, !.seq = s, !.seen = EmptyLog]
  <2>1. proc' = [proc EXCEPT ![p] = r]
    BY <1>5, <1>look DEF Next1
  <2>2. pc \in {"guard", "open"} /\ s \in Seqs
    BY <1>1, <1>5, EvidenceAssumption DEF Statuses, Seqs
  <2>3. r = [proc[p] EXCEPT !.pc = pc, !.status = st, !.seq = s, !.seen = EmptyLog]
    OBVIOUS
  <2>4. s = st.frontier + 1
    OBVIOUS
  <2> HIDE DEF r, pc, s
  <2>5. /\ r \in Proc /\ r.pc = pc /\ r.cmd = proc[p].cmd /\ r.goal = proc[p].goal
        /\ r.seq = s /\ r.left = proc[p].left /\ r.expected = proc[p].expected
        /\ r.stop = proc[p].stop /\ r.elapsed = proc[p].elapsed /\ r.status = st
    BY <1>0, <1>1, <2>2, <2>3, EmptyLogType DEF Proc, Points
  <2>6. Moves(p) /\ proc'[p] = r
    BY <1>0, <2>1, <2>5, MovesTo
  <2>7. Fit(r)
    BY <1>0, <1>1, <2>5 DEF Fit, Recording, Opening
  <2> QED
    BY <1>1, <1>5, <2>2, <2>4, <2>5, <2>6, <2>7
<1> QED
  BY <1>3, <1>4, <1>5

LEMMA GuardEffect ==
  ASSUME TypeInv, NEW p \in Procs, Guard(p)
  PROVE  /\ Moves(p) /\ Fit(proc'[p]) /\ Keeps(p) /\ proc[p].pc = "guard"
         /\ \/ proc'[p].pc = "open" /\ proc'[p].stop = proc[p].stop
            \/ \E reason \in {"guard-blocked", "disagreement", "error"} :
                 /\ proc'[p].pc = "stopped" /\ proc'[p].stop = reason
                 /\ reason = "disagreement" =>
                       /\ proc[p].cmd = "campaign"
                       /\ proc[p].status.frontier # proc[p].expected
<1>0. proc[p] \in Proc /\ Fit(proc[p]) /\ TypeOK
  BY ProcParts DEF TypeInv
<1>1. proc[p].pc = "guard" /\ proc[p].goal = "select"
  BY <1>0 DEF Guard, At, Fit
<1>2. CASE Goto(p, "open")
  <2>1. /\ Moves(p) /\ Keeps(p) /\ proc'[p].pc = "open" /\ proc'[p].stop = proc[p].stop
    BY <1>0, <1>2, GotoEffect DEF Points
  <2>2. Fit(proc'[p])
    BY <1>0, <1>1, <2>1 DEF Fit, Moves, Keeps, Recording, Opening
  <2> QED
    BY <1>1, <2>1, <2>2
<1>3. CASE StopBefore(p, proc[p].status, "guard-blocked")
  <2>1. PICK reason \in {"guard-blocked", "disagreement", "error"} :
          /\ Stop(p, reason)
          /\ reason = "disagreement" =>
                /\ proc[p].cmd = "campaign"
                /\ proc[p].status.frontier # proc[p].expected
    <3>1. CASE proc[p].cmd # "campaign"
      BY <1>3, <3>1 DEF StopBefore
    <3>2. CASE proc[p].cmd = "campaign" /\ proc[p].status.frontier # proc[p].expected
      BY <1>3, <3>2 DEF StopBefore
    <3>3. CASE proc[p].cmd = "campaign" /\ proc[p].status.frontier = proc[p].expected
      BY <1>3, <3>3 DEF StopBefore
    <3> QED
      BY <3>1, <3>2, <3>3
  <2>2. /\ Moves(p) /\ Keeps(p) /\ proc'[p].pc = "stopped" /\ proc'[p].stop = reason
    BY <1>0, <2>1, StopEffect DEF Reasons
  <2>3. Fit(proc'[p])
    BY <1>0, <1>1, <2>2 DEF Fit, Moves, Keeps, Recording, Opening
  <2> QED
    BY <1>1, <2>1, <2>2, <2>3
<1> QED
  BY <1>2, <1>3 DEF Guard

\* The last look of a batch, and a look of a campaign.
LEMMA LookEffect ==
  ASSUME TypeInv, NEW p \in Procs, FinishBatch(p) \/ LookAround(p)
  PROVE  /\ Moves(p) /\ Fit(proc'[p]) /\ Keeps(p) /\ proc[p].pc = "judge"
         /\ proc[p].goal # "select"
         /\ \/ proc'[p].pc = "stopped" /\ proc'[p].stop = "done"
            \/ /\ proc'[p].pc = "check" /\ proc'[p].stop = proc[p].stop
               /\ proc'[p].status \in Looks(proc[p].seen) /\ proc[p].cmd = "campaign"
<1>0. proc[p] \in Proc /\ Fit(proc[p]) /\ TypeOK
  BY ProcParts DEF TypeInv
<1>1. proc[p].pc = "judge" /\ proc[p].goal # "select"
  BY DEF FinishBatch, LookAround, At
<1>2. CASE FinishBatch(p)
  <2>look. PICK st \in Looks(proc[p].seen) :
           proc' = [proc EXCEPT ![p].pc = "stopped", ![p].stop = "done",
                                ![p].status = st, ![p].seen = EmptyLog]
    BY <1>2 DEF FinishBatch
  <2>typed. st \in Statuses
    BY LooksType
  <2> DEFINE r == [proc[p] EXCEPT !.pc = "stopped", !.stop = "done", !.status = st,
                                  !.seen = EmptyLog]
  <2>1. proc' = [proc EXCEPT ![p] = r]
    BY <2>look
  <2>2. /\ r \in Proc /\ r.pc = "stopped" /\ r.cmd = proc[p].cmd /\ r.goal = proc[p].goal
        /\ r.seq = proc[p].seq /\ r.left = proc[p].left /\ r.expected = proc[p].expected
        /\ r.stop = "done" /\ r.elapsed = proc[p].elapsed
    BY <1>0, <2>typed, EmptyLogType DEF Proc, Points
  <2> HIDE DEF r
  <2>3. Moves(p) /\ proc'[p] = r
    BY <1>0, <2>1, <2>2, MovesTo
  <2>4. Fit(r)
    BY <1>1, <2>2 DEF Fit, Recording, Opening
  <2> QED
    BY <1>1, <2>2, <2>3, <2>4 DEF Keeps
<1>3. CASE LookAround(p)
  <2>look. PICK st \in Looks(proc[p].seen) :
           proc' = [proc EXCEPT ![p].pc = "check", ![p].status = st, ![p].seen = EmptyLog]
    BY <1>3 DEF LookAround
  <2>typed. st \in Statuses
    BY LooksType
  <2> DEFINE r == [proc[p] EXCEPT !.pc = "check", !.status = st, !.seen = EmptyLog]
  <2>1. proc' = [proc EXCEPT ![p] = r] /\ proc[p].cmd = "campaign"
    BY <1>3, <2>look DEF LookAround
  <2>2. /\ r \in Proc /\ r.pc = "check" /\ r.cmd = proc[p].cmd /\ r.goal = proc[p].goal
        /\ r.seq = proc[p].seq /\ r.left = proc[p].left /\ r.expected = proc[p].expected
        /\ r.stop = proc[p].stop /\ r.elapsed = proc[p].elapsed /\ r.status = st
    BY <1>0, <2>typed, EmptyLogType DEF Proc, Points
  <2> HIDE DEF r
  <2>3. Moves(p) /\ proc'[p] = r
    BY <1>0, <2>1, <2>2, MovesTo
  <2>4. Fit(r)
    BY <1>1, <2>2 DEF Fit, Recording, Opening
  <2> QED
    BY <1>1, <2>1, <2>2, <2>3, <2>4 DEF Keeps
<1> QED
  BY <1>2, <1>3

\* A campaign stops with a verdict or goes on behind its frontier.
LEMMA DecideEffect ==
  ASSUME TypeInv, NEW p \in Procs, Decide(p)
  PROVE  /\ Moves(p) /\ Fit(proc'[p]) /\ proc[p].pc = "check"
         /\ proc'[p].cmd = proc[p].cmd
         /\ \/ /\ proc'[p].pc = "stopped" /\ proc'[p].stop \in {"error", "resume-blocked"}
            \/ /\ proc'[p].pc = "stopped" /\ proc'[p].stop = "disagreement"
               /\ proc[p].goal = "confirm" /\ proc'[p].expected = proc[p].expected
            \/ /\ proc'[p].pc = "stopped" /\ proc'[p].stop = "accepted"
               /\ proc[p].status.state = "ready"
               /\ proc[p].status.frontier >= MinCompleted
               /\ proc'[p].elapsed >= MinElapsed
            \/ /\ proc'[p].pc = "scan" /\ proc'[p].stop = proc[p].stop
               /\ proc'[p].goal = "select" /\ proc'[p].left = 1
               /\ proc[p].status.state = "ready"
               /\ proc'[p].expected = proc[p].status.frontier
<1>0. proc[p] \in Proc /\ Fit(proc[p]) /\ TypeOK /\ proc[p].pc = "check"
  BY ProcParts DEF TypeInv, Decide, At
<1>1. ASSUME NEW reason \in {"disagreement", "error", "resume-blocked"}, Stop(p, reason)
      PROVE  /\ Moves(p) /\ Fit(proc'[p]) /\ Keeps(p)
             /\ proc'[p].pc = "stopped" /\ proc'[p].stop = reason
  <2>1. /\ Moves(p) /\ Keeps(p) /\ proc'[p].pc = "stopped" /\ proc'[p].stop = reason
    BY <1>0, <1>1, StopEffect DEF Reasons
  <2> QED
    BY <1>0, <2>1 DEF Fit, Moves, Keeps, Recording, Opening
<1>2. CASE proc[p].goal = "confirm" /\ ~ StepAgrees(p)
  <2>1. Stop(p, "disagreement")
    BY <1>2 DEF Decide
  <2> QED
    BY <1>0, <1>1, <1>2, <2>1 DEF Keeps
<1>3. CASE ~ (proc[p].goal = "confirm" /\ ~ StepAgrees(p)) /\ clock < proc[p].started
  <2>1. Stop(p, "error")
    BY <1>3 DEF Decide
  <2> QED
    BY <1>0, <1>1, <2>1 DEF Keeps
<1>4. CASE /\ ~ (proc[p].goal = "confirm" /\ ~ StepAgrees(p)) /\ ~ (clock < proc[p].started)
           /\ proc[p].status.state # "ready"
  <2>1. Stop(p, "resume-blocked")
    BY <1>4 DEF Decide
  <2> QED
    BY <1>0, <1>1, <2>1 DEF Keeps
<1>5. CASE /\ ~ (proc[p].goal = "confirm" /\ ~ StepAgrees(p)) /\ ~ (clock < proc[p].started)
           /\ proc[p].status.state = "ready" /\ Floors(p)
  <2> DEFINE t == clock - proc[p].started
             r == [proc[p] EXCEPT !.pc = "stopped", !.stop = "accepted", !.elapsed = t]
  <2>1. proc' = [proc EXCEPT ![p] = r]
    BY <1>5 DEF Decide
  <2>2. t \in 0..MaxClock /\ t >= MinElapsed
    BY <1>0, <1>5, ProcParts, EvidenceAssumption DEF TypeOK, Floors
  <2>3. r = [proc[p] EXCEPT !.pc = "stopped", !.stop = "accepted", !.elapsed = t]
    OBVIOUS
  <2> HIDE DEF r, t
  <2>4. /\ r \in Proc /\ r.pc = "stopped" /\ r.cmd = proc[p].cmd /\ r.goal = proc[p].goal
        /\ r.left = proc[p].left /\ r.stop = "accepted" /\ r.elapsed = t
    BY <1>0, <2>2, <2>3 DEF Proc, Points
  <2>5. Moves(p) /\ proc'[p] = r
    BY <1>0, <2>1, <2>4, MovesTo
  <2>6. Fit(r)
    BY <1>0, <2>4 DEF Fit, Recording, Opening
  <2> QED
    BY <1>0, <1>5, <2>2, <2>4, <2>5, <2>6 DEF Floors
<1>6. CASE /\ ~ (proc[p].goal = "confirm" /\ ~ StepAgrees(p)) /\ ~ (clock < proc[p].started)
           /\ proc[p].status.state = "ready" /\ ~ Floors(p)
  <2> DEFINE n == proc[p].status.frontier
             r == [proc[p] EXCEPT !.pc = "scan", !.goal = "select", !.left = 1,
                                  !.expected = n]
  <2>1. proc' = [proc EXCEPT ![p] = r]
    BY <1>6 DEF Decide
  <2>2. n \in 0..MaxSeq
    BY <1>0, ProcParts DEF Statuses
  <2>3. r = [proc[p] EXCEPT !.pc = "scan", !.goal = "select", !.left = 1, !.expected = n]
    OBVIOUS
  <2> HIDE DEF r, n
  <2>4. /\ r \in Proc /\ r.pc = "scan" /\ r.cmd = proc[p].cmd /\ r.goal = "select"
        /\ r.left = 1 /\ r.expected = n /\ r.stop = proc[p].stop
    BY <1>0, <2>2, <2>3 DEF Proc, Points
  <2>5. Moves(p) /\ proc'[p] = r
    BY <1>0, <2>1, <2>4, MovesTo
  <2>6. Fit(r)
    BY <2>4 DEF Fit, Recording, Opening
  <2> QED
    BY <1>0, <1>6, <2>4, <2>5, <2>6 DEF n
<1> QED
  BY <1>2, <1>3, <1>4, <1>5, <1>6

\* A recorded iteration goes on, or its command stops.
LEMMA RecordingMoves ==
  ASSUME TypeInv, NEW p \in Procs, proc[p].pc \in Recording
  PROVE  /\ \A pc \in Recording : Goto(p, pc) =>
               /\ Moves(p) /\ Keeps(p) /\ Fit(proc'[p])
               /\ proc'[p].pc = pc /\ proc'[p].stop = proc[p].stop
         /\ \A reason \in {"done", "error"} : Stop(p, reason) =>
               /\ Moves(p) /\ Keeps(p) /\ Fit(proc'[p])
               /\ proc'[p].pc = "stopped" /\ proc'[p].stop = reason
<1>0. proc[p] \in Proc /\ Fit(proc[p]) /\ TypeOK /\ proc[p].goal = "select"
  BY ProcParts DEF TypeInv, Fit
<1>1. ASSUME NEW pc \in Recording, Goto(p, pc)
      PROVE  /\ Moves(p) /\ Keeps(p) /\ Fit(proc'[p])
             /\ proc'[p].pc = pc /\ proc'[p].stop = proc[p].stop
  <2>1. /\ Moves(p) /\ Keeps(p) /\ proc'[p].pc = pc /\ proc'[p].stop = proc[p].stop
    <3>1. pc \in Points
      BY DEF Recording, Points
    <3> QED
      BY <1>0, <1>1, <3>1, GotoEffect
  <2> QED
    BY <1>0, <2>1 DEF Fit, Moves, Keeps, Recording, Opening
<1>2. ASSUME NEW reason \in {"done", "error"}, Stop(p, reason)
      PROVE  /\ Moves(p) /\ Keeps(p) /\ Fit(proc'[p])
             /\ proc'[p].pc = "stopped" /\ proc'[p].stop = reason
  <2>1. /\ Moves(p) /\ Keeps(p) /\ proc'[p].pc = "stopped" /\ proc'[p].stop = reason
    BY <1>0, <1>2, StopEffect DEF Reasons
  <2> QED
    BY <1>0, <2>1 DEF Fit, Moves, Keeps, Recording, Opening
<1> QED
  BY <1>1, <1>2

\* The steps of an iteration that write a line, and the point after them.
LEMMA BeginEffect ==
  ASSUME TypeInv, NEW p \in Procs, BeginIteration(p)
  PROVE  /\ Moves(p) /\ Keeps(p) /\ Fit(proc'[p]) /\ proc[p].pc = "begin" /\ Writes(p)
         /\ proc'[p].stop = proc[p].stop
         /\ \/ proc'[p].pc = "work" /\ log' = Append(log, Line(p))
            \/ proc'[p].pc = "fail"
         /\ UNCHANGED <<store, created, files, imported, runs, clock>>
<1>1. proc[p].pc = "begin" /\ proc[p].pc \in Recording /\ Appending(p)
  BY DEF BeginIteration, At, Recording, Appending
<1>2. "work" \in Recording /\ "fail" \in Recording
  BY DEF Recording
<1>3. Writes(p)
  BY <1>1, WriteForms DEF BeginIteration
<1>4. \/ Goto(p, "work") /\ log' = Append(log, Line(p))
      \/ Goto(p, "fail")
  BY DEF BeginIteration
<1>5. UNCHANGED <<store, created, files, imported, runs, clock>>
  BY DEF BeginIteration
<1> QED
  BY <1>1, <1>2, <1>3, <1>4, <1>5, RecordingMoves

LEMMA RunEffect ==
  ASSUME TypeInv, NEW p \in Procs, RunChild(p)
  PROVE  /\ Moves(p) /\ Keeps(p) /\ Fit(proc'[p]) /\ proc[p].pc = "work" /\ Writes(p)
         /\ proc'[p].stop = proc[p].stop
         /\ runs' = [runs EXCEPT ![proc[p].seq] = Bump(@)]
         /\ clock' \in 0..MaxClock
         /\ \/ /\ proc'[p].pc = "record" /\ log' = Append(log, Line(p))
               /\ proc[p].seq \notin imported
               /\ imported' = imported \union {proc[p].seq}
            \/ /\ proc'[p].pc = "fail"
               /\ imported' \in {imported, imported \union {proc[p].seq}}
         /\ UNCHANGED <<store, created, files>>
<1>1. proc[p].pc = "work" /\ proc[p].pc \in Recording /\ Appending(p)
  BY DEF RunChild, At, Recording, Appending
<1>2. "record" \in Recording /\ "fail" \in Recording
  BY DEF Recording
<1>3. Writes(p)
  BY <1>1, WriteForms DEF RunChild
<1>4. \/ /\ Goto(p, "record") /\ log' = Append(log, Line(p))
         /\ proc[p].seq \notin imported /\ imported' = imported \union {proc[p].seq}
      \/ Goto(p, "fail") /\ imported' \in {imported, imported \union {proc[p].seq}}
  BY DEF RunChild, ChildSucceeds
<1>5. /\ runs' = [runs EXCEPT ![proc[p].seq] = Bump(@)] /\ UNCHANGED <<store, created, files>>
      /\ clock' \in 0..MaxClock
  BY EvidenceAssumption DEF RunChild
<1> QED
  BY <1>1, <1>2, <1>3, <1>4, <1>5, RecordingMoves

LEMMA CompletionEffect ==
  ASSUME TypeInv, NEW p \in Procs, RecordCompletion(p)
  PROVE  /\ Moves(p) /\ Keeps(p) /\ Fit(proc'[p]) /\ proc[p].pc = "record" /\ Writes(p)
         /\ proc'[p].stop = proc[p].stop
         /\ \/ proc'[p].pc = "succeed" /\ log' = Append(log, Line(p))
            \/ proc'[p].pc = "fail"
         /\ UNCHANGED <<store, created, files, imported, runs, clock>>
<1>1. proc[p].pc = "record" /\ proc[p].pc \in Recording /\ Appending(p)
  BY DEF RecordCompletion, At, Recording, Appending
<1>2. "succeed" \in Recording /\ "fail" \in Recording
  BY DEF Recording
<1>3. Writes(p)
  BY <1>1, WriteForms DEF RecordCompletion
<1>4. \/ Goto(p, "succeed") /\ log' = Append(log, Line(p))
      \/ Goto(p, "fail")
  BY DEF RecordCompletion
<1>5. UNCHANGED <<store, created, files, imported, runs, clock>>
  BY DEF RecordCompletion
<1> QED
  BY <1>1, <1>2, <1>3, <1>4, <1>5, RecordingMoves

\* The terminal artifacts: staged, published, or the write failed.
LEMMA StageEffect ==
  ASSUME TypeInv, NEW p \in Procs, StageSuccess(p) \/ StageFailure(p)
  PROVE  /\ Moves(p) /\ Keeps(p) /\ Fit(proc'[p])
         /\ \/ /\ proc[p].pc = "succeed" /\ proc'[p].pc = "publish"
               /\ proc'[p].stop = proc[p].stop
            \/ /\ proc[p].pc = "succeed" /\ proc[p].seq \in files.singles
               /\ proc'[p].pc = "stopped" /\ proc'[p].stop = "error"
            \/ /\ proc[p].pc = "fail" /\ proc'[p].pc = "publish-failure"
               /\ proc'[p].stop = proc[p].stop
         /\ UNCHANGED <<store, created, log, files, imported, runs, clock>>
<1>1. proc[p].pc \in Recording
  BY DEF StageSuccess, StageFailure, At, Recording
<1>2. "publish" \in Recording /\ "publish-failure" \in Recording
  BY DEF Recording
<1>3. \/ proc[p].pc = "succeed" /\ Goto(p, "publish")
      \/ proc[p].pc = "succeed" /\ proc[p].seq \in files.singles /\ Stop(p, "error")
      \/ proc[p].pc = "fail" /\ Goto(p, "publish-failure")
  BY DEF StageSuccess, StageFailure, At
<1>4. UNCHANGED <<store, created, log, files, imported, runs, clock>>
  BY DEF StageSuccess, StageFailure
<1> QED
  BY <1>1, <1>2, <1>3, <1>4, RecordingMoves

LEMMA PublishEffect ==
  ASSUME TypeInv, NEW p \in Procs,
         PublishSuccess(p) \/ PublishFailure(p) \/ WriteFails(p)
  PROVE  /\ Moves(p) /\ Keeps(p) /\ Fit(proc'[p])
         /\ \/ /\ proc[p].pc = "publish" /\ proc'[p].pc = "announce"
               /\ proc'[p].stop = proc[p].stop
               /\ files' = [files EXCEPT !.singles = @ \union {proc[p].seq}]
            \/ /\ proc[p].pc = "publish-failure" /\ proc'[p].pc = "announce-failure"
               /\ proc'[p].stop = proc[p].stop
               /\ files' = [files EXCEPT !.failed = @ \union {proc[p].seq}]
            \/ /\ proc[p].pc \in {"publish", "publish-failure"}
               /\ proc'[p].pc = "stopped" /\ proc'[p].stop = "error"
               /\ \/ files' = files
                  \/ files' = [files EXCEPT !.litter = TRUE]
                  \/ /\ proc[p].pc = "publish"
                     /\ files' = [files EXCEPT !.singles = @ \union {proc[p].seq}]
                  \/ /\ proc[p].pc = "publish-failure"
                     /\ files' = [files EXCEPT !.failed = @ \union {proc[p].seq}]
         /\ UNCHANGED <<store, created, log, imported, runs, clock>>
<1>1. proc[p].pc \in {"publish", "publish-failure"} /\ proc[p].pc \in Recording
  BY DEF PublishSuccess, PublishFailure, WriteFails, At, Recording
<1>2. "announce" \in Recording /\ "announce-failure" \in Recording
  BY DEF Recording
<1>3. UNCHANGED <<store, created, log, imported, runs, clock>>
  BY DEF PublishSuccess, PublishFailure, WriteFails
<1>4. CASE PublishSuccess(p)
  <2>1. /\ proc[p].pc = "publish" /\ Goto(p, "announce")
        /\ files' = [files EXCEPT !.singles = @ \union {proc[p].seq}]
    BY <1>4 DEF PublishSuccess, At
  <2> QED
    BY <1>1, <1>2, <1>3, <2>1, RecordingMoves
<1>5. CASE PublishFailure(p)
  <2>1. /\ proc[p].pc = "publish-failure" /\ Goto(p, "announce-failure")
        /\ files' = [files EXCEPT !.failed = @ \union {proc[p].seq}]
    BY <1>5 DEF PublishFailure, At
  <2> QED
    BY <1>1, <1>2, <1>3, <2>1, RecordingMoves
<1>6. CASE WriteFails(p)
  <2>1. /\ Stop(p, "error")
        /\ \/ files' = files
           \/ files' = [files EXCEPT !.litter = TRUE]
           \/ /\ proc[p].pc = "publish"
              /\ files' = [files EXCEPT !.singles = @ \union {proc[p].seq}]
           \/ /\ proc[p].pc = "publish-failure"
              /\ files' = [files EXCEPT !.failed = @ \union {proc[p].seq}]
    BY <1>6 DEF WriteFails, At
  <2> QED
    BY <1>1, <1>3, <2>1, RecordingMoves
<1> QED
  BY <1>4, <1>5, <1>6

\* The terminal events.
LEMMA AnnounceEffect ==
  ASSUME TypeInv, NEW p \in Procs, AnnounceSuccess(p)
  PROVE  /\ Moves(p) /\ Fit(proc'[p]) /\ proc[p].pc = "announce" /\ Writes(p)
         /\ proc[p].goal = "select"
         /\ proc'[p].cmd = proc[p].cmd /\ proc'[p].seq = proc[p].seq
         /\ proc'[p].expected = proc[p].expected
         /\ \/ proc'[p].pc = "stopped" /\ proc'[p].stop \in {"done", "error"}
            \/ /\ proc[p].cmd \notin {"recorded", "next"}
               /\ log' = Append(log, Line(p))
               /\ proc'[p].pc = "scan" /\ proc'[p].stop = proc[p].stop
               /\ proc'[p].goal = (IF proc[p].left = 1 THEN "confirm" ELSE "select")
               /\ proc'[p].left = proc[p].left - 1
         /\ UNCHANGED <<store, created, files, imported, runs, clock>>
<1>1. At(p, "announce") /\ proc[p].pc \in Recording /\ Appending(p)
  BY DEF AnnounceSuccess, At, Recording, Appending
<1>2. Writes(p)
  BY <1>1, WriteForms DEF AnnounceSuccess
<1>3. UNCHANGED <<store, created, files, imported, runs, clock>>
  BY DEF AnnounceSuccess
<1>4. proc[p].goal = "select"
  BY <1>1 DEF TypeInv, Fit
<1>5. CASE AfterIteration(p) /\ log' = Append(log, Line(p))
  BY <1>1, <1>2, <1>3, <1>5, AfterEffect DEF At
<1>6. CASE Stop(p, "error")
  BY <1>1, <1>2, <1>3, <1>4, <1>6, RecordingMoves DEF Keeps, At
<1> QED
  BY <1>5, <1>6 DEF AnnounceSuccess

LEMMA FailEffect ==
  ASSUME TypeInv, NEW p \in Procs, AnnounceFailure(p)
  PROVE  /\ Moves(p) /\ Keeps(p) /\ Fit(proc'[p]) /\ proc[p].pc = "announce-failure"
         /\ Writes(p) /\ proc'[p].pc = "stopped" /\ proc'[p].stop = "error"
         /\ UNCHANGED <<store, created, files, imported, runs, clock>>
<1>1. proc[p].pc = "announce-failure" /\ proc[p].pc \in Recording /\ Appending(p)
  BY DEF AnnounceFailure, At, Recording, Appending
<1>2. Writes(p)
  BY <1>1, WriteForms DEF AnnounceFailure
<1>3. Stop(p, "error") /\ UNCHANGED <<store, created, files, imported, runs, clock>>
  BY DEF AnnounceFailure
<1> QED
  BY <1>1, <1>2, <1>3, RecordingMoves

\* A kill leaves at most the line and the temporary file being written.
LEMMA CrashEffect ==
  ASSUME TypeInv, NEW p \in Procs, Crash(p)
  PROVE  /\ Moves(p) /\ Fit(proc'[p]) /\ proc'[p].pc = "idle" /\ proc'[p].stop = "none"
         /\ Running(p)
         /\ Writes(p) \/ log' = log
         /\ files' = [files EXCEPT !.litter =
                        @ \/ proc[p].pc \in {"publish", "publish-failure"}]
         /\ \/ UNCHANGED <<imported, runs>>
            \/ /\ proc[p].pc = "work"
               /\ runs' = [runs EXCEPT ![proc[p].seq] = Bump(@)]
               /\ imported' \in {imported, imported \union {proc[p].seq}}
         /\ UNCHANGED <<store, created, clock>>
<1>1. proc' = [proc EXCEPT ![p] = Idle]
  BY DEF Crash
<1>2. Moves(p) /\ proc'[p] = Idle
  BY <1>1, IdleParts, MovesTo DEF TypeInv
<1>3. Writes(p) \/ log' = log
  BY DEF Crash, Writes
<1>4. /\ Running(p)
      /\ files' = [files EXCEPT !.litter =
                        @ \/ proc[p].pc \in {"publish", "publish-failure"}]
      /\ UNCHANGED <<store, created, clock>>
  BY DEF Crash
<1>5. \/ UNCHANGED <<imported, runs>>
      \/ /\ proc[p].pc = "work"
         /\ runs' = [runs EXCEPT ![proc[p].seq] = Bump(@)]
         /\ imported' \in {imported, imported \union {proc[p].seq}}
  BY DEF Crash, At
<1> QED
  BY <1>2, <1>3, <1>4, <1>5, IdleParts

LEMMA StartEffect ==
  ASSUME TypeInv, NEW p \in Procs, Start(p)
  PROVE  /\ Moves(p) /\ Fit(proc'[p]) /\ Issued(proc'[p]) /\ proc'[p].stop = "none"
         /\ UNCHANGED <<store, created, log, files, imported, runs, clock>>
<1>1. proc \in [Procs -> Proc]
  BY DEF TypeInv, TypeOK
<1>2. PICK r : /\ Fit(r) /\ Issued(r) /\ r.stop = "none"
               /\ proc' = [proc EXCEPT ![p] = r]
  BY <1>1, StartParts
<1>3. Moves(p) /\ proc'[p] = r
  BY <1>2, MovesTo DEF TypeInv, Fit
<1>4. UNCHANGED <<store, created, log, files, imported, runs, clock>>
  BY DEF Start
<1> QED
  BY <1>2, <1>3, <1>4

-----------------------------------------------------------------------------
(* Types.                                                                  *)

LEMMA StepFit ==
  ASSUME TypeInv, NEW p \in Procs, Start(p) \/ Iteration(p) \/ Driver(p) \/ Crash(p)
  PROVE  Moves(p) /\ Fit(proc'[p])
<1>1. CASE Start(p)
  BY <1>1, StartEffect
<1>2. CASE OpenCampaign(p) \/ CreateCampaign(p) \/ OpenLog(p) \/ OpenFails(p)
  BY <1>2, OpenEffect, OpenFailsEffect
<1>3. CASE BeginIteration(p) \/ RunChild(p) \/ RecordCompletion(p)
  BY <1>3, BeginEffect, RunEffect, CompletionEffect
<1>4. CASE \/ StageSuccess(p) \/ StageFailure(p) \/ PublishSuccess(p)
           \/ PublishFailure(p) \/ WriteFails(p)
  BY <1>4, StageEffect, PublishEffect
<1>5. CASE AnnounceSuccess(p) \/ AnnounceFailure(p)
  BY <1>5, AnnounceEffect, FailEffect
<1>6. CASE ScanEvents(p) \/ Select(p) \/ Guard(p)
  BY <1>6, ScanEffect, SelectEffect, GuardEffect
<1>7. CASE FinishBatch(p) \/ LookAround(p) \/ Decide(p)
  BY <1>7, LookEffect, DecideEffect
<1>8. CASE Crash(p)
  BY <1>8, CrashEffect
<1> QED
  BY <1>1, <1>2, <1>3, <1>4, <1>5, <1>6, <1>7, <1>8 DEF Iteration, Driver

LEMMA FilesType ==
  ASSUME TypeOK, NEW p \in Procs,
         \/ files' = files
         \/ \E b \in BOOLEAN : files' = [files EXCEPT !.litter = b]
         \/ files' = [files EXCEPT !.singles = @ \union {proc[p].seq}]
         \/ files' = [files EXCEPT !.failed = @ \union {proc[p].seq}]
  PROVE  files' \in [singles : SUBSET Seqs, failed : SUBSET Seqs, litter : BOOLEAN]
<1>1. proc[p].seq \in Seqs
  BY ProcParts
<1> QED
  BY <1>1 DEF TypeOK

LEMMA RunsType ==
  ASSUME TypeOK, NEW p \in Procs,
         runs' = runs \/ runs' = [runs EXCEPT ![proc[p].seq] = Bump(@)],
         imported' \in {imported, imported \union {proc[p].seq}}
  PROVE  runs' \in [Seqs -> 0..2] /\ imported' \subseteq Seqs
<1>1. proc[p].seq \in Seqs
  BY ProcParts
<1> QED
  BY <1>1, BumpType DEF TypeOK

LEMMA StepTypes == TypeInv /\ [Next]_vars => TypeInv'
<1> SUFFICES ASSUME TypeInv, [Next]_vars PROVE TypeInv'
  OBVIOUS
<1>0. TypeOK
  BY DEF TypeInv
<1>1. ASSUME NEW p \in Procs, Start(p) \/ Iteration(p) \/ Driver(p) \/ Crash(p)
      PROVE  TypeInv'
  <2>1. Moves(p) /\ Fit(proc'[p])
    BY <1>1, StepFit
  <2>2. \A q \in Procs : Fit(proc'[q])
    BY <2>1 DEF Moves, TypeInv
  <2>3. ASSUME UNCHANGED <<log, files, imported, runs, clock>>,
               store' \in {"absent", "campaign", "open"}, created' \in 0..MaxClock
        PROVE  TypeInv'
    BY <1>0, <2>1, <2>2, <2>3 DEF TypeInv, TypeOK, Moves
  <2>4. ASSUME UNCHANGED <<store, created>>, log' \in Logs, clock' \in 0..MaxClock,
               files' \in [singles : SUBSET Seqs, failed : SUBSET Seqs, litter : BOOLEAN],
               runs' \in [Seqs -> 0..2], imported' \subseteq Seqs
        PROVE  TypeInv'
    BY <1>0, <2>1, <2>2, <2>4 DEF TypeInv, TypeOK, Moves
  <2>5. CASE Start(p) \/ Driver(p) \/ StageSuccess(p) \/ StageFailure(p)
    <3>1. UNCHANGED <<store, created, log, files, imported, runs, clock>>
      BY <2>5 DEF Start, Driver, ScanEvents, Select, Guard, FinishBatch, LookAround,
                  Decide, StageSuccess, StageFailure
    <3> QED
      BY <1>0, <2>3, <3>1 DEF TypeOK
  <2>6. CASE OpenCampaign(p) \/ CreateCampaign(p) \/ OpenLog(p)
    <3>1. store' \in {"absent", "campaign", "open"}
      BY <1>0, <2>6 DEF TypeOK, OpenCampaign, CreateCampaign, OpenLog
    <3>2. created' \in 0..MaxClock /\ UNCHANGED <<log, files, imported, runs, clock>>
      BY <2>6, OpenEffect
    <3> QED
      BY <2>3, <3>1, <3>2
  <2>fails. CASE OpenFails(p)
    <3>1. /\ store' \in {"absent", "campaign", "open"} /\ created' \in 0..MaxClock
          /\ UNCHANGED <<log, files, imported, runs, clock>>
      BY <2>fails, OpenFailsEffect
    <3> QED
      BY <2>3, <3>1
  <2>7. CASE BeginIteration(p) \/ RecordCompletion(p) \/ AnnounceSuccess(p) \/ AnnounceFailure(p)
    <3>1. Writes(p) /\ UNCHANGED <<store, created, files, imported, runs, clock>>
      BY <2>7, BeginEffect, CompletionEffect, AnnounceEffect, FailEffect
    <3>2. log' \in Logs
      BY <1>0, <3>1, WriteParts
    <3> QED
      BY <1>0, <2>4, <3>1, <3>2 DEF TypeOK
  <2>8. CASE RunChild(p)
    <3>1. /\ Writes(p) /\ UNCHANGED <<store, created, files>> /\ clock' \in 0..MaxClock
          /\ runs' = [runs EXCEPT ![proc[p].seq] = Bump(@)]
          /\ imported' \in {imported, imported \union {proc[p].seq}}
      BY <2>8, RunEffect
    <3>2. log' \in Logs /\ runs' \in [Seqs -> 0..2] /\ imported' \subseteq Seqs
      BY <1>0, <3>1, WriteParts, RunsType
    <3> QED
      BY <1>0, <2>4, <3>1, <3>2 DEF TypeOK
  <2>9. CASE PublishSuccess(p) \/ PublishFailure(p) \/ WriteFails(p)
    <3>1. /\ UNCHANGED <<store, created, log, imported, runs, clock>>
          /\ \/ files' = files
             \/ files' = [files EXCEPT !.litter = TRUE]
             \/ files' = [files EXCEPT !.singles = @ \union {proc[p].seq}]
             \/ files' = [files EXCEPT !.failed = @ \union {proc[p].seq}]
      BY <2>9, PublishEffect
    <3>2. files' \in [singles : SUBSET Seqs, failed : SUBSET Seqs, litter : BOOLEAN]
      BY <1>0, <3>1, FilesType
    <3> QED
      BY <1>0, <2>4, <3>1, <3>2 DEF TypeOK
  <2>10. CASE Crash(p)
    <3> DEFINE b == files.litter \/ proc[p].pc \in {"publish", "publish-failure"}
    <3>1. /\ UNCHANGED <<store, created, clock>> /\ (Writes(p) \/ log' = log)
          /\ files' = [files EXCEPT !.litter = b]
          /\ runs' = runs \/ runs' = [runs EXCEPT ![proc[p].seq] = Bump(@)]
          /\ imported' \in {imported, imported \union {proc[p].seq}}
      BY <2>10, CrashEffect
    <3>2. b \in BOOLEAN
      OBVIOUS
    <3> HIDE DEF b
    <3>3. log' \in Logs
      BY <1>0, <3>1, WriteParts DEF TypeOK
    <3>4. files' \in [singles : SUBSET Seqs, failed : SUBSET Seqs, litter : BOOLEAN]
      BY <1>0, <3>1, <3>2, FilesType
    <3>5. runs' \in [Seqs -> 0..2] /\ imported' \subseteq Seqs
      BY <1>0, <3>1, RunsType
    <3> QED
      BY <1>0, <2>4, <3>1, <3>3, <3>4, <3>5 DEF TypeOK
  <2> QED
    BY <1>1, <2>5, <2>6, <2>fails, <2>7, <2>8, <2>9, <2>10 DEF Iteration
<1>2. CASE ClockBack
  BY <1>0, <1>2 DEF ClockBack, TypeInv, TypeOK
<1>3. CASE UNCHANGED vars
  BY <1>3 DEF vars, TypeInv, TypeOK
<1> QED
  BY <1>1, <1>2, <1>3 DEF Next

LEMMA InitTypes == Init => TypeInv
<1> SUFFICES ASSUME Init PROVE TypeInv
  OBVIOUS
<1>1. /\ files = [singles |-> {}, failed |-> {}, litter |-> FALSE]
      /\ runs \in [Seqs -> 0..2] /\ 0 \in 0..MaxClock
  BY EvidenceAssumption DEF Init
<1>2. proc \in [Procs -> Proc] /\ \A p \in Procs : Fit(proc[p])
  BY IdleParts DEF Init
<1> QED
  BY <1>1, <1>2, EmptyLogType DEF Init, TypeInv, TypeOK

\* Every variable of the evidence keeps its type, for any bounds.
THEOREM TypeCorrect == Spec => []TypeOK
<1>1. Init => TypeInv
  BY InitTypes
<1>2. TypeInv /\ [Next]_vars => TypeInv'
  BY StepTypes
<1>3. TypeInv => TypeOK
  BY DEF TypeInv
<1> QED
  BY <1>1, <1>2, <1>3, PTL DEF Spec

-----------------------------------------------------------------------------
(* Any number of controllers.                                              *)

\* The points between the import and the end of its announcement.
Winning == {"record", "succeed", "publish", "announce"}

\* An import is announced by the process that completed it, and by no other.
WinInv ==
    /\ \A p \in Procs : proc[p].pc \in Winning =>
          /\ proc[p].seq \in imported
          /\ log.won[proc[p].seq] = 0
          /\ \A q \in Procs \ {p} :
                proc[q].pc \in Winning => proc[q].seq # proc[p].seq
    /\ \A s \in Seqs : log.won[s] < 2 /\ (log.won[s] > 0 => s \in imported)

\* Nobody announces anything, and nobody but a winner stays one.
LEMMA WinFrame ==
  ASSUME WinInv, NEW p \in Procs, Moves(p), log'.won = log.won,
         imported \subseteq imported',
         proc'[p].pc \in Winning => proc[p].pc \in Winning /\ proc'[p].seq = proc[p].seq
  PROVE  WinInv'
<1>1. \A q \in Procs : proc'[q].pc \in Winning =>
         proc[q].pc \in Winning /\ proc'[q].seq = proc[q].seq
  BY DEF Moves
<1>2. ASSUME NEW q \in Procs, proc'[q].pc \in Winning
      PROVE  /\ proc'[q].seq \in imported' /\ log'.won[proc'[q].seq] = 0
             /\ \A r \in Procs \ {q} :
                   proc'[r].pc \in Winning => proc'[r].seq # proc'[q].seq
  BY <1>1, <1>2 DEF WinInv
<1>3. \A s \in Seqs : log'.won[s] < 2 /\ (log'.won[s] > 0 => s \in imported')
  BY DEF WinInv
<1> QED
  BY <1>2, <1>3 DEF WinInv

\* A line that does not announce a success.
LEMMA OtherLine ==
  ASSUME TypeOK, NEW p \in Procs, Writes(p), ~ At(p, "announce")
  PROVE  log'.won = log.won
  BY WriteWins

LEMMA WinStep == TypeInv /\ WinInv /\ [Next]_vars => WinInv'
<1> SUFFICES ASSUME TypeInv, WinInv, [Next]_vars PROVE WinInv'
  OBVIOUS
<1>0. TypeOK
  BY DEF TypeInv
<1>1. ASSUME NEW p \in Procs, Start(p) \/ Iteration(p) \/ Driver(p) \/ Crash(p)
      PROVE  WinInv'
  <2>1. CASE Start(p)
    <3>1. Issued(proc'[p]) /\ Moves(p) /\ log' = log /\ imported' = imported
      BY <2>1, StartEffect
    <3>2. proc'[p].pc \notin Winning
      BY <3>1 DEF Issued, Winning
    <3> QED
      BY <3>1, <3>2, WinFrame
  <2>2. CASE OpenCampaign(p) \/ CreateCampaign(p) \/ OpenLog(p) \/ OpenFails(p)
    BY <2>2, OpenEffect, OpenFailsEffect, WinFrame DEF Winning
  <2>3. CASE BeginIteration(p) \/ RecordCompletion(p)
    <3>1. /\ Moves(p) /\ Keeps(p) /\ Writes(p) /\ imported' = imported
          /\ proc[p].pc \in {"begin", "record"}
          /\ \/ proc'[p].pc \in {"work", "fail"}
             \/ proc'[p].pc = "succeed" /\ proc[p].pc = "record"
      BY <2>3, BeginEffect, CompletionEffect
    <3>2. log'.won = log.won
      BY <1>0, <3>1, OtherLine DEF At
    <3> QED
      BY <3>1, <3>2, WinFrame DEF Keeps, Winning
  <2>4. CASE RunChild(p)
    <3> DEFINE s == proc[p].seq
    <3>1. /\ Moves(p) /\ Keeps(p) /\ Writes(p) /\ proc[p].pc = "work"
          /\ \/ /\ proc'[p].pc = "record" /\ s \notin imported
                /\ imported' = imported \union {s}
             \/ proc'[p].pc = "fail" /\ imported' \in {imported, imported \union {s}}
      BY <2>4, RunEffect
    <3>2. log'.won = log.won
      BY <1>0, <3>1, OtherLine DEF At
    <3>3. CASE proc'[p].pc = "fail"
      BY <3>1, <3>2, <3>3, WinFrame DEF Winning
    <3>4. CASE proc'[p].pc = "record"
      <4>1. /\ s \notin imported /\ imported' = imported \union {s} /\ s \in Seqs
            /\ proc'[p].seq = s
        BY <1>0, <3>1, <3>4, ProcParts DEF Keeps
      <4>2. log.won \in [Seqs -> 0..2]
        BY <1>0 DEF TypeOK, Logs
      <4>3. log.won[s] = 0
        BY <4>1, <4>2 DEF WinInv
      <4>4. \A q \in Procs \ {p} : /\ proc'[q] = proc[q]
                                   /\ proc[q].pc \in Winning => proc[q].seq # s
        BY <3>1, <4>1 DEF WinInv, Moves
      <4>5. ASSUME NEW q \in Procs, proc'[q].pc \in Winning
            PROVE  /\ proc'[q].seq \in imported' /\ log'.won[proc'[q].seq] = 0
                   /\ \A r \in Procs \ {q} :
                         proc'[r].pc \in Winning => proc'[r].seq # proc'[q].seq
        <5>1. CASE q = p
          BY <3>2, <4>1, <4>3, <4>4, <5>1
        <5>2. CASE q # p
          BY <3>2, <4>1, <4>4, <4>5, <5>2 DEF WinInv
        <5> QED
          BY <5>1, <5>2
      <4>6. \A t \in Seqs : log'.won[t] < 2 /\ (log'.won[t] > 0 => t \in imported')
        BY <3>2, <4>1 DEF WinInv
      <4> QED
        BY <4>5, <4>6 DEF WinInv
    <3> QED
      BY <3>1, <3>3, <3>4
  <2>5. CASE StageSuccess(p) \/ StageFailure(p)
    BY <2>5, StageEffect, WinFrame DEF Keeps, Winning
  <2>6. CASE PublishSuccess(p) \/ PublishFailure(p) \/ WriteFails(p)
    BY <2>6, PublishEffect, WinFrame DEF Keeps, Winning
  <2>7. ASSUME proc[p].pc = "announce", Moves(p), Writes(p), imported' = imported,
               proc'[p].pc \notin Winning
        PROVE  WinInv'
    <3> DEFINE s == proc[p].seq
    <3>1. s \in Seqs /\ s \in imported /\ log.won[s] = 0
          /\ \A q \in Procs \ {p} : proc[q].pc \in Winning => proc[q].seq # s
      BY <1>0, <2>7, ProcParts DEF WinInv, Winning
    <3>2. \/ log'.won = log.won
          \/ log'.won[s] = 1 /\ \A t \in Seqs \ {s} : log'.won[t] = log.won[t]
      BY <1>0, <2>7, <3>1, WriteWins DEF Bump
    <3>3. \A q \in Procs : proc'[q].pc \in Winning => q # p /\ proc'[q] = proc[q]
      BY <2>7 DEF Moves
    <3>4. \A q \in Procs : proc'[q].pc \in Winning =>
             /\ proc[q].seq \in Seqs /\ proc[q].seq # s /\ proc[q].seq \in imported
             /\ log.won[proc[q].seq] = 0
      BY <1>0, <3>1, <3>3, ProcParts DEF WinInv
    <3>5. ASSUME NEW q \in Procs, proc'[q].pc \in Winning
          PROVE  /\ proc'[q].seq \in imported' /\ log'.won[proc'[q].seq] = 0
                 /\ \A r \in Procs \ {q} :
                       proc'[r].pc \in Winning => proc'[r].seq # proc'[q].seq
      <4>1. log'.won[proc'[q].seq] = 0 /\ proc'[q].seq \in imported'
        BY <2>7, <3>2, <3>3, <3>4, <3>5
      <4>2. \A r \in Procs \ {q} : proc'[r].pc \in Winning => proc'[r].seq # proc'[q].seq
        BY <3>3, <3>5 DEF WinInv
      <4> QED
        BY <4>1, <4>2
    <3>6. \A t \in Seqs : log'.won[t] < 2 /\ (log'.won[t] > 0 => t \in imported')
      BY <2>7, <3>1, <3>2 DEF WinInv
    <3> QED
      BY <3>5, <3>6 DEF WinInv
  <2>8. CASE AnnounceSuccess(p)
    BY <2>7, <2>8, AnnounceEffect DEF Winning
  <2>9. CASE AnnounceFailure(p)
    <3>1. /\ Moves(p) /\ Writes(p) /\ proc[p].pc = "announce-failure"
          /\ proc'[p].pc = "stopped" /\ imported' = imported
      BY <2>9, FailEffect
    <3>2. log'.won = log.won
      BY <1>0, <3>1, OtherLine DEF At
    <3> QED
      BY <3>1, <3>2, WinFrame DEF Winning
  <2>10. CASE Driver(p)
    <3>1. log' = log /\ imported' = imported
      BY <2>10 DEF Driver, ScanEvents, Select, Guard, FinishBatch, LookAround, Decide
    <3>2. Moves(p) /\ proc'[p].pc \notin Winning
      <4>1. CASE ScanEvents(p) \/ Select(p) \/ Guard(p)
        BY <4>1, ScanEffect, SelectEffect, GuardEffect DEF Winning
      <4>2. CASE FinishBatch(p) \/ LookAround(p) \/ Decide(p)
        BY <4>2, LookEffect, DecideEffect DEF Winning
      <4> QED
        BY <2>10, <4>1, <4>2 DEF Driver
    <3> QED
      BY <3>1, <3>2, WinFrame
  <2>11. CASE Crash(p)
    <3>1. /\ Moves(p) /\ proc'[p].pc = "idle" /\ (Writes(p) \/ log' = log)
          /\ imported \subseteq imported'
          /\ proc[p].pc # "work" => imported' = imported
      BY <2>11, CrashEffect
    <3>2. CASE Writes(p) /\ proc[p].pc = "announce"
      BY <2>7, <3>1, <3>2 DEF Winning
    <3>3. CASE ~ (Writes(p) /\ proc[p].pc = "announce")
      <4>1. log'.won = log.won
        BY <1>0, <3>1, <3>3, OtherLine DEF At
      <4> QED
        BY <3>1, <4>1, WinFrame DEF Winning
    <3> QED
      BY <3>2, <3>3
  <2> QED
    BY <1>1, <2>1, <2>2, <2>3, <2>4, <2>5, <2>6, <2>8, <2>9, <2>10, <2>11 DEF Iteration
<1>2. CASE ClockBack
  BY <1>2 DEF ClockBack, WinInv
<1>3. CASE UNCHANGED vars
  BY <1>3 DEF vars, WinInv
<1> QED
  BY <1>1, <1>2, <1>3 DEF Next

LEMMA InitWins == Init => WinInv
<1> SUFFICES ASSUME Init PROVE WinInv
  OBVIOUS
<1>1. \A p \in Procs : proc[p].pc \notin Winning
  BY IdleParts DEF Init, Winning
<1>2. \A s \in Seqs : log.won[s] = 0
  BY EmptyLogType DEF Init
<1> QED
  BY <1>1, <1>2 DEF WinInv

LEMMA Wins == Spec => [](TypeInv /\ WinInv)
<1>1. Init => TypeInv /\ WinInv
  BY InitTypes, InitWins
<1>2. TypeInv /\ WinInv /\ [Next]_vars => TypeInv' /\ WinInv'
  BY StepTypes, WinStep
<1> QED
  BY <1>1, <1>2, PTL DEF Spec

\* Controllers that overlap never both announce one sequence, although
\* write_success only looks for an existing artifact before it writes.
THEOREM SuccessOnce == Spec => []SuccessIsUnique
<1>1. TypeInv /\ WinInv => SuccessIsUnique
  BY DEF WinInv, SuccessIsUnique
<1> QED
  BY <1>1, Wins, PTL

\* What resume.rs reports as the frontier is imported, whoever wrote the
\* evidence and whatever interrupted it.
THEOREM FrontierDelivered == Spec => []FrontierIsDelivered
<1>1. TypeInv /\ WinInv => FrontierIsDelivered
  <2> SUFFICES ASSUME TypeInv, WinInv, NEW s \in 1..Frontier(log, files)
               PROVE  s \in imported
    BY DEF FrontierIsDelivered
  <2>1. FrontierIs(log, files, Frontier(log, files))
    BY FrontierFound
  <2>2. s \in Seqs /\ Recorded(log, files, s)
    BY <2>1, EvidenceAssumption DEF FrontierIs, Seqs
  <2>3. log.won[s] = 1
    BY <2>2 DEF Recorded
  <2> QED
    BY <2>2, <2>3 DEF WinInv
<1> QED
  BY <1>1, Wins, PTL

-----------------------------------------------------------------------------
(* What a reader concludes.                                                 *)

\* Nothing tells a reader of the sequence s.
NoTrace(l, f, s) ==
    /\ l.won[s] = 0 /\ l.lost[s] = 0 /\ s \notin l.begun
    /\ s \notin f.singles /\ s \notin f.failed

Artifacts == [singles : SUBSET Seqs, failed : SUBSET Seqs, litter : BOOLEAN]

\* The verdict when there is nothing behind the next sequence.
LEMMA VerdictOf ==
  ASSUME NEW l \in Logs, NEW f \in Artifacts, NEW n \in 0..MaxSeq, FrontierIs(l, f, n),
         \A s \in Seqs : s > n + 1 => NoTrace(l, f, s)
  PROVE  /\ (n < MaxSeq => NoTrace(l, f, n + 1)) => State(l, f) = "ready"
         /\ (n < MaxSeq /\ l.won[n + 1] = 0 /\ n + 1 \notin f.singles) =>
               /\ (n + 1 \in l.begun /\ l.lost[n + 1] = 0 /\ n + 1 \notin f.failed) =>
                     State(l, f) = "incomplete"
               /\ (n + 1 \in f.failed /\ l.lost[n + 1] < 2) => State(l, f) = "failure"
         /\ (/\ n < MaxSeq /\ l.won[n + 1] = 0 /\ l.lost[n + 1] = 0
             /\ n + 1 \in f.singles /\ n + 1 \notin f.failed) =>
                State(l, f) = "inconsistent"
<1> DEFINE E == HasEvidence(l, f)
<1>1. Frontier(l, f) = n /\ MaxSeq \in Nat /\ n \in Nat
  BY FrontierUnique, EvidenceAssumption
<1>2. /\ l.begun \subseteq Seqs /\ l.won \in [Seqs -> 0..2] /\ l.lost \in [Seqs -> 0..2]
      /\ f.singles \subseteq Seqs /\ f.failed \subseteq Seqs
  BY DEF Logs, Artifacts
<1>3. E \subseteq Seqs
  BY <1>2 DEF HasEvidence
<1>4. \A s \in Seqs : s \notin E <=> NoTrace(l, f, s)
  BY <1>2 DEF HasEvidence, NoTrace
<1>5. ~ \E s \in E : s > n + 1
  BY <1>3, <1>4
<1>6. State(l, f) = IF n + 1 \notin E THEN "ready"
                    ELSE IF Failed(l, f, n + 1) THEN "failure"
                    ELSE IF Incomplete(l, f, n + 1) THEN "incomplete" ELSE "inconsistent"
  BY <1>1, <1>5 DEF State
<1>7. n < MaxSeq <=> n + 1 \in Seqs
  BY <1>1 DEF Seqs
<1> HIDE DEF E
<1>8. (n < MaxSeq => NoTrace(l, f, n + 1)) => State(l, f) = "ready"
  BY <1>3, <1>4, <1>6, <1>7
<1>9. ASSUME n < MaxSeq, l.won[n + 1] = 0, n + 1 \notin f.singles
      PROVE  /\ (n + 1 \in l.begun /\ l.lost[n + 1] = 0 /\ n + 1 \notin f.failed) =>
                   State(l, f) = "incomplete"
             /\ (n + 1 \in f.failed /\ l.lost[n + 1] < 2) => State(l, f) = "failure"
  BY <1>4, <1>6, <1>7, <1>9 DEF NoTrace, Failed, Incomplete
<1>10. ASSUME n < MaxSeq, l.won[n + 1] = 0, l.lost[n + 1] = 0,
              n + 1 \in f.singles, n + 1 \notin f.failed
       PROVE  State(l, f) = "inconsistent"
  BY <1>4, <1>6, <1>7, <1>10 DEF NoTrace, Failed, Incomplete
<1> QED
  BY <1>8, <1>9, <1>10

-----------------------------------------------------------------------------
(* One controller: the evidence.                                           *)

\* No terminal evidence of a sequence, and no evidence at all.
Clean(s) ==
    /\ log.won[s] = 0 /\ log.lost[s] = 0
    /\ s \notin files.singles /\ s \notin files.failed

Untouched(s) == Clean(s) /\ s \notin log.begun /\ runs[s] = 0

\* A reader sees that the sequence was begun, or that the log is damaged.
Marked(s) == s \in log.begun \/ log.tail = "torn"

\* Behind the frontier every sequence has run once; ahead of the next one
\* nothing has happened; the next one has run at most once, and not unseen.
RecordInv(n) ==
    /\ FrontierIs(log, files, n)
    /\ \A s \in 1..n : runs[s] = 1
    /\ \A s \in Seqs : s > n + 1 => Untouched(s)
    /\ n < MaxSeq => runs[n + 1] < 2 /\ (runs[n + 1] > 0 => Marked(n + 1))
    /\ store # "open" => /\ \A s \in Seqs : Untouched(s)
                         /\ log.tail = "whole" /\ files.litter = FALSE

\* What the controller has done for the sequence behind the frontier.
WorkInv(c, n) ==
    LET r == proc[c] IN
    /\ (r.pc \in {"guard"} \union Opening \union Recording /\ r.goal = "select") =>
          r.seq = n + 1 /\ store = "open"
    /\ (r.pc \in {"guard", "begin"} \union Opening /\ r.goal = "select") => Untouched(n + 1)
    /\ r.pc = "work" => Clean(n + 1) /\ runs[n + 1] = 0 /\ Marked(n + 1)
    /\ r.pc \in {"record", "succeed", "publish"} =>
          Clean(n + 1) /\ runs[n + 1] = 1 /\ Marked(n + 1)
    /\ r.pc = "announce" =>
          /\ log.won[n + 1] = 0 /\ log.lost[n + 1] = 0
          /\ n + 1 \in files.singles /\ n + 1 \notin files.failed
          /\ runs[n + 1] = 1 /\ Marked(n + 1)
    /\ r.pc \in {"fail", "publish-failure"} => Clean(n + 1)
    /\ r.pc = "announce-failure" =>
          /\ log.won[n + 1] = 0 /\ log.lost[n + 1] = 0
          /\ n + 1 \notin files.singles /\ n + 1 \in files.failed
    /\ r.pc = "judge" => r.seen = log

\* The next sequence may be started.
Ready(n) ==
    /\ store = "open" /\ log.tail # "torn" /\ files.litter = FALSE
    /\ n < MaxSeq => Untouched(n + 1)

\* A step that ran behind the frontier e has recorded its sequence or not; and
\* unless the log is torn, the next command goes on from there.
Rejected(n, e) ==
    /\ n \in {e, e + 1} /\ store = "open"
    /\ log.tail = "torn" \/ Ready(n)

\* What a campaign knows of the frontier.
CampaignInv(c, n) ==
    LET r == proc[c] IN
    /\ r.stop = "accepted" =>
          r.pc = "stopped" /\ n >= MinCompleted /\ r.elapsed >= MinElapsed
    /\ r.stop = "disagreement" => r.pc = "stopped" /\ Rejected(n, r.expected)
    /\ r.pc = "check" => /\ r.cmd = "campaign" /\ r.goal # "select"
                         /\ r.status.state = "ready" => r.status.frontier = n /\ Ready(n)
    /\ (r.cmd = "campaign" /\ r.goal = "select" /\ r.pc \notin {"idle", "stopped"}) =>
          r.expected = n /\ r.left = 1 /\ store = "open" /\ files.litter = FALSE
    /\ (r.cmd = "campaign" /\ r.goal = "select" /\ r.pc \in {"scan", "judge"}) => Ready(n)
    /\ (r.cmd = "campaign" /\ r.pc = "guard") => r.status.frontier = n
    /\ (r.cmd = "campaign" /\ r.goal = "confirm" /\ r.pc \in {"scan", "judge", "check"}) =>
          Rejected(n, r.expected)

SingleAt(c, n) == RecordInv(n) /\ WorkInv(c, n) /\ CampaignInv(c, n)

SingleInv(c) == TypeInv /\ \E n \in 0..MaxSeq : SingleAt(c, n)

\* The evidence of a sequence does not change.
Same(s) ==
    /\ s \in log'.begun <=> s \in log.begun
    /\ log'.won[s] = log.won[s] /\ log'.lost[s] = log.lost[s]
    /\ s \in files'.singles <=> s \in files.singles
    /\ s \in files'.failed <=> s \in files.failed
    /\ runs'[s] = runs[s]

\* No evidence changes, and a store once open stays open.
LEMMA RecordSame ==
  ASSUME NEW n \in 0..MaxSeq, RecordInv(n), UNCHANGED <<log, files, runs>>,
         store = "open" => store' = "open"
  PROVE  RecordInv(n)'
<1>1. \A s \in Seqs : Untouched(s) => Untouched(s)'
  BY DEF Untouched, Clean
<1>2. Marked(n + 1) => Marked(n + 1)'
  BY DEF Marked
<1>3. FrontierIs(log, files, n)' /\ \A s \in 1..n : runs'[s] = 1
  BY DEF RecordInv
<1> QED
  BY <1>1, <1>2, <1>3 DEF RecordInv

\* The next sequence changes, but it is not recorded.
LEMMA RecordStays ==
  ASSUME NEW n \in 0..MaxSeq, n < MaxSeq, RecordInv(n), store' = "open",
         \A t \in Seqs \ {n + 1} : Same(t), ~ Recorded(log', files', n + 1),
         runs'[n + 1] < 2, runs'[n + 1] > 0 => Marked(n + 1)'
  PROVE  RecordInv(n)'
<1>1. MaxSeq \in Nat /\ n \in Nat
  BY EvidenceAssumption
<1>2. \A s \in 1..n : s \in Seqs \ {n + 1}
  BY <1>1 DEF Seqs
<1>3. \A s \in 1..n : Recorded(log', files', s) /\ runs'[s] = 1
  BY <1>2 DEF RecordInv, FrontierIs, Recorded, Same
<1>4. \A s \in Seqs : s > n + 1 => s \in Seqs \ {n + 1} /\ Untouched(s)
  BY <1>1 DEF RecordInv, Seqs
<1>5. \A s \in Seqs : s > n + 1 => Untouched(s)'
  BY <1>4 DEF Untouched, Clean, Same
<1>6. FrontierIs(log, files, n)'
  BY <1>3 DEF FrontierIs
<1> QED
  BY <1>3, <1>5, <1>6 DEF RecordInv

\* The next sequence is recorded.
LEMMA RecordGrows ==
  ASSUME NEW n \in 0..MaxSeq, n < MaxSeq, RecordInv(n), store' = "open",
         \A t \in Seqs \ {n + 1} : Same(t), Recorded(log', files', n + 1),
         runs'[n + 1] = 1
  PROVE  n + 1 \in 0..MaxSeq /\ RecordInv(n + 1)' /\ (n + 1 < MaxSeq => Untouched(n + 2)')
<1> DEFINE m == n + 1
<1>1. MaxSeq \in Nat /\ n \in Nat /\ m \in 0..MaxSeq /\ m \in Nat /\ m + 1 = n + 2
  BY EvidenceAssumption
<1>2. \A s \in 1..m : s = m \/ (s \in 1..n /\ s \in Seqs \ {n + 1})
  BY <1>1 DEF Seqs
<1>3. \A s \in 1..m : Recorded(log', files', s) /\ runs'[s] = 1
  BY <1>2 DEF RecordInv, FrontierIs, Recorded, Same
<1>4. \A s \in Seqs : s > m => s \in Seqs \ {n + 1} /\ Untouched(s)
  BY <1>1 DEF RecordInv, Seqs
<1>5. \A s \in Seqs : s > m => Untouched(s)'
  BY <1>4 DEF Untouched, Clean, Same
<1>6. m < MaxSeq => m + 1 \in Seqs /\ m + 1 > m
  BY <1>1 DEF Seqs
<1>7. m < MaxSeq => Untouched(m + 1)'
  BY <1>5, <1>6
<1>8. m < MaxSeq => ~ Recorded(log', files', m + 1) /\ runs'[m + 1] = 0
  BY <1>7 DEF Untouched, Clean, Recorded
<1>9. FrontierIs(log, files, m)'
  BY <1>1, <1>3, <1>8 DEF FrontierIs
<1>10. \A s \in Seqs : s > m + 1 => Untouched(s)'
  BY <1>1, <1>5 DEF Seqs
<1> HIDE DEF m
<1>11. RecordInv(m)'
  BY <1>3, <1>8, <1>9, <1>10 DEF RecordInv
<1> QED
  BY <1>1, <1>7, <1>11 DEF m

\* What a line of the sequence s changes.
LEMMA WriteAt ==
  ASSUME TypeOK, NEW p \in Procs, Writes(p), NEW s, s = proc[p].seq
  PROVE  /\ log' \in Logs /\ s \in Seqs
         /\ \A t \in Seqs \ {s} : /\ t \in log'.begun <=> t \in log.begun
                                  /\ log'.won[t] = log.won[t]
                                  /\ log'.lost[t] = log.lost[t]
         /\ \/ log'.won[s] = log.won[s]
            \/ /\ proc[p].pc = "announce" /\ log'.won[s] = Bump(log.won[s])
               /\ log'.tail # "torn"
         /\ \/ log'.lost[s] = log.lost[s]
            \/ proc[p].pc = "announce-failure" /\ log'.lost[s] = Bump(log.lost[s])
         /\ s \in log.begun => s \in log'.begun
         /\ log.tail = "torn" => log'.tail = "torn"
         /\ log' = Append(log, Line(p)) =>
               \/ log'.tail = "torn" /\ SameEvents(log, log')
               \/ SameEvents(Line(p), log') /\ s \in log'.begun /\ log'.tail = "whole"
<1>1. s \in Seqs /\ log \in Logs /\ Line(p) \in Logs /\ log' \in Logs
  BY ProcParts, LineType, WriteParts DEF TypeOK, Writes
<1>2. /\ Line(p).begun = log.begun \union {s}
      /\ \A t \in Seqs \ {s} : /\ Line(p).won[t] = log.won[t]
                               /\ Line(p).lost[t] = log.lost[t]
      /\ \/ Line(p).won[s] = log.won[s]
         \/ proc[p].pc = "announce" /\ Line(p).won[s] = Bump(log.won[s])
      /\ \/ Line(p).lost[s] = log.lost[s]
         \/ proc[p].pc = "announce-failure" /\ Line(p).lost[s] = Bump(log.lost[s])
  <2>1. CASE proc[p].pc \in {"begin", "work", "record"}
    <3>1. Line(p) = Lifecycle(s)
      BY <2>1 DEF Line, At
    <3> QED
      BY <1>1, <3>1, LifecycleLine
  <2>2. CASE proc[p].pc = "announce"
    <3>1. Line(p) = TerminalSuccess(s)
      BY <2>2 DEF Line, At
    <3> QED
      BY <1>1, <2>2, <3>1, SuccessLine
  <2>3. CASE proc[p].pc = "announce-failure"
    <3>1. Line(p) = TerminalFailure(s)
      BY <2>3 DEF Line, At
    <3> QED
      BY <1>1, <2>3, <3>1, FailureLine
  <2> QED
    BY <2>1, <2>2, <2>3 DEF Writes, Appending
<1>3. \/ log'.tail \in {log.tail, "torn"} /\ SameEvents(log, log')
      \/ /\ log.tail = "whole" /\ log'.tail \in {"whole", "cut"}
         /\ SameEvents(Line(p), log')
  BY WriteParts
<1>4. log' = Append(log, Line(p)) =>
               \/ log'.tail = "torn" /\ SameEvents(log, log')
               \/ SameEvents(Line(p), log') /\ s \in log'.begun /\ log'.tail = "whole"
  BY <1>1, <1>2, AppendParts DEF SameEvents
<1>5. CASE log'.tail \in {log.tail, "torn"} /\ SameEvents(log, log')
  BY <1>1, <1>4, <1>5 DEF SameEvents
<1>6. CASE /\ log.tail = "whole" /\ log'.tail \in {"whole", "cut"}
           /\ SameEvents(Line(p), log')
  BY <1>1, <1>2, <1>4, <1>6 DEF SameEvents
<1> QED
  BY <1>3, <1>5, <1>6

\* The evidence a controller goes on from is the evidence there is.
LEMMA LooksFind ==
  ASSUME TypeOK, NEW c, Procs = {c}, NEW n \in 0..MaxSeq, RecordInv(n),
         proc[c].pc = "judge", NEW st \in Looks(log), st.state = "ready"
  PROVE  st.frontier = n /\ Ready(n)
<1> DEFINE E == HasEvidence(log, files)
<1>1. Frontier(log, files) = n /\ MaxSeq \in Nat /\ n \in Nat
  BY FrontierUnique, EvidenceAssumption DEF RecordInv
<1>2. ~ TempVisible <=> ~ files.litter
  BY DEF TempVisible
<1>look. st = Reconcile(log)
  BY LooksType DEF Inconsistent
<1>3. CASE store # "open" \/ log.tail = "torn" \/ files.litter
  <2>1. st = Inconsistent
    BY <1>2, <1>look, <1>3 DEF Reconcile
  <2> QED
    BY <2>1 DEF Inconsistent
<1>4. CASE ~ (store # "open" \/ log.tail = "torn" \/ files.litter)
  <2>1. st.state = State(log, files) /\ st.frontier = n
    BY <1>1, <1>2, <1>look, <1>4 DEF Reconcile
  <2>2. /\ log.begun \subseteq Seqs /\ log.won \in [Seqs -> 0..2] /\ log.lost \in [Seqs -> 0..2]
        /\ files.singles \subseteq Seqs /\ files.failed \subseteq Seqs /\ runs \in [Seqs -> 0..2]
    BY DEF TypeOK, Logs
  <2>3. E \subseteq Seqs
    BY <2>2 DEF HasEvidence
  <2>4. \A s \in Seqs : s \notin E <=> Clean(s) /\ s \notin log.begun
    BY <2>2 DEF HasEvidence, Clean
  <2>5. ~ \E s \in E : s > n + 1
    BY <2>3, <2>4 DEF RecordInv, Untouched
  <2>6. st.state = "ready" <=> n + 1 \notin E
    BY <1>1, <2>1, <2>5 DEF State
  <2>7. n < MaxSeq => (n + 1 \notin E <=> Untouched(n + 1))
    <3> HAVE n < MaxSeq
    <3>1. n + 1 \in Seqs /\ runs[n + 1] \in 0..2
      BY <1>1, <2>2 DEF Seqs
    <3>2. runs[n + 1] > 0 => n + 1 \in log.begun
      BY <1>4 DEF RecordInv, Marked
    <3> QED
      BY <2>4, <3>1, <3>2 DEF Untouched
  <2>8. ~ (n < MaxSeq) => n + 1 \notin E
    BY <1>1, <2>3 DEF Seqs
  <2>9. st.state = "ready" <=> Ready(n)
    BY <1>4, <2>6, <2>7, <2>8 DEF Ready, TypeOK
  <2> QED
    BY <2>1, <2>9
<1> QED
  BY <1>3, <1>4

-----------------------------------------------------------------------------
(* One controller: its steps.                                              *)

\* A recorded iteration works on the sequence behind the frontier.
LEMMA AtNext ==
  ASSUME TypeInv, NEW c, Procs = {c}, NEW n \in 0..MaxSeq, WorkInv(c, n),
         proc[c].pc \in Recording
  PROVE  /\ TypeOK /\ proc[c].seq = n + 1 /\ n + 1 \in Seqs /\ n < MaxSeq
         /\ store = "open" /\ proc[c].goal = "select" /\ log.won[n + 1] = 0
         /\ log.won[n + 1] \in 0..2 /\ log.lost[n + 1] \in 0..2 /\ runs[n + 1] \in 0..2
<1>1. c \in Procs /\ TypeOK /\ proc[c].goal = "select"
  BY DEF TypeInv, Fit
<1>2. proc[c].seq = n + 1 /\ store = "open"
  BY <1>1 DEF WorkInv
<1>3. n + 1 \in Seqs
  BY <1>1, <1>2, ProcParts
<1>4. n < MaxSeq
  BY <1>3, EvidenceAssumption DEF Seqs
<1>5. log.won[n + 1] = 0
  BY <1>1 DEF WorkInv, Recording, Untouched, Clean
<1> QED
  BY <1>1, <1>2, <1>3, <1>4, <1>5 DEF TypeOK, Logs

\* What is written about it, whether or not the write was interrupted.
LEMMA LineAtNext ==
  ASSUME TypeInv, NEW c, Procs = {c}, NEW n \in 0..MaxSeq, WorkInv(c, n),
         proc[c].pc \in Recording, Writes(c) \/ log' = log
  PROVE  /\ \A t \in Seqs \ {n + 1} : /\ t \in log'.begun <=> t \in log.begun
                                      /\ log'.won[t] = log.won[t]
                                      /\ log'.lost[t] = log.lost[t]
         /\ \/ log'.won[n + 1] = 0
            \/ proc[c].pc = "announce" /\ log'.won[n + 1] = 1 /\ log'.tail # "torn"
         /\ proc[c].pc # "announce-failure" => log'.lost[n + 1] = log.lost[n + 1]
         /\ Marked(n + 1) => Marked(n + 1)'
<1>1. TypeOK /\ c \in Procs /\ proc[c].seq = n + 1 /\ log.won[n + 1] = 0
  BY AtNext
<1>2. CASE Writes(c)
  BY <1>1, <1>2, WriteAt DEF Marked, Bump
<1>3. CASE log' = log
  BY <1>1, <1>3 DEF Marked
<1> QED
  BY <1>2, <1>3

\* A line that was written to the end.
LEMMA WholeLineAtNext ==
  ASSUME TypeInv, NEW c, Procs = {c}, NEW n \in 0..MaxSeq, WorkInv(c, n),
         proc[c].pc \in Recording, Writes(c), log' = Append(log, Line(c))
  PROVE  /\ Marked(n + 1)'
         /\ proc[c].pc = "announce" => log'.tail = "torn" \/ log'.won[n + 1] = 1
<1>1. /\ TypeOK /\ c \in Procs /\ proc[c].seq = n + 1 /\ log.won[n + 1] = 0
      /\ n + 1 \in Seqs /\ log \in Logs
  BY AtNext DEF TypeOK
<1>2. \/ log'.tail = "torn"
      \/ SameEvents(Line(c), log') /\ n + 1 \in log'.begun
  BY <1>1, WriteAt
<1>3. proc[c].pc = "announce" => Line(c).won[n + 1] = 1
  <2> HAVE proc[c].pc = "announce"
  <2>1. Line(c) = TerminalSuccess(n + 1)
    BY <1>1 DEF Line, At
  <2> QED
    BY <1>1, <2>1, SuccessLine DEF Bump
<1> QED
  BY <1>2, <1>3 DEF Marked, SameEvents

\* How often the workload was started for it.
LEMMA RunsAtNext ==
  ASSUME TypeInv, NEW c, Procs = {c}, NEW n \in 0..MaxSeq, RecordInv(n), WorkInv(c, n),
         proc[c].pc \in Recording, Writes(c) \/ log' = log,
         \/ runs' = runs
         \/ proc[c].pc = "work" /\ runs' = [runs EXCEPT ![proc[c].seq] = Bump(@)]
  PROVE  /\ \A t \in Seqs \ {n + 1} : runs'[t] = runs[t]
         /\ runs'[n + 1] < 2 /\ (runs'[n + 1] > 0 => Marked(n + 1)')
         /\ runs' = runs \/ runs'[n + 1] = 1
<1>1. /\ TypeOK /\ proc[c].seq = n + 1 /\ n + 1 \in Seqs /\ n < MaxSeq
      /\ Marked(n + 1) => Marked(n + 1)'
  BY AtNext, LineAtNext
<1>2. CASE runs' = runs
  BY <1>1, <1>2 DEF RecordInv
<1>3. CASE proc[c].pc = "work" /\ runs' = [runs EXCEPT ![proc[c].seq] = Bump(@)]
  <2>1. runs[n + 1] = 0 /\ Marked(n + 1) /\ runs \in [Seqs -> 0..2]
    BY <1>1, <1>3 DEF WorkInv, TypeOK
  <2>2. runs'[n + 1] = 1 /\ \A t \in Seqs \ {n + 1} : runs'[t] = runs[t]
    BY <1>1, <1>3, <2>1 DEF Bump
  <2> QED
    BY <1>1, <2>1, <2>2
<1> QED
  BY <1>2, <1>3

\* The artifacts of the other sequences stay.
FilesStay(n) ==
    \A t \in Seqs \ {n + 1} : /\ t \in files'.singles <=> t \in files.singles
                              /\ t \in files'.failed <=> t \in files.failed

\* Any step of the iteration that does not record the sequence.
LEMMA StaysAtNext ==
  ASSUME TypeInv, NEW c, Procs = {c}, NEW n \in 0..MaxSeq, RecordInv(n), WorkInv(c, n),
         proc[c].pc \in Recording, Writes(c) \/ log' = log,
         \/ runs' = runs
         \/ proc[c].pc = "work" /\ runs' = [runs EXCEPT ![proc[c].seq] = Bump(@)],
         FilesStay(n), store' = store, log'.won[n + 1] = 0
  PROVE  RecordInv(n)'
<1>1. n < MaxSeq /\ store' = "open"
  BY AtNext
<1>2. \A t \in Seqs \ {n + 1} : Same(t)
  BY LineAtNext, RunsAtNext DEF Same, FilesStay
<1>3. ~ Recorded(log', files', n + 1)
  BY DEF Recorded
<1>4. runs'[n + 1] < 2 /\ (runs'[n + 1] > 0 => Marked(n + 1)')
  BY RunsAtNext
<1> QED
  BY <1>1, <1>2, <1>3, <1>4, RecordStays

\* The announcement, in whatever way it ends.
LEMMA AnnounceAtNext ==
  ASSUME TypeInv, NEW c, Procs = {c}, NEW n \in 0..MaxSeq, RecordInv(n), WorkInv(c, n),
         proc[c].pc = "announce", Writes(c) \/ log' = log,
         UNCHANGED <<store, runs>>, FilesStay(n),
         n + 1 \in files'.singles, n + 1 \notin files'.failed
  PROVE  \/ log'.won[n + 1] = 0 /\ RecordInv(n)'
         \/ /\ log'.won[n + 1] = 1 /\ n + 1 \in 0..MaxSeq /\ RecordInv(n + 1)'
            /\ log'.tail # "torn" /\ (n + 1 < MaxSeq => Untouched(n + 2)')
<1>0. proc[c].pc \in Recording
  BY DEF Recording
<1>1. /\ n < MaxSeq /\ store' = "open"
  BY <1>0, AtNext
<1>2. CASE log'.won[n + 1] = 0
  BY <1>0, <1>2, StaysAtNext
<1>3. CASE log'.won[n + 1] = 1 /\ log'.tail # "torn"
  <2>1. \A t \in Seqs \ {n + 1} : Same(t)
    BY <1>0, LineAtNext DEF Same, FilesStay
  <2>2. log'.lost[n + 1] = 0 /\ runs'[n + 1] = 1
    BY <1>0, LineAtNext DEF WorkInv
  <2>3. Recorded(log', files', n + 1)
    BY <1>3, <2>2 DEF Recorded
  <2> QED
    BY <1>1, <1>3, <2>1, <2>2, <2>3, RecordGrows
<1> QED
  BY <1>0, <1>2, <1>3, LineAtNext

\* A command that has ended leaves nothing to keep.
LEMMA Ended ==
  ASSUME NEW c, NEW m, proc'[c].pc \in {"stopped", "idle"},
         proc'[c].stop \notin {"accepted", "disagreement"}
  PROVE  WorkInv(c, m)' /\ CampaignInv(c, m)'
  BY DEF WorkInv, CampaignInv, Opening, Recording

\* A campaign that rejected its step has ended over the evidence it leaves.
LEMMA EndedRejecting ==
  ASSUME NEW c, NEW m, proc'[c].pc = "stopped", proc'[c].stop = "disagreement",
         Rejected(m, proc[c].expected)'
  PROVE  WorkInv(c, m)' /\ CampaignInv(c, m)'
  BY DEF WorkInv, CampaignInv, Opening, Recording

\* Between its looks at the evidence a campaign keeps what it knows.
LEMMA CampaignGoes ==
  ASSUME TypeOK, NEW c, Procs = {c}, NEW n \in 0..MaxSeq, CampaignInv(c, n),
         proc[c].pc \notin {"idle", "stopped"},
         proc'[c].pc \in Opening \union Recording, Keeps(c),
         proc'[c].stop = proc[c].stop, store = "open" => store' = "open",
         files'.litter = files.litter
  PROVE  CampaignInv(c, n)'
<1>1. proc'[c].stop \notin {"accepted", "disagreement"}
  BY DEF CampaignInv
<1>2. proc'[c].pc \notin {"idle", "stopped", "scan", "judge", "check", "guard"}
  BY DEF Opening, Recording
<1> QED
  BY <1>1, <1>2 DEF CampaignInv, Keeps

\* What a step of the controller has to keep.
Kept(c) == \E m \in 0..MaxSeq : SingleAt(c, m)'

LEMMA StartKeeps ==
  ASSUME TypeInv, NEW c, Procs = {c}, "recorded" \notin Commands, NEW n \in 0..MaxSeq,
         SingleAt(c, n), Start(c)
  PROVE  Kept(c)
<1>1. /\ Issued(proc'[c]) /\ proc'[c].stop = "none"
      /\ UNCHANGED <<store, log, files, runs>>
  BY StartEffect
<1>2. RecordInv(n)'
  BY <1>1, RecordSame DEF SingleAt
<1>3. WorkInv(c, n)' /\ CampaignInv(c, n)'
  BY <1>1 DEF Issued, WorkInv, CampaignInv, Opening, Recording
<1> QED
  BY <1>2, <1>3 DEF Kept, SingleAt

LEMMA OpenKeeps ==
  ASSUME TypeInv, NEW c, Procs = {c}, NEW n \in 0..MaxSeq, SingleAt(c, n),
         OpenCampaign(c) \/ CreateCampaign(c) \/ OpenLog(c)
  PROVE  Kept(c)
<1>0. TypeOK /\ c \in Procs
  BY DEF TypeInv
<1>1. /\ Keeps(c) /\ proc[c].pc \in Opening /\ proc'[c].stop = proc[c].stop
      /\ \/ proc'[c].pc \in {"create", "open-log"}
         \/ proc'[c].pc = "scan" /\ proc[c].goal = "initial"
         \/ proc'[c].pc \in {"begin", "fail"} /\ proc[c].goal = "select"
      /\ UNCHANGED <<log, files, runs>>
  BY <1>0, OpenEffect
<1>2. store = "open" => store' = "open"
  <2>1. OpenLog(c) => store' = "open"
    BY DEF OpenLog
  <2> QED
    BY <1>0, <2>1, OpenEffect
<1>3. RecordInv(n)'
  BY <1>1, <1>2, RecordSame DEF SingleAt
<1>4. Untouched(n + 1) => Untouched(n + 1)' /\ Clean(n + 1)'
  BY <1>1 DEF Untouched, Clean
<1>5. WorkInv(c, n)'
  <2>1. proc[c].goal = "select" => proc[c].seq = n + 1 /\ store = "open" /\ Untouched(n + 1)
    BY <1>1 DEF SingleAt, WorkInv
  <2> QED
    BY <1>1, <1>2, <1>4, <2>1 DEF WorkInv, Keeps, Opening, Recording
<1>6. CampaignInv(c, n)'
  <2>1. proc[c].pc \notin {"idle", "stopped"}
    BY <1>1 DEF Opening
  <2>2. CASE proc'[c].pc = "scan" /\ proc[c].goal = "initial"
    BY <1>1, <2>1, <2>2 DEF SingleAt, CampaignInv, Keeps
  <2>3. CASE proc'[c].pc \in Opening \union Recording
    BY <1>0, <1>1, <1>2, <2>1, <2>3, CampaignGoes DEF SingleAt
  <2> QED
    BY <1>1, <2>2, <2>3 DEF Opening, Recording
<1> QED
  BY <1>3, <1>5, <1>6 DEF Kept, SingleAt

\* An open that fails ends the command over the evidence there was.
LEMMA OpenFailsKeeps ==
  ASSUME TypeInv, NEW c, Procs = {c}, NEW n \in 0..MaxSeq, SingleAt(c, n), OpenFails(c)
  PROVE  Kept(c)
<1>1. /\ proc'[c].pc = "stopped" /\ proc'[c].stop = "error"
      /\ UNCHANGED <<log, files, runs>>
      /\ store = "open" => store' = "open"
  BY OpenFailsEffect
<1>2. RecordInv(n)'
  BY <1>1, RecordSame DEF SingleAt
<1> QED
  BY <1>1, <1>2, Ended DEF Kept, SingleAt

\* The steps before the terminal artifact.
LEMMA LinesKeep ==
  ASSUME TypeInv, NEW c, Procs = {c}, NEW n \in 0..MaxSeq, SingleAt(c, n),
         BeginIteration(c) \/ RunChild(c) \/ RecordCompletion(c)
  PROVE  Kept(c)
<1>0. RecordInv(n) /\ WorkInv(c, n) /\ CampaignInv(c, n) /\ c \in Procs
  BY DEF SingleAt
<1>1. /\ Keeps(c) /\ Writes(c) /\ proc'[c].stop = proc[c].stop
      /\ \/ proc[c].pc = "begin" /\ proc'[c].pc = "work" /\ log' = Append(log, Line(c))
         \/ proc[c].pc = "work" /\ proc'[c].pc = "record"
         \/ proc[c].pc = "record" /\ proc'[c].pc = "succeed"
         \/ proc[c].pc \in {"begin", "work", "record"} /\ proc'[c].pc = "fail"
      /\ UNCHANGED <<store, files>>
  BY <1>0, BeginEffect, RunEffect, CompletionEffect
<1>2. \/ proc[c].pc # "work" /\ runs' = runs
      \/ proc[c].pc = "work" /\ runs' = [runs EXCEPT ![proc[c].seq] = Bump(@)]
  BY <1>0, BeginEffect, RunEffect, CompletionEffect
<1>3. proc[c].pc \in Recording /\ proc[c].pc \notin {"announce", "announce-failure"}
  BY <1>1 DEF Recording
<1>4. /\ TypeOK /\ proc[c].seq = n + 1 /\ n + 1 \in Seqs /\ store = "open"
      /\ proc[c].goal = "select" /\ runs[n + 1] \in 0..2
  BY <1>0, <1>3, AtNext
<1>5. /\ log'.won[n + 1] = 0 /\ log'.lost[n + 1] = log.lost[n + 1]
      /\ Marked(n + 1) => Marked(n + 1)'
  BY <1>0, <1>1, <1>3, LineAtNext
<1>6. RecordInv(n)'
  BY <1>0, <1>1, <1>2, <1>3, <1>5, StaysAtNext DEF FilesStay
<1>7. Clean(n + 1) => Clean(n + 1)'
  BY <1>1, <1>5 DEF Clean
<1>8. Clean(n + 1)
  BY <1>1, <1>4, <1>0 DEF WorkInv, Untouched
<1>9. WorkInv(c, n)'
  <2>1. CASE proc'[c].pc = "work"
    <3>1. runs[n + 1] = 0 /\ runs' = runs
      BY <1>0, <1>1, <1>2, <1>4, <2>1 DEF WorkInv, Untouched
    <3>2. Marked(n + 1)'
      BY <1>0, <1>1, <1>3, <2>1, WholeLineAtNext
    <3> QED
      BY <1>1, <1>4, <1>7, <1>8, <2>1, <3>1, <3>2 DEF WorkInv, Keeps, Opening, Recording
  <2>2. CASE proc'[c].pc \in {"record", "succeed"}
    <3>1. Marked(n + 1)
      BY <1>0, <1>1, <2>2 DEF WorkInv
    <3>2. runs'[n + 1] = 1
      <4>1. proc[c].pc = "work" \/ (proc[c].pc = "record" /\ runs[n + 1] = 1)
        BY <1>0, <1>1, <2>2 DEF WorkInv
      <4>2. proc[c].pc = "work" => runs[n + 1] = 0
        BY <1>0 DEF WorkInv
      <4> QED
        BY <1>2, <1>4, <4>1, <4>2 DEF TypeOK, Bump
    <3> QED
      BY <1>1, <1>4, <1>5, <1>7, <1>8, <2>2, <3>1, <3>2
         DEF WorkInv, Keeps, Opening, Recording
  <2>3. CASE proc'[c].pc = "fail"
    BY <1>1, <1>4, <1>7, <1>8, <2>3 DEF WorkInv, Keeps, Opening, Recording
  <2> QED
    BY <1>1, <2>1, <2>2, <2>3
<1>10. CampaignInv(c, n)'
  <2>1. proc'[c].pc \in Recording /\ proc[c].pc \notin {"idle", "stopped"}
    BY <1>1 DEF Recording
  <2> QED
    BY <1>0, <1>1, <1>4, <2>1, CampaignGoes
<1> QED
  BY <1>6, <1>9, <1>10 DEF Kept, SingleAt

\* The terminal artifacts.
LEMMA ArtifactsKeep ==
  ASSUME TypeInv, NEW c, Procs = {c}, NEW n \in 0..MaxSeq, SingleAt(c, n),
         \/ StageSuccess(c) \/ StageFailure(c)
         \/ PublishSuccess(c) \/ PublishFailure(c) \/ WriteFails(c)
  PROVE  Kept(c)
<1>0. RecordInv(n) /\ WorkInv(c, n) /\ CampaignInv(c, n) /\ c \in Procs
  BY DEF SingleAt
<1>1. /\ Keeps(c) /\ log' = log /\ UNCHANGED <<store, runs>>
      /\ \/ /\ proc[c].pc = "succeed" /\ proc'[c].pc = "publish"
            /\ proc'[c].stop = proc[c].stop /\ files' = files
         \/ /\ proc[c].pc = "fail" /\ proc'[c].pc = "publish-failure"
            /\ proc'[c].stop = proc[c].stop /\ files' = files
         \/ /\ proc[c].pc = "publish" /\ proc'[c].pc = "announce"
            /\ proc'[c].stop = proc[c].stop
            /\ files' = [files EXCEPT !.singles = @ \union {proc[c].seq}]
         \/ /\ proc[c].pc = "publish-failure" /\ proc'[c].pc = "announce-failure"
            /\ proc'[c].stop = proc[c].stop
            /\ files' = [files EXCEPT !.failed = @ \union {proc[c].seq}]
         \/ /\ proc[c].pc \in {"succeed", "publish", "publish-failure"}
            /\ proc'[c].pc = "stopped" /\ proc'[c].stop = "error"
            /\ \/ files' = files
               \/ files' = [files EXCEPT !.litter = TRUE]
               \/ files' = [files EXCEPT !.singles = @ \union {proc[c].seq}]
               \/ files' = [files EXCEPT !.failed = @ \union {proc[c].seq}]
  <2>1. CASE StageSuccess(c) \/ StageFailure(c)
    <3>1. UNCHANGED <<store, log, files, runs>>
      BY <2>1, <1>0, StageEffect
    <3> QED
      BY <1>0, <2>1, <3>1, StageEffect
  <2>2. CASE PublishSuccess(c) \/ PublishFailure(c) \/ WriteFails(c)
    BY <1>0, <2>2, PublishEffect
  <2> QED
    BY <2>1, <2>2
<1>2. proc[c].pc \in {"succeed", "fail", "publish", "publish-failure"}
  BY <1>1
<1>3. proc[c].pc \in Recording
  BY <1>2 DEF Recording
<1>4. /\ TypeOK /\ proc[c].seq = n + 1 /\ store = "open" /\ proc[c].goal = "select"
      /\ log.won[n + 1] = 0
  BY <1>0, <1>3, AtNext
<1>5. FilesStay(n) /\ (proc'[c].pc # "stopped" => files'.litter = files.litter)
  BY <1>1, <1>4 DEF FilesStay, TypeOK
<1>6. RecordInv(n)'
  BY <1>0, <1>1, <1>3, <1>4, <1>5, StaysAtNext
<1>7. Clean(n + 1)
  BY <1>0, <1>2 DEF WorkInv
<1>8. CASE proc'[c].pc = "stopped"
  <2>1. proc'[c].pc \in {"stopped", "idle"} /\ proc'[c].stop \notin {"accepted", "disagreement"}
    BY <1>1, <1>8
  <2> QED
    BY <1>6, <2>1, Ended DEF Kept, SingleAt
<1>9. CASE proc'[c].pc # "stopped"
  <2>1. WorkInv(c, n)'
    <3>1. CASE proc'[c].pc = "publish"
      <4>1. files' = files /\ proc[c].pc = "succeed"
        BY <1>1, <3>1
      <4>2. Clean(n + 1)' /\ runs'[n + 1] = 1 /\ Marked(n + 1)'
        BY <1>0, <1>1, <1>7, <4>1 DEF WorkInv, Clean, Marked
      <4> QED
        BY <1>1, <1>4, <3>1, <4>2 DEF WorkInv, Keeps, Opening, Recording
    <3>2. CASE proc'[c].pc = "publish-failure"
      <4>1. files' = files
        BY <1>1, <3>2
      <4>2. Clean(n + 1)'
        BY <1>1, <1>7, <4>1 DEF Clean
      <4> QED
        BY <1>1, <1>4, <3>2, <4>2 DEF WorkInv, Keeps, Opening, Recording
    <3>3. CASE proc'[c].pc = "announce"
      <4>1. /\ proc[c].pc = "publish"
            /\ files' = [files EXCEPT !.singles = @ \union {n + 1}]
        BY <1>1, <1>4, <3>3
      <4>2. /\ n + 1 \in files'.singles /\ n + 1 \notin files'.failed
            /\ log'.won[n + 1] = 0 /\ log'.lost[n + 1] = 0
        BY <1>1, <1>4, <1>7, <4>1 DEF Clean, TypeOK
      <4>3. runs'[n + 1] = 1 /\ Marked(n + 1)'
        BY <1>0, <1>1, <4>1 DEF WorkInv, Marked
      <4> QED
        BY <1>1, <1>4, <3>3, <4>2, <4>3 DEF WorkInv, Keeps, Opening, Recording
    <3>4. CASE proc'[c].pc = "announce-failure"
      <4>1. files' = [files EXCEPT !.failed = @ \union {n + 1}]
        BY <1>1, <1>4, <3>4
      <4>2. /\ n + 1 \notin files'.singles /\ n + 1 \in files'.failed
            /\ log'.won[n + 1] = 0 /\ log'.lost[n + 1] = 0
        BY <1>1, <1>7, <4>1 DEF Clean, TypeOK, TypeInv
      <4> QED
        BY <1>1, <1>4, <3>4, <4>2 DEF WorkInv, Keeps, Opening, Recording
    <3> QED
      BY <1>1, <1>9, <3>1, <3>2, <3>3, <3>4
  <2>2. CampaignInv(c, n)'
    <3>1. /\ proc'[c].pc \in Opening \union Recording /\ proc[c].pc \notin {"idle", "stopped"}
          /\ proc'[c].stop = proc[c].stop /\ (store = "open" => store' = "open")
      BY <1>1, <1>2, <1>9 DEF Recording
    <3> QED
      BY <1>0, <1>1, <1>4, <1>5, <1>9, <3>1, CampaignGoes
  <2> QED
    BY <1>6, <2>1, <2>2 DEF Kept, SingleAt
<1> QED
  BY <1>8, <1>9

LEMMA AnnounceKeeps ==
  ASSUME TypeInv, NEW c, Procs = {c}, NEW n \in 0..MaxSeq, SingleAt(c, n),
         AnnounceSuccess(c)
  PROVE  Kept(c)
<1>0. RecordInv(n) /\ WorkInv(c, n) /\ CampaignInv(c, n) /\ c \in Procs
  BY DEF SingleAt
<1>1. /\ proc[c].pc = "announce" /\ Writes(c) /\ UNCHANGED <<store, files, runs>>
      /\ proc[c].goal = "select"
      /\ proc'[c].cmd = proc[c].cmd /\ proc'[c].seq = proc[c].seq
      /\ proc'[c].expected = proc[c].expected
      /\ \/ proc'[c].pc = "stopped" /\ proc'[c].stop \in {"done", "error"}
         \/ /\ log' = Append(log, Line(c))
            /\ proc'[c].pc = "scan" /\ proc'[c].stop = proc[c].stop
            /\ proc'[c].goal = (IF proc[c].left = 1 THEN "confirm" ELSE "select")
  BY <1>0, AnnounceEffect
<1>2. proc[c].pc \in Recording
  BY <1>1 DEF Recording
<1>3. proc[c].seq = n + 1 /\ store = "open" /\ n < MaxSeq
  BY <1>0, <1>2, AtNext
<1>4. n + 1 \in files'.singles /\ n + 1 \notin files'.failed /\ FilesStay(n)
  BY <1>0, <1>1 DEF WorkInv, FilesStay
<1>5. PICK m \in 0..MaxSeq : /\ RecordInv(m)'
                             /\ \/ log'.won[n + 1] = 0 /\ m = n
                                \/ /\ m = n + 1 /\ log'.tail # "torn"
                                   /\ m < MaxSeq => Untouched(m + 1)'
  <2>1. (n + 1) + 1 = n + 2
    OBVIOUS
  <2> QED
    BY <1>0, <1>1, <1>4, <2>1, AnnounceAtNext
<1>6. CASE proc'[c].pc = "stopped"
  <2>1. proc'[c].pc \in {"stopped", "idle"} /\ proc'[c].stop \notin {"accepted", "disagreement"}
    BY <1>1, <1>6
  <2> QED
    BY <1>5, <2>1, Ended DEF Kept, SingleAt
<1>7. CASE proc'[c].pc = "scan"
  <2>1. /\ log' = Append(log, Line(c)) /\ proc'[c].stop = proc[c].stop
        /\ proc'[c].goal = (IF proc[c].left = 1 THEN "confirm" ELSE "select")
    BY <1>1, <1>7
  <2>2. log'.tail = "torn" \/ log'.won[n + 1] = 1
    BY <1>0, <1>1, <1>2, <2>1, WholeLineAtNext
  <2>3. /\ m \in {n, n + 1}
        /\ log'.tail = "torn" \/ (m < MaxSeq => Untouched(m + 1)')
    BY <1>5, <2>2
  <2>4. WorkInv(c, m)'
    BY <1>7 DEF WorkInv, Opening, Recording
  <2>5. proc'[c].stop \notin {"accepted", "disagreement"}
    BY <1>0, <1>1, <2>1 DEF CampaignInv
  <2>6. proc[c].cmd = "campaign" =>
           /\ proc[c].expected = n /\ proc'[c].goal = "confirm"
           /\ store' = "open" /\ files'.litter = FALSE
    BY <1>0, <1>1, <1>3, <2>1 DEF CampaignInv
  <2>7. proc[c].cmd = "campaign" => Rejected(m, proc[c].expected)'
    BY <1>1, <2>3, <2>6 DEF Rejected, Ready
  <2>8. CampaignInv(c, m)'
    BY <1>1, <1>7, <2>5, <2>6, <2>7 DEF CampaignInv
  <2> QED
    BY <1>5, <2>4, <2>8 DEF Kept, SingleAt
<1> QED
  BY <1>1, <1>6, <1>7

LEMMA FailureKeeps ==
  ASSUME TypeInv, NEW c, Procs = {c}, NEW n \in 0..MaxSeq, SingleAt(c, n),
         AnnounceFailure(c)
  PROVE  Kept(c)
<1>0. RecordInv(n) /\ WorkInv(c, n) /\ CampaignInv(c, n) /\ c \in Procs
  BY DEF SingleAt
<1>1. /\ proc[c].pc = "announce-failure" /\ Writes(c) /\ UNCHANGED <<store, files, runs>>
      /\ proc'[c].pc = "stopped" /\ proc'[c].stop = "error"
  BY <1>0, FailEffect
<1>2. proc[c].pc \in Recording
  BY <1>1 DEF Recording
<1>3. log'.won[n + 1] = 0
  BY <1>0, <1>1, <1>2, LineAtNext
<1>4. RecordInv(n)'
  BY <1>0, <1>1, <1>2, <1>3, StaysAtNext DEF FilesStay
<1> QED
  BY <1>1, <1>4, Ended DEF Kept, SingleAt

\* A kill leaves the record of the finished sequences as it was.
LEMMA CrashKeeps ==
  ASSUME TypeInv, NEW c, Procs = {c}, NEW n \in 0..MaxSeq, SingleAt(c, n), Crash(c)
  PROVE  Kept(c)
<1>0. RecordInv(n) /\ WorkInv(c, n) /\ c \in Procs /\ TypeOK
  BY DEF SingleAt, TypeInv
<1>1. /\ proc'[c].pc = "idle" /\ proc'[c].stop = "none" /\ UNCHANGED store
      /\ Writes(c) \/ log' = log
      /\ files' = [files EXCEPT !.litter =
                     @ \/ proc[c].pc \in {"publish", "publish-failure"}]
      /\ \/ runs' = runs
         \/ proc[c].pc = "work" /\ runs' = [runs EXCEPT ![proc[c].seq] = Bump(@)]
  BY <1>0, CrashEffect
<1>2. /\ files'.singles = files.singles /\ files'.failed = files.failed
      /\ (proc[c].pc \notin Recording => files'.litter = files.litter)
  BY <1>0, <1>1 DEF TypeOK, Recording
<1>3. \E m \in 0..MaxSeq : RecordInv(m)'
  <2>1. CASE proc[c].pc \notin Recording
    <3>1. log' = log /\ runs' = runs
      BY <1>1, <2>1 DEF Writes, Appending, Recording
    <3>2. files' = files
      BY <1>0, <1>1, <1>2, <2>1 DEF TypeOK
    <3> QED
      BY <1>0, <1>1, <3>1, <3>2, RecordSame
  <2>2. CASE proc[c].pc = "announce"
    <3>1. runs' = runs /\ FilesStay(n) /\ n + 1 \in files'.singles /\ n + 1 \notin files'.failed
      BY <1>0, <1>1, <1>2, <2>2 DEF FilesStay, WorkInv
    <3> QED
      BY <1>0, <1>1, <2>2, <3>1, AnnounceAtNext
  <2>3. CASE proc[c].pc \in Recording \ {"announce"}
    <3>1. log'.won[n + 1] = 0
      BY <1>0, <1>1, <2>3, LineAtNext
    <3>2. FilesStay(n)
      BY <1>2 DEF FilesStay
    <3> QED
      BY <1>0, <1>1, <2>3, <3>1, <3>2, StaysAtNext
  <2> QED
    BY <2>1, <2>2, <2>3
<1>4. proc'[c].pc \in {"stopped", "idle"} /\ proc'[c].stop \notin {"accepted", "disagreement"}
  BY <1>1
<1> QED
  BY <1>3, <1>4, Ended DEF Kept, SingleAt

-----------------------------------------------------------------------------
(* One controller: its looks at the evidence.                              *)

\* A look, and the step after it, changes the process only.
LEMMA LooksOnly ==
  ASSUME TypeInv, NEW c, Procs = {c}, NEW n \in 0..MaxSeq, SingleAt(c, n), Driver(c)
  PROVE  /\ UNCHANGED <<store, log, files, runs>> /\ RecordInv(n)'
         /\ WorkInv(c, n) /\ CampaignInv(c, n) /\ RecordInv(n) /\ c \in Procs /\ TypeOK
         /\ \A s : (Untouched(s) => Untouched(s)')
         /\ Ready(n) => Ready(n)'
<1>1. UNCHANGED <<store, log, files, runs>>
  BY DEF Driver, ScanEvents, Select, Guard, FinishBatch, LookAround, Decide
<1>2. \A s : (Untouched(s) => Untouched(s)')
  BY <1>1 DEF Untouched, Clean
<1> QED
  BY <1>1, <1>2, RecordSame DEF SingleAt, TypeInv, Ready

LEMMA ScanKeeps ==
  ASSUME TypeInv, NEW c, Procs = {c}, NEW n \in 0..MaxSeq, SingleAt(c, n), ScanEvents(c)
  PROVE  Kept(c)
<1>1. Driver(c)
  BY DEF Driver
<1>2. /\ Keeps(c) /\ proc[c].pc = "scan" /\ proc'[c].pc = "judge" /\ proc'[c].seen = log
      /\ proc'[c].stop = proc[c].stop
  BY ScanEffect
<1>3. WorkInv(c, n)'
  BY <1>1, <1>2, LooksOnly DEF WorkInv, Opening, Recording
<1>4. CampaignInv(c, n)'
  BY <1>1, <1>2, LooksOnly DEF CampaignInv, Rejected, Keeps
<1> QED
  BY <1>1, <1>3, <1>4, LooksOnly DEF Kept, SingleAt

LEMMA SelectKeeps ==
  ASSUME TypeInv, NEW c, Procs = {c}, NEW n \in 0..MaxSeq, SingleAt(c, n), Select(c)
  PROVE  Kept(c)
<1>0. Driver(c) /\ c \in Procs
  BY DEF Driver
<1>1. /\ UNCHANGED <<store, log, files, runs>> /\ RecordInv(n)'
      /\ WorkInv(c, n) /\ CampaignInv(c, n) /\ RecordInv(n) /\ TypeOK
      /\ \A s : (Untouched(s) => Untouched(s)')
      /\ Ready(n) => Ready(n)'
  BY <1>0, LooksOnly
<1>2. proc[c].pc = "judge" /\ proc[c].goal = "select"
  BY DEF Select, At
<1>3. proc[c].seen = log
  BY <1>1, <1>2 DEF WorkInv
<1>4. /\ proc'[c].cmd = proc[c].cmd /\ proc'[c].goal = "select"
      /\ proc'[c].expected = proc[c].expected /\ proc'[c].left = proc[c].left
  BY <1>0, SelectEffect
<1>5. PICK st \in Looks(log) :
         \/ \E reason \in {"resume-blocked", "disagreement", "error", "bound"} :
              /\ proc'[c].pc = "stopped" /\ proc'[c].stop = reason
              /\ reason # "bound" => st.state # "ready"
              /\ reason = "disagreement" =>
                    proc[c].cmd = "campaign" /\ st.frontier # proc[c].expected
         \/ /\ st.state = "ready" /\ st.frontier + 1 \in Seqs
            /\ proc'[c].pc \in {"guard", "open"} /\ proc'[c].stop = proc[c].stop
            /\ proc'[c].seq = st.frontier + 1 /\ proc'[c].status = st
  BY <1>0, <1>3, SelectEffect
<1>6. CASE proc'[c].pc = "stopped" /\ proc'[c].stop = "disagreement"
  <2>1. proc[c].cmd = "campaign"
    BY <1>5, <1>6
  <2>2. Ready(n) /\ proc[c].expected = n
    BY <1>1, <1>2, <2>1 DEF CampaignInv
  <2>3. Rejected(n, proc[c].expected)'
    BY <1>1, <1>4, <2>2 DEF Rejected, Ready
  <2> QED
    BY <1>1, <1>6, <2>3, EndedRejecting DEF Kept, SingleAt
<1>7. CASE proc'[c].pc = "stopped" /\ proc'[c].stop # "disagreement"
  <2>1. proc'[c].stop \in {"resume-blocked", "error", "bound"}
    BY <1>5, <1>7
  <2>2. proc'[c].pc \in {"stopped", "idle"} /\ proc'[c].stop \notin {"accepted", "disagreement"}
    BY <1>7, <2>1
  <2> QED
    BY <1>1, <2>2, Ended DEF Kept, SingleAt
<1>8. CASE proc'[c].pc # "stopped"
  <2>1. /\ st.state = "ready" /\ st.frontier = n /\ n + 1 \in Seqs /\ Ready(n)
        /\ proc'[c].pc \in {"guard", "open"} /\ proc'[c].stop = proc[c].stop
        /\ proc'[c].seq = n + 1 /\ proc'[c].status = st
    BY <1>1, <1>2, <1>5, <1>8, LooksFind
  <2>2. n < MaxSeq
    BY <2>1, EvidenceAssumption DEF Seqs
  <2>3. Untouched(n + 1)' /\ store' = "open"
    BY <1>1, <2>1, <2>2 DEF Ready
  <2>4. WorkInv(c, n)'
    BY <2>1, <2>3 DEF WorkInv, Opening, Recording
  <2>5. CampaignInv(c, n)'
    BY <1>1, <1>2, <1>4, <2>1 DEF CampaignInv
  <2> QED
    BY <1>1, <2>4, <2>5 DEF Kept, SingleAt
<1> QED
  BY <1>6, <1>7, <1>8

LEMMA GuardKeeps ==
  ASSUME TypeInv, NEW c, Procs = {c}, NEW n \in 0..MaxSeq, SingleAt(c, n), Guard(c)
  PROVE  Kept(c)
<1>0. Driver(c) /\ c \in Procs
  BY DEF Driver
<1>1. /\ UNCHANGED <<store, log, files, runs>> /\ RecordInv(n)'
      /\ WorkInv(c, n) /\ CampaignInv(c, n) /\ RecordInv(n) /\ TypeOK
      /\ \A s : (Untouched(s) => Untouched(s)')
  BY <1>0, LooksOnly
<1>2. /\ Keeps(c) /\ proc[c].pc = "guard"
      /\ \/ proc'[c].pc = "open" /\ proc'[c].stop = proc[c].stop
         \/ \E reason \in {"guard-blocked", "disagreement", "error"} :
              /\ proc'[c].pc = "stopped" /\ proc'[c].stop = reason
              /\ reason = "disagreement" =>
                    /\ proc[c].cmd = "campaign"
                    /\ proc[c].status.frontier # proc[c].expected
  BY <1>0, GuardEffect
<1>3. proc[c].goal = "select"
  BY <1>0, <1>2 DEF TypeInv, Fit
<1>4. CASE proc'[c].pc = "open"
  <2>1. WorkInv(c, n)'
    BY <1>1, <1>2, <1>3, <1>4 DEF WorkInv, Keeps, Opening, Recording
  <2>2. CampaignInv(c, n)'
    BY <1>1, <1>2, <1>4, CampaignGoes DEF Opening
  <2> QED
    BY <1>1, <2>1, <2>2 DEF Kept, SingleAt
<1>5. CASE proc'[c].pc = "stopped"
  <2>1. proc'[c].stop \in {"guard-blocked", "disagreement", "error"}
    BY <1>2, <1>5
  <2>2. proc[c].cmd = "campaign" => proc[c].status.frontier = n /\ proc[c].expected = n
    BY <1>1, <1>2, <1>3 DEF CampaignInv
  <2>3. proc'[c].pc \in {"stopped", "idle"} /\ proc'[c].stop \notin {"accepted", "disagreement"}
    BY <1>2, <1>5, <2>1, <2>2
  <2> QED
    BY <1>1, <2>3, Ended DEF Kept, SingleAt
<1> QED
  BY <1>2, <1>4, <1>5

LEMMA LookKeeps ==
  ASSUME TypeInv, NEW c, Procs = {c}, NEW n \in 0..MaxSeq, SingleAt(c, n),
         FinishBatch(c) \/ LookAround(c)
  PROVE  Kept(c)
<1>0. Driver(c) /\ c \in Procs
  BY DEF Driver
<1>1. /\ UNCHANGED <<store, log, files, runs>> /\ RecordInv(n)'
      /\ WorkInv(c, n) /\ CampaignInv(c, n) /\ RecordInv(n) /\ TypeOK
      /\ Ready(n) => Ready(n)'
  BY <1>0, LooksOnly
<1>2. /\ Keeps(c) /\ proc[c].pc = "judge" /\ proc[c].goal # "select"
      /\ \/ proc'[c].pc = "stopped" /\ proc'[c].stop = "done"
         \/ /\ proc'[c].pc = "check" /\ proc'[c].stop = proc[c].stop
            /\ proc'[c].status \in Looks(proc[c].seen) /\ proc[c].cmd = "campaign"
  BY <1>0, LookEffect
<1>3. proc[c].seen = log
  BY <1>1, <1>2 DEF WorkInv
<1>4. CASE proc'[c].pc = "stopped"
  <2>1. proc'[c].pc \in {"stopped", "idle"} /\ proc'[c].stop \notin {"accepted", "disagreement"}
    BY <1>2, <1>4
  <2> QED
    BY <1>1, <2>1, Ended DEF Kept, SingleAt
<1>5. CASE proc'[c].pc = "check"
  <2>1. WorkInv(c, n)'
    BY <1>5 DEF WorkInv, Opening, Recording
  <2>2. proc'[c].status.state = "ready" => proc'[c].status.frontier = n /\ Ready(n)
    BY <1>1, <1>2, <1>3, <1>5, LooksFind
  <2>3. Rejected(n, proc[c].expected) => Rejected(n, proc[c].expected)'
    BY <1>1, <1>2 DEF Rejected, Keeps
  <2>4. CampaignInv(c, n)'
    BY <1>1, <1>2, <1>5, <2>2, <2>3 DEF CampaignInv, Keeps
  <2> QED
    BY <1>1, <2>1, <2>4 DEF Kept, SingleAt
<1> QED
  BY <1>2, <1>4, <1>5

LEMMA DecideKeeps ==
  ASSUME TypeInv, NEW c, Procs = {c}, NEW n \in 0..MaxSeq, SingleAt(c, n), Decide(c)
  PROVE  Kept(c)
<1>0. Driver(c) /\ c \in Procs
  BY DEF Driver
<1>1. /\ UNCHANGED <<store, log, files, runs>> /\ RecordInv(n)'
      /\ WorkInv(c, n) /\ CampaignInv(c, n) /\ RecordInv(n) /\ TypeOK
      /\ Ready(n) => Ready(n)'
  BY <1>0, LooksOnly
<1>2. /\ proc[c].pc = "check" /\ proc'[c].cmd = proc[c].cmd
      /\ \/ /\ proc'[c].pc = "stopped" /\ proc'[c].stop \in {"error", "resume-blocked"}
         \/ /\ proc'[c].pc = "stopped" /\ proc'[c].stop = "disagreement"
            /\ proc[c].goal = "confirm" /\ proc'[c].expected = proc[c].expected
         \/ /\ proc'[c].pc = "stopped" /\ proc'[c].stop = "accepted"
            /\ proc[c].status.state = "ready"
            /\ proc[c].status.frontier >= MinCompleted
            /\ proc'[c].elapsed >= MinElapsed
         \/ /\ proc'[c].pc = "scan" /\ proc'[c].stop = proc[c].stop
            /\ proc'[c].goal = "select" /\ proc'[c].left = 1
            /\ proc[c].status.state = "ready"
            /\ proc'[c].expected = proc[c].status.frontier
  BY <1>0, DecideEffect
<1>3. /\ proc[c].cmd = "campaign"
      /\ proc[c].status.state = "ready" => proc[c].status.frontier = n /\ Ready(n)
  BY <1>1, <1>2 DEF CampaignInv
<1>4. CASE proc'[c].pc = "stopped" /\ proc'[c].stop \in {"error", "resume-blocked"}
  <2>1. proc'[c].pc \in {"stopped", "idle"} /\ proc'[c].stop \notin {"accepted", "disagreement"}
    BY <1>4
  <2> QED
    BY <1>1, <2>1, Ended DEF Kept, SingleAt
<1>5. CASE /\ proc'[c].pc = "stopped" /\ proc'[c].stop = "disagreement"
           /\ proc[c].goal = "confirm"
  <2>1. Rejected(n, proc[c].expected)
    BY <1>1, <1>2, <1>3, <1>5 DEF CampaignInv
  <2>2. Rejected(n, proc[c].expected)'
    BY <1>1, <1>2, <1>5, <2>1 DEF Rejected
  <2> QED
    BY <1>1, <1>5, <2>2, EndedRejecting DEF Kept, SingleAt
<1>6. CASE /\ proc'[c].pc = "stopped" /\ proc'[c].stop = "accepted"
           /\ proc[c].status.state = "ready"
           /\ proc[c].status.frontier >= MinCompleted
           /\ proc'[c].elapsed >= MinElapsed
  <2>1. WorkInv(c, n)' /\ CampaignInv(c, n)'
    BY <1>3, <1>6 DEF WorkInv, CampaignInv, Opening, Recording
  <2> QED
    BY <1>1, <2>1 DEF Kept, SingleAt
<1>7. CASE /\ proc'[c].pc = "scan" /\ proc'[c].stop = proc[c].stop
           /\ proc'[c].goal = "select" /\ proc'[c].left = 1
           /\ proc[c].status.state = "ready"
           /\ proc'[c].expected = proc[c].status.frontier
  <2>1. proc[c].stop \notin {"accepted", "disagreement"}
    BY <1>1, <1>2 DEF CampaignInv
  <2>2. proc'[c].expected = n /\ Ready(n)'
    BY <1>1, <1>3, <1>7
  <2>3. WorkInv(c, n)'
    BY <1>7 DEF WorkInv, Opening, Recording
  <2>4. CampaignInv(c, n)'
    BY <1>7, <2>1, <2>2 DEF CampaignInv, Ready
  <2> QED
    BY <1>1, <2>3, <2>4 DEF Kept, SingleAt
<1> QED
  BY <1>2, <1>4, <1>5, <1>6, <1>7

\* What one controller keeps, step by step.
LEMMA SingleStep ==
  ASSUME NEW c, Procs = {c}, "recorded" \notin Commands
  PROVE  SingleInv(c) /\ [Next]_vars => SingleInv(c)'
<1> SUFFICES ASSUME SingleInv(c), [Next]_vars PROVE SingleInv(c)'
  OBVIOUS
<1>1. TypeInv /\ TypeInv'
  BY StepTypes DEF SingleInv
<1>2. PICK n \in 0..MaxSeq : SingleAt(c, n)
  BY DEF SingleInv
<1>3. ASSUME Start(c) \/ Iteration(c) \/ Driver(c) \/ Crash(c) PROVE Kept(c)
  <2>1. CASE Start(c)
    BY <1>1, <1>2, <2>1, StartKeeps
  <2>2. CASE OpenCampaign(c) \/ CreateCampaign(c) \/ OpenLog(c)
    BY <1>1, <1>2, <2>2, OpenKeeps
  <2>fails. CASE OpenFails(c)
    BY <1>1, <1>2, <2>fails, OpenFailsKeeps
  <2>3. CASE BeginIteration(c) \/ RunChild(c) \/ RecordCompletion(c)
    BY <1>1, <1>2, <2>3, LinesKeep
  <2>4. CASE \/ StageSuccess(c) \/ StageFailure(c)
             \/ PublishSuccess(c) \/ PublishFailure(c) \/ WriteFails(c)
    BY <1>1, <1>2, <2>4, ArtifactsKeep
  <2>5. CASE AnnounceSuccess(c)
    BY <1>1, <1>2, <2>5, AnnounceKeeps
  <2>6. CASE AnnounceFailure(c)
    BY <1>1, <1>2, <2>6, FailureKeeps
  <2>7. CASE ScanEvents(c)
    BY <1>1, <1>2, <2>7, ScanKeeps
  <2>8. CASE Select(c)
    BY <1>1, <1>2, <2>8, SelectKeeps
  <2>9. CASE Guard(c)
    BY <1>1, <1>2, <2>9, GuardKeeps
  <2>10. CASE FinishBatch(c) \/ LookAround(c)
    BY <1>1, <1>2, <2>10, LookKeeps
  <2>11. CASE Decide(c)
    BY <1>1, <1>2, <2>11, DecideKeeps
  <2>12. CASE Crash(c)
    BY <1>1, <1>2, <2>12, CrashKeeps
  <2> QED
    BY <1>3, <2>1, <2>2, <2>fails, <2>3, <2>4, <2>5, <2>6, <2>7, <2>8, <2>9, <2>10, <2>11, <2>12
       DEF Iteration, Driver
<1>4. ASSUME ClockBack \/ UNCHANGED vars PROVE Kept(c)
  <2>1. UNCHANGED <<store, log, files, runs, proc>>
    BY <1>4 DEF ClockBack, vars
  <2>2. RecordInv(n)'
    BY <1>2, <2>1, RecordSame DEF SingleAt
  <2>3. WorkInv(c, n)' /\ CampaignInv(c, n)'
    BY <1>2, <2>1 DEF SingleAt, WorkInv, CampaignInv, Rejected, Untouched, Clean, Marked, Ready
  <2> QED
    BY <1>2, <2>2, <2>3 DEF Kept, SingleAt
<1>5. Kept(c)
  <2>1. \A p \in Procs : p = c
    OBVIOUS
  <2>2. CASE Next
    BY <1>3, <1>4, <2>1, <2>2 DEF Next
  <2> QED
    BY <1>4, <2>2
<1> QED
  BY <1>1, <1>5 DEF Kept, SingleInv

LEMMA SingleInit ==
  ASSUME NEW c, Procs = {c}
  PROVE  Init => SingleInv(c)
<1> SUFFICES ASSUME Init PROVE SingleInv(c)
  OBVIOUS
<1>1. TypeInv
  BY InitTypes
<1>2. 0 \in 0..MaxSeq /\ MaxSeq \in Nat
  BY EvidenceAssumption
<1>3. \A s \in Seqs : Untouched(s)
  BY EmptyLogType DEF Init, Untouched, Clean
<1>4. log.tail = "whole" /\ files.litter = FALSE
  BY EmptyLogType DEF Init
<1>5. 0 < MaxSeq => Untouched(0 + 1)
  BY <1>2, <1>3 DEF Seqs
<1>6. 0 < MaxSeq => ~ Recorded(log, files, 0 + 1) /\ runs[0 + 1] = 0
  BY <1>5 DEF Recorded, Untouched, Clean
<1>7. FrontierIs(log, files, 0)
  BY <1>2, <1>6 DEF FrontierIs
<1>8. RecordInv(0)
  BY <1>3, <1>4, <1>6, <1>7 DEF RecordInv
<1>9. proc[c].pc = "idle" /\ proc[c].stop = "none"
  BY IdleParts DEF Init
<1>10. WorkInv(c, 0) /\ CampaignInv(c, 0)
  BY <1>9 DEF WorkInv, CampaignInv, Opening, Recording
<1> QED
  BY <1>1, <1>2, <1>8, <1>10 DEF SingleInv, SingleAt

LEMMA Single ==
  ASSUME NEW c, Procs = {c}, "recorded" \notin Commands
  PROVE  Spec => [](SingleInv(c) /\ TypeInv /\ WinInv)
<1>1. Init => SingleInv(c)
  BY SingleInit
<1>2. SingleInv(c) /\ [Next]_vars => SingleInv(c)'
  BY SingleStep
<1> QED
  BY <1>1, <1>2, Wins, PTL DEF Spec

\* With one controller at a time that takes its sequences from resume.rs, a
\* workload is started once for each sequence, and only behind a gapless run
\* of recorded successes, whatever is killed or fails on the way.
THEOREM OnceInOrder ==
  ASSUME NEW c, Procs = {c}, "recorded" \notin Commands
  PROVE  Spec => []RunsOnceInOrder
<1>1. SingleInv(c) => RunsOnceInOrder
  <2> SUFFICES ASSUME SingleInv(c), NEW s \in Seqs, runs[s] > 0
               PROVE  runs[s] = 1 /\ \A t \in 1..(s - 1) : Recorded(log, files, t)
    BY DEF RunsOnceInOrder
  <2>1. PICK n \in 0..MaxSeq : RecordInv(n)
    BY DEF SingleInv, SingleAt
  <2>2. MaxSeq \in Nat /\ runs[s] \in 0..2 /\ s \in Nat \ {0} /\ s <= MaxSeq
    BY EvidenceAssumption DEF SingleInv, TypeInv, TypeOK, Seqs
  <2>3. s <= n + 1
    BY <2>1, <2>2 DEF RecordInv, Untouched
  <2>4. CASE s <= n
    <3>1. s \in 1..n /\ \A t \in 1..(s - 1) : t \in 1..n
      BY <2>2, <2>4
    <3> QED
      BY <2>1, <3>1 DEF RecordInv, FrontierIs
  <2>5. CASE s = n + 1
    <3>1. n < MaxSeq /\ \A t \in 1..(s - 1) : t \in 1..n
      BY <2>2, <2>5
    <3>2. runs[s] < 2
      BY <2>1, <2>5, <3>1 DEF RecordInv
    <3> QED
      BY <2>1, <2>2, <3>1, <3>2 DEF RecordInv, FrontierIs
  <2> QED
    BY <2>2, <2>3, <2>4, <2>5
<1> QED
  BY <1>1, Single, PTL

\* A campaign that stops as accepted has run its minimum time, and the imports
\* of its minimum number of iterations are complete and recorded, however often
\* it was killed and started again.
THEOREM AcceptedDelivered ==
  ASSUME NEW c, Procs = {c}, "recorded" \notin Commands
  PROVE  Spec => []AcceptedMeansDelivered
<1>1. SingleInv(c) /\ TypeInv /\ WinInv => AcceptedMeansDelivered
  <2> SUFFICES ASSUME SingleInv(c), TypeInv, WinInv, proc[c].stop = "accepted"
               PROVE  /\ proc[c].elapsed >= MinElapsed
                      /\ Frontier(log, files) >= MinCompleted
                      /\ 1..MinCompleted \subseteq imported
    BY DEF AcceptedMeansDelivered
  <2>1. PICK n \in 0..MaxSeq : SingleAt(c, n)
    BY DEF SingleInv
  <2>2. n >= MinCompleted /\ proc[c].elapsed >= MinElapsed
    BY <2>1 DEF SingleAt, CampaignInv
  <2>3. FrontierIs(log, files, n) /\ Frontier(log, files) = n
    BY <2>1, FrontierUnique DEF SingleAt, RecordInv
  <2>4. \A s \in 1..MinCompleted : s \in 1..n /\ s \in Seqs
    BY <2>2, EvidenceAssumption DEF Seqs
  <2>5. \A s \in 1..MinCompleted : log.won[s] = 1
    BY <2>3, <2>4 DEF FrontierIs, Recorded
  <2> QED
    BY <2>2, <2>3, <2>4, <2>5 DEF WinInv
<1> QED
  BY <1>1, Single, PTL

\* A campaign working alone rejects its own step when the log was torn or a
\* look at the evidence failed.  The evidence it leaves has the frontier it
\* expected or the one after, and unless the log is torn the next command goes
\* on from there: nothing recorded is lost and nothing is run again.
THEOREM RejectedStepLosesNothing ==
  ASSUME NEW c, Procs = {c}, "recorded" \notin Commands
  PROVE  Spec => []DisagreementLosesNothing
<1>1. SingleInv(c) => DisagreementLosesNothing
  <2> SUFFICES ASSUME SingleInv(c), proc[c].stop = "disagreement"
               PROVE  /\ store = "open"
                      /\ Frontier(log, files) \in {proc[c].expected, proc[c].expected + 1}
                      /\ log.tail # "torn" => State(log, files) = "ready" /\ ~ files.litter
    BY DEF DisagreementLosesNothing
  <2>1. PICK n \in 0..MaxSeq : SingleAt(c, n)
    BY DEF SingleInv
  <2>2. Rejected(n, proc[c].expected) /\ RecordInv(n) /\ FrontierIs(log, files, n)
    BY <2>1 DEF SingleAt, CampaignInv, RecordInv
  <2>3. Frontier(log, files) = n
    BY <2>2, FrontierUnique
  <2>4. log \in Logs /\ files \in Artifacts
    BY DEF SingleInv, TypeInv, TypeOK, Artifacts
  <2>5. \A s \in Seqs : s > n + 1 => NoTrace(log, files, s)
    BY <2>2 DEF RecordInv, Untouched, Clean, NoTrace
  <2>6. Ready(n) => (n < MaxSeq => NoTrace(log, files, n + 1))
    BY DEF Ready, Untouched, Clean, NoTrace
  <2>7. Ready(n) => State(log, files) = "ready"
    BY <2>2, <2>4, <2>5, <2>6, VerdictOf
  <2> QED
    BY <2>2, <2>3, <2>7 DEF Rejected, Ready
<1> QED
  BY <1>1, Single, PTL

-----------------------------------------------------------------------------
(* The refinement of the ledger.                                           *)

\* An iteration is only begun over undamaged evidence, and it goes on only as
\* long as no temporary file is left behind.
QuietInv(c) ==
    LET r == proc[c] IN
    /\ (r.pc \in {"guard", "begin"} \union Opening /\ r.goal = "select") =>
          log.tail # "torn"
    /\ (r.pc \in {"guard"} \union Opening \union Recording /\ r.goal = "select") =>
          files.litter = FALSE

LEMMA QuietStep ==
  ASSUME NEW c, Procs = {c}, "recorded" \notin Commands
  PROVE  SingleInv(c) /\ QuietInv(c) /\ [Next]_vars => QuietInv(c)'
<1> SUFFICES ASSUME SingleInv(c), QuietInv(c), [Next]_vars PROVE QuietInv(c)'
  OBVIOUS
<1>0. TypeInv /\ TypeOK /\ c \in Procs /\ (proc[c].pc \in Recording => proc[c].goal = "select")
  BY DEF SingleInv, TypeInv, Fit
<1>1. PICK n \in 0..MaxSeq : SingleAt(c, n)
  BY DEF SingleInv
<1>2. CASE Start(c)
  <2>1. Issued(proc'[c])
    BY <1>0, <1>2, StartEffect
  <2> QED
    BY <2>1 DEF Issued, QuietInv, Opening, Recording
<1>3. CASE OpenCampaign(c) \/ CreateCampaign(c) \/ OpenLog(c)
  BY <1>0, <1>3, OpenEffect DEF QuietInv, Keeps, Opening, Recording
<1>fails. CASE OpenFails(c)
  <2>1. proc'[c].pc = "stopped"
    BY <1>0, <1>fails, OpenFailsEffect
  <2> QED
    BY <2>1 DEF QuietInv, Opening, Recording
<1>4. CASE BeginIteration(c) \/ RunChild(c) \/ RecordCompletion(c)
  <2>1. /\ Keeps(c) /\ files' = files /\ proc[c].pc \in {"begin", "work", "record"}
        /\ proc'[c].pc \in {"work", "record", "succeed", "fail"}
    BY <1>0, <1>4, BeginEffect, RunEffect, CompletionEffect
  <2> QED
    BY <1>0, <2>1 DEF QuietInv, Keeps, Opening, Recording
<1>5. CASE StageSuccess(c) \/ StageFailure(c)
  BY <1>0, <1>5, StageEffect DEF QuietInv, Keeps, Opening, Recording
<1>6. CASE PublishSuccess(c) \/ PublishFailure(c) \/ WriteFails(c)
  <2>1. /\ Keeps(c) /\ proc[c].pc \in {"publish", "publish-failure"}
        /\ \/ proc'[c].pc = "stopped"
           \/ /\ proc'[c].pc \in {"announce", "announce-failure"}
              /\ \/ files' = [files EXCEPT !.singles = @ \union {proc[c].seq}]
                 \/ files' = [files EXCEPT !.failed = @ \union {proc[c].seq}]
    BY <1>0, <1>6, PublishEffect
  <2>2. proc'[c].pc # "stopped" => files'.litter = files.litter
    BY <1>0, <2>1 DEF TypeOK
  <2> QED
    BY <1>0, <2>1, <2>2 DEF QuietInv, Keeps, Opening, Recording
<1>7. CASE AnnounceSuccess(c) \/ AnnounceFailure(c) \/ Crash(c)
  <2>1. proc'[c].pc \in {"idle", "stopped", "scan"}
    BY <1>0, <1>7, AnnounceEffect, FailEffect, CrashEffect
  <2> QED
    BY <2>1 DEF QuietInv, Opening, Recording
<1>8. CASE ScanEvents(c) \/ FinishBatch(c) \/ LookAround(c) \/ Decide(c)
  <2>1. proc'[c].pc \in {"stopped", "scan", "judge", "check"}
    BY <1>0, <1>8, ScanEffect, LookEffect, DecideEffect
  <2> QED
    BY <2>1 DEF QuietInv, Opening, Recording
<1>9. CASE Guard(c)
  <2>1. /\ Keeps(c) /\ proc[c].pc = "guard" /\ proc'[c].pc \in {"open", "stopped"}
    BY <1>0, <1>9, GuardEffect
  <2>2. UNCHANGED <<log, files>>
    BY <1>9 DEF Guard
  <2> QED
    BY <2>1, <2>2 DEF QuietInv, Keeps, Opening, Recording
<1>10. CASE Select(c)
  <2>1. proc[c].pc = "judge" /\ UNCHANGED <<log, files>>
    BY <1>10 DEF Select, At
  <2>2. RecordInv(n) /\ proc[c].seen = log
    BY <1>1, <2>1 DEF SingleAt, WorkInv
  <2>3. \/ proc'[c].pc = "stopped"
        \/ proc'[c].pc \in {"guard", "open"} /\ \E st \in Looks(log) : st.state = "ready"
    BY <1>0, <1>10, <2>2, SelectEffect
  <2>4. (\E st \in Looks(log) : st.state = "ready") => Ready(n)
    BY <1>0, <2>1, <2>2, LooksFind
  <2> QED
    BY <2>1, <2>3, <2>4 DEF Ready, QuietInv, Opening, Recording
<1>11. CASE ClockBack \/ UNCHANGED vars
  <2>1. UNCHANGED <<log, files, proc>>
    BY <1>11 DEF ClockBack, vars
  <2> QED
    BY <2>1 DEF QuietInv
<1>12. \A p \in Procs : p = c
  OBVIOUS
<1> QED
  BY <1>2, <1>3, <1>fails, <1>4, <1>5, <1>6, <1>7, <1>8, <1>9, <1>10, <1>11, <1>12
     DEF Next, Iteration, Driver

\* The ledger's state, when a is whether the success is being announced.
LedgerOf(l, f, a) ==
    IF l.tail = "torn" \/ f.litter THEN "broken"
    ELSE IF State(l, f) = "ready" THEN "ready"
    ELSE IF State(l, f) = "failure" THEN "failed"
    ELSE IF State(l, f) = "incomplete" \/ a THEN "busy" ELSE "broken"

Announcing(c) == proc[c].pc = "announce" /\ proc[c].seq = Frontier(log, files) + 1

LEMMA LedgerStateIs ==
  ASSUME NEW c, Procs = {c}
  PROVE  /\ store # "open" => LedgerState = "closed"
         /\ store = "open" => LedgerState = LedgerOf(log, files, Announcing(c))
         /\ store' # "open" => LedgerState' = "closed"
         /\ store' = "open" => LedgerState' = LedgerOf(log', files', Announcing(c)')
<1>1. (\E p \in Procs : At(p, "announce") /\ proc[p].seq = Frontier(log, files) + 1)
         <=> Announcing(c)
  BY DEF At, Announcing
<1>2. (\E p \in Procs : At(p, "announce") /\ proc[p].seq = Frontier(log, files) + 1)'
         <=> Announcing(c)'
  BY DEF At, Announcing
<1>3. LedgerState = IF store # "open" THEN "closed" ELSE LedgerOf(log, files, Announcing(c))
  BY <1>1 DEF LedgerState, LedgerOf
<1>4. LedgerState' = IF store' # "open" THEN "closed"
                     ELSE LedgerOf(log', files', Announcing(c)')
  BY <1>2 DEF LedgerState, LedgerOf
<1> QED
  BY <1>3, <1>4

\* The ledger's state v for each condition of the next sequence.
LedgerFacts(l, f, n, a, v) ==
    /\ (l.tail = "torn" \/ f.litter) => v = "broken"
    /\ ~ (l.tail = "torn" \/ f.litter) =>
          /\ (n < MaxSeq => NoTrace(l, f, n + 1)) => v = "ready"
          /\ (n < MaxSeq /\ l.won[n + 1] = 0 /\ n + 1 \notin f.singles) =>
                /\ (n + 1 \in l.begun /\ l.lost[n + 1] = 0 /\ n + 1 \notin f.failed) =>
                      v = "busy"
                /\ (n + 1 \in f.failed /\ l.lost[n + 1] < 2) => v = "failed"
          /\ (/\ n < MaxSeq /\ l.won[n + 1] = 0 /\ l.lost[n + 1] = 0
              /\ n + 1 \in f.singles /\ n + 1 \notin f.failed) =>
                 v = IF a THEN "busy" ELSE "broken"

LEMMA LedgerValue ==
  ASSUME NEW l \in Logs, NEW f \in Artifacts, NEW n \in 0..MaxSeq, FrontierIs(l, f, n),
         \A s \in Seqs : s > n + 1 => NoTrace(l, f, s), NEW a \in BOOLEAN
  PROVE  LedgerFacts(l, f, n, a, LedgerOf(l, f, a))
<1> DEFINE v == LedgerOf(l, f, a)
           w == State(l, f)
           D == l.tail = "torn" \/ f.litter
<1>1. /\ D => v = "broken"
      /\ ~ D => /\ w = "ready" => v = "ready"
                /\ w = "failure" => v = "failed"
                /\ w = "incomplete" => v = "busy"
                /\ w = "inconsistent" => v = IF a THEN "busy" ELSE "broken"
  BY DEF LedgerOf
<1>2. /\ (n < MaxSeq => NoTrace(l, f, n + 1)) => w = "ready"
      /\ (n < MaxSeq /\ l.won[n + 1] = 0 /\ n + 1 \notin f.singles) =>
            /\ (n + 1 \in l.begun /\ l.lost[n + 1] = 0 /\ n + 1 \notin f.failed) =>
                  w = "incomplete"
            /\ (n + 1 \in f.failed /\ l.lost[n + 1] < 2) => w = "failure"
      /\ (/\ n < MaxSeq /\ l.won[n + 1] = 0 /\ l.lost[n + 1] = 0
          /\ n + 1 \in f.singles /\ n + 1 \notin f.failed) => w = "inconsistent"
  BY VerdictOf
<1> HIDE DEF v, w
<1>3. LedgerFacts(l, f, n, a, v)
  BY <1>1, <1>2 DEF LedgerFacts
<1> QED
  BY <1>3 DEF v

LEMMA LedgerNow ==
  ASSUME TypeOK, NEW c, Procs = {c}, NEW n \in 0..MaxSeq, RecordInv(n), store = "open"
  PROVE  /\ Frontier(log, files) = n
         /\ LedgerFacts(log, files, n, Announcing(c), LedgerState)
<1>1. log \in Logs /\ files \in Artifacts /\ Announcing(c) \in BOOLEAN
  BY DEF TypeOK, Artifacts, Announcing
<1>2. FrontierIs(log, files, n) /\ \A s \in Seqs : s > n + 1 => NoTrace(log, files, s)
  BY DEF RecordInv, Untouched, Clean, NoTrace
<1>3. LedgerFacts(log, files, n, Announcing(c), LedgerOf(log, files, Announcing(c)))
  BY <1>1, <1>2, LedgerValue
<1> QED
  BY <1>2, <1>3, FrontierUnique, LedgerStateIs

LEMMA LedgerNext ==
  ASSUME TypeOK', NEW c, Procs = {c}, NEW n \in 0..MaxSeq, RecordInv(n)', store' = "open"
  PROVE  /\ Frontier(log', files') = n
         /\ LedgerFacts(log', files', n, Announcing(c)', LedgerState')
<1> DEFINE b == Announcing(c)'
<1>1. log' \in Logs /\ files' \in Artifacts /\ b \in BOOLEAN
  BY DEF TypeOK, Artifacts, Announcing
<1>2. /\ FrontierIs(log', files', n)
      /\ \A s \in Seqs : s > n + 1 => NoTrace(log', files', s)
  BY DEF RecordInv, Untouched, Clean, NoTrace
<1>3. LedgerState' = LedgerOf(log', files', b)
  BY LedgerStateIs
<1> HIDE DEF b
<1>4. LedgerFacts(log', files', n, b, LedgerOf(log', files', b))
  BY <1>1, <1>2, LedgerValue
<1> QED
  BY <1>2, <1>3, <1>4, FrontierUnique DEF b

\* A step of the ledger, or none.
LedgerStep == [Ledger!Next]_(Ledger!vars)

\* The steps that keep the frontier.
LEMMA LedgerKeeps ==
  ASSUME Frontier(log', files') = Frontier(log, files),
         \/ LedgerState' = LedgerState \/ LedgerState' = "broken"
         \/ LedgerState = "closed" /\ LedgerState' = "ready"
         \/ LedgerState = "ready" /\ LedgerState' = "busy"
         \/ LedgerState \in {"ready", "busy"} /\ LedgerState' = "failed"
  PROVE  LedgerStep
<1> DEFINE s == LedgerState
           t == LedgerState'
           f == Frontier(log, files)
           g == Frontier(log', files')
<1>1. LedgerStep <=>
         \/ /\ \/ s = "closed" /\ t = "ready" /\ g = f
               \/ s = "ready" /\ t = "busy" /\ g = f
               \/ s = "busy" /\ t = "ready" /\ g = f + 1
               \/ s \in {"ready", "busy"} /\ t = "failed" /\ g = f
               \/ s # "broken" /\ t = "broken" /\ g = f
         \/ g = f /\ t = s
  BY DEF LedgerStep, Ledger!Next, Ledger!vars, Ledger!Open, Ledger!Begin,
         Ledger!Succeed, Ledger!Fail, Ledger!Break
<1> HIDE DEF s, t, f, g
<1>2. /\ g = f
      /\ \/ t = s \/ t = "broken"
         \/ s = "closed" /\ t = "ready"
         \/ s = "ready" /\ t = "busy"
         \/ s \in {"ready", "busy"} /\ t = "failed"
  BY DEF s, t, f, g
<1> QED
  BY <1>1, <1>2

\* The next sequence is recorded.
LEMMA LedgerSucceeds ==
  ASSUME Frontier(log', files') = Frontier(log, files) + 1,
         LedgerState = "busy", LedgerState' = "ready"
  PROVE  LedgerStep
  BY DEF LedgerStep, Ledger!Next, Ledger!vars, Ledger!Succeed

\* A line takes nothing back.
LEMMA LineGrows ==
  ASSUME TypeInv, NEW c, Procs = {c}, NEW n \in 0..MaxSeq, WorkInv(c, n),
         proc[c].pc \in Recording, Writes(c) \/ log' = log
  PROVE  /\ log.tail = "torn" => log'.tail = "torn"
         /\ n + 1 \in log.begun => n + 1 \in log'.begun
         /\ log.lost[n + 1] = 0 => log'.lost[n + 1] < 2
<1>1. TypeOK /\ c \in Procs /\ proc[c].seq = n + 1
  BY AtNext
<1>2. CASE Writes(c)
  BY <1>1, <1>2, WriteAt DEF Bump
<1>3. CASE log' = log
  BY <1>3
<1> QED
  BY <1>2, <1>3

\* The artifacts of the next sequence after a step at the point pc.
FilesAtNext(n, pc) ==
    \/ files'.litter
    \/ /\ n + 1 \in files'.singles <=> n + 1 \in files.singles
       /\ n + 1 \in files'.failed <=> n + 1 \in files.failed
    \/ /\ pc = "publish" /\ n + 1 \in files'.singles
       /\ n + 1 \in files'.failed <=> n + 1 \in files.failed
    \/ /\ pc = "publish-failure" /\ n + 1 \in files'.failed
       /\ n + 1 \in files'.singles <=> n + 1 \in files.singles

\* Every step of the iteration but its announcement, interrupted or not.
LEMMA LedgerWorks ==
  ASSUME TypeInv, TypeOK', NEW c, Procs = {c}, NEW n \in 0..MaxSeq,
         RecordInv(n), WorkInv(c, n), QuietInv(c),
         proc[c].pc \in Recording \ {"announce"}, Writes(c) \/ log' = log,
         \/ runs' = runs
         \/ proc[c].pc = "work" /\ runs' = [runs EXCEPT ![proc[c].seq] = Bump(@)],
         FilesStay(n), store' = store, FilesAtNext(n, proc[c].pc)
  PROVE  LedgerStep
<1> DEFINE pc == proc[c].pc
           s == LedgerState
           t == LedgerState'
           D == log.tail = "torn" \/ files.litter
           E == log'.tail = "torn" \/ files'.litter
           a == Announcing(c)
           b == Announcing(c)'
<1>1. /\ TypeOK /\ n < MaxSeq /\ store = "open" /\ store' = "open"
      /\ proc[c].goal = "select" /\ log.won[n + 1] = 0
  BY AtNext
<1>2. /\ log'.won[n + 1] = 0
      /\ pc # "announce-failure" => log'.lost[n + 1] = log.lost[n + 1]
  BY LineAtNext
<1>3. /\ log.tail = "torn" => log'.tail = "torn"
      /\ n + 1 \in log.begun => n + 1 \in log'.begun
      /\ log.lost[n + 1] = 0 => log'.lost[n + 1] < 2
  BY LineGrows
<1>4. RecordInv(n)'
  BY <1>2, StaysAtNext
<1>5. Frontier(log, files) = n /\ LedgerFacts(log, files, n, a, s)
  BY <1>1, LedgerNow
<1>6. Frontier(log', files') = n /\ LedgerFacts(log', files', n, b, t)
  BY <1>1, <1>4, LedgerNext
<1>7. files.litter = FALSE
  BY <1>1 DEF QuietInv
<1>8. pc \notin {"fail", "publish", "publish-failure", "succeed"} \/ log' = log
  BY DEF Writes, Appending
<1> HIDE DEF s, t, a, b
<1>9. CASE E
  <2>1. t = "broken"
    BY <1>6, <1>9 DEF LedgerFacts
  <2> QED
    BY <1>5, <1>6, <2>1, LedgerKeeps DEF t
<1>10. CASE ~ E
  <2>1. ~ D
    BY <1>3, <1>7, <1>10
  <2>2. \/ t = s \/ t = "broken"
        \/ s = "ready" /\ t = "busy"
        \/ s \in {"ready", "busy"} /\ t = "failed"
    <3>1. CASE pc = "begin"
      <4>1. NoTrace(log, files, n + 1)
        BY <1>1, <3>1 DEF WorkInv, Untouched, Clean, NoTrace
      <4>2. s = "ready"
        BY <1>5, <2>1, <4>1 DEF LedgerFacts
      <4>3. n + 1 \notin files'.singles /\ n + 1 \notin files'.failed /\ log'.lost[n + 1] = 0
        BY <1>2, <1>10, <3>1, <4>1 DEF FilesAtNext, NoTrace
      <4>4. CASE n + 1 \in log'.begun
        <5>1. t = "busy"
          BY <1>1, <1>2, <1>6, <1>10, <4>3, <4>4 DEF LedgerFacts
        <5> QED
          BY <4>2, <5>1
      <4>5. CASE n + 1 \notin log'.begun
        <5>1. NoTrace(log', files', n + 1)
          BY <1>2, <4>3, <4>5 DEF NoTrace
        <5>2. t = "ready"
          BY <1>6, <1>10, <5>1 DEF LedgerFacts
        <5> QED
          BY <4>2, <5>2
      <4> QED
        BY <4>4, <4>5
    <3>2. CASE pc \in {"work", "record", "succeed", "publish"}
      <4>1. Clean(n + 1) /\ n + 1 \in log.begun
        BY <2>1, <3>2 DEF WorkInv, Marked
      <4>2. s = "busy"
        BY <1>1, <1>5, <2>1, <4>1 DEF LedgerFacts, Clean
      <4>3. /\ n + 1 \notin files'.failed /\ log'.lost[n + 1] = 0 /\ n + 1 \in log'.begun
        BY <1>2, <1>3, <1>10, <3>2, <4>1 DEF FilesAtNext, Clean
      <4>4. t \in {"busy", "broken"}
        BY <1>1, <1>2, <1>6, <1>10, <4>3 DEF LedgerFacts
      <4> QED
        BY <4>2, <4>4
    <3>3. CASE pc \in {"fail", "publish-failure"}
      <4>1. Clean(n + 1) /\ log' = log
        BY <1>8, <3>3 DEF WorkInv
      <4>2. s \in {"ready", "busy"} /\ (n + 1 \in log.begun <=> s = "busy")
        <5>1. n + 1 \notin log.begun => s = "ready"
          BY <1>5, <2>1, <4>1 DEF LedgerFacts, Clean, NoTrace
        <5>2. n + 1 \in log.begun => s = "busy"
          BY <1>1, <1>5, <2>1, <4>1 DEF LedgerFacts, Clean
        <5> QED
          BY <5>1, <5>2
      <4>3. n + 1 \notin files'.singles
        BY <1>10, <3>3, <4>1 DEF FilesAtNext, Clean
      <4>4. CASE n + 1 \in files'.failed
        <5>1. t = "failed"
          BY <1>1, <1>2, <1>3, <1>6, <1>10, <4>1, <4>3, <4>4 DEF LedgerFacts, Clean
        <5> QED
          BY <4>2, <5>1
      <4>5. CASE n + 1 \notin files'.failed
        <5>1. n + 1 \notin log.begun => t = "ready"
          BY <1>6, <1>10, <4>1, <4>3, <4>5 DEF LedgerFacts, Clean, NoTrace
        <5>2. n + 1 \in log.begun => t = "busy"
          BY <1>1, <1>6, <1>10, <4>1, <4>3, <4>5 DEF LedgerFacts, Clean
        <5> QED
          BY <4>2, <5>1, <5>2
      <4> QED
        BY <4>4, <4>5
    <3>4. CASE pc = "announce-failure"
      <4>1. log.lost[n + 1] = 0 /\ n + 1 \notin files.singles /\ n + 1 \in files.failed
        BY <3>4 DEF WorkInv
      <4>2. s = "failed"
        BY <1>1, <1>5, <2>1, <4>1 DEF LedgerFacts
      <4>3. n + 1 \notin files'.singles /\ n + 1 \in files'.failed
        BY <1>10, <3>4, <4>1 DEF FilesAtNext
      <4>4. t = "failed"
        BY <1>1, <1>2, <1>3, <1>6, <1>10, <4>1, <4>3 DEF LedgerFacts
      <4> QED
        BY <4>2, <4>4
    <3> QED
      BY <3>1, <3>2, <3>3, <3>4 DEF Recording
  <2> QED
    BY <1>5, <1>6, <2>2, LedgerKeeps DEF s, t
<1> QED
  BY <1>9, <1>10

\* The announcement of a success, interrupted or not.
LEMMA LedgerAnnounces ==
  ASSUME TypeInv, TypeOK', NEW c, Procs = {c}, NEW n \in 0..MaxSeq,
         RecordInv(n), WorkInv(c, n), QuietInv(c),
         proc[c].pc = "announce", proc'[c].pc # "announce", Writes(c) \/ log' = log,
         UNCHANGED <<store, runs>>, files' = files
  PROVE  LedgerStep
<1> DEFINE s == LedgerState
           t == LedgerState'
           a == Announcing(c)
           b == Announcing(c)'
<1>0. proc[c].pc \in Recording
  BY DEF Recording
<1>1. /\ TypeOK /\ n < MaxSeq /\ store = "open" /\ store' = "open"
      /\ proc[c].goal = "select" /\ log.won[n + 1] = 0 /\ proc[c].seq = n + 1
  BY <1>0, AtNext
<1>2. /\ n + 1 \in files'.singles /\ n + 1 \notin files'.failed /\ log.lost[n + 1] = 0
      /\ n + 1 \in files.singles /\ n + 1 \notin files.failed
  BY DEF WorkInv
<1>3. log'.lost[n + 1] = 0 /\ (log.tail = "torn" => log'.tail = "torn")
  BY <1>0, <1>2, LineAtNext, LineGrows
<1>4. Frontier(log, files) = n /\ LedgerFacts(log, files, n, a, s)
  BY <1>1, LedgerNow
<1>5. a = TRUE /\ b = FALSE /\ files.litter = FALSE
  BY <1>0, <1>1, <1>4 DEF Announcing, QuietInv
<1> HIDE DEF s, t, a, b
<1>6. log.tail # "torn" => s = "busy"
  BY <1>1, <1>2, <1>4, <1>5 DEF LedgerFacts
<1>7. CASE log'.won[n + 1] = 0 /\ RecordInv(n)'
  <2>1. Frontier(log', files') = n /\ LedgerFacts(log', files', n, b, t)
    BY <1>1, <1>7, LedgerNext DEF b, t
  <2>2. t = "broken"
    BY <1>1, <1>2, <1>3, <1>5, <1>7, <2>1 DEF LedgerFacts
  <2> QED
    BY <1>4, <2>1, <2>2, LedgerKeeps DEF t
<1>8. CASE /\ log'.won[n + 1] = 1 /\ n + 1 \in 0..MaxSeq /\ RecordInv(n + 1)'
           /\ log'.tail # "torn" /\ (n + 1 < MaxSeq => Untouched(n + 2)')
  <2> DEFINE m == n + 1
  <2>1. m \in 0..MaxSeq /\ m + 1 = n + 2 /\ RecordInv(m)'
    BY <1>8
  <2>2. m < MaxSeq => NoTrace(log', files', m + 1)
    <3> HAVE m < MaxSeq
    <3>1. Untouched(n + 2)'
      BY <1>8
    <3> QED
      BY <2>1, <3>1 DEF Untouched, Clean, NoTrace
  <2>3. Frontier(log', files') = m /\ LedgerFacts(log', files', m, b, t)
    <3> HIDE DEF m
    <3> QED
      BY <1>1, <2>1, LedgerNext DEF b, t
  <2>4. t = "ready"
    <3> HIDE DEF m
    <3> QED
      BY <1>5, <1>8, <2>2, <2>3 DEF LedgerFacts
  <2>5. s = "busy"
    BY <1>3, <1>6, <1>8
  <2> QED
    BY <1>4, <2>3, <2>4, <2>5, LedgerSucceeds DEF s, t
<1> QED
  BY <1>0, <1>2, <1>7, <1>8, AnnounceAtNext DEF FilesStay

\* A step that leaves the evidence alone.
LEMMA LedgerStutters ==
  ASSUME NEW c, Procs = {c}, UNCHANGED <<log, files>>,
         \/ proc[c].pc # "announce" /\ proc'[c].pc # "announce"
         \/ proc' = proc,
         store' = store \/ (store # "open" /\ store' # "open")
  PROVE  LedgerStep
<1>1. Announcing(c)' = Announcing(c)
  BY DEF Announcing
<1>2. LedgerState' = LedgerState
  BY <1>1, LedgerStateIs
<1>3. Frontier(log', files') = Frontier(log, files)
  OBVIOUS
<1> QED
  BY <1>2, <1>3, LedgerKeeps

\* The store of a campaign is opened.
LEMMA LedgerOpens ==
  ASSUME TypeInv, TypeOK', NEW c, Procs = {c}, NEW n \in 0..MaxSeq, RecordInv(n),
         store' = "open", UNCHANGED <<log, files, runs>>,
         proc[c].pc # "announce", proc'[c].pc # "announce"
  PROVE  LedgerStep
<1>1. /\ store' = "open" /\ UNCHANGED <<log, files, runs>> /\ c \in Procs
  OBVIOUS
<1>2. CASE store = "open"
  BY <1>1, <1>2, LedgerStutters
<1>3. CASE store # "open"
  <2>1. /\ \A s \in Seqs : Untouched(s)
        /\ log.tail = "whole" /\ files.litter = FALSE
    BY <1>3 DEF RecordInv
  <2>2. n < MaxSeq => n + 1 \in Seqs
    BY EvidenceAssumption DEF Seqs
  <2>3. n < MaxSeq => NoTrace(log', files', n + 1)
    BY <1>1, <2>1, <2>2 DEF Untouched, Clean, NoTrace
  <2>4. RecordInv(n)'
    BY <1>1, RecordSame
  <2>5. Frontier(log', files') = n /\ LedgerFacts(log', files', n, Announcing(c)', LedgerState')
    BY <1>1, <2>4, LedgerNext
  <2>6. LedgerState' = "ready"
    <3> DEFINE t == LedgerState'
               b == Announcing(c)'
    <3>1. LedgerFacts(log', files', n, b, t)
      BY <2>5
    <3> HIDE DEF t, b
    <3>2. t = "ready"
      BY <1>1, <2>1, <2>3, <3>1 DEF LedgerFacts
    <3> QED
      BY <3>2 DEF t
  <2>7. LedgerState = "closed" /\ Frontier(log', files') = Frontier(log, files)
    BY <1>1, <1>3, LedgerStateIs
  <2> QED
    BY <2>6, <2>7, LedgerKeeps
<1> QED
  BY <1>2, <1>3

LEMMA LedgerRefines ==
  ASSUME NEW c, Procs = {c}
  PROVE  SingleInv(c) /\ QuietInv(c) /\ [Next]_vars => LedgerStep
<1> SUFFICES ASSUME SingleInv(c), QuietInv(c), [Next]_vars PROVE LedgerStep
  OBVIOUS
<1>0. TypeInv /\ TypeOK /\ TypeOK' /\ c \in Procs
  BY StepTypes DEF SingleInv, TypeInv
<1>1. PICK n \in 0..MaxSeq : RecordInv(n) /\ WorkInv(c, n)
  BY DEF SingleInv, SingleAt
<1>2. ASSUME proc[c].pc \in Recording \ {"announce"}, Writes(c) \/ log' = log,
             \/ runs' = runs
             \/ proc[c].pc = "work" /\ runs' = [runs EXCEPT ![proc[c].seq] = Bump(@)],
             store' = store,
             \/ files' = files
             \/ \E x \in BOOLEAN :
                   files' = [files EXCEPT !.litter = x] /\ (x = TRUE \/ x = files.litter)
             \/ /\ proc[c].pc = "publish"
                /\ files' = [files EXCEPT !.singles = @ \union {proc[c].seq}]
             \/ /\ proc[c].pc = "publish-failure"
                /\ files' = [files EXCEPT !.failed = @ \union {proc[c].seq}]
      PROVE  LedgerStep
  <2>1. proc[c].seq = n + 1
    BY <1>0, <1>1, <1>2, AtNext
  <2>2. FilesStay(n) /\ FilesAtNext(n, proc[c].pc)
    BY <1>0, <1>2, <2>1 DEF FilesStay, FilesAtNext, TypeOK
  <2> QED
    BY <1>0, <1>1, <1>2, <2>2, LedgerWorks
<1>3. CASE Start(c)
  <2>1. Issued(proc'[c]) /\ UNCHANGED <<store, log, files>>
    BY <1>0, <1>3, StartEffect
  <2>2. ~ Running(c)
    BY <1>3 DEF Start
  <2> QED
    BY <2>1, <2>2, LedgerStutters DEF Issued, Running
<1>4. CASE OpenCampaign(c) \/ CreateCampaign(c)
  <2>1. /\ proc[c].pc \in {"open", "create"} /\ UNCHANGED <<log, files>>
        /\ store' = store \/ (store # "open" /\ store' # "open")
    BY <1>4 DEF OpenCampaign, CreateCampaign, At
  <2>2. proc'[c].pc # "announce"
    BY <1>0, <1>4, OpenEffect
  <2> QED
    BY <2>1, <2>2, LedgerStutters
<1>5. CASE OpenLog(c)
  BY <1>0, <1>1, <1>5, OpenEffect, LedgerOpens DEF Opening, OpenLog, At
<1>fails. CASE OpenFails(c)
  <2>1. /\ proc[c].pc \in Opening /\ proc'[c].pc = "stopped" /\ UNCHANGED <<log, files, runs>>
        /\ \/ store' = store \/ (store # "open" /\ store' # "open")
           \/ store' = "open"
    BY <1>0, <1>fails, OpenFailsEffect
  <2>2. CASE store' = "open"
    BY <1>0, <1>1, <2>1, <2>2, LedgerOpens DEF Opening
  <2>3. CASE store' # "open"
    BY <2>1, <2>3, LedgerStutters DEF Opening
  <2> QED
    BY <2>2, <2>3
<1>6. CASE BeginIteration(c) \/ RunChild(c) \/ RecordCompletion(c)
  <2>1. /\ Writes(c) /\ UNCHANGED <<store, files>> /\ proc[c].pc \in {"begin", "work", "record"}
        /\ \/ runs' = runs
           \/ proc[c].pc = "work" /\ runs' = [runs EXCEPT ![proc[c].seq] = Bump(@)]
    BY <1>0, <1>6, BeginEffect, RunEffect, CompletionEffect
  <2> QED
    BY <1>2, <2>1 DEF Recording
<1>7. CASE StageSuccess(c) \/ StageFailure(c)
  <2>1. /\ UNCHANGED <<store, log, files, runs>> /\ proc[c].pc \in {"succeed", "fail"}
    BY <1>0, <1>7, StageEffect
  <2> QED
    BY <1>2, <2>1 DEF Recording
<1>8. CASE PublishSuccess(c) \/ PublishFailure(c) \/ WriteFails(c)
  <2>1. /\ UNCHANGED <<store, log, runs>> /\ proc[c].pc \in {"publish", "publish-failure"}
        /\ \/ files' = files
           \/ files' = [files EXCEPT !.litter = TRUE]
           \/ /\ proc[c].pc = "publish"
              /\ files' = [files EXCEPT !.singles = @ \union {proc[c].seq}]
           \/ /\ proc[c].pc = "publish-failure"
              /\ files' = [files EXCEPT !.failed = @ \union {proc[c].seq}]
    BY <1>0, <1>8, PublishEffect
  <2>2. TRUE \in BOOLEAN
    OBVIOUS
  <2> QED
    BY <1>2, <2>1, <2>2 DEF Recording
<1>9. CASE AnnounceSuccess(c)
  <2>1. /\ proc[c].pc = "announce" /\ proc'[c].pc # "announce" /\ Writes(c)
        /\ UNCHANGED <<store, runs, files>>
    BY <1>0, <1>9, AnnounceEffect
  <2> QED
    BY <1>0, <1>1, <2>1, LedgerAnnounces
<1>10. CASE AnnounceFailure(c)
  <2>1. /\ proc[c].pc = "announce-failure" /\ Writes(c) /\ UNCHANGED <<store, runs, files>>
    BY <1>0, <1>10, FailEffect
  <2> QED
    BY <1>2, <2>1 DEF Recording
<1>11. CASE Driver(c)
  <2>1. UNCHANGED <<store, log, files>>
    BY <1>11 DEF Driver, ScanEvents, Select, Guard, FinishBatch, LookAround, Decide
  <2>2. proc[c].pc # "announce" /\ proc'[c].pc # "announce"
    <3>1. CASE ScanEvents(c) \/ Select(c) \/ Guard(c)
      BY <1>0, <3>1, ScanEffect, SelectEffect, GuardEffect
    <3>2. CASE FinishBatch(c) \/ LookAround(c) \/ Decide(c)
      BY <1>0, <3>2, LookEffect, DecideEffect
    <3> QED
      BY <1>11, <3>1, <3>2 DEF Driver
  <2> QED
    BY <2>1, <2>2, LedgerStutters
<1>12. CASE Crash(c)
  <2> DEFINE x == files.litter \/ proc[c].pc \in {"publish", "publish-failure"}
  <2>1. /\ proc'[c].pc = "idle" /\ (Writes(c) \/ log' = log) /\ store' = store
        /\ files' = [files EXCEPT !.litter = x]
        /\ \/ runs' = runs
           \/ proc[c].pc = "work" /\ runs' = [runs EXCEPT ![proc[c].seq] = Bump(@)]
    BY <1>0, <1>12, CrashEffect
  <2>2. x \in BOOLEAN /\ (x = TRUE \/ x = files.litter)
    BY <1>0 DEF TypeOK
  <2>3. proc[c].pc \notin {"publish", "publish-failure"} => files' = files
    <3> HAVE proc[c].pc \notin {"publish", "publish-failure"}
    <3>1. x = files.litter
      BY <1>0 DEF TypeOK
    <3> HIDE DEF x
    <3> QED
      BY <1>0, <2>1, <3>1 DEF TypeOK
  <2> HIDE DEF x
  <2>4. CASE proc[c].pc \in Recording \ {"announce"}
    BY <1>2, <2>1, <2>2, <2>4
  <2>5. CASE proc[c].pc = "announce"
    BY <1>0, <1>1, <2>1, <2>3, <2>5, LedgerAnnounces
  <2>6. CASE proc[c].pc \notin Recording
    <3>1. log' = log /\ files' = files
      BY <2>1, <2>3, <2>6 DEF Writes, Appending, Recording
    <3>2. proc[c].pc # "announce" /\ proc'[c].pc # "announce"
      BY <2>1, <2>6 DEF Recording
    <3> QED
      BY <2>1, <3>1, <3>2, LedgerStutters
  <2> QED
    BY <2>4, <2>5, <2>6
<1>13. CASE ClockBack \/ UNCHANGED vars
  <2>1. UNCHANGED <<store, log, files, proc>>
    BY <1>13 DEF ClockBack, vars
  <2> QED
    BY <2>1, LedgerStutters
<1>14. \A p \in Procs : p = c
  OBVIOUS
<1> QED
  BY <1>3, <1>4, <1>5, <1>fails, <1>6, <1>7, <1>8, <1>9, <1>10, <1>11, <1>12, <1>13, <1>14
     DEF Next, Iteration

\* One controller at a time implements the ledger: the evidence it leaves, as
\* resume.rs reads it, records one iteration after the other, each at most once,
\* and whatever is not a recorded success stops the campaign for good.
THEOREM LedgerRefinement ==
  ASSUME NEW c, Procs = {c}, "recorded" \notin Commands
  PROVE  Spec => ImplementsLedger
<1>1. Init => SingleInv(c) /\ QuietInv(c)
  <2>1. Init => proc[c].pc = "idle"
    BY IdleParts DEF Init
  <2> QED
    BY <2>1, SingleInit DEF QuietInv, Opening, Recording
<1>2. SingleInv(c) /\ QuietInv(c) /\ [Next]_vars => SingleInv(c)' /\ QuietInv(c)'
  BY SingleStep, QuietStep
<1>3. Init => Ledger!Init
  <2> SUFFICES ASSUME Init PROVE Frontier(log, files) = 0 /\ LedgerState = "closed"
    BY DEF Ledger!Init
  <2>1. store = "absent"
    BY DEF Init
  <2>2. SingleInv(c)
    BY SingleInit
  <2>3. PICK n \in 0..MaxSeq : RecordInv(n)
    BY <2>2 DEF SingleInv, SingleAt
  <2>4. FrontierIs(log, files, n)
    BY <2>3 DEF RecordInv
  <2>5. \A s \in Seqs : runs[s] = 0
    BY DEF Init
  <2>6. n = 0
    <3> SUFFICES ASSUME n # 0 PROVE FALSE
      OBVIOUS
    <3>1. 1 \in 1..n /\ 1 \in Seqs
      BY EvidenceAssumption DEF Seqs
    <3> QED
      BY <2>3, <2>5, <3>1 DEF RecordInv
  <2> QED
    BY <2>1, <2>4, <2>6, FrontierUnique, LedgerStateIs
<1>4. SingleInv(c) /\ QuietInv(c) /\ [Next]_vars => [Ledger!Next]_(Ledger!vars)
  BY LedgerRefines DEF LedgerStep
<1> QED
  BY <1>1, <1>2, <1>3, <1>4, PTL DEF Spec, ImplementsLedger, Ledger!Spec
=============================================================================
