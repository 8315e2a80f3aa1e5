-------------------------- MODULE CodeqlPreflight --------------------------
(***************************************************************************)
(* The release-candidate gate (tools/ci/release_codeql_preflight.py), the  *)
(* CodeQL scans it reuses, joins or dispatches (.github/workflows/         *)
(* codeql.yml), and the verdict both pass over a scan's SARIF              *)
(* (.github/scripts/release-codeql-verdict.py).                            *)
(*                                                                         *)
(* Every answer of the GitHub API is a step of its own, so scans start,    *)
(* end, are run again and lose their artifacts between two of them.  A     *)
(* listing of runs is one step.  A candidate is a commit number; the       *)
(* composing module says which commits are on main.                        *)
(***************************************************************************)
EXTENDS Naturals, Sequences, FiniteSets

CONSTANTS
    Languages,      \* the languages a scan covers, one job each
    Required,       \* the reviewed rules a language's query pack must hold
    Sarifs,         \* what an analysis of one language may produce
    MaxScans,       \* how many scans ever start
    MaxPolls        \* --timeout-seconds over --poll-seconds

ASSUME PreflightAssumption ==
    /\ Languages # {} /\ IsFiniteSet(Languages)
    /\ MaxScans \in Nat
    /\ MaxPolls \in Nat \ {0}

VARIABLES
    scans,      \* the CodeQL runs on main, by number
    requested,  \* dispatches GitHub has accepted and not yet started
    pf          \* the preflight run

-----------------------------------------------------------------------------
\* The verdict over the SARIF of one language.

\* Severities are numbers from 0 to 10; 7 is High.
Score == 0..10
High == 7

\* Every expected file was extracted, without errors or warnings.
Covered(s) ==
    /\ s.executed /\ s.errors = {}
    /\ s.expected # {} /\ s.extracted # {}
    /\ s.expected \subseteq s.extracted

Accepts(s, required) ==
    /\ Covered(s)
    /\ required \subseteq s.rules
    /\ \A f \in s.findings :
         /\ f.rule \in s.rules
         /\ f.security => f.scores # {}
         /\ \A x \in f.scores : x \in Score /\ x < High

-----------------------------------------------------------------------------
\* The scans.

\* A proof of one language: its SARIF, the source manifest that names
\* candidate, checkout and tree, and what has become of the two artifacts.
NoProofs == [l \in {} |-> {}]

NewScan(event, sha, head) ==
    [event |-> event, sha |-> sha, head |-> head, attempt |-> 1,
     status |-> "queued", conclusion |-> "none", proofs |-> NoProofs, kept |-> FALSE]

Completed(s) == s.status = "completed"
Failed(s) == Completed(s) /\ s.conclusion # "success"

\* The concurrency group of a candidate: one scan runs, one waits, and a new
\* one takes the place of the one that waits.
Group(sha) == {i \in DOMAIN scans : scans[i].sha = sha /\ ~Completed(scans[i])}

Enter(s) ==
    scans' = Append([i \in DOMAIN scans |->
                       IF i \in Group(s.sha) /\ scans[i].status = "queued"
                       THEN [scans[i] EXCEPT !.status = "completed", !.conclusion = "cancelled"]
                       ELSE scans[i]], s)

StartScan(i) ==
    /\ scans[i].status = "queued"
    /\ \A k \in Group(scans[i].sha) : scans[k].status = "queued"
    /\ scans' = [scans EXCEPT ![i].status = "running"]
    /\ UNCHANGED <<requested, pf>>

\* The scan verifies its own SARIF, with the verdict script of the commit the
\* workflow ran from: an older one requires fewer rules.
FinishScan(i) ==
    /\ scans[i].status = "running"
    /\ \E proofs \in [Languages -> Sarifs], required \in SUBSET Required :
         scans' = [scans EXCEPT ![i].status = "completed", ![i].proofs = proofs,
                     ![i].kept = TRUE,
                     ![i].conclusion =
                        IF \A l \in Languages : Accepts(proofs[l], required)
                        THEN "success" ELSE "failure"]
    /\ UNCHANGED <<requested, pf>>

\* Artifacts live for 90 days; runs stay listed.
Expire(i) ==
    /\ Completed(scans[i]) /\ scans[i].kept
    /\ scans' = [scans EXCEPT ![i].kept = FALSE]
    /\ UNCHANGED <<requested, pf>>

Rerun(i) ==
    /\ Completed(scans[i]) /\ scans[i].attempt = 1
    /\ scans' = [scans EXCEPT ![i].attempt = 2, ![i].status = "queued",
                              ![i].conclusion = "none"]
    /\ UNCHANGED <<requested, pf>>

\* The weekly scan, of the head of main.
Schedule(head) ==
    /\ Len(scans) < MaxScans
    /\ Enter(NewScan("schedule", head, head))
    /\ UNCHANGED <<requested, pf>>

\* Somebody dispatches a scan of a commit on main.
DispatchByHand(sha, head) ==
    /\ Len(scans) < MaxScans
    /\ Enter(NewScan("workflow_dispatch", sha, head))
    /\ UNCHANGED <<requested, pf>>

\* A dispatch the preflight asked for becomes a run.
StartRequested(head) ==
    /\ requested # <<>> /\ Len(scans) < MaxScans
    /\ Enter(NewScan("workflow_dispatch", Head(requested), head))
    /\ requested' = Tail(requested)
    /\ UNCHANGED pf

-----------------------------------------------------------------------------
\* The preflight.

\* Mutant: a dispatched scan is identified by the commit it was started from.
ExactByHead(s, sha) == s.head = sha

\* The run's title names what a dispatched scan looks at.
Exact(s, sha) ==
    IF s.event = "workflow_dispatch" THEN s.sha = sha ELSE s.head = sha

Idle == [pc |-> "idle", sha |-> 0, listing |-> {}, before |-> {}, todo |-> {},
         valid |-> 0, selected |-> 0, polls |-> 0, result |-> "none", failed |-> {}]

\* A listing: what discovery sees of a run.
Row(i) == [id |-> i, event |-> scans[i].event, sha |-> scans[i].sha, head |-> scans[i].head,
           status |-> scans[i].status, conclusion |-> scans[i].conclusion,
           attempt |-> scans[i].attempt]
Listing(sha) == {Row(i) : i \in {k \in DOMAIN scans : Exact(scans[k], sha)}}

Others == UNCHANGED <<scans, requested>>
Goes(p) == pf' = p /\ Others
Reject == Goes([pf EXCEPT !.pc = "done", !.result = "rejected"])
Pass == Goes([pf EXCEPT !.pc = "done", !.result = "passed"])
At(pc) == pf.pc = pc

\* A preflight for a commit; it starts by proving that main reaches it.
StartPreflight(sha, main) ==
    /\ At("idle")
    /\ Goes([Idle EXCEPT !.pc = IF sha \in main THEN "list" ELSE "done",
                         !.result = IF sha \in main THEN "none" ELSE "rejected",
                         !.sha = sha,
                         !.failed = {i \in DOMAIN scans : Exact(scans[i], sha) /\ Failed(scans[i])}])

\* Any call of the API may fail, and with it the preflight.
ApiFails ==
    /\ pf.pc \in {"list", "available", "inspect", "dispatch", "find", "poll", "state"}
    /\ Reject

List ==
    /\ At("list")
    /\ Goes([pf EXCEPT !.pc = "decide", !.listing = Listing(pf.sha),
                       !.before = DOMAIN scans])

Active(rows) == {r \in rows : ~Completed(r)}
Done(rows) == {r \in rows : Completed(r)}

Ambiguous(rows) ==
    \/ \E r \in rows : r.attempt # 1
    \/ Cardinality(Active(rows)) > 1
    \/ \E r \in rows : Failed(r)
    \/ Active(rows) # {} /\ Done(rows) # {}

\* Reuse what is there, join what is under way, or ask for a scan.
Decide ==
    /\ At("decide")
    /\ IF Ambiguous(pf.listing) THEN Reject
       ELSE IF Active(pf.listing) # {}
       THEN Goes([pf EXCEPT !.pc = "poll",
                            !.selected = (CHOOSE r \in Active(pf.listing) : TRUE).id])
       ELSE Goes([pf EXCEPT !.todo = {r.id : r \in Done(pf.listing)},
                            !.pc = IF Done(pf.listing) = {} THEN "dispatch" ELSE "available"])

\* metadata: the run completed with success at its first attempt.
Trusted(s, sha) ==
    Exact(s, sha) /\ Completed(s) /\ s.conclusion = "success" /\ s.attempt = 1

\* evidence_available: absent or expired proof is passed over, nothing else.
Available ==
    /\ At("available")
    /\ IF pf.todo = {}
       THEN IF pf.valid > 0 THEN Pass ELSE Goes([pf EXCEPT !.pc = "dispatch"])
       ELSE LET i == CHOOSE k \in pf.todo : \A j \in pf.todo : k <= j
            IN  IF ~Trusted(scans[i], pf.sha) THEN Reject
                ELSE Goes([pf EXCEPT !.selected = i, !.todo = @ \ {i},
                                     !.pc = IF scans[i].kept THEN "inspect" ELSE "available"])

\* inspect: the run again, its artifacts, the tree, and the verdict over the
\* SARIF of every language; then ancestry once more.
Proven(i, sha, main) ==
    /\ Trusted(scans[i], sha) /\ scans[i].kept
    /\ \A l \in Languages : Accepts(scans[i].proofs[l], Required)
    /\ sha \in main

Inspect(main) ==
    /\ At("inspect")
    /\ IF ~Proven(pf.selected, pf.sha, main) THEN Reject
       ELSE IF pf.polls > 0 THEN Pass
       ELSE Goes([pf EXCEPT !.pc = "available", !.valid = @ + 1])

Dispatch ==
    /\ At("dispatch")
    /\ pf' = [pf EXCEPT !.pc = "find", !.selected = 0]
    /\ requested' = Append(requested, pf.sha)
    /\ UNCHANGED scans

\* The dispatch took effect, but its answer was lost.
DispatchUnanswered ==
    /\ At("dispatch")
    /\ pf' = [pf EXCEPT !.pc = "done", !.result = "rejected"]
    /\ requested' = Append(requested, pf.sha)
    /\ UNCHANGED scans

New(rows) == {r \in rows : r.id \notin pf.before /\ r.event = "workflow_dispatch"
                           /\ r.attempt = 1}

Adopt(rows) ==
    IF pf.selected # 0 \/ New(rows) = {} THEN pf.selected
    ELSE (CHOOSE r \in New(rows) : TRUE).id

Find ==
    /\ At("find")
    /\ LET new == New(Listing(pf.sha))
       IN  IF Cardinality(new) > 1 THEN Reject
           ELSE Goes([pf EXCEPT !.pc = "poll", !.selected = Adopt(Listing(pf.sha))])

\* One round of the loop: ancestry, the listing, and what makes it ambiguous.
Unclear(rows) ==
    \/ Cardinality(Active(rows)) > 1
    \/ \E r \in rows : Failed(r)
    \/ pf.selected # 0 /\ \E r \in rows : r.id \notin pf.before /\ r.id # pf.selected
    \/ pf.selected = 0 /\ Cardinality(New(rows)) > 1

\* Mutant: the deadline runs only while a scan is known.
PollUntilListed(main) ==
    /\ At("poll")
    /\ IF pf.polls = MaxPolls \/ pf.sha \notin main \/ Unclear(Listing(pf.sha)) THEN Reject
       ELSE LET run == Adopt(Listing(pf.sha))
            IN  Goes([pf EXCEPT !.polls = IF run = 0 THEN @ ELSE @ + 1, !.selected = run,
                                !.pc = IF run = 0 THEN "poll" ELSE "state"])

Poll(main) ==
    /\ At("poll")
    /\ IF pf.polls = MaxPolls \/ pf.sha \notin main \/ Unclear(Listing(pf.sha)) THEN Reject
       ELSE Goes([pf EXCEPT !.polls = @ + 1, !.selected = Adopt(Listing(pf.sha)),
                            !.pc = IF Adopt(Listing(pf.sha)) = 0 THEN "poll" ELSE "state"])

\* The state of the selected run, read after the listing.
State ==
    /\ At("state")
    /\ LET s == scans[pf.selected]
       IN  IF ~Exact(s, pf.sha) \/ s.attempt # 1 \/ Failed(s) THEN Reject
           ELSE Goes([pf EXCEPT !.pc = IF Completed(s) THEN "inspect" ELSE "poll"])

PreflightStep(main) ==
    \/ List \/ Decide \/ Available \/ Inspect(main) \/ Dispatch
    \/ Find \/ Poll(main) \/ State

ScanStep ==
    \/ \E i \in DOMAIN scans : StartScan(i) \/ FinishScan(i)

=============================================================================
