---------------------------- MODULE AuditIssues ----------------------------
(***************************************************************************)
(* The two recurring audits of the repository, the issue each of them owns *)
(* and the label automation that works on the same tracker.                *)
(*                                                                         *)
(* A run of an audit detects (run-scheduled-supply-chain-audit.py or       *)
(* run-hardening-drift-audit.py), hands its result over as an artifact and *)
(* reports it (audit_issue.py).  The runs of one audit exclude each other; *)
(* everything else interleaves: the other audit, people, the per-issue     *)
(* label runs and the backfill.  GitHub answers one page of a list at a    *)
(* time, newest item first, and may fail any call, with or without having  *)
(* done what was asked.                                                    *)
(***************************************************************************)
EXTENDS LabelReconciliation, Naturals, FiniteSets, Sequences

CONSTANTS
    Workloads,      \* the registered workloads the supply-chain audit scans
    Breakable,      \* what may be wrong with the repository
    PageSize,       \* items per page of a listing
    Backlog,        \* the items of the tracker at the start
    Opened,         \* what people open: title, paths, labels, pr, marks
    Titles,         \* what people retitle an item to
    HandLabels,     \* labels people add or remove by hand
    MaxEvents       \* what is wrong at the start, changes, people's acts,
                    \* failures and manual runs in all

ASSUME AuditConstants ==
    /\ PageSize \in Nat \ {0}
    /\ MaxEvents \in Nat
    /\ IsFiniteSet(Breakable) /\ Cardinality(Breakable) <= MaxEvents
    /\ {"settings", "labels", "checks"} \cap Workloads = {}
    /\ Breakable \subseteq Workloads \cup {"settings", "labels", "checks"}

VARIABLES
    items,      \* the tracker: issues and pull requests by number
    problems,   \* what is wrong with the repository now
    run,        \* the current run of each audit
    pending,    \* items with a queued label run
    copy,       \* what a label run read of its item
    backfill,   \* the run over the whole backlog
    left        \* how many events may still happen

vars == <<items, problems, run, pending, copy, backfill, left>>

\* The record r with the given fields put in or added.
With(r, fields) ==
    [x \in DOMAIN r \cup DOMAIN fields |-> IF x \in DOMAIN fields THEN fields[x] ELSE r[x]]

-----------------------------------------------------------------------------

Audits == {"supply-chain", "hardening-drift"}
Finding == [a \in Audits |->
              IF a = "supply-chain" THEN "policy-finding" ELSE "policy-drift"]
Infrastructure == "infrastructure-failure"
Classes(a) == {"clean", Finding[a], Infrastructure}

\* Mutant: the drift audit's label list names a second type.
ReportLabelsTwoTypes(a) ==
    IF a = "supply-chain" THEN {"type:security", "area:security", "dependencies"}
    ELSE {"type:task", "type:security", "area:governance", "area:security", "area:ci"}

ReportLabels(a) ==
    IF a = "supply-chain" THEN {"type:security", "area:security", "dependencies"}
    ELSE {"type:task", "area:governance", "area:security", "area:ci"}

\* Neither title has a conventional prefix or a searched term:
\* "[supply-chain-audit] scheduled audit requires attention" holds "schedule",
\* not "scheduler".
ReportTitle == [prefix |-> "none", terms |-> {}]

Report(a, class) ==
    [title |-> ReportTitle, labels |-> ReportLabels(a), marks |-> {a}, says |-> class]

\* GitHub knows no label but the repository's, and a marker names an audit.
ASSUME PeopleAssumption ==
    LET written == Opened \cup {Backlog[n] : n \in DOMAIN Backlog}
    IN  /\ \A it \in written :
              /\ DOMAIN it = {"title", "paths", "labels", "pr", "marks"}
              /\ it.labels \subseteq Known /\ it.marks \subseteq Audits
              /\ it.pr \in BOOLEAN
        /\ Backlog \in Seq(written) /\ HandLabels \subseteq Known
        /\ ReportLabels("supply-chain") \cup ReportLabels("hardening-drift") \subseteq Known

Numbers == 1 .. Len(items)

-----------------------------------------------------------------------------
\* Listings: newest first, one page per request.

Newest(numbers) ==
    [k \in 1 .. Cardinality(numbers) |->
        CHOOSE n \in numbers : Cardinality({m \in numbers : m > n}) = k - 1]

\* The items of a page: those with page * PageSize newer ones, and so on.
Page(numbers, page) ==
    {n \in numbers : LET newer == Cardinality({m \in numbers : m > n})
                     IN  page * PageSize <= newer /\ newer < (page + 1) * PageSize}

\* A short page is the last one.
LastPage(numbers, page) == Cardinality(Page(numbers, page)) < PageSize

OpenItems == {n \in Numbers : items[n].open}

-----------------------------------------------------------------------------

Controls(a) ==
    IF a = "supply-chain" THEN Workloads
    ELSE {"checks", "supply-chain", "settings", "labels", "items"}

NoRun == [pc |-> "idle", class |-> "none", live |-> TRUE, finding |-> FALSE,
          infra |-> FALSE, page |-> 0, found |-> <<>>, read |-> {}]

ByPerson(it) == With(it, [says |-> "none", open |-> TRUE, by |-> "person"])

Init ==
    /\ items = [n \in DOMAIN Backlog |-> ByPerson(Backlog[n])]
    /\ problems \in SUBSET Breakable
    /\ run = [a \in Audits |-> With(NoRun, [claim |-> "none"])]
    /\ pending = {}
    /\ copy = <<>>
    /\ backfill = [page |-> 0, todo |-> <<>>, pc |-> "idle"]
    /\ left = MaxEvents - Cardinality(problems)

Spend == left > 0 /\ left' = left - 1

\* A step in which something may fail.
MayFail(fails) == IF fails THEN Spend ELSE UNCHANGED left

Move(a, fields) == run' = [run EXCEPT ![a] = With(@, fields)]
TrackerUnchanged == UNCHANGED <<items, pending, copy, backfill>>

-----------------------------------------------------------------------------
\* Detection.

\* workflow_dispatch with a test mode: a synthetic result is reported as any.
StartSynthetic(a) ==
    /\ run[a].pc = "idle"
    /\ \E class \in Classes(a) :
          Move(a, With(NoRun, [pc |-> "find", class |-> class, live |-> FALSE,
                               claim |-> "none"]))
    /\ Spend
    /\ UNCHANGED problems /\ TrackerUnchanged

\* Mutant: a scan without a verdict does not count.
SupplyClassIgnoringBroken(discovered, broken) ==
    IF ~discovered THEN Infrastructure
    ELSE IF problems \cap (Workloads \ broken) # {} THEN Finding["supply-chain"]
    ELSE "clean"

\* What the scans of the registered workloads amount to: a scan that ended
\* without a verdict outweighs every finding.
SupplyClass(discovered, broken) ==
    IF ~discovered \/ broken # {} THEN Infrastructure
    ELSE IF problems \cap Workloads # {} THEN Finding["supply-chain"]
    ELSE "clean"

\* The concurrency group lets one run of an audit go on at a time.
Scan(a) ==
    /\ run[a].pc = "idle"
    /\ \E discovered \in BOOLEAN : \E broken \in SUBSET Workloads :
          /\ MayFail(~discovered \/ broken # {})
          /\ Move(a, [pc |-> "find", class |-> SupplyClass(discovered, broken),
                      read |-> IF discovered THEN Workloads \ broken ELSE {},
                      claim |-> "none"])
    /\ UNCHANGED problems /\ TrackerUnchanged

\* run_canonical_checks: a check that cannot run exits nonzero as a finding
\* does; only the supply-chain audit tells the two apart.
CanonicalChecks(a) ==
    /\ run[a].pc = "idle"
    /\ \E toolFails, discovered \in BOOLEAN : \E broken \in SUBSET Workloads :
          LET supply == SupplyClass(discovered, broken)
          IN  /\ MayFail(toolFails \/ ~discovered \/ broken # {})
              /\ Move(a, [pc |-> "settings",
                          finding |-> toolFails \/ "checks" \in problems
                                        \/ supply = Finding["supply-chain"],
                          infra |-> supply = Infrastructure,
                          read |-> {"checks"} \cup
                                   IF supply = Infrastructure THEN {} ELSE {"supply-chain"}])
    /\ UNCHANGED problems /\ TrackerUnchanged

\* classify: an incomplete audit is never represented as complete.
DriftClass(finding, infra) ==
    IF infra THEN Infrastructure
    ELSE IF finding THEN Finding["hardening-drift"] ELSE "clean"

HandOver(a, finding, infra, read) ==
    Move(a, [pc |-> "find", page |-> 0, finding |-> FALSE, infra |-> FALSE, read |-> read,
             class |-> DriftClass(finding, infra), claim |-> "none"])

\* A live reading of the repository's settings or labels.  When one fails the
\* readings after it are skipped.
LiveReading(a, control, then) ==
    /\ run[a].pc = control
    /\ \/ /\ Spend
          /\ HandOver(a, run[a].finding, TRUE, run[a].read)
       \/ /\ UNCHANGED left
          /\ Move(a, [pc |-> then, finding |-> run[a].finding \/ control \in problems,
                      read |-> run[a].read \cup {control}])
    /\ UNCHANGED problems /\ TrackerUnchanged

\* run_live_label_automation_checks over one page of the open items, the
\* audit's own issue among them.
LiveItems(a) ==
    LET seen == {items[n] : n \in Page(OpenItems, run[a].page)}
        finding == run[a].finding \/ \E item \in seen : ~Reconciled(item)
        infra == run[a].infra \/ \E item \in seen : Undecided(item)
    IN  /\ run[a].pc = "items"
        /\ \/ /\ Spend
              /\ HandOver(a, run[a].finding, TRUE, run[a].read)
           \/ /\ LastPage(OpenItems, run[a].page)
              /\ HandOver(a, finding, infra, run[a].read \cup {"items"})
              /\ UNCHANGED left
           \/ /\ ~LastPage(OpenItems, run[a].page)
              /\ Move(a, [page |-> run[a].page + 1, finding |-> finding, infra |-> infra])
              /\ UNCHANGED left
        /\ UNCHANGED problems /\ TrackerUnchanged

\* A job is cancelled or times out, its artifact is lost, or a listing fails.
LoseRun(a) ==
    /\ run[a].pc \notin {"idle", "act"}
    /\ Move(a, NoRun)
    /\ Spend
    /\ UNCHANGED problems /\ TrackerUnchanged

-----------------------------------------------------------------------------
\* Reporting: find_owned_issue and reconcile_owned_issue.

\* Mutant: the listing leaves out what is closed.
ListedOpen(a) == OpenItems

\* all_issues lists every state; pull requests take up room in its pages.
Listed(a) == Numbers

Carrying(a, n) == ~items[n].pr /\ a \in items[n].marks

Done(a) ==
    Move(a, With(NoRun, [claim |-> IF run[a].claim = "disturbed" THEN "none"
                                   ELSE run[a].class]))

Matches(a) == {n \in Page(Listed(a), run[a].page) : Carrying(a, n)}

\* What the pages so far hold of the audit's issues, each as it was listed.
Longer(a) ==
    run[a].found \o
       [k \in 1 .. Cardinality(Matches(a)) |->
           [n |-> Newest(Matches(a))[k], open |-> items[Newest(Matches(a))[k]].open]]

FindOwnedIssue(a) ==
    LET found == Longer(a)
        last == LastPage(Listed(a), run[a].page)
        settled == run[a].class = "clean" /\ \A k \in DOMAIN found : ~found[k].open
    IN  /\ run[a].pc = "find"
        /\ \/ /\ ~last
              /\ Move(a, [page |-> run[a].page + 1, found |-> found])
           \/ /\ last /\ Len(found) > 1
              /\ Move(a, NoRun)
           \/ /\ last /\ Len(found) <= 1 /\ settled
              /\ Done(a)
           \/ /\ last /\ Len(found) <= 1 /\ ~settled
              /\ Move(a, [pc |-> "act", page |-> 0, found |-> found])
        /\ UNCHANGED <<problems, left>> /\ TrackerUnchanged

\* A call of the reporter is answered, or fails with or without its effect.
Call(a, effect) ==
    /\ run[a].pc = "act"
    /\ \/ /\ items' = effect /\ Done(a) /\ UNCHANGED left
       \/ /\ items' \in {items, effect}
          /\ Move(a, With(NoRun, [claim |-> "none"]))
          /\ Spend
    /\ UNCHANGED <<problems, pending, copy, backfill>>

\* The recovery comment comes first: without it the issue stays open.
CloseIssue(a) ==
    /\ run[a].class = "clean"
    /\ Call(a, [items EXCEPT ![run[a].found[1].n].open = FALSE])

CreateIssue(a) ==
    /\ run[a].class # "clean" /\ run[a].found = <<>>
    /\ Call(a, Append(items, With(Report(a, run[a].class),
                          [paths |-> {}, pr |-> FALSE, open |-> TRUE, by |-> "bot"])))

\* Mutant: a closed issue is rewritten but not reopened.
RewrittenNotReopened(a, seen) == With(items[seen.n], Report(a, run[a].class))

\* The state is sent only when the listing showed the issue closed.
Rewritten(a, seen) ==
    With(items[seen.n], IF seen.open THEN Report(a, run[a].class)
                        ELSE With(Report(a, run[a].class), [open |-> TRUE]))

UpdateIssue(a) ==
    /\ run[a].class # "clean" /\ run[a].found # <<>>
    /\ LET seen == run[a].found[1]
       IN  Call(a, [items EXCEPT ![seen.n] = Rewritten(a, seen)])

Act(a) == CloseIssue(a) \/ CreateIssue(a) \/ UpdateIssue(a)

-----------------------------------------------------------------------------
\* Label automation.

Without(n) == [m \in DOMAIN copy \ {n} |-> copy[m]]

\* apply_item: the labels are put back as a whole, computed from what was read,
\* unless that already had them.
WithLabels(n, seen) ==
    IF Undecided(seen) \/ Classified(seen) = seen.labels THEN items
    ELSE [items EXCEPT ![n].labels = Classified(seen)]

\* The queued label run of an item starts and reads the item afresh.
ReadFresh(n) ==
    /\ n \in pending /\ n \notin DOMAIN copy
    /\ pending' = pending \ {n}
    /\ \/ /\ copy' = [m \in DOMAIN copy \cup {n} |-> IF m = n THEN items[n] ELSE copy[m]]
          /\ UNCHANGED left
       \/ /\ Spend
          /\ UNCHANGED copy
    /\ UNCHANGED <<items, problems, run, backfill>>

PutLabels(n) ==
    /\ n \in DOMAIN copy
    /\ copy' = Without(n)
    /\ \/ /\ items' = WithLabels(n, copy[n])
          /\ UNCHANGED left
       \/ /\ items' = items
          /\ Spend
    /\ UNCHANGED <<problems, run, pending, backfill>>

Idle == [page |-> 0, todo |-> <<>>, pc |-> "idle"]

StartBackfill ==
    /\ backfill.pc = "idle"
    /\ Spend
    /\ backfill' = [Idle EXCEPT !.pc = "list"]
    /\ UNCHANGED <<items, problems, run, pending, copy>>

\* open_items yields the items of a page before it asks for the next one.
BackfillPage ==
    LET page == Page(OpenItems, backfill.page)
    IN  /\ backfill.pc = "list"
        /\ backfill' =
              IF page = {} THEN Idle
              ELSE [page |-> backfill.page + 1,
                    pc |-> IF LastPage(OpenItems, backfill.page) THEN "last" ELSE "apply",
                    todo |-> [k \in DOMAIN Newest(page) |->
                                [n |-> Newest(page)[k], item |-> items[Newest(page)[k]]]]]
        /\ UNCHANGED <<items, problems, run, pending, copy, left>>

\* An item of the page, as the page showed it.  One that needs a person, or a
\* failed call, ends the backfill.
BackfillItem ==
    LET next == Head(backfill.todo)
        rest == Tail(backfill.todo)
    IN  /\ backfill.pc \in {"apply", "last"}
        /\ \/ /\ ~Undecided(next.item)
              /\ items' = WithLabels(next.n, next.item)
              /\ backfill' = IF rest # <<>> THEN [backfill EXCEPT !.todo = rest]
                             ELSE IF backfill.pc = "last" THEN Idle
                             ELSE [backfill EXCEPT !.todo = rest, !.pc = "list"]
              /\ UNCHANGED left
           \/ /\ Undecided(next.item)
              /\ backfill' = Idle
              /\ UNCHANGED <<items, left>>
           \/ /\ Spend
              /\ backfill' = Idle
              /\ UNCHANGED items
        /\ UNCHANGED <<problems, run, pending, copy>>

-----------------------------------------------------------------------------
\* People and the repository.

\* What a person does to an issue an audit owns voids the audit's last report.
Disturb(marks) ==
    run' = [a \in Audits |->
              IF a \in marks THEN [run[a] EXCEPT !.claim = "disturbed"] ELSE run[a]]

OpenItem(it) ==
    /\ items' = Append(items, ByPerson(it))
    /\ pending' = pending \cup {Len(items) + 1}
    /\ Disturb(it.marks)
    /\ Spend
    /\ UNCHANGED <<problems, copy, backfill>>

Retitle(n, title) ==
    /\ title # items[n].title
    /\ items' = [items EXCEPT ![n].title = title]
    /\ pending' = pending \cup {n}
    /\ Spend
    /\ UNCHANGED <<problems, run, copy, backfill>>

\* Labelling is no event the automation listens to.
Relabel(n, label) ==
    /\ items' = [items EXCEPT ![n].labels = IF label \in @ THEN @ \ {label} ELSE @ \cup {label}]
    /\ Spend
    /\ UNCHANGED <<problems, run, pending, copy, backfill>>

CloseOrReopen(n) ==
    /\ items' = [items EXCEPT ![n].open = ~@]
    /\ pending' = IF items[n].open THEN pending ELSE pending \cup {n}
    /\ Disturb(items[n].marks)
    /\ Spend
    /\ UNCHANGED <<problems, copy, backfill>>

BreakOrRepair(p) ==
    /\ problems' = IF p \in problems THEN problems \ {p} ELSE problems \cup {p}
    /\ Spend
    /\ UNCHANGED <<run>> /\ TrackerUnchanged

-----------------------------------------------------------------------------

RunStep(a) ==
    \/ a = "supply-chain" /\ Scan(a)
    \/ /\ a = "hardening-drift"
       /\ \/ CanonicalChecks(a)
          \/ LiveReading(a, "settings", "labels")
          \/ LiveReading(a, "labels", "items")
          \/ LiveItems(a)
    \/ LoseRun(a)
    \/ FindOwnedIssue(a)
    \/ Act(a)

LabelStep(n) == ReadFresh(n) \/ PutLabels(n)
BackfillStep == BackfillPage \/ BackfillItem

People ==
    \/ \E it \in Opened : OpenItem(it)
    \/ \E n \in Numbers : \/ \E title \in Titles : Retitle(n, title)
                          \/ \E label \in HandLabels : Relabel(n, label)
                          \/ CloseOrReopen(n)
    \/ \E p \in Breakable : BreakOrRepair(p)

Next ==
    \/ \E a \in Audits : StartSynthetic(a) \/ RunStep(a)
    \/ \E n \in pending \cup DOMAIN copy : LabelStep(n)
    \/ StartBackfill \/ BackfillStep
    \/ People

Spec == Init /\ [][Next]_vars

\* Both audits have a schedule; GitHub goes on with the jobs it started.
Fairness ==
    /\ \A a \in Audits : WF_vars(RunStep(a))
    /\ WF_vars(\E n \in pending \cup DOMAIN copy : LabelStep(n))
    /\ WF_vars(BackfillStep)

FairSpec == Spec /\ Fairness

-----------------------------------------------------------------------------

Owned(a) == {n \in Numbers : Carrying(a, n)}

TypeOK ==
    /\ \A n \in Numbers :
          /\ items[n].labels \subseteq Known
          /\ items[n].marks \subseteq Audits
          /\ items[n].open \in BOOLEAN
          /\ items[n].by = "bot" => ~items[n].pr /\ items[n].says # "none"
    /\ \A a \in Audits :
          /\ run[a].class \in Classes(a) \cup {"none"}
          /\ run[a].claim \in Classes(a) \cup {"none", "disturbed"}
          /\ run[a].pc \in {"find", "act"} => run[a].class # "none"
          /\ \A k \in DOMAIN run[a].found : run[a].found[k].n \in Numbers
    /\ pending \cup DOMAIN copy \subseteq Numbers
    /\ left \in 0 .. MaxEvents

\* An audit never creates a second issue, whatever page boundaries move under
\* its listing, whatever answer is lost and whoever closes or quotes the first.
OneOwnedIssue ==
    \A a \in Audits : \A m, n \in Owned(a) :
        items[m].by = "bot" /\ items[n].by = "bot" => m = n

\* A report that succeeded and that no person has disturbed since it listed the
\* issues describes them: closed after a clean one, else the one owned issue is
\* open and says what the audit found, however the last one had left it.
ReportHolds ==
    \A a \in Audits : run[a].claim \in Classes(a) =>
        IF run[a].claim = "clean" THEN \A n \in Owned(a) : ~items[n].open
        ELSE \E n \in Owned(a) :
                Owned(a) = {n} /\ items[n].open /\ items[n].says = run[a].claim

\* A live run is clean only when every control was read to its end: a failed
\* scan or reading, or one skipped after it, never passes for a clean one.
CleanMeansAllRead ==
    \A a \in Audits :
        run[a].class = "clean" /\ run[a].live => run[a].read = Controls(a)

Contested(a) == Several(Owned(a))

\* What is wrong without the audits' own issues: they are no cause of their own.
Wrong(a) ==
    IF a = "supply-chain" THEN problems \cap Workloads # {}
    ELSE \/ problems # {}
         \/ \E n \in OpenItems :
               /\ \A b \in Audits : n \in Owned(b) => Contested(b)
               /\ ~Reconciled(items[n])

\* Once the repository and the people are quiet, each audit's issue ends open
\* exactly when something is wrong: no report keeps itself or the other audit
\* alive, and no crash, lost answer, stale listing or synthetic result lasts.
AuditsSettle ==
    \A a \in Audits :
        <>[](~Contested(a) => ((\E n \in Owned(a) : items[n].open) <=> Wrong(a)))
=============================================================================
