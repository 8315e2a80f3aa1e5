--------------------------- MODULE MCAuditIssues ---------------------------
(* An instance of AuditIssues for TLC. *)
EXTENDS AuditIssues

Types == {"type:epic", "type:track", "type:campaign", "type:bug", "type:security",
          "type:docs", "type:research", "type:task"}
Areas == {"area:ci", "area:governance", "area:workload", "area:evidence",
          "area:postgres", "area:benchmark", "area:interop", "area:security", "area:docs"}
AllLabels == Types \cup Areas \cup {"dependencies"}
StructuralTypes == {"type:epic", "type:track", "type:campaign"}

Entry(prefix, terms, paths, labels, pr, marks) ==
    [title |-> [prefix |-> prefix, terms |-> terms], paths |-> paths,
     labels |-> labels, pr |-> pr, marks |-> marks]

\* A reconciled pull request is open already.
OnePullRequest ==
    << Entry("ci", {"scheduler"}, {"workflow"},
             {"type:task", "area:ci", "area:interop", "area:governance"}, TRUE, {}) >>

\* An issue without labels, one with two structural types, and one that quotes
\* the drift audit's marker.
SomeItems ==
    { Entry("ci", {}, {}, {}, FALSE, {}),
      Entry("none", {}, {}, {"type:epic", "type:track"}, FALSE, {}),
      Entry("none", {}, {}, {}, FALSE, {"hardening-drift"}) }
SomeTitles == {[prefix |-> "none", terms |-> {}]}
=============================================================================
