------------------------ MODULE LabelReconciliation ------------------------
(***************************************************************************)
(* The rules of .github/scripts/reconcile-labels.py: which labels an issue *)
(* or a pull request should carry, given the ones it has, its title and    *)
(* the paths it changes.  The label automation writes them, the hardening  *)
(* drift audit compares every open item with them.                         *)
(*                                                                         *)
(* A title is its conventional prefix and the set of searched terms that   *)
(* occur in it; a changed path is the kind of place it lies in.  Labels    *)
(* are sets: GitHub returns none twice and their order means nothing.      *)
(***************************************************************************)

CONSTANTS
    TypeLabels,     \* the labels of the singular group "type:"
    Structural,     \* labels.json structural_types
    Known,          \* every label of labels.json
    NoType          \* no type is inferred

\* What load_policy demands of labels.json, and validate-label-taxonomy.py
\* before it: structural types are known labels of the one singular group.
ASSUME TaxonomyAssumption ==
    /\ Structural \subseteq TypeLabels
    /\ TypeLabels \subseteq Known
    /\ NoType \notin Known

-----------------------------------------------------------------------------

\* The prefixes that decide a type, each before a colon.
TypeRules ==
    { <<{"epic"}, "type:epic">>,
      <<{"track", "track(scope)"}, "type:track">>,
      <<{"workload", "campaign"}, "type:campaign">>,
      <<{"bug", "fix"}, "type:bug">>,
      <<{"security"}, "type:security">>,
      <<{"doc", "docs", "documentation"}, "type:docs">>,
      <<{"research"}, "type:research">>,
      <<{"hardening", "hardening(scope)", "task", "chore", "governance", "ci",
         "evidence", "dep", "deps", "chore(deps)"}, "type:task">> }

\* The prefixes that add an area.  A scope after "chore" hides the prefix.
AreaPrefixRules ==
    { <<{"ci"}, "area:ci">>,
      <<{"hardening", "hardening(scope)", "governance", "chore"}, "area:governance">>,
      <<{"evidence"}, "area:evidence">>,
      <<{"security"}, "area:security">>,
      <<{"doc", "docs", "documentation"}, "area:docs">> }

\* The terms searched anywhere in the title.
TermRules ==
    { <<{"benchmark"}, "area:benchmark">>,
      <<{"interop", "scheduler", "orchestrator", "event-driven", "control-plane"},
        "area:interop">>,
      <<{"postgres"}, "area:postgres">> }

\* The kinds of place a changed path lies in, and the areas each adds.
PathRules ==
    { <<"workflow", {"area:ci", "area:governance"}>>,
      <<"script", {"area:ci"}>>,
      <<"label or template", {"area:governance"}>>,
      <<"contributing", {"area:docs", "area:governance"}>>,
      <<"security", {"area:docs", "area:security"}>>,
      <<"validation", {"area:evidence"}>>,
      <<"workload", {"area:workload"}>>,
      <<"postgres workload", {"area:workload", "area:postgres"}>> }

\* load_policy: the automation names no label that labels.json lacks.
ASSUME RulesAssumption ==
    /\ \A rule \in TypeRules : rule[2] \in TypeLabels
    /\ \A rule \in AreaPrefixRules \cup TermRules : rule[2] \in Known \ TypeLabels
    /\ \A rule \in PathRules : rule[2] \subseteq Known \ TypeLabels

StrongType(title) ==
    LET rules == {rule \in TypeRules : title.prefix \in rule[1]}
    IN  IF rules = {} THEN NoType ELSE (CHOOSE rule \in rules : TRUE)[2]

TitleAreas(title) ==
    {rule[2] : rule \in {r \in AreaPrefixRules : title.prefix \in r[1]}}
        \cup {rule[2] : rule \in {r \in TermRules : title.terms \cap r[1] # {}}}

PathAreas(paths) == UNION {rule[2] : rule \in {r \in PathRules : r[1] \in paths}}

-----------------------------------------------------------------------------

Several(labels) == \E one, other \in labels : one # other

\* reconcile_labels raises ValueError: a person has to choose.
Ambiguous(labels, type) ==
    \/ Several(labels \cap Structural)
    \/ /\ labels \cap Structural = {}
       /\ type = NoType
       /\ Several(labels \cap TypeLabels)

\* Mutant: a title that says nothing still replaces the type.
SelectedTypeUnchecked(labels, type) ==
    IF labels \cap Structural # {} THEN labels \cap Structural ELSE {type}

\* A structural type is never replaced; a title's prefix replaces any other.
SelectedType(labels, type) ==
    IF labels \cap Structural # {} THEN labels \cap Structural
    ELSE IF type # NoType THEN {type}
    ELSE labels \cap TypeLabels

Desired(labels, type, areas) ==
    SelectedType(labels, type) \cup (labels \ TypeLabels) \cup (areas \cap Known)

\* classify_item: only a pull request has paths.
ItemType(item) == StrongType(item.title)
ItemAreas(item) == TitleAreas(item.title) \cup PathAreas(item.paths)

Undecided(item) == Ambiguous(item.labels, ItemType(item))
Classified(item) == Desired(item.labels, ItemType(item), ItemAreas(item))
Reconciled(item) == ~Undecided(item) /\ Classified(item) = item.labels
=============================================================================
