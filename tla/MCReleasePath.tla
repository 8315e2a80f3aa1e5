--------------------------- MODULE MCReleasePath ---------------------------
(* An instance of ReleasePath for TLC: a workload with retained evidence   *)
(* and a Maven build, a fixture, and what commits do to them.              *)
EXTENDS ReleasePath

OxideBatch == [package |-> "oxide-batch", version |-> "=0.2.0", located |-> FALSE]
Published == [package |-> "oxide-batch", version |-> "=0.2.0", published |-> TRUE]
OneExact == {"=0.2.0"}

Bare == [manifest |-> TRUE, contract |-> "executable", rust |-> "absent",
         first |-> {}, overridden |-> FALSE, lockfile |-> TRUE, lock |-> {},
         sourced |-> FALSE, maven |-> FALSE, hook |-> "none",
         source |-> {}, verifier |-> 0, retained |-> <<>>, violates |-> FALSE,
         claim |-> NoEvidence]
Batch == [Bare EXCEPT !.rust = "version", !.first = {OxideBatch}, !.lock = {Published}]

Claim(p, producer, content) ==
    [malformed |-> {}, binding |-> "self-reported", workload |-> "w", producer |-> producer,
     records |-> {[scenario |-> "crash", path |-> 1, content |-> content]},
     excluded |-> {1}, entries |-> Closure(p), digest |-> Closure(p),
     crates |-> {<<d.package, d.version>> : d \in p.first},
     verifier |-> p.verifier, maxCount |-> 1]

Evidenced == [Batch EXCEPT !.maven = TRUE, !.hook = "executable", !.retained = <<1>>,
                           !.claim = Claim(Batch, 1, 1)]

Entry(name, path, msrv) == [name |-> name, path |-> path, msrv |-> msrv]

\* A release workflow: the preflight, then the publication that needs it.
PublishJobs(needs) == << [name |-> "codeql-preflight", runs |-> TRUE, mutates |-> FALSE,
                          needs |-> {}],
                         [name |-> "release", runs |-> FALSE, mutates |-> TRUE,
                          needs |-> needs] >>

Start == [projects |-> [d \in {"w", "f"} |-> IF d = "w" THEN Evidenced ELSE Bare],
          workloads |-> <<Entry("w", "w", "declared")>>,
          fixtures |-> <<Entry("f", "f", "undeclared")>>,
          reserved |-> {}, sourced |-> FALSE, deny |-> TRUE, drifted |-> {},
          publisher |-> "release.yml",
          workflows |-> [n \in {"release.yml"} |-> PublishJobs({"codeql-preflight"})]]

\* The directory a commit adds.
Dirs == <<"d1", "d2", "d3", "d4", "d5", "d6", "d7", "d8", "d9">>

With(t, dir, p) == [t EXCEPT !.projects =
                      [d \in DOMAIN t.projects \cup {dir} |->
                         IF d = dir THEN p ELSE t.projects[d]]]

Apply(edit, t, made) ==
    LET w == t.projects["w"]
        f == t.projects["f"]
    IN  CASE edit = "work" -> With(t, "w", [w EXCEPT !.source = @ \cup {made.id}])
          [] edit = "record" ->
               With(t, "w", [w EXCEPT !.retained = <<made.id>>,
                      !.claim = Claim(made.from.projects["w"], made.base, made.id)])
          [] edit = "workload" ->
               [With(t, Dirs[made.id], Batch) EXCEPT
                  !.workloads = Append(@, Entry("n", Dirs[made.id], "declared"))]
          [] edit = "helper" -> With(t, "f", [f EXCEPT !.lock = {[Published EXCEPT !.published = FALSE]}])
          [] edit = "ungated" -> [t EXCEPT !.workflows["release.yml"] = PublishJobs({})]

Touch(edit) ==
    CASE edit = "work" -> {"workload sources"}
      [] edit = "record" -> {"other workload files"}
      [] edit = "workload" -> {"policy file or script", "elsewhere"}
      [] edit = "ungated" -> {"other workflow"}
      [] OTHER -> {"elsewhere"}

\* What a language's analysis may yield: clean, a High finding of a rule
\* nobody reviewed, and a pack that lost a rule.
Sarif(rules, scores) ==
    [executed |-> TRUE, errors |-> {}, expected |-> {"a"}, extracted |-> {"a"},
     rules |-> rules, findings |-> {[rule |-> "other", security |-> TRUE, scores |-> scores]}]
SomeSarifs == {Sarif({"reviewed", "other"}, {3}), Sarif({"reviewed", "other"}, {8}),
               Sarif({"other"}, {3})}
=============================================================================
