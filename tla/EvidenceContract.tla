-------------------------- MODULE EvidenceContract --------------------------
(***************************************************************************)
(* The retained-evidence contract: validate-evidence.py.                   *)
(*                                                                         *)
(* A validation reads a checkout c: the tree, the history of trees         *)
(* reachable from HEAD, oldest first, and the commits that are available   *)
(* as objects, reachable or not.  A project p that retains evidence has    *)
(*   p.source    its sources and its producer script, as one content;      *)
(*   p.verifier  its canonical verifier;                                   *)
(*   p.retained  the JSON artifacts under validation/, contents by path,   *)
(*   p.violates  whether the verifier reports a violation,                 *)
(*   p.claim     the manifest that describes it all.                       *)
(***************************************************************************)
EXTENDS RepositoryChecks

CONSTANTS
    NoEvidence,     \* the claim of a project without a validation directory
    NoClosure       \* no file matches an include selector

-----------------------------------------------------------------------------

\* The semantic closure: path, mode and content of every file that defines
\* the claim.  Generated artifacts, the manifest and the canonical verifier
\* are not part of it.
Closure(p) == [first |-> p.first, overridden |-> p.overridden,
               lockfile |-> p.lockfile, lock |-> p.lock, source |-> p.source]

ClosureAt(t, dir) ==
    IF dir \in CargoDirs(t) THEN Closure(t.projects[dir]) ELSE NoClosure

Representations(c, dir, entries) ==
    {i \in DOMAIN c.history : ClosureAt(c.history[i], dir) = entries}

\* The commit the scenarios ran at may be gone: a squash keeps only its tree.
ProducerAvailable(c, m) == m.producer \in DOMAIN c.objects

\* Mutant: a producer commit that is gone invalidates the evidence.
ProducerMustExist(c, dir, m) ==
    /\ ProducerAvailable(c, m)
    /\ ClosureAt(c.objects[m.producer], dir) = m.entries

\* A producer commit that is no longer available is not a failure.
ProducerAgrees(c, dir, m) ==
    ProducerAvailable(c, m)
      => ClosureAt(c.objects[m.producer], dir) = m.entries

\* The records: one artifact each, present with the recorded content.
RecordsAccepted(p, m) ==
    /\ m.records # {}
    /\ \A r \in m.records : \A s \in m.records :
         r.scenario = s.scenario \/ r.path = s.path => r = s
    /\ \A r \in m.records :
         r.path \in DOMAIN p.retained /\ p.retained[r.path] = r.content

Artifacts(m) == {r.path : r \in m.records}

ClosureAccepted(c, dir, m) ==
    /\ m.excluded = Artifacts(m)
    /\ m.digest = m.entries             \* the digest is recomputed from them
    /\ Representations(c, dir, m.entries) # {}
    /\ ProducerAgrees(c, dir, m)

\* The revision whose Cargo configuration the subject is judged under: the
\* producer's if it is available, else the oldest representation's.
ContextTree(c, dir, m) ==
    IF ProducerAvailable(c, m) THEN c.objects[m.producer]
    ELSE c.history[CHOOSE i \in Representations(c, dir, m.entries) :
                     \A j \in Representations(c, dir, m.entries) : i <= j]

SourceReplaced(t, dir) ==
    t.sourced \/ (dir \in DOMAIN t.projects /\ t.projects[dir].sourced)

SubjectAccepted(c, dir, m) ==
    /\ ~SourceReplaced(ContextTree(c, dir, m), dir)
    /\ ManifestAccepted(m.entries)
    /\ LockfileAccepted(m.entries)
    /\ m.crates = {<<d.package, d.version>> : d \in m.entries.first}

\* The layout: exactly the recorded artifacts, and no more than allowed.
RetentionAccepted(p, m) ==
    /\ Cardinality(m.records) <= m.maxCount
    /\ DOMAIN p.retained = Artifacts(m)

\* The verifier is the recorded one, and it finds nothing.
VerifierAccepted(p, m) ==
    /\ p.verifier = m.verifier
    /\ ~p.violates

\* "malformed" are the sections whose fields have a wrong shape: the producer,
\* the environment, the external artifacts, the wall-clock rule.
WellFormed(m) == m.malformed = {} /\ m.binding # "trusted-producer-bound"

ClaimAccepted(c, e, m) ==
    LET p == c.tree.projects[e.path]
    IN  /\ WellFormed(m)
        /\ m.workload = e.name
        /\ RecordsAccepted(p, m)
        /\ ClosureAccepted(c, e.path, m)
        /\ SubjectAccepted(c, e.path, m)
        /\ RetentionAccepted(p, m)
        /\ VerifierAccepted(p, m)

\* Every registered workload that has a validation directory; never a fixture.
Retaining(t) == {e \in Workloads(t) : t.projects[e.path].claim # NoEvidence}

Evidence(c) ==
    /\ Registered(c.tree)
    /\ \A e \in Retaining(c.tree) :
         ClaimAccepted(c, e, c.tree.projects[e.path].claim)
=============================================================================
