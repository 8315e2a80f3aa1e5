------------------------- MODULE AuditIssues_proof -------------------------
(***************************************************************************)
(* What the audits keep, for any workloads, page size, backlog and number  *)
(* of events: each audit creates at most one issue of its own, it calls    *)
(* nothing clean that it has not read to its end, and, as long as nobody   *)
(* quotes both markers in one issue, a report that succeeded and was not   *)
(* disturbed describes the issue it left.                                  *)
(***************************************************************************)
EXTENDS AuditIssues, FiniteSetTheorems, FunctionTheorems, SequenceTheorems, TLAPS

-----------------------------------------------------------------------------
(* Listings.                                                               *)

Newer(S, n) == {m \in S : m > n}

\* A newer item stands before an older one.
LEMMA NewerParts ==
  ASSUME NEW S \in SUBSET Nat, IsFiniteSet(S), NEW n \in S
  PROVE  /\ Cardinality(Newer(S, n)) \in Nat
         /\ Cardinality(Newer(S, n)) < Cardinality(S)
         /\ \A m \in S : n < m => Cardinality(Newer(S, m)) < Cardinality(Newer(S, n))
<1>1. ASSUME NEW A \in SUBSET S, NEW B \in SUBSET A, NEW x \in A, x \notin B
      PROVE  /\ Cardinality(A) \in Nat /\ Cardinality(B) \in Nat
             /\ Cardinality(B) < Cardinality(A)
  <2>1. IsFiniteSet(A)
    BY FS_Subset
  <2>2. IsFiniteSet(B) /\ Cardinality(B) <= Cardinality(A)
        /\ (Cardinality(A) = Cardinality(B) => A = B)
    BY <2>1, FS_Subset
  <2>3. A # B
    BY <1>1
  <2>4. Cardinality(A) \in Nat /\ Cardinality(B) \in Nat
    BY <2>1, <2>2, FS_CardinalityType
  <2> QED
    BY <2>2, <2>3, <2>4
<1>2. Newer(S, n) \in SUBSET S /\ n \notin Newer(S, n)
  BY DEF Newer
<1>3. Cardinality(Newer(S, n)) \in Nat /\ Cardinality(Newer(S, n)) < Cardinality(S)
  BY <1>1, <1>2
<1>4. ASSUME NEW m \in S, n < m
      PROVE  Cardinality(Newer(S, m)) < Cardinality(Newer(S, n))
  <2>0. \A k \in S : k \in Nat
    OBVIOUS
  <2>1. m \in Newer(S, n) /\ m \notin Newer(S, m)
    BY <1>4, <2>0 DEF Newer
  <2>2. \A k \in S : k > m => k > n
    BY <1>4, <2>0
  <2>3. Newer(S, m) \in SUBSET Newer(S, n)
    BY <2>2 DEF Newer
  <2> QED
    BY <1>1, <1>2, <2>1, <2>3
<1> QED
  BY <1>3, <1>4

\* Two items of a set do not stand at one place of its listing.
LEMMA PlacesDiffer ==
  ASSUME NEW S \in SUBSET Nat, IsFiniteSet(S), NEW n \in S, NEW m \in S,
         Cardinality(Newer(S, n)) = Cardinality(Newer(S, m))
  PROVE  n = m
<1>1. CASE n < m
  BY <1>1, NewerParts
<1>2. CASE m < n
  BY <1>2, NewerParts
<1> QED
  BY <1>1, <1>2

\* A listing holds the set, every item at the place its newer ones give it.
LEMMA NewestParts ==
  ASSUME NEW S \in SUBSET Nat, IsFiniteSet(S)
  PROVE  /\ Cardinality(S) \in Nat
         /\ DOMAIN Newest(S) = 1..Cardinality(S)
         /\ \A k \in 1..Cardinality(S) : Newest(S)[k] \in S
         /\ \A n \in S : \E k \in 1..Cardinality(S) : Newest(S)[k] = n
<1> DEFINE c == Cardinality(S)
           f == [n \in S |-> Cardinality(Newer(S, n)) + 1]
<1>1. c \in Nat
  BY FS_CardinalityType
<1>2. \A n \in S : f[n] \in 1..c
  BY <1>1, NewerParts
<1>3. \A n, m \in S : f[n] = f[m] => n = m
  <2> SUFFICES ASSUME NEW n \in S, NEW m \in S, f[n] = f[m] PROVE n = m
    OBVIOUS
  <2>1. Cardinality(Newer(S, n)) \in Nat /\ Cardinality(Newer(S, m)) \in Nat
    BY NewerParts
  <2>2. Cardinality(Newer(S, n)) = Cardinality(Newer(S, m))
    BY <2>1
  <2> QED
    BY <2>2, PlacesDiffer
<1>4. f \in Injection(S, 1..c)
  <2>1. f \in [S -> 1..c]
    BY <1>2
  <2> QED
    BY <1>3, <2>1, Fun_IsInj
<1>5. f \in Surjection(S, 1..c)
  <2>1. IsFiniteSet(1..c) /\ Cardinality(1..c) = c
    BY <1>1, FS_Interval
  <2> HIDE DEF f
  <2> QED
    BY <1>4, <2>1, FS_Injection
<1>6. ASSUME NEW k \in 1..c
      PROVE  \E n \in S : Cardinality({m \in S : m > n}) = k - 1
  <2>1. \E n \in S : f[n] = k
    BY <1>5, <1>6 DEF Surjection
  <2>2. PICK n \in S : f[n] = k
    BY <2>1
  <2>3. Cardinality(Newer(S, n)) = k - 1
    BY <2>2, <1>1, NewerParts
  <2> QED
    BY <2>3 DEF Newer
<1>7. ASSUME NEW k \in 1..c
      PROVE  /\ Newest(S)[k] \in S
             /\ Cardinality(Newer(S, Newest(S)[k])) = k - 1
  <2> DEFINE x == CHOOSE n \in S : Cardinality({m \in S : m > n}) = k - 1
  <2>1. x \in S /\ Cardinality({m \in S : m > x}) = k - 1
    BY <1>6
  <2>2. Newest(S)[k] = x
    BY DEF Newest
  <2> HIDE DEF x
  <2> QED
    BY <2>1, <2>2 DEF Newer
<1>8. ASSUME NEW n \in S PROVE \E k \in 1..c : Newest(S)[k] = n
  <2> DEFINE k == Cardinality(Newer(S, n)) + 1
  <2>1. k \in 1..c /\ Cardinality(Newer(S, n)) = k - 1
    BY <1>1, NewerParts
  <2> HIDE DEF k
  <2>2. Newest(S)[k] \in S /\ Cardinality(Newer(S, Newest(S)[k])) = k - 1
    BY <1>7, <2>1
  <2>3. Newest(S)[k] = n
    BY <2>1, <2>2, PlacesDiffer
  <2> QED
    BY <2>1, <2>3
<1>9. DOMAIN Newest(S) = 1..c
  BY DEF Newest
<1> QED
  BY <1>1, <1>7, <1>8, <1>9

\* The n-th item of len has len - n newer ones.
LEMMA NewerCount ==
  ASSUME NEW len \in Nat, NEW n \in 1..len
  PROVE  Cardinality({m \in 1..len : m > n}) = len - n
<1>1. {m \in 1..len : m > n} = (n + 1)..len
  OBVIOUS
<1>2. n + 1 \in Int /\ len \in Int
  OBVIOUS
<1>3. Cardinality((n + 1)..len) = IF n + 1 > len THEN 0 ELSE len - (n + 1) + 1
  BY <1>2, FS_Interval
<1>4. (IF n + 1 > len THEN 0 ELSE len - (n + 1) + 1) = len - n
  OBVIOUS
<1> QED
  BY <1>1, <1>3, <1>4

\* An item behind the start of a page is on it or behind its end, and nothing
\* is behind a page that is short.
LEMMA PageParts ==
  ASSUME NEW len \in Nat, NEW p \in Nat
  PROVE  /\ Page(1..len, p) \in SUBSET Nat /\ IsFiniteSet(Page(1..len, p))
         /\ Page(1..len, p) \subseteq 1..len
         /\ \A n \in 1..len :
               /\ p * PageSize <= len - n =>
                     n \in Page(1..len, p) \/ (p + 1) * PageSize <= len - n
               /\ LastPage(1..len, p) => ~ ((p + 1) * PageSize <= len - n)
<1> DEFINE q == p * PageSize
           e == (p + 1) * PageSize
           P == Page(1..len, p)
<1>1. PageSize \in Nat \ {0}
  BY AuditConstants
<1>2. q \in Nat /\ e \in Nat /\ e = q + PageSize
  BY <1>1
<1> HIDE DEF q, e
<1>3. P = {n \in 1..len : q <= len - n /\ len - n < e}
  BY NewerCount DEF Page, q, e
<1>4. IsFiniteSet(1..len) /\ P \subseteq 1..len
  BY <1>3, FS_Interval
<1>5. IsFiniteSet(P) /\ P \in SUBSET Nat
  BY <1>4, FS_Subset
<1>6. \A n \in 1..len : q <= len - n => n \in P \/ e <= len - n
  BY <1>2, <1>3
<1>7. ASSUME Cardinality(P) < PageSize, NEW n \in 1..len, e <= len - n
      PROVE  FALSE
  <2> DEFINE x == len - e + 1
             y == len - q
  <2>0. x \in Int /\ y \in Int /\ x <= y /\ y - x + 1 = PageSize /\ 1 <= x /\ y <= len
    BY <1>1, <1>2, <1>7
  <2>1. P = x..y
    <3>1. \A m \in 1..len : (q <= len - m /\ len - m < e) <=> (x <= m /\ m <= y)
      BY <1>2
    <3> HIDE DEF x, y, P
    <3>2. \A m : m \in x..y => m \in 1..len
      BY <2>0
    <3>3. \A m : m \in P <=> m \in x..y
      BY <1>3, <2>0, <3>1, <3>2
    <3> QED
      BY <3>3
  <2> HIDE DEF x, y
  <2>2. Cardinality(x..y) = IF x > y THEN 0 ELSE y - x + 1
    BY <2>0, FS_Interval
  <2>3. Cardinality(P) = PageSize
    BY <1>1, <2>0, <2>1, <2>2
  <2> QED
    BY <1>1, <1>7, <2>3
<1> QED
  BY <1>4, <1>5, <1>6, <1>7 DEF LastPage, q, e

-----------------------------------------------------------------------------
(* Types.                                                                  *)

LEMMA WithParts ==
  ASSUME NEW r, NEW f
  PROVE  /\ DOMAIN With(r, f) = DOMAIN r \cup DOMAIN f
         /\ \A x \in DOMAIN f : With(r, f)[x] = f[x]
         /\ \A x \in DOMAIN r \ DOMAIN f : With(r, f)[x] = r[x]
  BY DEF With

Written == Opened \cup {Backlog[n] : n \in DOMAIN Backlog}

Verdicts == {"clean", "policy-finding", "policy-drift", "infrastructure-failure"}

Item == [title : {it.title : it \in Written} \cup Titles \cup {ReportTitle},
         paths : {it.paths : it \in Written} \cup {{}},
         labels : SUBSET Known, pr : BOOLEAN, marks : SUBSET Audits,
         says : Verdicts \cup {"none"}, open : BOOLEAN, by : {"person", "bot"}]

Seen == [n : Nat, open : BOOLEAN]

Readable == Workloads \cup {"checks", "supply-chain", "settings", "labels", "items"}

Run == [pc : {"idle", "settings", "labels", "items", "find", "act"},
        class : Verdicts \cup {"none"}, live : BOOLEAN, finding : BOOLEAN,
        infra : BOOLEAN, page : Nat, found : Seq(Seen), read : SUBSET Readable,
        claim : Verdicts \cup {"none", "disturbed"}]

Work == [page : Nat, todo : Seq([n : Nat, item : Item]),
         pc : {"idle", "list", "apply", "last"}]

\* What a run of an audit is, next to what TypeOK says of it: between runs
\* nothing is left of the last one, and only the drift audit reads live state.
RunFits(a, r) ==
    /\ r.class \in Classes(a) \cup {"none"}
    /\ r.claim \in Classes(a) \cup {"none", "disturbed"}
    /\ r.pc \in {"find", "act"} <=> r.class # "none"
    /\ r.pc \in {"settings", "labels", "items"} => a = "hardening-drift"
    /\ r.pc \in {"idle", "settings", "labels", "act"} => r.page = 0
    /\ r.pc \notin {"find", "act"} => r.found = <<>>
    /\ r.pc = "idle" => r.live
    /\ r.pc \in {"find", "act"} => r.claim \in {"none", "disturbed"}
    /\ r.pc = "act" => Len(r.found) <= 1 /\ (r.class = "clean" => r.found # <<>>)

TypeInv ==
    /\ items \in Seq(Item)
    /\ run \in [Audits -> Run]
    /\ \A a \in Audits : RunFits(a, run[a])
    /\ backfill \in Work
    /\ backfill.pc \in {"apply", "last"} => backfill.todo # <<>>
    /\ \A n \in DOMAIN copy : copy[n] \in Item
    /\ TypeOK

\* What a run has read when nothing failed so far.
ReadBy(pc) ==
    CASE pc = "settings" -> {"checks", "supply-chain"}
      [] pc = "labels" -> {"checks", "supply-chain", "settings"}
      [] pc = "items" -> {"checks", "supply-chain", "settings", "labels"}

ReadFits(a, r) ==
    /\ r.class = "clean" /\ r.live => r.read = Controls(a)
    /\ r.pc \in {"settings", "labels", "items"} /\ ~r.infra => r.read = ReadBy(r.pc)

ReadInv == \A a \in Audits : ReadFits(a, run[a])

\* The issues an audit has created.
Created(a) == {n \in Numbers : items[n].by = "bot" /\ a \in items[n].marks}

\* A run has listed the n-th item, or is still to list it: an item that is
\* opened meanwhile only pushes it to a later page.
Listing(a, n) ==
    \/ \E k \in 1..Len(run[a].found) : run[a].found[k].n = n
    \/ run[a].pc = "find" /\ run[a].page * PageSize <= Len(items) - n

\* A run that looks for its issue or acts on it misses none that its audit has
\* created, and what it holds of the audits' issues is its own.
Lists(a) ==
    /\ run[a].pc \in {"find", "act"} => \A n \in Created(a) : Listing(a, n)
    /\ \A k \in 1..Len(run[a].found) :
          items[run[a].found[k].n].by = "bot" => a \in items[run[a].found[k].n].marks

BotsMarked ==
    \A n \in Numbers : items[n].by = "bot" =>
        ~items[n].pr /\ \E a \in Audits : items[n].marks = {a}

OwnInv ==
    /\ BotsMarked
    /\ \A a \in Audits : Lists(a) /\ \A m, n \in Created(a) : m = n

\* An undisturbed run knows its issues as they are.
Knows(a) ==
    run[a].claim # "disturbed" =>
        /\ run[a].pc \in {"find", "act"} => \A n \in Owned(a) : Listing(a, n)
        /\ \A k \in 1..Len(run[a].found) :
              run[a].found[k].open = items[run[a].found[k].n].open

Holds(a) == \A k \in 1..Len(run[a].found) : Carrying(a, run[a].found[k].n)

Described(a) ==
    run[a].claim \in Classes(a) =>
        IF run[a].claim = "clean" THEN \A n \in Owned(a) : ~items[n].open
        ELSE \E n \in Owned(a) :
                Owned(a) = {n} /\ items[n].open /\ items[n].says = run[a].claim

OneMarker == \A n \in Numbers : \A a, b \in items[n].marks : a = b

HoldInv ==
    /\ OneMarker
    /\ \A a \in Audits : Knows(a) /\ Holds(a) /\ Described(a)

-----------------------------------------------------------------------------
(* The steps of a run.                                                     *)

RunFields == {"pc", "class", "live", "finding", "infra", "page", "found", "read", "claim"}

LEMMA RunByFields ==
  ASSUME NEW x, x = [i \in RunFields |-> x[i]],
         x.pc \in {"idle", "settings", "labels", "items", "find", "act"},
         x.class \in Verdicts \cup {"none"}, x.live \in BOOLEAN,
         x.finding \in BOOLEAN, x.infra \in BOOLEAN, x.page \in Nat,
         x.found \in Seq(Seen), x.read \in SUBSET Readable,
         x.claim \in Verdicts \cup {"none", "disturbed"}
  PROVE  x \in Run
<1>1. x = [pc |-> x.pc, class |-> x.class, live |-> x.live, finding |-> x.finding,
           infra |-> x.infra, page |-> x.page, found |-> x.found, read |-> x.read,
           claim |-> x.claim]
  BY DEF RunFields
<1> QED
  BY <1>1 DEF Run

LEMMA WithRun ==
  ASSUME NEW r \in Run, NEW f, DOMAIN f \subseteq RunFields
  PROVE  /\ With(r, f) = [i \in RunFields |-> With(r, f)[i]]
         /\ \A i \in DOMAIN f : With(r, f)[i] = f[i]
         /\ \A i \in RunFields \ DOMAIN f : With(r, f)[i] = r[i]
<1>1. DOMAIN r = RunFields
  BY DEF Run, RunFields
<1>2. DOMAIN r \cup DOMAIN f = RunFields
  BY <1>1
<1>3. With(r, f) = [i \in RunFields |-> IF i \in DOMAIN f THEN f[i] ELSE r[i]]
  BY <1>2 DEF With
<1> QED
  BY <1>3

\* Only the run of a moves, and it stays a run.
Alone(a) ==
    /\ run' = [run EXCEPT ![a] = run'[a]]
    /\ run'[a] = [i \in RunFields |-> run'[a][i]]

LEMMA Moved ==
  ASSUME run \in [Audits -> Run], NEW a \in Audits, NEW f, DOMAIN f \subseteq RunFields,
         Move(a, f)
  PROVE  /\ Alone(a)
         /\ \A i \in DOMAIN f : run'[a][i] = f[i]
         /\ \A i \in RunFields \ DOMAIN f : run'[a][i] = run[a][i]
<1>1. run' = [run EXCEPT ![a] = With(run[a], f)] /\ run[a] \in Run
  BY DEF Move
<1>2. run'[a] = With(run[a], f)
  BY <1>1
<1> QED
  BY <1>1, <1>2, WithRun DEF Alone

LEMMA AloneTypes ==
  ASSUME run \in [Audits -> Run], NEW a \in Audits, Alone(a), run'[a] \in Run
  PROVE  run' \in [Audits -> Run] /\ \A b \in Audits \ {a} : run'[b] = run[b]
  BY DEF Alone

LEMMA NoRunParts ==
  /\ DOMAIN NoRun = RunFields \ {"claim"}
  /\ NoRun.pc = "idle" /\ NoRun.class = "none" /\ NoRun.live = TRUE
  /\ NoRun.finding = FALSE /\ NoRun.infra = FALSE /\ NoRun.page = 0
  /\ NoRun.found = <<>> /\ NoRun.read = {}
  BY DEF NoRun, RunFields

LEMMA ClassParts ==
  ASSUME NEW a \in Audits
  PROVE  /\ Classes(a) \subseteq Verdicts
         /\ "clean" \in Classes(a) /\ Infrastructure \in Classes(a)
         /\ Finding[a] \in Classes(a) /\ Infrastructure # "clean" /\ Finding[a] # "clean"
         /\ "none" \notin Classes(a) /\ "disturbed" \notin Classes(a)
  BY DEF Classes, Finding, Infrastructure, Audits, Verdicts

LEMMA AuditsAre == "supply-chain" \in Audits /\ "hardening-drift" \in Audits
  BY DEF Audits

\* What every step of the detection comes to.
Detected(a) ==
    /\ run' \in [Audits -> Run] /\ \A b \in Audits \ {a} : run'[b] = run[b]
    /\ RunFits(a, run'[a]) /\ ReadFits(a, run'[a])
    /\ run[a].pc \notin {"find", "act"}
    /\ run'[a].pc \in {"settings", "labels", "items", "find"}
    /\ run'[a].found = <<>>
    /\ run'[a].pc = "find" => run'[a].page = 0 /\ run'[a].claim = "none"
    /\ run'[a].pc # "find" => run'[a].claim = run[a].claim
    /\ UNCHANGED <<items, pending, copy, backfill>>

\* A run that hands its verdict over.
LEMMA Hands ==
  ASSUME TypeInv, NEW a \in Audits, Alone(a), run[a].pc \notin {"find", "act"},
         UNCHANGED <<items, pending, copy, backfill>>,
         run'[a].pc = "find", run'[a].class \in Classes(a), run'[a].live \in BOOLEAN,
         run'[a].finding \in BOOLEAN, run'[a].infra \in BOOLEAN, run'[a].page = 0,
         run'[a].found = <<>>, run'[a].read \in SUBSET Readable, run'[a].claim = "none",
         run'[a].class = "clean" /\ run'[a].live => run'[a].read = Controls(a)
  PROVE  Detected(a)
<1>1. run \in [Audits -> Run] /\ <<>> \in Seq(Seen)
  BY EmptySeq DEF TypeInv
<1>2. run'[a] \in Run
  <2>1. /\ run'[a].class \in Verdicts \cup {"none"} /\ run'[a].page \in Nat
        /\ run'[a].found \in Seq(Seen)
    BY <1>1, ClassParts
  <2>2. run'[a] = [i \in RunFields |-> run'[a][i]]
    BY DEF Alone
  <2> QED
    BY <2>1, <2>2, RunByFields
<1>3. RunFits(a, run'[a]) /\ ReadFits(a, run'[a])
  BY ClassParts DEF RunFits, ReadFits
<1> QED
  BY <1>1, <1>2, <1>3, AloneTypes DEF Detected

\* A run that goes on reading.
LEMMA GoesOn ==
  ASSUME TypeInv, NEW a \in Audits, a = "hardening-drift", Alone(a),
         run[a].pc \notin {"find", "act"},
         UNCHANGED <<items, pending, copy, backfill>>,
         run'[a].pc \in {"settings", "labels", "items"}, run'[a].class = run[a].class,
         run'[a].live = run[a].live, run'[a].finding \in BOOLEAN,
         run'[a].infra \in BOOLEAN, run'[a].page \in Nat,
         run'[a].pc # "items" => run'[a].page = 0,
         run'[a].found = run[a].found, run'[a].read \in SUBSET Readable,
         run'[a].claim = run[a].claim, ~run'[a].infra => run'[a].read = ReadBy(run'[a].pc)
  PROVE  Detected(a)
<1>1. run \in [Audits -> Run] /\ <<>> \in Seq(Seen) /\ RunFits(a, run[a]) /\ run[a] \in Run
  BY EmptySeq DEF TypeInv
<1>2. run'[a].class = "none" /\ run'[a].found = <<>>
  BY <1>1 DEF RunFits
<1>3. run'[a] \in Run
  <2>1. run[a].live \in BOOLEAN /\ run[a].claim \in Verdicts \cup {"none", "disturbed"}
    BY <1>1 DEF Run
  <2> QED
    BY <1>1, <1>2, <2>1, RunByFields DEF Alone
<1>4. RunFits(a, run'[a]) /\ ReadFits(a, run'[a])
  BY <1>1, <1>2 DEF RunFits, ReadFits
<1> QED
  BY <1>1, <1>2, <1>3, <1>4, AloneTypes DEF Detected

LEMMA SyntheticDetects ==
  ASSUME TypeInv, NEW a \in Audits, StartSynthetic(a)
  PROVE  Detected(a)
<1>1. PICK class \in Classes(a) :
         Move(a, With(NoRun, [pc |-> "find", class |-> class, live |-> FALSE,
                              claim |-> "none"]))
  BY DEF StartSynthetic
<1> DEFINE g == [pc |-> "find", class |-> class, live |-> FALSE, claim |-> "none"]
           f == With(NoRun, g)
<1>2. /\ DOMAIN f = RunFields
      /\ f.pc = "find" /\ f.class = class /\ f.live = FALSE /\ f.claim = "none"
      /\ f.finding = FALSE /\ f.infra = FALSE /\ f.page = 0 /\ f.found = <<>> /\ f.read = {}
  <2>1. DOMAIN g = {"pc", "class", "live", "claim"}
    OBVIOUS
  <2> HIDE DEF g
  <2>2. /\ DOMAIN f = RunFields
        /\ \A x \in {"pc", "class", "live", "claim"} : f[x] = g[x]
        /\ \A x \in {"finding", "infra", "page", "found", "read"} : f[x] = NoRun[x]
    <3>1. /\ DOMAIN f = DOMAIN NoRun \cup DOMAIN g
          /\ \A x \in DOMAIN g : f[x] = g[x]
          /\ \A x \in DOMAIN NoRun \ DOMAIN g : f[x] = NoRun[x]
      BY WithParts
    <3> HIDE DEF f
    <3> QED
      BY <2>1, <3>1, NoRunParts DEF RunFields
  <2>3. g.pc = "find" /\ g.class = class /\ g.live = FALSE /\ g.claim = "none"
    BY DEF g
  <2> HIDE DEF f
  <2> QED
    BY <2>2, <2>3, NoRunParts
<1> HIDE DEF f
<1>3. run \in [Audits -> Run] /\ Move(a, f)
  BY <1>1 DEF TypeInv, f
<1>4. Alone(a) /\ \A i \in RunFields : run'[a][i] = f[i]
  BY <1>2, <1>3, Moved
<1>5. run[a].pc \notin {"find", "act"} /\ UNCHANGED <<items, pending, copy, backfill>>
  BY DEF StartSynthetic, TrackerUnchanged
<1> QED
  BY <1>1, <1>2, <1>4, <1>5, Hands DEF RunFields

LEMMA SupplyClassParts ==
  ASSUME NEW d \in BOOLEAN, NEW broken \in SUBSET Workloads
  PROVE  /\ SupplyClass(d, broken) \in Classes("supply-chain")
         /\ SupplyClass(d, broken) # Infrastructure => d /\ broken = {}
  BY ClassParts, AuditsAre DEF SupplyClass

LEMMA ScanDetects ==
  ASSUME TypeInv, NEW a \in Audits, a = "supply-chain", Scan(a)
  PROVE  Detected(a)
<1>1. PICK d \in BOOLEAN, broken \in SUBSET Workloads :
         Move(a, [pc |-> "find", class |-> SupplyClass(d, broken),
                  read |-> IF d THEN Workloads \ broken ELSE {}, claim |-> "none"])
  BY DEF Scan
<1> DEFINE class == SupplyClass(d, broken)
           read == IF d THEN Workloads \ broken ELSE {}
           f == [pc |-> "find", class |-> class, read |-> read, claim |-> "none"]
<1>2. /\ class \in Classes(a) /\ read \in SUBSET Readable
      /\ class = "clean" => read = Controls(a)
  <2>1. class \in Classes(a) /\ (class = "clean" => d /\ broken = {})
    BY SupplyClassParts, ClassParts
  <2>2. Controls(a) = Workloads
    BY DEF Controls
  <2>3. read \in SUBSET Readable
    BY DEF Readable
  <2> QED
    BY <2>1, <2>2, <2>3
<1> HIDE DEF class, read
<1>3. DOMAIN f = {"pc", "class", "read", "claim"}
  OBVIOUS
<1>4. f.pc = "find" /\ f.class = class /\ f.read = read /\ f.claim = "none"
  OBVIOUS
<1>5. run \in [Audits -> Run] /\ Move(a, f)
  BY <1>1 DEF TypeInv, class, read
<1> HIDE DEF f
<1>6. /\ Alone(a)
      /\ \A i \in DOMAIN f : run'[a][i] = f[i]
      /\ \A i \in RunFields \ DOMAIN f : run'[a][i] = run[a][i]
  BY <1>3, <1>5, Moved DEF RunFields
<1>7. /\ run[a].pc = "idle" /\ UNCHANGED <<items, pending, copy, backfill>>
      /\ run[a] \in Run /\ RunFits(a, run[a])
  BY DEF Scan, TrackerUnchanged, TypeInv
<1>8. /\ run'[a].pc = "find" /\ run'[a].class = class /\ run'[a].read = read
      /\ run'[a].claim = "none" /\ run'[a].live = run[a].live
      /\ run'[a].finding = run[a].finding /\ run'[a].infra = run[a].infra
      /\ run'[a].page = run[a].page /\ run'[a].found = run[a].found
  BY <1>3, <1>4, <1>6 DEF RunFields
<1>9. /\ run[a].live \in BOOLEAN /\ run[a].finding \in BOOLEAN /\ run[a].infra \in BOOLEAN
      /\ run[a].page = 0 /\ run[a].found = <<>>
  BY <1>7 DEF Run, RunFits
<1> QED
  BY <1>2, <1>6, <1>7, <1>8, <1>9, Hands

LEMMA CanonicalDetects ==
  ASSUME TypeInv, NEW a \in Audits, a = "hardening-drift", CanonicalChecks(a)
  PROVE  Detected(a)
<1>1. PICK toolFails \in BOOLEAN, d \in BOOLEAN, broken \in SUBSET Workloads :
         Move(a, [pc |-> "settings",
                  finding |-> toolFails \/ "checks" \in problems
                                \/ SupplyClass(d, broken) = Finding["supply-chain"],
                  infra |-> SupplyClass(d, broken) = Infrastructure,
                  read |-> {"checks"} \cup
                     IF SupplyClass(d, broken) = Infrastructure THEN {} ELSE {"supply-chain"}])
  BY DEF CanonicalChecks
<1> DEFINE finding == toolFails \/ "checks" \in problems
                        \/ SupplyClass(d, broken) = Finding["supply-chain"]
           infra == SupplyClass(d, broken) = Infrastructure
           read == {"checks"} \cup
                     IF SupplyClass(d, broken) = Infrastructure THEN {} ELSE {"supply-chain"}
           f == [pc |-> "settings", finding |-> finding, infra |-> infra, read |-> read]
<1>2. /\ finding \in BOOLEAN /\ infra \in BOOLEAN /\ read \in SUBSET Readable
      /\ ~infra => read = ReadBy("settings")
  BY DEF Readable, ReadBy
<1> HIDE DEF finding, infra, read
<1>3. DOMAIN f = {"pc", "finding", "infra", "read"}
  OBVIOUS
<1>4. f.pc = "settings" /\ f.finding = finding /\ f.infra = infra /\ f.read = read
  OBVIOUS
<1>5. run \in [Audits -> Run] /\ Move(a, f)
  BY <1>1 DEF TypeInv, finding, infra, read
<1> HIDE DEF f
<1>6. /\ Alone(a)
      /\ \A i \in DOMAIN f : run'[a][i] = f[i]
      /\ \A i \in RunFields \ DOMAIN f : run'[a][i] = run[a][i]
  BY <1>3, <1>5, Moved DEF RunFields
<1>7. /\ run[a].pc = "idle" /\ UNCHANGED <<items, pending, copy, backfill>>
      /\ run[a] \in Run /\ RunFits(a, run[a])
  BY DEF CanonicalChecks, TrackerUnchanged, TypeInv
<1>8. /\ run'[a].pc = "settings" /\ run'[a].finding = finding /\ run'[a].infra = infra
      /\ run'[a].read = read /\ run'[a].live = run[a].live
      /\ run'[a].class = run[a].class /\ run'[a].claim = run[a].claim
      /\ run'[a].page = run[a].page /\ run'[a].found = run[a].found
  BY <1>3, <1>4, <1>6 DEF RunFields
<1>9. run[a].page = 0
  BY <1>7 DEF RunFits
<1> QED
  BY <1>2, <1>6, <1>7, <1>8, <1>9, GoesOn

LEMMA HandOverDetects ==
  ASSUME TypeInv, NEW a \in Audits, a = "hardening-drift",
         run[a].pc \in {"settings", "labels", "items"},
         NEW finding \in BOOLEAN, NEW infra \in BOOLEAN, NEW read \in SUBSET Readable,
         ~infra => read = Controls(a), HandOver(a, finding, infra, read),
         UNCHANGED <<items, pending, copy, backfill>>
  PROVE  Detected(a)
<1> DEFINE class == DriftClass(finding, infra)
           f == [pc |-> "find", page |-> 0, finding |-> FALSE, infra |-> FALSE, read |-> read,
                 class |-> class, claim |-> "none"]
<1>2. class \in Classes(a) /\ (class = "clean" => ~infra)
  BY ClassParts DEF DriftClass
<1>5. run \in [Audits -> Run] /\ Move(a, f)
  BY DEF TypeInv, HandOver
<1> HIDE DEF class
<1>3. DOMAIN f = {"pc", "page", "finding", "infra", "read", "class", "claim"}
  OBVIOUS
<1>4. /\ f.pc = "find" /\ f.page = 0 /\ f.finding = FALSE /\ f.infra = FALSE
      /\ f.read = read /\ f.class = class /\ f.claim = "none"
  OBVIOUS
<1> HIDE DEF f
<1>6. /\ Alone(a)
      /\ \A i \in DOMAIN f : run'[a][i] = f[i]
      /\ \A i \in RunFields \ DOMAIN f : run'[a][i] = run[a][i]
  BY <1>3, <1>5, Moved DEF RunFields
<1>7. run[a] \in Run /\ RunFits(a, run[a])
  BY DEF TypeInv
<1>8. /\ run'[a].pc = "find" /\ run'[a].class = class /\ run'[a].read = read
      /\ run'[a].claim = "none" /\ run'[a].live = run[a].live
      /\ run'[a].finding = FALSE /\ run'[a].infra = FALSE
      /\ run'[a].page = 0 /\ run'[a].found = run[a].found
  BY <1>3, <1>4, <1>6 DEF RunFields
<1>9. run[a].live \in BOOLEAN /\ run[a].found = <<>>
  BY <1>7 DEF Run, RunFits
<1> QED
  BY <1>2, <1>6, <1>8, <1>9, Hands

LEMMA LiveReadingDetects ==
  ASSUME TypeInv, ReadInv, NEW a \in Audits, a = "hardening-drift",
         NEW control, NEW then,
         <<control, then>> \in {<<"settings", "labels">>, <<"labels", "items">>},
         LiveReading(a, control, then)
  PROVE  Detected(a)
<1>1. /\ run[a].pc = control /\ UNCHANGED <<items, pending, copy, backfill>>
      /\ run[a] \in Run /\ RunFits(a, run[a]) /\ ReadFits(a, run[a])
  BY DEF LiveReading, TrackerUnchanged, TypeInv, ReadInv
<1>2. /\ run[a].finding \in BOOLEAN /\ run[a].read \in SUBSET Readable
      /\ run[a].infra \in BOOLEAN
      /\ control \in Readable /\ control \in {"settings", "labels"}
      /\ then \in {"labels", "items"}
  BY <1>1 DEF Run, Readable
<1>3. CASE HandOver(a, run[a].finding, TRUE, run[a].read)
  BY <1>1, <1>2, <1>3, HandOverDetects
<1>4. CASE Move(a, [pc |-> then, finding |-> run[a].finding \/ control \in problems,
                    read |-> run[a].read \cup {control}])
  <2> DEFINE finding == run[a].finding \/ control \in problems
             read == run[a].read \cup {control}
             f == [pc |-> then, finding |-> finding, read |-> read]
  <2>1. /\ finding \in BOOLEAN /\ read \in SUBSET Readable
        /\ ~run[a].infra => read = ReadBy(then)
    <3>1. ~run[a].infra => run[a].read = ReadBy(control)
      BY <1>1, <1>2 DEF ReadFits
    <3>2. ReadBy(control) \cup {control} = ReadBy(then)
      BY DEF ReadBy
    <3> QED
      BY <1>2, <3>1, <3>2
  <2> HIDE DEF finding, read
  <2>2. /\ DOMAIN f = {"pc", "finding", "read"}
        /\ f.pc = then /\ f.finding = finding /\ f.read = read
    OBVIOUS
  <2>3. run \in [Audits -> Run] /\ Move(a, f)
    BY <1>4 DEF TypeInv, finding, read
  <2> HIDE DEF f
  <2>4. /\ Alone(a)
        /\ \A i \in DOMAIN f : run'[a][i] = f[i]
        /\ \A i \in RunFields \ DOMAIN f : run'[a][i] = run[a][i]
    BY <2>2, <2>3, Moved DEF RunFields
  <2>5. /\ run'[a].pc = then /\ run'[a].finding = finding /\ run'[a].infra = run[a].infra
        /\ run'[a].read = read /\ run'[a].live = run[a].live
        /\ run'[a].class = run[a].class /\ run'[a].claim = run[a].claim
        /\ run'[a].page = run[a].page /\ run'[a].found = run[a].found
    BY <2>2, <2>4 DEF RunFields
  <2>6. run[a].page = 0
    BY <1>1, <1>2 DEF RunFits
  <2>7. /\ run'[a].pc \in {"settings", "labels", "items"} /\ run'[a].finding \in BOOLEAN
        /\ run'[a].infra \in BOOLEAN /\ run'[a].page \in Nat /\ run'[a].page = 0
        /\ run'[a].read \in SUBSET Readable
        /\ ~run'[a].infra => run'[a].read = ReadBy(run'[a].pc)
    BY <1>2, <2>1, <2>5, <2>6
  <2>8. run[a].pc \notin {"find", "act"}
    BY <1>1, <1>2
  <2> QED
    BY <1>1, <2>4, <2>5, <2>7, <2>8, GoesOn
<1> QED
  BY <1>3, <1>4 DEF LiveReading

LEMMA LiveItemsDetects ==
  ASSUME TypeInv, ReadInv, NEW a \in Audits, a = "hardening-drift", LiveItems(a)
  PROVE  Detected(a)
<1> DEFINE seen == {items[n] : n \in Page(OpenItems, run[a].page)}
           finding == run[a].finding \/ \E item \in seen : ~Reconciled(item)
           infra == run[a].infra \/ \E item \in seen : Undecided(item)
<1>1. /\ run[a].pc = "items" /\ UNCHANGED <<items, pending, copy, backfill>>
      /\ run[a] \in Run /\ RunFits(a, run[a]) /\ ReadFits(a, run[a])
  BY DEF LiveItems, TrackerUnchanged, TypeInv, ReadInv
<1>2. \/ HandOver(a, run[a].finding, TRUE, run[a].read)
      \/ HandOver(a, finding, infra, run[a].read \cup {"items"})
      \/ Move(a, [page |-> run[a].page + 1, finding |-> finding, infra |-> infra])
  BY DEF LiveItems
<1>3. /\ run[a].finding \in BOOLEAN /\ run[a].infra \in BOOLEAN
      /\ run[a].read \in SUBSET Readable /\ run[a].page \in Nat
      /\ run[a].read \cup {"items"} \in SUBSET Readable
  BY <1>1 DEF Run, Readable
<1>4. finding \in BOOLEAN /\ infra \in BOOLEAN /\ (~infra => ~run[a].infra)
  BY <1>3
<1> HIDE DEF finding, infra
<1>5. ~run[a].infra => run[a].read = ReadBy("items")
  BY <1>1 DEF ReadFits
<1>6. CASE HandOver(a, run[a].finding, TRUE, run[a].read)
  BY <1>1, <1>3, <1>6, HandOverDetects
<1>7. CASE HandOver(a, finding, infra, run[a].read \cup {"items"})
  <2>1. ReadBy("items") \cup {"items"} = Controls(a)
    BY DEF ReadBy, Controls
  <2>2. ~infra => run[a].read \cup {"items"} = Controls(a)
    BY <1>4, <1>5, <2>1
  <2> DEFINE read == run[a].read \cup {"items"}
  <2>3. /\ read \in SUBSET Readable /\ (~infra => read = Controls(a))
        /\ HandOver(a, finding, infra, read)
    BY <1>3, <1>7, <2>2
  <2> HIDE DEF read
  <2> QED
    BY <1>1, <1>4, <2>3, HandOverDetects
<1>8. CASE Move(a, [page |-> run[a].page + 1, finding |-> finding, infra |-> infra])
  <2> DEFINE f == [page |-> run[a].page + 1, finding |-> finding, infra |-> infra]
  <2>2. /\ DOMAIN f = {"page", "finding", "infra"}
        /\ f.page = run[a].page + 1 /\ f.finding = finding /\ f.infra = infra
    OBVIOUS
  <2>3. run \in [Audits -> Run] /\ Move(a, f)
    BY <1>8 DEF TypeInv
  <2> HIDE DEF f
  <2>4. /\ Alone(a)
        /\ \A i \in DOMAIN f : run'[a][i] = f[i]
        /\ \A i \in RunFields \ DOMAIN f : run'[a][i] = run[a][i]
    BY <2>2, <2>3, Moved DEF RunFields
  <2>5. /\ run'[a].pc = run[a].pc /\ run'[a].finding = finding /\ run'[a].infra = infra
        /\ run'[a].read = run[a].read /\ run'[a].live = run[a].live
        /\ run'[a].class = run[a].class /\ run'[a].claim = run[a].claim
        /\ run'[a].page = run[a].page + 1 /\ run'[a].found = run[a].found
    BY <2>2, <2>4 DEF RunFields
  <2>6. run'[a].page \in Nat /\ (~infra => run'[a].read = ReadBy("items"))
    BY <1>3, <1>4, <1>5, <2>5
  <2> QED
    BY <1>1, <1>3, <1>4, <2>4, <2>5, <2>6, GoesOn
<1> QED
  BY <1>2, <1>6, <1>7, <1>8

\* The run of a is over.
Rested(a) ==
    /\ run' \in [Audits -> Run] /\ \A b \in Audits \ {a} : run'[b] = run[b]
    /\ RunFits(a, run'[a]) /\ ReadFits(a, run'[a])
    /\ run'[a].pc = "idle" /\ run'[a].found = <<>>

LEMMA Rests ==
  ASSUME TypeInv, NEW a \in Audits, Alone(a),
         \A i \in RunFields \ {"claim"} : run'[a][i] = NoRun[i],
         run'[a].claim \in Classes(a) \cup {"none", "disturbed"}
  PROVE  Rested(a)
<1>1. /\ run'[a].pc = "idle" /\ run'[a].class = "none" /\ run'[a].live = TRUE
      /\ run'[a].finding = FALSE /\ run'[a].infra = FALSE /\ run'[a].page = 0
      /\ run'[a].found = <<>> /\ run'[a].read = {}
  BY NoRunParts DEF RunFields
<1>2. run \in [Audits -> Run] /\ run'[a] = [i \in RunFields |-> run'[a][i]]
  BY DEF Alone, TypeInv
<1>3. <<>> \in Seq(Seen) /\ run'[a].claim \in Verdicts \cup {"none", "disturbed"}
  BY EmptySeq, ClassParts
<1>4. run'[a] \in Run
  <2>1. /\ run'[a].pc \in {"idle", "settings", "labels", "items", "find", "act"}
        /\ run'[a].class \in Verdicts \cup {"none"} /\ run'[a].page \in Nat
        /\ run'[a].found \in Seq(Seen) /\ run'[a].read \in SUBSET Readable
    BY <1>1, <1>3
  <2>2. run'[a].live \in BOOLEAN /\ run'[a].finding \in BOOLEAN /\ run'[a].infra \in BOOLEAN
    BY <1>1, Zenon
  <2> QED
    BY <1>2, <1>3, <2>1, <2>2, RunByFields
<1>5. RunFits(a, run'[a]) /\ ReadFits(a, run'[a])
  BY <1>1 DEF RunFits, ReadFits
<1> QED
  BY <1>1, <1>2, <1>4, <1>5, AloneTypes DEF Rested

LEMMA LoseEnds ==
  ASSUME TypeInv, NEW a \in Audits, Move(a, NoRun)
  PROVE  Rested(a) /\ run'[a].claim = run[a].claim
<1>1. run \in [Audits -> Run] /\ RunFits(a, run[a])
  BY DEF TypeInv
<1>2. /\ Alone(a)
      /\ \A i \in DOMAIN NoRun : run'[a][i] = NoRun[i]
      /\ \A i \in RunFields \ DOMAIN NoRun : run'[a][i] = run[a][i]
  BY <1>1, NoRunParts, Moved
<1>3. run'[a].claim = run[a].claim
  BY <1>2, NoRunParts DEF RunFields
<1>4. run[a].claim \in Classes(a) \cup {"none", "disturbed"}
  BY <1>1 DEF RunFits
<1> QED
  BY <1>2, <1>3, <1>4, NoRunParts, Rests

LEMMA ClaimEnds ==
  ASSUME TypeInv, NEW a \in Audits, NEW c \in Classes(a) \cup {"none"},
         Move(a, With(NoRun, [claim |-> c]))
  PROVE  Rested(a) /\ run'[a].claim = c
<1> DEFINE g == [claim |-> c]
           f == With(NoRun, g)
<1>1. DOMAIN g = {"claim"} /\ g.claim = c
  OBVIOUS
<1> HIDE DEF g
<1>2. /\ DOMAIN f = DOMAIN NoRun \cup DOMAIN g
      /\ \A x \in DOMAIN g : f[x] = g[x]
      /\ \A x \in DOMAIN NoRun \ DOMAIN g : f[x] = NoRun[x]
  BY WithParts
<1>3. run \in [Audits -> Run] /\ Move(a, f)
  BY DEF TypeInv, g
<1> HIDE DEF f
<1>4. /\ DOMAIN f = RunFields /\ f.claim = c
      /\ \A x \in RunFields \ {"claim"} : f[x] = NoRun[x]
  BY <1>1, <1>2, NoRunParts DEF RunFields
<1>5. Alone(a) /\ \A i \in RunFields : run'[a][i] = f[i]
  BY <1>3, <1>4, Moved
<1>6. run'[a].claim = c
  BY <1>4, <1>5 DEF RunFields
<1> QED
  BY <1>4, <1>5, <1>6, Rests

LEMMA DoneEnds ==
  ASSUME TypeInv, NEW a \in Audits, run[a].pc \in {"find", "act"}, Done(a)
  PROVE  /\ Rested(a)
         /\ run[a].claim = "disturbed" => run'[a].claim = "none"
         /\ run[a].claim # "disturbed" => run'[a].claim = run[a].class
<1> DEFINE c == IF run[a].claim = "disturbed" THEN "none" ELSE run[a].class
<1>1. c \in Classes(a) \cup {"none"}
  BY DEF TypeInv, RunFits
<1>2. Move(a, With(NoRun, [claim |-> c]))
  BY DEF Done
<1>3. Rested(a) /\ run'[a].claim = c
  <2> HIDE DEF c
  <2> QED
    BY <1>1, <1>2, ClaimEnds
<1> QED
  BY <1>3

-----------------------------------------------------------------------------
(* Looking for the owned issue.                                            *)

LEMMA ItemParts ==
  ASSUME TypeInv
  PROVE  /\ Len(items) \in Nat /\ DOMAIN items = Numbers
         /\ \A n \in Numbers : n \in Nat /\ items[n] \in Item
<1>1. items \in Seq(Item)
  BY DEF TypeInv
<1>2. Len(items) \in Nat /\ items \in [1..Len(items) -> Item]
  BY <1>1, LenProperties
<1> QED
  BY <1>2 DEF Numbers

\* The new entries of the list are the issues of the page that carry the
\* audit's marker, as they are.
LEMMA LongerParts ==
  ASSUME TypeInv, NEW a \in Audits
  PROVE  /\ Longer(a) \in Seq(Seen)
         /\ \A k \in 1..Len(Longer(a)) :
               \/ \E j \in 1..Len(run[a].found) : Longer(a)[k] = run[a].found[j]
               \/ /\ Longer(a)[k].n \in Numbers /\ Carrying(a, Longer(a)[k].n)
                  /\ Longer(a)[k].open = items[Longer(a)[k].n].open
         /\ \A j \in 1..Len(run[a].found) :
               \E k \in 1..Len(Longer(a)) : Longer(a)[k] = run[a].found[j]
         /\ \A n \in Matches(a) : \E k \in 1..Len(Longer(a)) : Longer(a)[k].n = n
<1> DEFINE M == Matches(a)
           c == Cardinality(M)
           L == [k \in 1 .. Cardinality(Matches(a)) |->
                   [n |-> Newest(Matches(a))[k], open |-> items[Newest(Matches(a))[k]].open]]
           F == run[a].found
<1>1. /\ run[a].page \in Nat /\ F \in Seq(Seen)
  BY DEF TypeInv, Run
<1>2. /\ Page(Listed(a), run[a].page) \in SUBSET Nat
      /\ IsFiniteSet(Page(Listed(a), run[a].page))
      /\ Page(Listed(a), run[a].page) \subseteq Numbers
  BY <1>1, ItemParts, PageParts DEF Listed, Numbers
<1>3. M \in SUBSET Nat /\ IsFiniteSet(M) /\ M \subseteq Numbers /\ \A n \in M : Carrying(a, n)
  <2>1. M \in SUBSET Page(Listed(a), run[a].page) /\ \A n \in M : Carrying(a, n)
    BY DEF Matches
  <2> QED
    BY <1>2, <2>1, FS_Subset
<1>4. /\ c \in Nat
      /\ \A k \in 1..c : Newest(M)[k] \in M
      /\ \A n \in M : \E k \in 1..c : Newest(M)[k] = n
  BY <1>3, NewestParts
<1> HIDE DEF M, c
<1>5. L = [k \in 1..c |-> [n |-> Newest(M)[k], open |-> items[Newest(M)[k]].open]]
  BY DEF M, c
<1>6. \A k \in 1..c : L[k].n = Newest(M)[k] /\ L[k].open = items[Newest(M)[k]].open
  BY <1>5
<1>7. \A k \in 1..c : L[k] \in Seen
  <2> SUFFICES ASSUME NEW k \in 1..c PROVE L[k] \in Seen
    OBVIOUS
  <2>1. L[k] = [n |-> Newest(M)[k], open |-> items[Newest(M)[k]].open]
    BY <1>5
  <2>2. Newest(M)[k] \in Numbers
    BY <1>3, <1>4
  <2>3. Newest(M)[k] \in Nat /\ items[Newest(M)[k]].open \in BOOLEAN
    BY <2>2, ItemParts DEF Item
  <2> QED
    BY <2>1, <2>3 DEF Seen
<1>8. L \in [1..c -> Seen]
  BY <1>5, <1>7
<1> HIDE DEF L
<1>9. L \in Seq(Seen) /\ Len(L) = c
  <2>1. L \in Seq(Seen)
    BY <1>4, <1>8
  <2>2. DOMAIN L = 1..c /\ DOMAIN L = 1..Len(L) /\ Len(L) \in Nat
    BY <1>8, <2>1, LenProperties
  <2> QED
    BY <1>4, <2>1, <2>2
<1>10. /\ Longer(a) \in Seq(Seen) /\ Len(Longer(a)) = Len(F) + c
       /\ \A i \in 1..(Len(F) + c) :
             Longer(a)[i] = IF i <= Len(F) THEN F[i] ELSE L[i - Len(F)]
  <2>1. Longer(a) = F \o L
    BY DEF Longer, L
  <2> HIDE DEF F
  <2>2. /\ F \o L \in Seq(Seen) /\ Len(F \o L) = Len(F) + Len(L)
        /\ \A i \in 1..(Len(F) + Len(L)) :
              (F \o L)[i] = IF i <= Len(F) THEN F[i] ELSE L[i - Len(F)]
    BY <1>1, <1>9, ConcatProperties
  <2> QED
    BY <1>9, <2>1, <2>2
<1>11. Len(F) \in Nat
  BY <1>1, LenProperties
<1> HIDE DEF F
<1>12. ASSUME NEW k \in 1..Len(Longer(a))
       PROVE  \/ \E j \in 1..Len(F) : Longer(a)[k] = F[j]
              \/ /\ Longer(a)[k].n \in Numbers /\ Carrying(a, Longer(a)[k].n)
                 /\ Longer(a)[k].open = items[Longer(a)[k].n].open
  <2>1. CASE k <= Len(F)
    BY <1>4, <1>10, <1>11, <2>1
  <2>2. CASE k > Len(F)
    <3>1. k - Len(F) \in 1..c /\ Longer(a)[k] = L[k - Len(F)]
      BY <1>4, <1>10, <1>11, <2>2
    <3> DEFINE i == k - Len(F)
               x == Newest(M)[i]
    <3>2. x \in M /\ L[i].n = x /\ L[i].open = items[x].open
      BY <1>4, <1>6, <3>1
    <3>3. x \in Numbers /\ Carrying(a, x)
      BY <1>3, <3>2
    <3> HIDE DEF x, i
    <3>4. Longer(a)[k].n = x /\ Longer(a)[k].open = items[x].open
      BY <3>1, <3>2 DEF i
    <3> QED
      BY <3>3, <3>4
  <2> QED
    BY <1>4, <1>10, <1>11, <2>1, <2>2
<1>13. ASSUME NEW j \in 1..Len(F) PROVE \E k \in 1..Len(Longer(a)) : Longer(a)[k] = F[j]
  <2>1. j \in 1..Len(Longer(a)) /\ Longer(a)[j] = F[j]
    BY <1>4, <1>10, <1>11
  <2> QED
    BY <2>1
<1>14. ASSUME NEW n \in M PROVE \E k \in 1..Len(Longer(a)) : Longer(a)[k].n = n
  <2>1. PICK k \in 1..c : Newest(M)[k] = n
    BY <1>4
  <2>2. Len(F) + k \in 1..Len(Longer(a)) /\ Longer(a)[Len(F) + k] = L[k]
    <3>1. Len(F) + k \in 1..(Len(F) + c) /\ ~ (Len(F) + k <= Len(F))
          /\ (Len(F) + k) - Len(F) = k
      BY <1>4, <1>11
    <3> QED
      BY <1>10, <3>1
  <2> QED
    BY <1>6, <2>1, <2>2
<1> QED
  BY <1>10, <1>12, <1>13, <1>14 DEF M, F

\* A run that lists on or knows what to do.
Looks(a) ==
    /\ run' \in [Audits -> Run] /\ \A b \in Audits \ {a} : run'[b] = run[b]
    /\ RunFits(a, run'[a]) /\ ReadFits(a, run'[a])
    /\ run'[a].class = run[a].class /\ run'[a].claim = run[a].claim
    /\ run'[a].found = Longer(a)

LEMMA Looking ==
  ASSUME TypeInv, ReadInv, NEW a \in Audits, run[a].pc = "find",
         NEW pc \in {"find", "act"}, NEW page \in Nat, pc = "act" => page = 0,
         pc = "act" => Len(Longer(a)) <= 1 /\ (run[a].class = "clean" => Longer(a) # <<>>),
         Move(a, [pc |-> pc, page |-> page, found |-> Longer(a)])
  PROVE  Looks(a) /\ run'[a].pc = pc /\ run'[a].page = page
<1> DEFINE f == [pc |-> pc, page |-> page, found |-> Longer(a)]
<1>1. /\ DOMAIN f = {"pc", "page", "found"}
      /\ f.pc = pc /\ f.page = page /\ f.found = Longer(a)
  OBVIOUS
<1>2. /\ run \in [Audits -> Run] /\ run[a] \in Run /\ Move(a, f)
      /\ RunFits(a, run[a]) /\ ReadFits(a, run[a])
  BY DEF TypeInv, ReadInv
<1> HIDE DEF f
<1>3. /\ Alone(a)
      /\ \A i \in DOMAIN f : run'[a][i] = f[i]
      /\ \A i \in RunFields \ DOMAIN f : run'[a][i] = run[a][i]
  BY <1>1, <1>2, Moved DEF RunFields
<1>4. /\ run'[a].pc = pc /\ run'[a].page = page /\ run'[a].found = Longer(a)
      /\ run'[a].class = run[a].class /\ run'[a].live = run[a].live
      /\ run'[a].finding = run[a].finding /\ run'[a].infra = run[a].infra
      /\ run'[a].read = run[a].read /\ run'[a].claim = run[a].claim
  BY <1>1, <1>3 DEF RunFields
<1>5. /\ run[a].class \in Verdicts \cup {"none"} /\ run[a].live \in BOOLEAN
      /\ run[a].finding \in BOOLEAN /\ run[a].infra \in BOOLEAN
      /\ run[a].read \in SUBSET Readable /\ run[a].claim \in Verdicts \cup {"none", "disturbed"}
  BY <1>2 DEF Run
<1>6. run'[a] \in Run
  <2>1. run'[a].pc \in {"idle", "settings", "labels", "items", "find", "act"}
    BY <1>4
  <2>2. Longer(a) \in Seq(Seen) /\ run'[a] = [i \in RunFields |-> run'[a][i]]
    BY <1>3, LongerParts DEF Alone
  <2> QED
    BY <1>4, <1>5, <2>1, <2>2, RunByFields
<1>7. RunFits(a, run'[a]) /\ ReadFits(a, run'[a])
  BY <1>2, <1>4 DEF RunFits, ReadFits
<1> QED
  BY <1>2, <1>3, <1>4, <1>6, <1>7, AloneTypes DEF Looks

\* What becomes of a run that asks for a page of the issues.
LEMMA FindEffect ==
  ASSUME TypeInv, ReadInv, NEW a \in Audits, FindOwnedIssue(a)
  PROVE  /\ run[a].pc = "find" /\ UNCHANGED <<items, pending, copy, backfill>>
         /\ \/ Looks(a) /\ run'[a].pc = "find" /\ run'[a].page = run[a].page + 1
            \/ Rested(a) /\ run'[a].claim = run[a].claim
            \/ /\ Rested(a) /\ LastPage(Listed(a), run[a].page)
               /\ run[a].class = "clean"
               /\ \A k \in 1..Len(Longer(a)) : ~Longer(a)[k].open
               /\ run[a].claim = "disturbed" => run'[a].claim = "none"
               /\ run[a].claim # "disturbed" => run'[a].claim = run[a].class
            \/ /\ Looks(a) /\ run'[a].pc = "act" /\ LastPage(Listed(a), run[a].page)
               /\ Len(Longer(a)) <= 1
               /\ run[a].class = "clean" => Longer(a) # <<>>
<1> DEFINE last == LastPage(Listed(a), run[a].page)
           long == Longer(a)
           settled == run[a].class = "clean" /\ \A k \in DOMAIN long : ~long[k].open
<1>1. /\ run[a].pc = "find" /\ UNCHANGED <<items, pending, copy, backfill>>
      /\ run[a] \in Run
  BY DEF FindOwnedIssue, TrackerUnchanged, TypeInv
<1>2. \/ ~last /\ Move(a, [page |-> run[a].page + 1, found |-> long])
      \/ last /\ Len(long) > 1 /\ Move(a, NoRun)
      \/ last /\ Len(long) <= 1 /\ settled /\ Done(a)
      \/ /\ last /\ Len(long) <= 1 /\ ~settled
         /\ Move(a, [pc |-> "act", page |-> 0, found |-> long])
  BY DEF FindOwnedIssue
<1>3. long \in Seq(Seen) /\ Len(long) \in Nat /\ DOMAIN long = 1..Len(long)
  BY LongerParts, LenProperties
<1> HIDE DEF last, long
<1>4. ASSUME ~last, Move(a, [page |-> run[a].page + 1, found |-> long])
      PROVE  Looks(a) /\ run'[a].pc = "find" /\ run'[a].page = run[a].page + 1
  <2>1. Move(a, [page |-> run[a].page + 1, found |-> long])
    BY <1>4
  <2> DEFINE f == [page |-> run[a].page + 1, found |-> long]
             g == [pc |-> "find", page |-> run[a].page + 1, found |-> long]
  <2>2. With(run[a], f) = With(run[a], g)
    <3>1. /\ DOMAIN f = {"page", "found"} /\ DOMAIN g = {"pc", "page", "found"}
          /\ f.page = g.page /\ f.found = g.found /\ g.pc = "find"
      OBVIOUS
    <3>2. DOMAIN run[a] = RunFields
      BY <1>1 DEF Run, RunFields
    <3> HIDE DEF f, g
    <3>3. DOMAIN run[a] \cup DOMAIN f = RunFields /\ DOMAIN run[a] \cup DOMAIN g = RunFields
      BY <3>1, <3>2 DEF RunFields
    <3>4. \A x \in RunFields : (IF x \in DOMAIN f THEN f[x] ELSE run[a][x])
                                 = (IF x \in DOMAIN g THEN g[x] ELSE run[a][x])
      BY <1>1, <3>1 DEF RunFields
    <3> QED
      BY <3>3, <3>4 DEF With
  <2>3. Move(a, g)
    <3> HIDE DEF f, g
    <3>1. Move(a, f)
      BY <2>1 DEF f
    <3>2. [run EXCEPT ![a] = With(run[a], f)] = [run EXCEPT ![a] = With(run[a], g)]
      BY <2>2
    <3>3. run' = [run EXCEPT ![a] = With(run[a], f)]
      BY <3>1 DEF Move
    <3> QED
      BY <3>2, <3>3 DEF Move
  <2>4. run[a].page + 1 \in Nat
    BY <1>1 DEF Run
  <2> QED
    BY <1>1, <2>3, <2>4, Looking DEF long
<1>5. ASSUME Move(a, NoRun) PROVE Rested(a) /\ run'[a].claim = run[a].claim
  BY <1>5, LoseEnds
<1>6. ASSUME settled, Done(a)
      PROVE  /\ Rested(a) /\ run[a].class = "clean"
             /\ \A k \in 1..Len(long) : ~long[k].open
             /\ run[a].claim = "disturbed" => run'[a].claim = "none"
             /\ run[a].claim # "disturbed" => run'[a].claim = run[a].class
  BY <1>1, <1>3, <1>6, DoneEnds
<1>7. ASSUME Len(long) <= 1, ~settled,
             Move(a, [pc |-> "act", page |-> 0, found |-> long])
      PROVE  /\ Looks(a) /\ run'[a].pc = "act"
             /\ run[a].class = "clean" => long # <<>>
  <2>1. DOMAIN <<>> = {}
    OBVIOUS
  <2>2. run[a].class = "clean" => long # <<>>
    BY <1>7, <2>1
  <2> QED
    BY <1>1, <1>7, <2>2, Looking DEF long
<1> HIDE DEF settled
<1> QED
  BY <1>1, <1>2, <1>4, <1>5, <1>6, <1>7 DEF last, long

-----------------------------------------------------------------------------
(* The tracker.                                                            *)

ItemFields == {"title", "paths", "labels", "pr", "marks", "says", "open", "by"}

LEMMA ItemByFields ==
  ASSUME NEW x, x = [i \in ItemFields |-> x[i]],
         x.title \in {it.title : it \in Written} \cup Titles \cup {ReportTitle},
         x.paths \in {it.paths : it \in Written} \cup {{}},
         x.labels \in SUBSET Known, x.pr \in BOOLEAN, x.marks \in SUBSET Audits,
         x.says \in Verdicts \cup {"none"}, x.open \in BOOLEAN, x.by \in {"person", "bot"}
  PROVE  x \in Item
<1>1. x = [title |-> x.title, paths |-> x.paths, labels |-> x.labels, pr |-> x.pr,
           marks |-> x.marks, says |-> x.says, open |-> x.open, by |-> x.by]
  BY DEF ItemFields
<1> QED
  BY <1>1 DEF Item

\* What a person opens.
LEMMA ByPersonParts ==
  ASSUME NEW it \in Written
  PROVE  /\ ByPerson(it) \in Item
         /\ ByPerson(it).by = "person" /\ ByPerson(it).open = TRUE
         /\ ByPerson(it).marks = it.marks /\ ByPerson(it).pr = it.pr
<1> DEFINE g == [says |-> "none", open |-> TRUE, by |-> "person"]
           x == ByPerson(it)
<1>1. /\ DOMAIN it = {"title", "paths", "labels", "pr", "marks"}
      /\ it.labels \subseteq Known /\ it.marks \subseteq Audits /\ it.pr \in BOOLEAN
  BY PeopleAssumption DEF Written
<1>2. /\ DOMAIN g = {"says", "open", "by"}
      /\ g.says = "none" /\ g.open = TRUE /\ g.by = "person"
  OBVIOUS
<1>3. x = [i \in DOMAIN it \cup DOMAIN g |-> IF i \in DOMAIN g THEN g[i] ELSE it[i]]
  BY DEF ByPerson, With
<1> HIDE DEF g, x
<1>4. DOMAIN it \cup DOMAIN g = ItemFields
  BY <1>1, <1>2 DEF ItemFields
<1>5. x = [i \in ItemFields |-> IF i \in DOMAIN g THEN g[i] ELSE it[i]]
  BY <1>3, <1>4
<1>6. /\ x = [i \in ItemFields |-> x[i]]
      /\ x.title = it.title /\ x.paths = it.paths /\ x.labels = it.labels
      /\ x.pr = it.pr /\ x.marks = it.marks /\ x.says = "none" /\ x.open = TRUE
      /\ x.by = "person"
  BY <1>2, <1>5 DEF ItemFields
<1>7. x.open \in BOOLEAN
  BY <1>6, Zenon
<1>8. x \in Item
  BY <1>1, <1>6, <1>7, ItemByFields
<1> QED
  BY <1>6, <1>8 DEF x

LEMMA ReportLabelsKnown == \A a \in Audits : ReportLabels(a) \subseteq Known
  BY PeopleAssumption DEF Audits

\* An issue as an audit creates it.
Fresh(a) == With(Report(a, run[a].class),
                 [paths |-> {}, pr |-> FALSE, open |-> TRUE, by |-> "bot"])

LEMMA ReportParts ==
  ASSUME NEW a, NEW class
  PROVE  /\ DOMAIN Report(a, class) = {"title", "labels", "marks", "says"}
         /\ Report(a, class).title = ReportTitle /\ Report(a, class).marks = {a}
         /\ Report(a, class).labels = ReportLabels(a) /\ Report(a, class).says = class
  BY DEF Report

LEMMA FreshParts ==
  ASSUME TypeInv, NEW a \in Audits
  PROVE  /\ Fresh(a) \in Item
         /\ Fresh(a).by = "bot" /\ Fresh(a).pr = FALSE /\ Fresh(a).open = TRUE
         /\ Fresh(a).marks = {a} /\ Fresh(a).says = run[a].class
<1> DEFINE r == Report(a, run[a].class)
           g == [paths |-> {}, pr |-> FALSE, open |-> TRUE, by |-> "bot"]
           x == Fresh(a)
<1>1. /\ DOMAIN r = {"title", "labels", "marks", "says"}
      /\ r.title = ReportTitle /\ r.marks = {a}
      /\ r.labels = ReportLabels(a) /\ r.says = run[a].class
  BY ReportParts
<1>2. /\ DOMAIN g = {"paths", "pr", "open", "by"}
      /\ g.paths = {} /\ g.pr = FALSE /\ g.open = TRUE /\ g.by = "bot"
  OBVIOUS
<1>3. x = [i \in DOMAIN r \cup DOMAIN g |-> IF i \in DOMAIN g THEN g[i] ELSE r[i]]
  BY DEF Fresh, With
<1> HIDE DEF g, x, r
<1>4. DOMAIN r \cup DOMAIN g = ItemFields
  BY <1>1, <1>2 DEF ItemFields
<1>5. x = [i \in ItemFields |-> IF i \in DOMAIN g THEN g[i] ELSE r[i]]
  BY <1>3, <1>4
<1>6. /\ x = [i \in ItemFields |-> x[i]]
      /\ x.title = ReportTitle /\ x.paths = {} /\ x.labels = ReportLabels(a)
      /\ x.pr = FALSE /\ x.marks = {a} /\ x.says = run[a].class /\ x.open = TRUE
      /\ x.by = "bot"
  BY <1>1, <1>2, <1>5 DEF ItemFields
<1>7. x.open \in BOOLEAN /\ x.pr \in BOOLEAN
  BY <1>6, Zenon
<1>8. run[a].class \in Verdicts \cup {"none"}
  BY DEF TypeInv, Run
<1>9. x.labels \in SUBSET Known /\ x.marks \in SUBSET Audits
  BY <1>6, ReportLabelsKnown
<1>10. x \in Item
  BY <1>6, <1>7, <1>8, <1>9, ItemByFields
<1> QED
  BY <1>6, <1>10 DEF x

\* An issue as an audit rewrites it.
LEMMA RewrittenParts ==
  ASSUME TypeInv, NEW a \in Audits, NEW seen \in Seen, seen.n \in Numbers
  PROVE  LET x == Rewritten(a, seen)  old == items[seen.n]
         IN  /\ x \in Item /\ x.marks = {a} /\ x.says = run[a].class
             /\ x.by = old.by /\ x.pr = old.pr
             /\ seen.open => x.open = old.open
             /\ ~seen.open => x.open = TRUE
<1> DEFINE old == items[seen.n]
           r == Report(a, run[a].class)
           o == [open |-> TRUE]
           g == IF seen.open THEN r ELSE With(r, o)
           x == Rewritten(a, seen)
<1>0. old \in Item
  BY ItemParts
<1>1. /\ DOMAIN r = {"title", "labels", "marks", "says"}
      /\ r.title = ReportTitle /\ r.marks = {a}
      /\ r.labels = ReportLabels(a) /\ r.says = run[a].class
  BY ReportParts
<1>2. DOMAIN o = {"open"} /\ o.open = TRUE
  OBVIOUS
<1> HIDE DEF r, o
<1>3. /\ DOMAIN With(r, o) = DOMAIN r \cup DOMAIN o
      /\ \A i \in DOMAIN o : With(r, o)[i] = o[i]
      /\ \A i \in DOMAIN r \ DOMAIN o : With(r, o)[i] = r[i]
  BY WithParts
<1>4. /\ g.title = ReportTitle /\ g.marks = {a}
      /\ g.labels = ReportLabels(a) /\ g.says = run[a].class
      /\ seen.open => DOMAIN g = {"title", "labels", "marks", "says"}
      /\ ~seen.open => /\ DOMAIN g = {"title", "labels", "marks", "says", "open"}
                       /\ g.open = TRUE
  <2>1. CASE seen.open
    BY <1>1, <2>1
  <2>2. CASE ~seen.open
    <3>1. g = With(r, o)
      BY <2>2
    <3> HIDE DEF g
    <3> QED
      BY <1>1, <1>2, <1>3, <2>2, <3>1
  <2> QED
    BY <2>1, <2>2
<1>5. x = With(old, g)
  BY DEF Rewritten, r, o
<1> HIDE DEF g, x
<1>6. DOMAIN old = ItemFields /\ DOMAIN old \cup DOMAIN g = ItemFields
  <2>1. DOMAIN old = ItemFields
    BY <1>0 DEF Item, ItemFields
  <2>2. DOMAIN g \subseteq ItemFields
    BY <1>4 DEF ItemFields
  <2> QED
    BY <2>1, <2>2
<1>7. x = [i \in ItemFields |-> IF i \in DOMAIN g THEN g[i] ELSE old[i]]
  BY <1>5, <1>6 DEF With
<1>8. /\ x = [i \in ItemFields |-> x[i]]
      /\ x.title = ReportTitle /\ x.paths = old.paths /\ x.labels = ReportLabels(a)
      /\ x.pr = old.pr /\ x.marks = {a} /\ x.says = run[a].class /\ x.by = old.by
  BY <1>4, <1>7 DEF ItemFields
<1>9. (seen.open => x.open = old.open) /\ (~seen.open => x.open = TRUE)
  BY <1>4, <1>7 DEF ItemFields
<1>10. /\ old.paths \in {it.paths : it \in Written} \cup {{}}
       /\ old.pr \in BOOLEAN /\ old.by \in {"person", "bot"} /\ old.open \in BOOLEAN
  BY <1>0 DEF Item
<1>11. x.open \in BOOLEAN
  BY <1>9, <1>10, Zenon
<1>12. run[a].class \in Verdicts \cup {"none"}
  BY DEF TypeInv, Run
<1>13. x.labels \in SUBSET Known /\ x.marks \in SUBSET Audits
  BY <1>8, ReportLabelsKnown
<1>14. x \in Item
  BY <1>8, <1>10, <1>11, <1>12, <1>13, ItemByFields
<1> QED
  BY <1>8, <1>9, <1>14 DEF x

LEMMA ChangeItem ==
  ASSUME TypeInv, NEW n \in Numbers, NEW x \in Item, items' = [items EXCEPT ![n] = x]
  PROVE  /\ items' \in Seq(Item) /\ Len(items') = Len(items) /\ items'[n] = x
         /\ \A m \in Numbers : m # n => items'[m] = items[m]
<1>1. items \in Seq(Item) /\ n \in 1..Len(items)
  BY DEF TypeInv, Numbers
<1>2. /\ [items EXCEPT ![n] = x] \in Seq(Item)
      /\ Len([items EXCEPT ![n] = x]) = Len(items)
      /\ \A m \in 1..Len(items) :
            [items EXCEPT ![n] = x][m] = IF m = n THEN x ELSE items[m]
  BY <1>1, ExceptSeq
<1> QED
  BY <1>1, <1>2 DEF Numbers

LEMMA AppendItem ==
  ASSUME TypeInv, NEW x \in Item, items' = Append(items, x)
  PROVE  /\ items' \in Seq(Item) /\ Len(items') = Len(items) + 1
         /\ items'[Len(items) + 1] = x
         /\ \A m \in Numbers : items'[m] = items[m]
<1>1. items \in Seq(Item)
  BY DEF TypeInv
<1> QED
  BY <1>1, AppendProperties DEF Numbers

\* Labels and titles change, and nothing the audits look at.
Relabelled ==
    /\ items' \in Seq(Item) /\ Len(items') = Len(items)
    /\ \A n \in Numbers :
          /\ items'[n].by = items[n].by /\ items'[n].pr = items[n].pr
          /\ items'[n].marks = items[n].marks /\ items'[n].says = items[n].says
          /\ items'[n].open = items[n].open

LEMMA SameItems ==
  ASSUME TypeInv, items' = items
  PROVE  Relabelled
  BY DEF Relabelled, TypeInv

LEMMA ItemChanges ==
  ASSUME TypeInv, NEW n \in Numbers, NEW x \in Item, items' = [items EXCEPT ![n] = x],
         x.by = items[n].by, x.pr = items[n].pr, x.marks = items[n].marks,
         x.says = items[n].says, x.open = items[n].open
  PROVE  Relabelled
  BY ChangeItem DEF Relabelled

LEMMA ClassifiedType ==
  ASSUME NEW seen \in Item
  PROVE  Classified(seen) \subseteq Known
<1>1. seen.labels \subseteq Known
  BY DEF Item
<1>2. Structural \subseteq Known /\ TypeLabels \subseteq Known
  BY TaxonomyAssumption
<1>3. StrongType(seen.title) # NoType => StrongType(seen.title) \in Known
  <2> DEFINE rules == {rule \in TypeRules : seen.title.prefix \in rule[1]}
             one == CHOOSE rule \in rules : TRUE
  <2>1. StrongType(seen.title) = IF rules = {} THEN NoType ELSE one[2]
    BY DEF StrongType
  <2>2. rules # {} => one \in rules
    OBVIOUS
  <2>3. one \in rules => one \in TypeRules
    OBVIOUS
  <2>4. one \in rules => one[2] \in TypeLabels
    BY <2>3, RulesAssumption
  <2> HIDE DEF rules, one
  <2> QED
    BY <1>2, <2>1, <2>2, <2>4
<1>4. SelectedType(seen.labels, StrongType(seen.title)) \subseteq Known
  BY <1>1, <1>2, <1>3 DEF SelectedType
<1> QED
  BY <1>1, <1>4 DEF Classified, Desired, ItemType

LEMMA LabelsPut ==
  ASSUME TypeInv, NEW n \in Nat, NEW seen \in Item, items' = WithLabels(n, seen)
  PROVE  Relabelled
<1>1. CASE items' = items
  BY <1>1, SameItems
<1>2. CASE n \in Numbers /\ items' = [items EXCEPT ![n].labels = Classified(seen)]
  <2> DEFINE x == [items[n] EXCEPT !.labels = Classified(seen)]
  <2>1. items' = [items EXCEPT ![n] = x]
    BY <1>2
  <2>2. /\ x \in Item /\ x.by = items[n].by /\ x.pr = items[n].pr
        /\ x.marks = items[n].marks /\ x.says = items[n].says /\ x.open = items[n].open
    BY <1>2, ItemParts, ClassifiedType DEF Item
  <2> HIDE DEF x
  <2> QED
    BY <1>2, <2>1, <2>2, ItemChanges
<1>3. CASE n \notin Numbers /\ items' = [items EXCEPT ![n].labels = Classified(seen)]
  <2>1. n \notin DOMAIN items /\ items \in [Numbers -> Item]
    <3>1. items \in [1..Len(items) -> Item]
      BY LenProperties DEF TypeInv
    <3> QED
      BY <1>3, <3>1 DEF Numbers
  <2>2. items' = items
    BY <1>3, <2>1
  <2> QED
    BY <2>2, SameItems
<1> QED
  BY <1>1, <1>2, <1>3 DEF WithLabels

-----------------------------------------------------------------------------
(* Type correctness.                                                       *)

LEMMA LeftIn ==
  ASSUME TypeInv, Spend \/ UNCHANGED left
  PROVE  left' \in 0..MaxEvents
<1>1. left \in 0..MaxEvents /\ MaxEvents \in Nat
  BY AuditConstants DEF TypeInv, TypeOK
<1> QED
  BY <1>1 DEF Spend

FoundIn(len) ==
    \A a \in Audits : \A k \in 1..Len(run[a].found) : run[a].found[k].n \in 1..len

LEMMA FoundParts ==
  ASSUME TypeInv
  PROVE  /\ FoundIn(Len(items))
         /\ \A a \in Audits : /\ run[a].found \in Seq(Seen) /\ Len(run[a].found) \in Nat
                              /\ DOMAIN run[a].found = 1..Len(run[a].found)
<1>1. ASSUME NEW a \in Audits
      PROVE  /\ run[a].found \in Seq(Seen) /\ Len(run[a].found) \in Nat
             /\ DOMAIN run[a].found = 1..Len(run[a].found)
  <2>1. run[a].found \in Seq(Seen)
    BY DEF TypeInv, Run
  <2> QED
    BY <2>1, LenProperties
<1> QED
  BY <1>1 DEF TypeInv, TypeOK, Numbers, FoundIn

Bots(is) ==
    \A n \in 1..Len(is) : is[n].by = "bot" => ~is[n].pr /\ is[n].says # "none"

LEMMA TypeFrom ==
  ASSUME items' \in Seq(Item), Bots(items'), run' \in [Audits -> Run],
         \A a \in Audits : RunFits(a, run'[a]), FoundIn(Len(items))',
         backfill' \in Work, backfill'.pc \in {"apply", "last"} => backfill'.todo # <<>>,
         \A n \in DOMAIN copy' : copy'[n] \in Item,
         pending' \cup DOMAIN copy' \subseteq 1..Len(items'),
         left' \in 0..MaxEvents
  PROVE  TypeInv'
<1>1. \A n \in Numbers' : items'[n] \in Item
  BY ElementOfSeq DEF Numbers
<1>2. \A n \in Numbers' :
         /\ items'[n].labels \subseteq Known /\ items'[n].marks \subseteq Audits
         /\ items'[n].open \in BOOLEAN
  BY <1>1 DEF Item
<1>3. ASSUME NEW a \in Audits
      PROVE  /\ run'[a].class \in Classes(a) \cup {"none"}
             /\ run'[a].claim \in Classes(a) \cup {"none", "disturbed"}
             /\ run'[a].pc \in {"find", "act"} => run'[a].class # "none"
             /\ \A k \in DOMAIN run'[a].found : run'[a].found[k].n \in Numbers'
  <2>1. run'[a].found \in Seq(Seen)
    BY DEF Run
  <2>2. DOMAIN run'[a].found = 1..Len(run'[a].found)
    BY <2>1, LenProperties
  <2> QED
    BY <2>2 DEF RunFits, FoundIn, Numbers
<1>4. TypeOK'
  BY <1>2, <1>3 DEF TypeOK, Bots, Numbers
<1> QED
  BY <1>4 DEF TypeInv

LEMMA BotsKeep ==
  ASSUME TypeInv, Relabelled
  PROVE  Bots(items')
  BY DEF TypeInv, TypeOK, Bots, Relabelled, Numbers

\* The runs move and nothing else does but the count of events.
LEMMA RunTypes ==
  ASSUME TypeInv, run' \in [Audits -> Run], \A a \in Audits : RunFits(a, run'[a]),
         FoundIn(Len(items))', UNCHANGED <<items, pending, copy, backfill>>,
         Spend \/ UNCHANGED left
  PROVE  TypeInv'
<1>1. Bots(items')
  BY SameItems, BotsKeep
<1>2. left' \in 0..MaxEvents
  BY LeftIn
<1>3. items \in Seq(Item) /\ pending \cup DOMAIN copy \subseteq 1..Len(items)
  BY DEF TypeInv, TypeOK, Numbers
<1> QED
  BY <1>1, <1>2, <1>3, TypeFrom DEF TypeInv

\* The tracker grows or changes, and the runs are there.
LEMMA TrackerTypes ==
  ASSUME TypeInv, items' \in Seq(Item), Len(items') \in Nat, Len(items) <= Len(items'),
         Bots(items'), run' \in [Audits -> Run], \A a \in Audits : RunFits(a, run'[a]),
         FoundIn(Len(items))', pending' \subseteq 1..Len(items'),
         UNCHANGED <<copy, backfill>>, Spend \/ UNCHANGED left
  PROVE  TypeInv'
<1>1. left' \in 0..MaxEvents
  BY LeftIn
<1>2. DOMAIN copy \subseteq 1..Len(items) /\ Len(items) \in Nat
  BY ItemParts DEF TypeInv, TypeOK, Numbers
<1>3. DOMAIN copy' \subseteq 1..Len(items')
  BY <1>2
<1> QED
  BY <1>1, <1>3, TypeFrom DEF TypeInv

LEMMA FoundOne ==
  ASSUME TypeInv, NEW a \in Audits, \A b \in Audits \ {a} : run'[b] = run[b],
         Len(items') \in Nat, Len(items) <= Len(items'),
         \A k \in 1..Len(run'[a].found) : run'[a].found[k].n \in 1..Len(items)
  PROVE  FoundIn(Len(items))'
<1>1. Len(items) \in Nat /\ FoundIn(Len(items))
  BY ItemParts, FoundParts
<1>2. 1..Len(items) \subseteq 1..Len(items')
  BY <1>1
<1> QED
  BY <1>1, <1>2 DEF FoundIn

LEMMA FoundNone ==
  ASSUME TypeInv, NEW a \in Audits, \A b \in Audits \ {a} : run'[b] = run[b],
         Len(items') \in Nat, Len(items) <= Len(items'), run'[a].found = <<>>
  PROVE  FoundIn(Len(items))'
<1>1. Len(run'[a].found) = 0
  BY EmptySeq
<1>2. 1..Len(run'[a].found) = {}
  BY <1>1
<1> QED
  BY <1>2, FoundOne

Base == TypeInv /\ ReadInv

LEMMA DetectStep ==
  ASSUME Base, NEW a \in Audits,
         \/ StartSynthetic(a)
         \/ a = "supply-chain" /\ Scan(a)
         \/ /\ a = "hardening-drift"
            /\ \/ CanonicalChecks(a)
               \/ LiveReading(a, "settings", "labels")
               \/ LiveReading(a, "labels", "items")
               \/ LiveItems(a)
  PROVE  Detected(a) /\ Base'
<1>1. Detected(a)
  BY SyntheticDetects, ScanDetects, CanonicalDetects, LiveReadingDetects, LiveItemsDetects
     DEF Base
<1>2. Spend \/ UNCHANGED left
  BY DEF StartSynthetic, Scan, CanonicalChecks, LiveReading, LiveItems, MayFail
<1>3. Len(items') \in Nat /\ Len(items) <= Len(items')
  BY <1>1, ItemParts DEF Detected, Base
<1>4. FoundIn(Len(items))'
  BY <1>1, <1>3, FoundNone DEF Detected, Base
<1>5. \A b \in Audits : RunFits(b, run'[b]) /\ ReadFits(b, run'[b])
  BY <1>1 DEF Detected, Base, TypeInv, ReadInv
<1>6. TypeInv'
  BY <1>1, <1>2, <1>4, <1>5, RunTypes DEF Detected, Base
<1> QED
  BY <1>1, <1>5, <1>6 DEF Base, ReadInv

LEMMA LoseStep ==
  ASSUME Base, NEW a \in Audits, LoseRun(a)
  PROVE  /\ Rested(a) /\ run'[a].claim = run[a].claim
         /\ UNCHANGED <<items, pending, copy, backfill>> /\ Base'
<1>1. Rested(a) /\ run'[a].claim = run[a].claim
  BY LoseEnds DEF LoseRun, Base
<1>2. UNCHANGED <<items, pending, copy, backfill>> /\ Spend
  BY DEF LoseRun, TrackerUnchanged
<1>3. Len(items') \in Nat /\ Len(items) <= Len(items')
  BY <1>2, ItemParts DEF Base
<1>4. FoundIn(Len(items))'
  BY <1>1, <1>3, FoundNone DEF Rested, Base
<1>5. \A b \in Audits : RunFits(b, run'[b]) /\ ReadFits(b, run'[b])
  BY <1>1 DEF Rested, Base, TypeInv, ReadInv
<1>6. TypeInv'
  BY <1>1, <1>2, <1>4, <1>5, RunTypes DEF Rested, Base
<1> QED
  BY <1>1, <1>2, <1>5, <1>6 DEF Base, ReadInv

LEMMA FindStep ==
  ASSUME Base, NEW a \in Audits, FindOwnedIssue(a)
  PROVE  Base'
<1>1. /\ UNCHANGED <<items, pending, copy, backfill>>
      /\ Looks(a) \/ Rested(a)
  BY FindEffect DEF Base
<1>2. UNCHANGED left
  BY DEF FindOwnedIssue
<1>3. Len(items') \in Nat /\ Len(items) <= Len(items')
  BY <1>1, ItemParts DEF Base
<1>4. FoundIn(Len(items))'
  <2>1. CASE Rested(a)
    BY <1>3, <2>1, FoundNone DEF Rested, Base
  <2>2. CASE Looks(a)
    <3>1. \A k \in 1..Len(Longer(a)) : Longer(a)[k].n \in 1..Len(items)
      <4>1. FoundIn(Len(items))
        BY FoundParts DEF Base
      <4> QED
        BY <4>1, LongerParts DEF Base, FoundIn, Numbers
    <3> QED
      BY <1>3, <2>2, <3>1, FoundOne DEF Looks, Base
  <2> QED
    BY <1>1, <2>1, <2>2
<1>5. /\ run' \in [Audits -> Run]
      /\ \A b \in Audits : RunFits(b, run'[b]) /\ ReadFits(b, run'[b])
  BY <1>1 DEF Looks, Rested, Base, TypeInv, ReadInv
<1>6. TypeInv'
  BY <1>1, <1>2, <1>4, <1>5, RunTypes DEF Base
<1> QED
  BY <1>5, <1>6 DEF Base, ReadInv

\* What a call of the reporter leaves of its run.
LEMMA CallParts ==
  ASSUME TypeInv, NEW a \in Audits, NEW effect, Call(a, effect)
  PROVE  /\ run[a].pc = "act" /\ Rested(a) /\ UNCHANGED <<pending, copy, backfill>>
         /\ items' = items \/ items' = effect
         /\ \/ run'[a].claim = "none"
            \/ /\ run[a].claim # "disturbed" /\ run'[a].claim = run[a].class
               /\ items' = effect
         /\ Spend \/ UNCHANGED left
<1>1. run[a].pc = "act" /\ UNCHANGED <<pending, copy, backfill>>
  BY DEF Call
<1>2. CASE items' = effect /\ Done(a) /\ UNCHANGED left
  BY <1>1, <1>2, DoneEnds
<1>3. CASE items' \in {items, effect} /\ Move(a, With(NoRun, [claim |-> "none"])) /\ Spend
  <2>1. Rested(a) /\ run'[a].claim = "none"
    BY <1>3, ClaimEnds
  <2> QED
    BY <1>1, <1>3, <2>1
<1> QED
  BY <1>2, <1>3 DEF Call

\* The found issue of a run that acts.
LEMMA ActsOn ==
  ASSUME TypeInv, NEW a \in Audits, run[a].pc = "act", run[a].found # <<>>
  PROVE  /\ Len(run[a].found) = 1 /\ run[a].found[1] \in Seen
         /\ run[a].found[1].n \in Numbers
<1>1. run[a].found \in Seq(Seen) /\ Len(run[a].found) \in Nat /\ Len(run[a].found) <= 1
  BY FoundParts DEF TypeInv, RunFits
<1>2. Len(run[a].found) = 1
  <2>1. Len(run[a].found) \in Nat \ {0}
    BY <1>1, EmptySeq
  <2>2. \A i \in Nat \ {0} : i <= 1 => i = 1
    OBVIOUS
  <2> QED
    BY <1>1, <2>1, <2>2
<1>3. 1 \in 1..Len(run[a].found)
  BY <1>2
<1>4. run[a].found[1] \in Seen
  BY <1>1, <1>3, ElementOfSeq
<1> QED
  BY <1>2, <1>3, <1>4, FoundParts DEF FoundIn, Numbers

\* A run that acts is over with it.
Acts(a) ==
    /\ run[a].pc = "act" /\ Rested(a) /\ UNCHANGED <<pending, copy, backfill>>
    /\ Spend \/ UNCHANGED left

\* One item changes, and it stays whose it was.
Touches(n) ==
    /\ n \in Numbers /\ items' \in Seq(Item) /\ Len(items') = Len(items)
    /\ \A m \in Numbers : m # n => items'[m] = items[m]
    /\ items'[n].by = items[n].by /\ items'[n].pr = items[n].pr

LEMMA CloseEffect ==
  ASSUME TypeInv, NEW a \in Audits, CloseIssue(a)
  PROVE  LET n == run[a].found[1].n
         IN  /\ Acts(a) /\ Touches(n) /\ run[a].class = "clean"
             /\ Len(run[a].found) = 1
             /\ items'[n].marks = items[n].marks /\ items'[n].says = items[n].says
             /\ \/ run'[a].claim = "none"
                \/ run[a].claim # "disturbed" /\ run'[a].claim = "clean" /\ ~items'[n].open
<1> DEFINE n == run[a].found[1].n
           x == [items[n] EXCEPT !.open = FALSE]
           e == [items EXCEPT ![n] = x]
<1>1. run[a].class = "clean" /\ Call(a, e)
  BY DEF CloseIssue
<1> HIDE DEF e
<1>2. /\ Acts(a) /\ (items' = items \/ items' = e)
      /\ \/ run'[a].claim = "none"
         \/ run[a].claim # "disturbed" /\ run'[a].claim = run[a].class /\ items' = e
  BY <1>1, CallParts DEF Acts
<1>3. Len(run[a].found) = 1 /\ n \in Numbers
  <2>1. run[a].pc = "act" /\ run[a].found # <<>>
    BY <1>1, <1>2 DEF Acts, TypeInv, RunFits
  <2> QED
    BY <2>1, ActsOn
<1> HIDE DEF n
<1>4. /\ x \in Item /\ x.by = items[n].by /\ x.pr = items[n].pr
      /\ x.marks = items[n].marks /\ x.says = items[n].says /\ ~x.open
  BY <1>3, ItemParts DEF Item
<1> HIDE DEF x
<1>5. CASE items' = items
  <2>1. Touches(n) /\ items'[n] = items[n]
    BY <1>3, <1>5 DEF Touches, TypeInv
  <2>2. items' = e => items'[n] = x
    BY <1>3, <1>4, ChangeItem DEF e
  <2> QED
    BY <1>1, <1>2, <1>3, <1>4, <2>1, <2>2 DEF n
<1>6. CASE items' = e
  <2>1. items' \in Seq(Item) /\ Len(items') = Len(items) /\ items'[n] = x
        /\ \A m \in Numbers : m # n => items'[m] = items[m]
    BY <1>3, <1>4, <1>6, ChangeItem DEF e
  <2>2. Touches(n)
    BY <1>3, <1>4, <2>1 DEF Touches
  <2> QED
    BY <1>1, <1>2, <1>3, <1>4, <2>1, <2>2 DEF n
<1> QED
  BY <1>2, <1>5, <1>6

LEMMA UpdateEffect ==
  ASSUME TypeInv, NEW a \in Audits, UpdateIssue(a)
  PROVE  LET n == run[a].found[1].n
         IN  /\ Acts(a) /\ Touches(n) /\ run[a].class # "clean"
             /\ Len(run[a].found) = 1
             /\ \/ items'[n] = items[n]
                \/ items'[n].marks = {a} /\ items'[n].says = run[a].class
             /\ \/ run'[a].claim = "none"
                \/ /\ run[a].claim # "disturbed" /\ run'[a].claim = run[a].class
                   /\ items'[n].marks = {a} /\ items'[n].says = run[a].class
                   /\ run[a].found[1].open => items'[n].open = items[n].open
                   /\ ~run[a].found[1].open => items'[n].open
<1> DEFINE seen == run[a].found[1]
           n == seen.n
           x == Rewritten(a, seen)
           e == [items EXCEPT ![n] = x]
<1>1. run[a].class # "clean" /\ run[a].found # <<>> /\ Call(a, e)
  BY DEF UpdateIssue
<1> HIDE DEF e
<1>2. /\ Acts(a) /\ (items' = items \/ items' = e)
      /\ \/ run'[a].claim = "none"
         \/ run[a].claim # "disturbed" /\ run'[a].claim = run[a].class /\ items' = e
  BY <1>1, CallParts DEF Acts
<1>3. Len(run[a].found) = 1 /\ n \in Numbers /\ seen \in Seen
  BY <1>1, <1>2, ActsOn DEF Acts
<1>4. /\ x \in Item /\ x.by = items[n].by /\ x.pr = items[n].pr
      /\ x.marks = {a} /\ x.says = run[a].class
      /\ seen.open => x.open = items[n].open
      /\ ~seen.open => x.open
  BY <1>3, RewrittenParts
<1> HIDE DEF n, x, seen
<1>5. items' = e => /\ items' \in Seq(Item) /\ Len(items') = Len(items) /\ items'[n] = x
                    /\ \A m \in Numbers : m # n => items'[m] = items[m]
  BY <1>3, <1>4, ChangeItem DEF e
<1>6. CASE items' = items
  <2>1. Touches(n) /\ items'[n] = items[n]
    BY <1>3, <1>6 DEF Touches, TypeInv
  <2> QED
    BY <1>1, <1>2, <1>3, <1>4, <1>5, <2>1 DEF n, seen
<1>7. CASE items' = e
  <2>1. Touches(n) /\ items'[n] = x
    BY <1>3, <1>4, <1>5, <1>7 DEF Touches
  <2> QED
    BY <1>1, <1>2, <1>3, <1>4, <2>1 DEF n, seen
<1> QED
  BY <1>2, <1>6, <1>7

\* An item is added.
Adds(x) ==
    /\ x \in Item /\ items' \in Seq(Item) /\ Len(items') = Len(items) + 1
    /\ items'[Len(items) + 1] = x /\ \A m \in Numbers : items'[m] = items[m]

LEMMA CreateEffect ==
  ASSUME TypeInv, NEW a \in Audits, CreateIssue(a)
  PROVE  /\ Acts(a) /\ run[a].class # "clean" /\ run[a].found = <<>>
         /\ \/ items' = items /\ run'[a].claim = "none"
            \/ /\ Adds(Fresh(a))
               /\ \/ run'[a].claim = "none"
                  \/ run[a].claim # "disturbed" /\ run'[a].claim = run[a].class
<1>1. run[a].class # "clean" /\ run[a].found = <<>> /\ Call(a, Append(items, Fresh(a)))
  BY DEF CreateIssue, Fresh
<1>2. /\ Acts(a) /\ (items' = items \/ items' = Append(items, Fresh(a)))
      /\ \/ run'[a].claim = "none"
         \/ /\ run[a].claim # "disturbed" /\ run'[a].claim = run[a].class
            /\ items' = Append(items, Fresh(a))
  BY <1>1, CallParts DEF Acts
<1>3. items' = Append(items, Fresh(a)) => Adds(Fresh(a))
  BY FreshParts, AppendItem DEF Adds
<1>4. CASE items' = items /\ run'[a].claim = "none"
  BY <1>1, <1>2, <1>4
<1>5. CASE items' = Append(items, Fresh(a))
  BY <1>1, <1>2, <1>3, <1>5
<1> QED
  BY <1>2, <1>4, <1>5

LEMMA ActStep ==
  ASSUME Base, NEW a \in Audits, Act(a)
  PROVE  Base'
<1>2. Acts(a)
  BY CloseEffect, UpdateEffect, CreateEffect DEF Act, Base
<1>3. /\ run' \in [Audits -> Run] /\ run'[a].found = <<>>
      /\ \A b \in Audits : RunFits(b, run'[b]) /\ ReadFits(b, run'[b])
      /\ \A b \in Audits \ {a} : run'[b] = run[b]
      /\ UNCHANGED <<copy, backfill, pending>> /\ (Spend \/ UNCHANGED left)
  BY <1>2 DEF Acts, Rested, Base, TypeInv, ReadInv
<1>4. /\ Bots(items) /\ Len(items) \in Nat /\ pending \subseteq 1..Len(items)
      /\ run[a].class # "none" /\ items \in Seq(Item) /\ TypeInv
  BY <1>2, ItemParts DEF Base, TypeInv, TypeOK, Bots, Numbers, Acts, RunFits
<1>5. /\ items' \in Seq(Item) /\ Len(items') \in Nat /\ Len(items) <= Len(items')
      /\ Bots(items')
  <2>1. CASE CloseIssue(a)
    <3> DEFINE n == run[a].found[1].n
    <3>1. Touches(n) /\ items'[n].says = items[n].says
      BY <1>4, <2>1, CloseEffect
    <3> QED
      BY <1>4, <3>1 DEF Touches, Bots, Numbers
  <2>2. CASE UpdateIssue(a)
    <3> DEFINE n == run[a].found[1].n
    <3>1. Touches(n) /\ (items'[n] = items[n] \/ items'[n].says = run[a].class)
      BY <1>4, <2>2, UpdateEffect
    <3> QED
      BY <1>4, <3>1 DEF Touches, Bots, Numbers
  <2>3. CASE CreateIssue(a)
    <3>1. CASE items' = items
      BY <1>4, <3>1
    <3>2. CASE Adds(Fresh(a))
      <4>1. /\ Fresh(a).pr = FALSE /\ Fresh(a).says # "none"
        BY <1>4, FreshParts
      <4>2. \A m \in 1..Len(items') : m \in 1..Len(items) \/ m = Len(items) + 1
        BY <1>4, <3>2 DEF Adds
      <4> QED
        BY <1>4, <3>2, <4>1, <4>2 DEF Adds, Bots, Numbers
    <3> QED
      BY <1>4, <2>3, <3>1, <3>2, CreateEffect
  <2> QED
    BY <2>1, <2>2, <2>3 DEF Act
<1>6. FoundIn(Len(items))'
  BY <1>3, <1>4, <1>5, FoundNone
<1>7. pending' \subseteq 1..Len(items')
  BY <1>3, <1>4, <1>5
<1>8. TypeInv'
  BY <1>3, <1>4, <1>5, <1>6, <1>7, TrackerTypes
<1> QED
  BY <1>3, <1>8 DEF Base, ReadInv

\* A person's act voids the report of the audits concerned.
Disturbs(marks) ==
    /\ run' \in [Audits -> Run]
    /\ \A a \in Audits :
          /\ run'[a].pc = run[a].pc /\ run'[a].class = run[a].class
          /\ run'[a].live = run[a].live /\ run'[a].infra = run[a].infra
          /\ run'[a].page = run[a].page /\ run'[a].found = run[a].found
          /\ run'[a].read = run[a].read
          /\ a \in marks => run'[a].claim = "disturbed"
          /\ a \notin marks => run'[a].claim = run[a].claim

LEMMA DisturbParts ==
  ASSUME Base, NEW marks, Disturb(marks)
  PROVE  /\ Disturbs(marks)
         /\ \A a \in Audits : RunFits(a, run'[a]) /\ ReadFits(a, run'[a])
<1>1. ASSUME NEW a \in Audits
      PROVE  /\ run'[a] \in Run
             /\ run'[a].pc = run[a].pc /\ run'[a].class = run[a].class
             /\ run'[a].live = run[a].live /\ run'[a].infra = run[a].infra
             /\ run'[a].page = run[a].page /\ run'[a].found = run[a].found
             /\ run'[a].read = run[a].read
             /\ a \in marks => run'[a].claim = "disturbed"
             /\ a \notin marks => run'[a].claim = run[a].claim
  <2>1. run[a] \in Run
    BY DEF Base, TypeInv
  <2>2. CASE a \in marks
    <3>1. run'[a] = [run[a] EXCEPT !.claim = "disturbed"]
      BY <2>2 DEF Disturb
    <3> QED
      BY <2>1, <2>2, <3>1 DEF Run
  <2>3. CASE a \notin marks
    <3>1. run'[a] = run[a]
      BY <2>3 DEF Disturb
    <3> QED
      BY <2>1, <2>3, <3>1
  <2> QED
    BY <2>2, <2>3
<1>2. run' \in [Audits -> Run]
  <2>1. run' = [a \in Audits |-> run'[a]]
    BY DEF Disturb
  <2> QED
    BY <1>1, <2>1
<1>3. \A a \in Audits : RunFits(a, run[a]) /\ ReadFits(a, run[a])
  BY DEF Base, TypeInv, ReadInv
<1>4. \A a \in Audits : RunFits(a, run'[a]) /\ ReadFits(a, run'[a])
  BY <1>1, <1>3 DEF RunFits, ReadFits
<1> QED
  BY <1>1, <1>2, <1>4 DEF Disturbs

LEMMA DisturbFound ==
  ASSUME TypeInv, NEW marks, Disturbs(marks), Len(items') \in Nat, Len(items) <= Len(items')
  PROVE  FoundIn(Len(items))'
<1>1. FoundIn(Len(items)) /\ Len(items) \in Nat
  BY FoundParts, ItemParts
<1>2. 1..Len(items) \subseteq 1..Len(items')
  BY <1>1
<1> QED
  BY <1>1, <1>2 DEF FoundIn, Disturbs

LEMMA OpenStep ==
  ASSUME Base, NEW it \in Opened, OpenItem(it)
  PROVE  Adds(ByPerson(it)) /\ Disturbs(it.marks) /\ Base'
<1>1. /\ ByPerson(it) \in Item /\ ByPerson(it).by = "person"
  BY ByPersonParts DEF Written
<1>2. Adds(ByPerson(it))
  BY <1>1, AppendItem DEF OpenItem, Adds, Base
<1>3. /\ Disturbs(it.marks)
      /\ \A a \in Audits : RunFits(a, run'[a]) /\ ReadFits(a, run'[a])
  BY DisturbParts DEF OpenItem
<1>4. /\ Bots(items) /\ Len(items) \in Nat /\ pending \subseteq 1..Len(items) /\ TypeInv
  BY ItemParts DEF Base, TypeInv, TypeOK, Bots, Numbers
<1>5. /\ items' \in Seq(Item) /\ Len(items') \in Nat /\ Len(items) <= Len(items')
      /\ \A m \in 1..Len(items') : m \in 1..Len(items) \/ m = Len(items) + 1
      /\ Len(items) + 1 \in 1..Len(items') /\ 1..Len(items) \subseteq 1..Len(items')
  BY <1>2, <1>4 DEF Adds
<1>6. Bots(items')
  BY <1>1, <1>2, <1>4, <1>5 DEF Adds, Bots, Numbers
<1>7. FoundIn(Len(items))'
  BY <1>3, <1>4, <1>5, DisturbFound
<1>8. /\ pending' = pending \cup {Len(items) + 1} /\ UNCHANGED <<copy, backfill>> /\ Spend
  BY DEF OpenItem
<1>9. pending' \subseteq 1..Len(items')
  BY <1>4, <1>5, <1>8
<1>10. TypeInv'
  BY <1>3, <1>4, <1>5, <1>6, <1>7, <1>8, <1>9, TrackerTypes DEF Disturbs
<1> QED
  BY <1>2, <1>3, <1>10 DEF Base, ReadInv

LEMMA CloseOrReopenStep ==
  ASSUME Base, NEW n \in Numbers, CloseOrReopen(n)
  PROVE  /\ Touches(n) /\ Disturbs(items[n].marks) /\ Base'
         /\ items'[n].marks = items[n].marks /\ items'[n].says = items[n].says
<1> DEFINE x == [items[n] EXCEPT !.open = ~items[n].open]
<1>1. items' = [items EXCEPT ![n] = x]
  BY DEF CloseOrReopen
<1>2. /\ x \in Item /\ x.by = items[n].by /\ x.pr = items[n].pr
      /\ x.marks = items[n].marks /\ x.says = items[n].says
  <2>1. items[n] \in Item
    BY ItemParts DEF Base
  <2>2. (~items[n].open) \in BOOLEAN
    BY Zenon
  <2> QED
    BY <2>1, <2>2 DEF Item
<1> HIDE DEF x
<1>3. /\ items' \in Seq(Item) /\ Len(items') = Len(items) /\ items'[n] = x
      /\ \A m \in Numbers : m # n => items'[m] = items[m]
  BY <1>1, <1>2, ChangeItem DEF Base
<1>4. /\ Touches(n) /\ items'[n].marks = items[n].marks /\ items'[n].says = items[n].says
  BY <1>2, <1>3 DEF Touches
<1>5. /\ Disturbs(items[n].marks)
      /\ \A a \in Audits : RunFits(a, run'[a]) /\ ReadFits(a, run'[a])
  BY DisturbParts DEF CloseOrReopen
<1>6. /\ Bots(items) /\ Len(items) \in Nat /\ pending \subseteq 1..Len(items) /\ TypeInv
      /\ n \in 1..Len(items)
  BY ItemParts DEF Base, TypeInv, TypeOK, Bots, Numbers
<1>7. Bots(items')
  BY <1>4, <1>6 DEF Touches, Bots, Numbers
<1>8. FoundIn(Len(items))'
  BY <1>3, <1>5, <1>6, DisturbFound
<1>9. pending' \subseteq 1..Len(items') /\ UNCHANGED <<copy, backfill>> /\ Spend
  BY <1>3, <1>6 DEF CloseOrReopen
<1>10. TypeInv'
  BY <1>3, <1>5, <1>6, <1>7, <1>8, <1>9, TrackerTypes DEF Disturbs
<1> QED
  BY <1>4, <1>5, <1>10 DEF Base, ReadInv

\* Nobody touches what the audits look at.
Aside == Relabelled /\ run' = run

LEMMA AsideTypes ==
  ASSUME Base, Aside, backfill' \in Work,
         backfill'.pc \in {"apply", "last"} => backfill'.todo # <<>>,
         \A n \in DOMAIN copy' : copy'[n] \in Item,
         pending' \cup DOMAIN copy' \subseteq Numbers, Spend \/ UNCHANGED left
  PROVE  Base'
<1>1. TypeInv /\ Bots(items') /\ items' \in Seq(Item) /\ Len(items') = Len(items) /\ run' = run
  BY BotsKeep DEF Base, Aside, Relabelled
<1>2. /\ run' \in [Audits -> Run]
      /\ \A a \in Audits : RunFits(a, run'[a]) /\ ReadFits(a, run'[a])
  BY <1>1 DEF Base, TypeInv, ReadInv
<1>3. FoundIn(Len(items))'
  <2>1. FoundIn(Len(items))
    BY <1>1, FoundParts
  <2> QED
    BY <1>1, <2>1 DEF FoundIn
<1>4. left' \in 0..MaxEvents
  BY <1>1, LeftIn
<1>5. pending' \cup DOMAIN copy' \subseteq 1..Len(items')
  BY <1>1 DEF Numbers
<1>6. TypeInv'
  BY <1>1, <1>2, <1>3, <1>4, <1>5, TypeFrom
<1> QED
  BY <1>2, <1>6 DEF Base, ReadInv

LEMMA AsideParts ==
  ASSUME Base
  PROVE  /\ backfill \in Work /\ (backfill.pc \in {"apply", "last"} => backfill.todo # <<>>)
         /\ \A n \in DOMAIN copy : copy[n] \in Item
         /\ pending \cup DOMAIN copy \subseteq Numbers /\ TypeInv
         /\ Idle \in Work /\ Idle.pc = "idle"
<1>1. <<>> \in Seq([n : Nat, item : Item])
  BY EmptySeq
<1>2. Idle \in Work /\ Idle.pc = "idle"
  BY <1>1 DEF Idle, Work
<1> QED
  BY <1>2 DEF Base, TypeInv, TypeOK

LEMMA RetitleStep ==
  ASSUME Base, NEW n \in Numbers, NEW title \in Titles, Retitle(n, title)
  PROVE  Aside /\ Base'
<1> DEFINE x == [items[n] EXCEPT !.title = title]
<1>1. items' = [items EXCEPT ![n] = x] /\ run' = run /\ UNCHANGED <<copy, backfill>>
      /\ pending' = pending \cup {n} /\ Spend
  BY DEF Retitle
<1>2. /\ x \in Item /\ x.by = items[n].by /\ x.pr = items[n].pr
      /\ x.marks = items[n].marks /\ x.says = items[n].says /\ x.open = items[n].open
  BY ItemParts DEF Base, Item
<1> HIDE DEF x
<1>3. Aside
  BY <1>1, <1>2, ItemChanges DEF Aside, Base
<1> QED
  BY <1>1, <1>3, AsideParts, AsideTypes

LEMMA RelabelStep ==
  ASSUME Base, NEW n \in Numbers, NEW label \in HandLabels, Relabel(n, label)
  PROVE  Aside /\ Base'
<1> DEFINE l == IF label \in items[n].labels THEN items[n].labels \ {label}
                ELSE items[n].labels \cup {label}
           x == [items[n] EXCEPT !.labels = l]
<1>1. items' = [items EXCEPT ![n] = x] /\ run' = run /\ UNCHANGED <<pending, copy, backfill>>
      /\ Spend
  BY DEF Relabel
<1>2. l \in SUBSET Known
  <2>1. items[n].labels \in SUBSET Known /\ label \in Known
    BY ItemParts, PeopleAssumption DEF Base, Item
  <2> QED
    BY <2>1
<1> HIDE DEF l
<1>3. /\ x \in Item /\ x.by = items[n].by /\ x.pr = items[n].pr
      /\ x.marks = items[n].marks /\ x.says = items[n].says /\ x.open = items[n].open
  BY <1>2, ItemParts DEF Base, Item
<1> HIDE DEF x
<1>4. Aside
  BY <1>1, <1>3, ItemChanges DEF Aside, Base
<1> QED
  BY <1>1, <1>4, AsideParts, AsideTypes

LEMMA BreakStep ==
  ASSUME Base, NEW p, BreakOrRepair(p)
  PROVE  Aside /\ Base'
<1>1. UNCHANGED <<items, run, pending, copy, backfill>> /\ Spend
  BY DEF BreakOrRepair, TrackerUnchanged
<1>2. Aside
  BY <1>1, SameItems DEF Aside, Base
<1> QED
  BY <1>1, <1>2, AsideParts, AsideTypes

LEMMA ReadFreshStep ==
  ASSUME Base, NEW n, ReadFresh(n)
  PROVE  Aside /\ Base'
<1>1. /\ n \in pending /\ UNCHANGED <<items, run, backfill>> /\ pending' = pending \ {n}
      /\ Spend \/ UNCHANGED left
      /\ \/ copy' = [m \in DOMAIN copy \cup {n} |-> IF m = n THEN items[n] ELSE copy[m]]
         \/ copy' = copy
  BY DEF ReadFresh
<1>2. Aside
  BY <1>1, SameItems DEF Aside, Base
<1>3. n \in Numbers /\ items[n] \in Item
  BY <1>1, AsideParts, ItemParts
<1>4. /\ DOMAIN copy' \subseteq DOMAIN copy \cup {n}
      /\ \A m \in DOMAIN copy' : copy'[m] \in Item
  <2>1. \A m \in DOMAIN copy : copy[m] \in Item
    BY AsideParts
  <2> QED
    BY <1>1, <1>3, <2>1
<1>5. pending' \cup DOMAIN copy' \subseteq Numbers
  BY <1>1, <1>3, <1>4, AsideParts
<1> QED
  BY <1>1, <1>2, <1>4, <1>5, AsideParts, AsideTypes

LEMMA PutLabelsStep ==
  ASSUME Base, NEW n, PutLabels(n)
  PROVE  Aside /\ Base'
<1>1. /\ n \in DOMAIN copy /\ copy' = Without(n) /\ UNCHANGED <<run, pending, backfill>>
      /\ Spend \/ UNCHANGED left
      /\ items' = WithLabels(n, copy[n]) \/ items' = items
  BY DEF PutLabels
<1>2. copy[n] \in Item /\ n \in Nat /\ TypeInv
  BY <1>1, AsideParts, ItemParts
<1>3. Aside
  BY <1>1, <1>2, LabelsPut, SameItems DEF Aside
<1>4. DOMAIN copy' \subseteq DOMAIN copy /\ \A m \in DOMAIN copy' : copy'[m] \in Item
  BY <1>1, AsideParts DEF Without
<1>5. pending' \cup DOMAIN copy' \subseteq Numbers
  BY <1>1, <1>4, AsideParts
<1> QED
  BY <1>1, <1>3, <1>4, <1>5, AsideParts, AsideTypes

LEMMA StartBackfillStep ==
  ASSUME Base, StartBackfill
  PROVE  Aside /\ Base'
<1>1. UNCHANGED <<items, run, pending, copy>> /\ Spend
      /\ backfill' = [Idle EXCEPT !.pc = "list"]
  BY DEF StartBackfill
<1>2. Aside
  BY <1>1, SameItems DEF Aside, Base
<1>3. backfill' \in Work /\ backfill'.pc = "list"
  BY <1>1, AsideParts DEF Work
<1> QED
  BY <1>1, <1>2, <1>3, AsideParts, AsideTypes

LEMMA BackfillPageStep ==
  ASSUME Base, BackfillPage
  PROVE  Aside /\ Base'
<1> DEFINE P == Page(OpenItems, backfill.page)
           T == [k \in DOMAIN Newest(P) |->
                   [n |-> Newest(P)[k], item |-> items[Newest(P)[k]]]]
           pc == IF LastPage(OpenItems, backfill.page) THEN "last" ELSE "apply"
<1>1. /\ UNCHANGED <<items, run, pending, copy, left>>
      /\ \/ backfill' = Idle
         \/ P # {} /\ backfill' = [page |-> backfill.page + 1, pc |-> pc, todo |-> T]
  BY DEF BackfillPage
<1>2. Aside
  BY <1>1, SameItems DEF Aside, Base
<1>3. P \subseteq Numbers /\ P \in SUBSET Nat /\ IsFiniteSet(P)
  <2>1. Len(items) \in Nat
    BY ItemParts DEF Base
  <2>2. IsFiniteSet(Numbers) /\ Numbers \subseteq Nat
    BY <2>1, FS_Interval DEF Numbers
  <2>3. P \subseteq Numbers
    BY DEF Page, OpenItems
  <2> HIDE DEF P
  <2> QED
    BY <2>2, <2>3, FS_Subset
<1> HIDE DEF P
<1>4. /\ Cardinality(P) \in Nat /\ DOMAIN Newest(P) = 1..Cardinality(P)
      /\ \A k \in 1..Cardinality(P) : Newest(P)[k] \in P
      /\ \A n \in P : \E k \in 1..Cardinality(P) : Newest(P)[k] = n
  BY <1>3, NewestParts
<1>5. \A k \in 1..Cardinality(P) : Newest(P)[k] \in Nat /\ items[Newest(P)[k]] \in Item
  BY <1>3, <1>4, ItemParts DEF Base
<1>6. T \in Seq([n : Nat, item : Item])
  <2>1. T \in [1..Cardinality(P) -> [n : Nat, item : Item]]
    BY <1>4, <1>5
  <2> DEFINE c == Cardinality(P)
             W == [n : Nat, item : Item]
  <2>2. T \in [1..c -> W] /\ c \in Nat
    BY <1>4, <2>1
  <2> HIDE DEF T, c, W
  <2>3. T \in Seq(W)
    BY <2>2
  <2> QED
    BY <2>3 DEF W
<1>7. P # {} => T # <<>>
  <2>1. P # {} => DOMAIN T # {}
    BY <1>4
  <2> QED
    BY <2>1
<1> HIDE DEF T
<1>8. pc \in {"last", "apply"} /\ backfill.page + 1 \in Nat
  BY AsideParts DEF Work
<1> HIDE DEF pc
<1>9. backfill' \in Work /\ (backfill'.pc \in {"apply", "last"} => backfill'.todo # <<>>)
  <2>1. CASE backfill' = Idle
    BY <2>1, AsideParts
  <2>2. CASE P # {} /\ backfill' = [page |-> backfill.page + 1, pc |-> pc, todo |-> T]
    BY <1>6, <1>7, <1>8, <2>2 DEF Work
  <2> QED
    BY <1>1, <2>1, <2>2
<1> QED
  BY <1>1, <1>2, <1>9, AsideParts, AsideTypes

LEMMA BackfillItemStep ==
  ASSUME Base, BackfillItem
  PROVE  Aside /\ Base'
<1> DEFINE next == Head(backfill.todo)
           rest == Tail(backfill.todo)
           W == [n : Nat, item : Item]
<1>1. /\ UNCHANGED <<run, pending, copy>> /\ (Spend \/ UNCHANGED left)
      /\ items' = WithLabels(next.n, next.item) \/ items' = items
      /\ \/ backfill' = Idle
         \/ rest # <<>> /\ backfill' = [backfill EXCEPT !.todo = rest]
         \/ backfill' = [backfill EXCEPT !.todo = rest, !.pc = "list"]
      /\ backfill.pc \in {"apply", "last"}
  BY DEF BackfillItem
<1>2. backfill \in Work /\ backfill.todo # <<>> /\ TypeInv
  BY <1>1, AsideParts
<1>3. backfill.todo \in Seq(W)
  BY <1>2 DEF Work
<1>4. next \in W /\ rest \in Seq(W)
  BY <1>2, <1>3, HeadTailProperties
<1>5. next.n \in Nat /\ next.item \in Item
  BY <1>4
<1> HIDE DEF next, rest
<1>6. Aside
  BY <1>1, <1>2, <1>5, LabelsPut, SameItems DEF Aside
<1>7. backfill' \in Work /\ (backfill'.pc \in {"apply", "last"} => backfill'.todo # <<>>)
  <2>1. CASE backfill' = Idle
    BY <2>1, AsideParts
  <2>2. CASE rest # <<>> /\ backfill' = [backfill EXCEPT !.todo = rest]
    BY <1>2, <1>4, <2>2 DEF Work
  <2>3. CASE backfill' = [backfill EXCEPT !.todo = rest, !.pc = "list"]
    BY <1>2, <1>4, <2>3 DEF Work
  <2> QED
    BY <1>1, <2>1, <2>2, <2>3
<1> QED
  BY <1>1, <1>6, <1>7, AsideParts, AsideTypes

-----------------------------------------------------------------------------

LEMMA InitBase ==
  ASSUME Init
  PROVE  /\ Base
         /\ \A a \in Audits : run[a].pc = "idle" /\ run[a].claim = "none"
         /\ \A n \in Numbers : \E it \in Written : items[n] = ByPerson(it)
<1> DEFINE first == [n \in DOMAIN Backlog |-> ByPerson(Backlog[n])]
           len == Len(Backlog)
           r == With(NoRun, [claim |-> "none"])
<1>1. Backlog \in Seq(Written)
  BY PeopleAssumption DEF Written
<1>2. len \in Nat /\ DOMAIN Backlog = 1..len /\ \A n \in 1..len : Backlog[n] \in Written
  BY <1>1, LenProperties, ElementOfSeq
<1>3. /\ items \in Seq(Item) /\ Len(items) = len
      /\ \A n \in 1..len : items[n].by = "person"
  <2>1. \A n \in 1..len : ByPerson(Backlog[n]) \in Item /\ ByPerson(Backlog[n]).by = "person"
    BY <1>2, ByPersonParts
  <2>2. /\ items \in [1..len -> Item] /\ \A n \in 1..len : items[n].by = "person"
    BY <1>2, <2>1 DEF Init
  <2> HIDE DEF len
  <2>3. items \in Seq(Item) /\ Len(items) = len
    BY <1>2, <2>2
  <2> QED
    BY <2>2, <2>3
<1>4. /\ DOMAIN r = RunFields /\ r.claim = "none"
      /\ \A x \in RunFields \ {"claim"} : r[x] = NoRun[x]
  <2> DEFINE g == [claim |-> "none"]
             f == With(NoRun, g)
  <2>1. DOMAIN g = {"claim"} /\ g.claim = "none"
    OBVIOUS
  <2>2. r = f
    OBVIOUS
  <2> HIDE DEF g
  <2>3. /\ DOMAIN f = DOMAIN NoRun \cup DOMAIN g
        /\ \A x \in DOMAIN g : f[x] = g[x]
        /\ \A x \in DOMAIN NoRun \ DOMAIN g : f[x] = NoRun[x]
    BY WithParts
  <2> HIDE DEF f, r
  <2> QED
    BY <2>1, <2>2, <2>3, NoRunParts DEF RunFields
<1>5. r = [i \in RunFields |-> r[i]]
  <2>1. r = [i \in DOMAIN r |-> r[i]]
    BY DEF With
  <2> HIDE DEF r
  <2> QED
    BY <1>4, <2>1
<1> HIDE DEF r
<1>6. /\ r.pc = "idle" /\ r.class = "none" /\ r.live = TRUE /\ r.finding = FALSE
      /\ r.infra = FALSE /\ r.page = 0 /\ r.found = <<>> /\ r.read = {}
  BY <1>4, NoRunParts DEF RunFields
<1>7. r \in Run
  <2>1. /\ r.pc \in {"idle", "settings", "labels", "items", "find", "act"}
        /\ r.class \in Verdicts \cup {"none"} /\ r.page \in Nat
        /\ r.found \in Seq(Seen) /\ r.read \in SUBSET Readable
        /\ r.claim \in Verdicts \cup {"none", "disturbed"}
    BY <1>4, <1>6, EmptySeq
  <2>2. r.live \in BOOLEAN /\ r.finding \in BOOLEAN /\ r.infra \in BOOLEAN
    BY <1>6, Zenon
  <2> QED
    BY <1>5, <2>1, <2>2, RunByFields
<1>8. \A a \in Audits : RunFits(a, r) /\ ReadFits(a, r)
  BY <1>4, <1>6 DEF RunFits, ReadFits
<1>9. run = [a \in Audits |-> r]
  BY DEF Init, r
<1>10. left \in 0..MaxEvents
  <2>1. /\ problems \subseteq Breakable /\ left = MaxEvents - Cardinality(problems)
    BY DEF Init
  <2>2. /\ MaxEvents \in Nat /\ IsFiniteSet(Breakable) /\ Cardinality(Breakable) <= MaxEvents
    BY AuditConstants
  <2>3. /\ IsFiniteSet(problems) /\ Cardinality(problems) <= Cardinality(Breakable)
    BY <2>1, <2>2, FS_Subset
  <2>4. Cardinality(problems) \in Nat /\ Cardinality(Breakable) \in Nat
    BY <2>2, <2>3, FS_CardinalityType
  <2> QED
    BY <2>1, <2>2, <2>3, <2>4
<1>11. /\ pending = {} /\ copy = <<>> /\ backfill = Idle
  BY DEF Init, Idle
<1>12. /\ backfill \in Work /\ backfill.pc = "idle" /\ DOMAIN copy = {}
  <2>1. <<>> \in Seq([n : Nat, item : Item])
    BY EmptySeq
  <2> QED
    BY <1>11, <2>1 DEF Idle, Work
<1>13. \A a \in Audits : run[a] = r
  BY <1>9
<1>14. TypeOK
  <2>1. \A n \in Numbers : items[n] \in Item /\ items[n].by = "person"
    BY <1>3, ElementOfSeq DEF Numbers
  <2>2. \A n \in Numbers :
           /\ items[n].labels \subseteq Known /\ items[n].marks \subseteq Audits
           /\ items[n].open \in BOOLEAN
    BY <2>1 DEF Item
  <2>3. \A a \in Audits :
           /\ run[a].class \in Classes(a) \cup {"none"}
           /\ run[a].claim \in Classes(a) \cup {"none", "disturbed"}
           /\ run[a].pc \notin {"find", "act"}
           /\ DOMAIN run[a].found = {}
    BY <1>4, <1>6, <1>13
  <2> QED
    BY <1>10, <1>11, <1>12, <2>1, <2>2, <2>3 DEF TypeOK
<1>15. Base
  BY <1>3, <1>7, <1>8, <1>9, <1>12, <1>13, <1>14 DEF Base, TypeInv, ReadInv
<1>16. \A n \in Numbers : \E it \in Written : items[n] = ByPerson(it)
  BY <1>2, <1>3 DEF Init, Numbers
<1> QED
  BY <1>4, <1>6, <1>13, <1>15, <1>16

\* What a step is to the audits.
Stepped ==
    \/ \E a \in Audits : Detected(a)
    \/ \E a \in Audits :
          Rested(a) /\ run'[a].claim = run[a].claim /\ UNCHANGED items
    \/ \E a \in Audits : FindOwnedIssue(a)
    \/ \E a \in Audits : Act(a)
    \/ \E it \in Opened : Adds(ByPerson(it)) /\ Disturbs(it.marks)
    \/ \E n \in Numbers : /\ Touches(n) /\ Disturbs(items[n].marks)
                          /\ items'[n].marks = items[n].marks
                          /\ items'[n].says = items[n].says
    \/ Aside

LEMMA BaseStep ==
  ASSUME Base, [Next]_vars
  PROVE  Base' /\ Stepped
<1>1. ASSUME NEW a \in Audits, StartSynthetic(a) \/ RunStep(a)
      PROVE  Base' /\ Stepped
  <2>1. CASE \/ StartSynthetic(a)
             \/ a = "supply-chain" /\ Scan(a)
             \/ /\ a = "hardening-drift"
                /\ \/ CanonicalChecks(a)
                   \/ LiveReading(a, "settings", "labels")
                   \/ LiveReading(a, "labels", "items")
                   \/ LiveItems(a)
    BY <2>1, DetectStep DEF Stepped
  <2>2. CASE LoseRun(a)
    BY <2>2, LoseStep DEF Stepped
  <2>3. CASE FindOwnedIssue(a)
    BY <2>3, FindStep DEF Stepped
  <2>4. CASE Act(a)
    BY <2>4, ActStep DEF Stepped
  <2> QED
    BY <1>1, <2>1, <2>2, <2>3, <2>4 DEF RunStep
<1>2. ASSUME NEW n, LabelStep(n)
      PROVE  Base' /\ Stepped
  BY <1>2, ReadFreshStep, PutLabelsStep DEF LabelStep, Stepped
<1>3. CASE StartBackfill \/ BackfillStep
  BY <1>3, StartBackfillStep, BackfillPageStep, BackfillItemStep DEF BackfillStep, Stepped
<1>4. CASE People
  <2>1. ASSUME NEW it \in Opened, OpenItem(it)
        PROVE  Base' /\ Stepped
    BY <2>1, OpenStep DEF Stepped
  <2>2. ASSUME NEW n \in Numbers, NEW title \in Titles, Retitle(n, title)
        PROVE  Base' /\ Stepped
    BY <2>2, RetitleStep DEF Stepped
  <2>3. ASSUME NEW n \in Numbers, NEW label \in HandLabels, Relabel(n, label)
        PROVE  Base' /\ Stepped
    BY <2>3, RelabelStep DEF Stepped
  <2>4. ASSUME NEW n \in Numbers, CloseOrReopen(n)
        PROVE  Base' /\ Stepped
    BY <2>4, CloseOrReopenStep DEF Stepped
  <2>5. ASSUME NEW p \in Breakable, BreakOrRepair(p)
        PROVE  Base' /\ Stepped
    BY <2>5, BreakStep DEF Stepped
  <2> QED
    BY <1>4, <2>1, <2>2, <2>3, <2>4, <2>5 DEF People
<1>5. CASE UNCHANGED vars
  <2>1. UNCHANGED <<items, run, pending, copy, backfill, left>>
    BY <1>5 DEF vars
  <2>2. Aside
    BY <2>1, SameItems DEF Aside, Base
  <2> QED
    BY <2>1, <2>2, AsideParts, AsideTypes DEF Stepped
<1> QED
  BY <1>1, <1>2, <1>3, <1>4, <1>5 DEF Next

\* A run never leaves the values its job and its artifact have, and what it
\* listed, a queued label run and a copied item name items of the tracker.
THEOREM TypeCorrect == Spec => []TypeOK
<1>1. Init => Base
  BY InitBase
<1>2. Base /\ [Next]_vars => Base'
  BY BaseStep
<1>3. Base => TypeOK
  BY DEF Base, TypeInv
<1> QED
  BY <1>1, <1>2, <1>3, PTL DEF Spec

\* classify never represents an incomplete audit as complete: a live run that
\* is clean has read every control of its audit, whichever scan, reading or
\* page failed on the way and whatever it skipped.
THEOREM CleanReadsAll == Spec => []CleanMeansAllRead
<1>1. Init => Base
  BY InitBase
<1>2. Base /\ [Next]_vars => Base'
  BY BaseStep
<1>3. Base => CleanMeansAllRead
  BY DEF Base, ReadInv, ReadFits, CleanMeansAllRead
<1> QED
  BY <1>1, <1>2, <1>3, PTL DEF Spec

-----------------------------------------------------------------------------
(* Each audit creates one issue at most.                                   *)

\* No item leaves the tracker, and an issue an audit created stays its own.
Kept ==
    /\ Len(items) \in Nat /\ Len(items') \in Nat /\ Len(items) <= Len(items')
    /\ \A n \in Numbers :
          /\ items'[n].by = items[n].by /\ items'[n].pr = items[n].pr
          /\ items[n].by = "bot" => items'[n].marks = items[n].marks

\* A run stands where it stood, or it is over.
Stands(a) ==
    \/ /\ run'[a].pc = run[a].pc /\ run'[a].page = run[a].page
       /\ run'[a].found = run[a].found
    \/ run'[a].pc = "idle" /\ run'[a].found = <<>>

LEMMA NothingFound ==
  ASSUME NEW a, run[a].found = <<>>
  PROVE  1..Len(run[a].found) = {}
<1>1. Len(run[a].found) = 0
  BY EmptySeq
<1> QED
  BY <1>1

\* An item opened meanwhile pushes no item out of what is still to be listed.
LEMMA ListingKeeps ==
  ASSUME Base, Kept, NEW a \in Audits, NEW n \in Numbers, Listing(a, n),
         run'[a].pc = run[a].pc, run'[a].page = run[a].page, run'[a].found = run[a].found
  PROVE  Listing(a, n)'
<1> DEFINE q == run[a].page * PageSize
<1>1. run[a].page \in Nat /\ PageSize \in Nat /\ n \in Nat
  BY ItemParts, AuditConstants DEF Base, TypeInv, Run
<1>2. q \in Nat /\ run'[a].page * PageSize = q
  BY <1>1
<1> HIDE DEF q
<1>3. q <= Len(items) - n => q <= Len(items') - n
  BY <1>1, <1>2 DEF Kept
<1> QED
  BY <1>2, <1>3 DEF Listing, q

LEMMA ListsKeep ==
  ASSUME Base, Kept, NEW a \in Audits, Lists(a), Stands(a), Created(a)' \subseteq Created(a)
  PROVE  Lists(a)'
<1>1. CASE run'[a].pc = "idle" /\ run'[a].found = <<>>
  <2>1. Len(run'[a].found) = 0
    BY <1>1, EmptySeq
  <2>2. 1..Len(run'[a].found) = {}
    BY <2>1
  <2> QED
    BY <1>1, <2>2 DEF Lists
<1>2. CASE /\ run'[a].pc = run[a].pc /\ run'[a].page = run[a].page
           /\ run'[a].found = run[a].found
  <2>1. \A n \in Created(a) : n \in Numbers
    BY DEF Created
  <2>2. run'[a].pc \in {"find", "act"} => \A n \in Created(a)' : Listing(a, n)'
    BY <1>2, <2>1, ListingKeeps DEF Lists
  <2>3. \A k \in 1..Len(run[a].found) : run[a].found[k].n \in Numbers
    BY FoundParts DEF Base, FoundIn, Numbers
  <2>4. \A k \in 1..Len(run'[a].found) :
           items'[run'[a].found[k].n].by = "bot" => a \in items'[run'[a].found[k].n].marks
    BY <1>2, <2>3 DEF Lists, Kept
  <2> QED
    BY <2>2, <2>4 DEF Lists
<1> QED
  BY <1>1, <1>2 DEF Stands

\* Where no audit creates an issue.
LEMMA OwnKeeps ==
  ASSUME Base, OwnInv, Kept, \A n \in Numbers' : n \in Numbers \/ items'[n].by # "bot",
         \A a \in Audits : Stands(a)
  PROVE  OwnInv'
<1>1. BotsMarked'
  BY DEF OwnInv, BotsMarked, Kept
<1>2. \A a \in Audits : Created(a)' \subseteq Created(a)
  BY DEF Created, Kept
<1>3. \A a \in Audits : Lists(a)'
  BY <1>2, ListsKeep DEF OwnInv
<1> QED
  BY <1>1, <1>2, <1>3 DEF OwnInv

LEMMA SameKept ==
  ASSUME Base, items' = items
  PROVE  Kept /\ Numbers' = Numbers
  BY ItemParts DEF Base, Kept, Numbers

LEMMA TouchKept ==
  ASSUME Base, NEW n \in Numbers, Touches(n),
         items[n].by = "bot" => items'[n].marks = items[n].marks
  PROVE  Kept /\ Numbers' = Numbers
<1>1. Len(items) \in Nat /\ Len(items') = Len(items)
  BY ItemParts DEF Base, Touches
<1> QED
  BY <1>1 DEF Touches, Kept, Numbers

LEMMA AddKept ==
  ASSUME Base, NEW x, Adds(x)
  PROVE  /\ Kept /\ Len(items) + 1 \notin Numbers
         /\ Numbers' = Numbers \cup {Len(items) + 1}
<1>1. Len(items) \in Nat /\ Len(items') = Len(items) + 1
  BY ItemParts DEF Base, Adds
<1>2. 1..Len(items') = 1..Len(items) \cup {Len(items) + 1}
  BY <1>1
<1> QED
  BY <1>1, <1>2 DEF Adds, Kept, Numbers

\* The next page holds an issue of the audit that is not listed yet, or it is
\* not the last one and the issue is behind it.
LEMMA ListsOn ==
  ASSUME Base, NEW a \in Audits, run[a].pc = "find", NEW n \in Numbers, Carrying(a, n),
         Listing(a, n)
  PROVE  \/ \E k \in 1..Len(Longer(a)) : Longer(a)[k].n = n
         \/ /\ ~LastPage(Listed(a), run[a].page)
            /\ (run[a].page + 1) * PageSize <= Len(items) - n
<1> DEFINE p == run[a].page
           len == Len(items)
<1>1. p \in Nat /\ len \in Nat /\ n \in 1..len /\ Listed(a) = 1..len
  BY ItemParts DEF Base, TypeInv, Run, Numbers, Listed
<1>2. CASE \E k \in 1..Len(run[a].found) : run[a].found[k].n = n
  BY <1>2, LongerParts DEF Base
<1>3. CASE p * PageSize <= len - n
  <2>1. n \in Page(1..len, p) \/ (p + 1) * PageSize <= len - n
    BY <1>1, <1>3, PageParts
  <2>2. LastPage(1..len, p) => ~ ((p + 1) * PageSize <= len - n)
    BY <1>1, PageParts
  <2>3. CASE n \in Page(1..len, p)
    <3>1. n \in Matches(a)
      BY <1>1, <2>3 DEF Matches
    <3> QED
      BY <3>1, LongerParts DEF Base
  <2> QED
    BY <1>1, <2>1, <2>2, <2>3
<1> QED
  BY <1>2, <1>3 DEF Listing

LEMMA OwnDetect ==
  ASSUME Base, OwnInv, NEW a \in Audits, Detected(a)
  PROVE  OwnInv'
<1>1. Kept /\ Numbers' = Numbers /\ items' = items
  BY SameKept DEF Detected
<1>2. BotsMarked' /\ \A b \in Audits : Created(b)' = Created(b)
  BY <1>1 DEF OwnInv, BotsMarked, Created
<1>3. \A b \in Audits \ {a} : Lists(b)'
  <2>1. \A b \in Audits \ {a} : Stands(b) /\ Created(b)' \subseteq Created(b) /\ Lists(b)
    BY <1>2 DEF Detected, Stands, OwnInv
  <2> QED
    BY <1>1, <2>1, ListsKeep
<1>4. Lists(a)'
  <2>1. Len(run'[a].found) = 0
    BY EmptySeq DEF Detected
  <2>2. 1..Len(run'[a].found) = {}
    BY <2>1
  <2>3. ASSUME run'[a].pc = "find", NEW n \in Created(a)'
        PROVE  Listing(a, n)'
    <3>1. n \in 1..Len(items') /\ Len(items') \in Nat
      BY <1>1 DEF Created, Numbers, Kept
    <3>2. run'[a].page = 0 /\ PageSize \in Nat
      BY <2>3, AuditConstants DEF Detected
    <3>3. run'[a].page * PageSize <= Len(items') - n
      BY <3>1, <3>2
    <3> QED
      BY <2>3, <3>3 DEF Listing
  <2> QED
    BY <2>2, <2>3 DEF Lists, Detected
<1> QED
  BY <1>2, <1>3, <1>4 DEF OwnInv

LEMMA OwnFind ==
  ASSUME Base, OwnInv, NEW a \in Audits, FindOwnedIssue(a)
  PROVE  OwnInv'
<1>1. Kept /\ Numbers' = Numbers /\ items' = items /\ run[a].pc = "find"
  BY FindEffect, SameKept DEF Base
<1>2. BotsMarked' /\ \A b \in Audits : Created(b)' = Created(b)
  BY <1>1 DEF OwnInv, BotsMarked, Created
<1>3. CASE Rested(a)
  <2>1. \A b \in Audits : Stands(b)
    BY <1>3 DEF Rested, Stands
  <2> QED
    BY <1>1, <2>1, OwnKeeps
<1>4. CASE /\ Looks(a)
           /\ \/ run'[a].pc = "find" /\ run'[a].page = run[a].page + 1
              \/ run'[a].pc = "act" /\ LastPage(Listed(a), run[a].page)
  <2>1. \A b \in Audits \ {a} : Stands(b) /\ Created(b)' \subseteq Created(b) /\ Lists(b)
    BY <1>2, <1>4 DEF Looks, Stands, OwnInv
  <2>2. \A b \in Audits \ {a} : Lists(b)'
    BY <1>1, <2>1, ListsKeep
  <2>3. ASSUME NEW n \in Created(a)
        PROVE  Listing(a, n)'
    <3>1. n \in Numbers /\ Carrying(a, n) /\ Listing(a, n)
      BY <1>1 DEF OwnInv, BotsMarked, Created, Carrying, Lists
    <3>2. \/ \E k \in 1..Len(Longer(a)) : Longer(a)[k].n = n
          \/ /\ ~LastPage(Listed(a), run[a].page)
             /\ (run[a].page + 1) * PageSize <= Len(items) - n
      BY <1>1, <3>1, ListsOn
    <3> QED
      BY <1>1, <1>4, <3>2 DEF Listing, Looks
  <2>4. \A k \in 1..Len(Longer(a)) :
           items[Longer(a)[k].n].by = "bot" => a \in items[Longer(a)[k].n].marks
    <3>1. \A j \in 1..Len(run[a].found) :
             items[run[a].found[j].n].by = "bot" => a \in items[run[a].found[j].n].marks
      BY DEF OwnInv, Lists
    <3>2. \A k \in 1..Len(Longer(a)) :
             \/ \E j \in 1..Len(run[a].found) : Longer(a)[k] = run[a].found[j]
             \/ a \in items[Longer(a)[k].n].marks
      BY LongerParts DEF Base, Carrying
    <3> QED
      BY <3>1, <3>2
  <2>5. Lists(a)'
    BY <1>1, <1>2, <1>4, <2>3, <2>4 DEF Lists, Looks
  <2> QED
    BY <1>2, <2>2, <2>5 DEF OwnInv
<1> QED
  BY <1>3, <1>4, FindEffect DEF Base

LEMMA OwnAct ==
  ASSUME Base, OwnInv, NEW a \in Audits, Act(a)
  PROVE  OwnInv'
<1> DEFINE n == run[a].found[1].n
<1>0. TypeInv
  BY DEF Base
<1>1. CASE CloseIssue(a) \/ UpdateIssue(a)
  <2>1. Acts(a) /\ Touches(n) /\ Len(run[a].found) = 1
    BY <1>0, <1>1, CloseEffect, UpdateEffect
  <2>2. \/ items'[n].marks = items[n].marks
        \/ items'[n].marks = {a}
    BY <1>0, <1>1, CloseEffect, UpdateEffect
  <2>3. n \in Numbers
    BY <2>1 DEF Touches
  <2> HIDE DEF n
  <2>4. items[n].by = "bot" => items[n].marks = {a}
    <3>1. 1 \in 1..Len(run[a].found)
      BY <2>1
    <3>2. items[n].by = "bot" => a \in items[n].marks
      BY <3>1 DEF OwnInv, Lists, n
    <3> QED
      BY <2>3, <3>2 DEF OwnInv, BotsMarked
  <2>5. Kept /\ Numbers' = Numbers
    BY <2>1, <2>2, <2>3, <2>4, TouchKept
  <2>6. \A b \in Audits : Stands(b)
    BY <2>1 DEF Acts, Rested, Stands
  <2> QED
    BY <2>5, <2>6, OwnKeeps
<1>2. CASE CreateIssue(a)
  <2>1. /\ Acts(a) /\ run[a].found = <<>> /\ (items' = items \/ Adds(Fresh(a)))
    BY <1>0, <1>2, CreateEffect
  <2>2. \A b \in Audits : Stands(b)
    BY <2>1 DEF Acts, Rested, Stands
  <2>3. CASE items' = items
    BY <2>2, <2>3, SameKept, OwnKeeps
  <2>4. CASE Adds(Fresh(a))
    <3> DEFINE new == Len(items) + 1
    <3>1. Kept /\ new \notin Numbers /\ Numbers' = Numbers \cup {new}
      BY <2>4, AddKept
    <3>2. /\ items'[new] = Fresh(a) /\ Fresh(a).by = "bot" /\ Fresh(a).pr = FALSE
          /\ Fresh(a).marks = {a} /\ \A m \in Numbers : items'[m] = items[m]
      BY <1>0, <2>4, FreshParts DEF Adds
    <3> HIDE DEF new
    <3>3. Created(a) = {}
      <4>1. 1..Len(run[a].found) = {} /\ run[a].pc = "act"
        BY <2>1, NothingFound DEF Acts
      <4> QED
        BY <4>1 DEF OwnInv, Lists, Listing
    <3>4. Created(a)' = {new}
      BY <3>1, <3>2, <3>3 DEF Created
    <3>5. \A b \in Audits \ {a} : Created(b)' = Created(b)
      BY <3>1, <3>2 DEF Created
    <3>6. BotsMarked'
      BY <3>1, <3>2 DEF OwnInv, BotsMarked
    <3>7. \A b \in Audits \ {a} : Lists(b)'
      <4>1. \A b \in Audits \ {a} : Lists(b) /\ Created(b)' \subseteq Created(b)
        BY <3>5 DEF OwnInv
      <4> QED
        BY <2>2, <3>1, <4>1, ListsKeep
    <3>8. Lists(a)'
      <4>1. run'[a].pc = "idle" /\ Len(run'[a].found) = 0
        BY <2>1, EmptySeq DEF Acts, Rested
      <4>2. 1..Len(run'[a].found) = {}
        BY <4>1
      <4> QED
        BY <4>1, <4>2 DEF Lists
    <3> QED
      BY <3>4, <3>5, <3>6, <3>7, <3>8 DEF OwnInv
  <2> QED
    BY <2>1, <2>3, <2>4
<1> QED
  BY <1>1, <1>2 DEF Act

LEMMA OwnStep ==
  ASSUME Base, OwnInv, [Next]_vars
  PROVE  OwnInv'
<1>1. ASSUME NEW a \in Audits, Rested(a), UNCHANGED items
      PROVE  OwnInv'
  <2>1. \A b \in Audits : Stands(b)
    BY <1>1 DEF Rested, Stands
  <2> QED
    BY <1>1, <2>1, SameKept, OwnKeeps
<1>2. ASSUME NEW marks, Disturbs(marks)
      PROVE  \A b \in Audits : Stands(b)
  BY <1>2 DEF Disturbs, Stands
<1>3. ASSUME NEW it \in Opened, Adds(ByPerson(it)), Disturbs(it.marks)
      PROVE  OwnInv'
  <2>1. ByPerson(it).by = "person"
    BY ByPersonParts DEF Written
  <2>2. Kept /\ Numbers' = Numbers \cup {Len(items) + 1}
    BY <1>3, AddKept
  <2>3. \A n \in Numbers' : n \in Numbers \/ items'[n].by # "bot"
    BY <1>3, <2>1, <2>2 DEF Adds
  <2> QED
    BY <1>2, <1>3, <2>2, <2>3, OwnKeeps
<1>4. ASSUME NEW n \in Numbers, Touches(n), Disturbs(items[n].marks),
             items'[n].marks = items[n].marks
      PROVE  OwnInv'
  BY <1>2, <1>4, TouchKept, OwnKeeps
<1>5. CASE Aside
  <2>1. Len(items) \in Nat /\ Len(items') = Len(items)
    BY <1>5, ItemParts DEF Base, Aside, Relabelled
  <2>2. Kept /\ Numbers' = Numbers
    BY <1>5, <2>1 DEF Aside, Relabelled, Kept, Numbers
  <2>3. \A b \in Audits : Stands(b)
    BY <1>5 DEF Aside, Stands
  <2> QED
    BY <2>2, <2>3, OwnKeeps
<1> QED
  BY <1>1, <1>3, <1>4, <1>5, BaseStep, OwnDetect, OwnFind, OwnAct DEF Stepped

LEMMA InitOwn ==
  ASSUME Init
  PROVE  OwnInv
<1>1. Base /\ \A a \in Audits : run[a].pc = "idle"
  BY InitBase
<1>2. \A a \in Audits : 1..Len(run[a].found) = {}
  BY <1>1, NothingFound DEF Base, TypeInv, RunFits
<1>3. \A n \in Numbers : items[n].by # "bot"
  BY InitBase, ByPersonParts
<1> QED
  BY <1>1, <1>2, <1>3 DEF OwnInv, BotsMarked, Lists, Created

\* find_owned_issue and reconcile_owned_issue create no second issue: the runs
\* of one audit exclude each other, a listing of every state misses no issue
\* that items opened meanwhile push to a later page, a lost answer leaves an
\* issue that the next listing finds, and nothing an audit writes, closes or
\* reopens, nor anything a person does, takes its marker from it.
THEOREM CreatesOneIssue == Spec => []OneOwnedIssue
<1>1. Init => Base /\ OwnInv
  BY InitBase, InitOwn
<1>2. Base /\ OwnInv /\ [Next]_vars => Base' /\ OwnInv'
  BY BaseStep, OwnStep
<1>3. OwnInv => OneOwnedIssue
  BY DEF OwnInv, OneOwnedIssue, Owned, Carrying, Created
<1> QED
  BY <1>1, <1>2, <1>3, PTL DEF Spec

-----------------------------------------------------------------------------
(* A report describes the issue it left.                                   *)

\* A step does nothing to the issues of an audit.
Apart(a) ==
    /\ Owned(a)' = Owned(a)
    /\ \A n \in Owned(a) :
          items'[n].open = items[n].open /\ items'[n].says = items[n].says

LEMMA SameApart ==
  ASSUME items' = items, NEW a
  PROVE  Apart(a)
  BY DEF Apart, Owned, Carrying, Numbers

LEMMA AsideApart ==
  ASSUME Relabelled, NEW a
  PROVE  Apart(a)
  BY DEF Apart, Owned, Carrying, Numbers, Relabelled

LEMMA AddApart ==
  ASSUME Base, NEW x, Adds(x), NEW a, a \notin x.marks
  PROVE  Apart(a)
<1> DEFINE new == Len(items) + 1
<1>1. new \notin Numbers /\ Numbers' = Numbers \cup {new}
  BY AddKept
<1>2. items'[new] = x /\ \A m \in Numbers : items'[m] = items[m]
  BY DEF Adds
<1> HIDE DEF new
<1> QED
  BY <1>1, <1>2 DEF Apart, Owned, Carrying

LEMMA TouchApart ==
  ASSUME Base, NEW n \in Numbers, Touches(n), NEW a,
         a \notin items[n].marks, a \notin items'[n].marks
  PROVE  Apart(a)
<1>1. Numbers' = Numbers
  BY DEF Touches, Numbers
<1>2. \A m \in Numbers : m # n => items'[m] = items[m]
  BY DEF Touches
<1> QED
  BY <1>1, <1>2 DEF Apart, Owned, Carrying

LEMMA HeldOwned ==
  ASSUME Base, NEW a \in Audits, Holds(a)
  PROVE  \A k \in 1..Len(run[a].found) : run[a].found[k].n \in Owned(a)
<1>1. \A k \in 1..Len(run[a].found) : run[a].found[k].n \in Numbers
  BY FoundParts DEF Base, FoundIn, Numbers
<1> QED
  BY <1>1 DEF Holds, Owned

Held(a) == Knows(a) /\ Holds(a) /\ Described(a)

LEMMA DescribedKeeps ==
  ASSUME NEW a, Described(a), Apart(a), run'[a].claim = run[a].claim
  PROVE  Described(a)'
  BY DEF Described, Apart

LEMMA HeldKeeps ==
  ASSUME Base, Kept, NEW a \in Audits, Held(a), Apart(a),
         run'[a].pc = run[a].pc, run'[a].page = run[a].page,
         run'[a].found = run[a].found, run'[a].claim = run[a].claim
  PROVE  Held(a)'
<1>1. \A k \in 1..Len(run[a].found) : run[a].found[k].n \in Owned(a)
  BY HeldOwned DEF Held
<1>2. Holds(a)'
  BY <1>1 DEF Holds, Apart, Owned
<1>3. ASSUME run[a].pc \in {"find", "act"}, run[a].claim # "disturbed", NEW n \in Owned(a)
      PROVE  Listing(a, n)'
  <2>1. n \in Numbers /\ Listing(a, n)
    BY <1>3 DEF Held, Knows, Owned
  <2> QED
    BY <2>1, ListingKeeps
<1>4. run[a].claim # "disturbed" =>
         \A k \in 1..Len(run[a].found) :
            run[a].found[k].open = items'[run[a].found[k].n].open
  BY <1>1 DEF Held, Knows, Apart
<1>5. Knows(a)'
  BY <1>3, <1>4 DEF Knows, Apart
<1>6. Described(a)'
  BY DescribedKeeps DEF Held
<1> QED
  BY <1>2, <1>5, <1>6 DEF Held

LEMMA OverKnows ==
  ASSUME NEW a \in Audits, run'[a].pc \notin {"find", "act"}, run'[a].found = <<>>
  PROVE  Knows(a)' /\ Holds(a)'
<1>1. Len(run'[a].found) = 0
  BY EmptySeq
<1>2. 1..Len(run'[a].found) = {}
  BY <1>1
<1> QED
  BY <1>2 DEF Knows, Holds

LEMMA DisturbedHeld ==
  ASSUME Base, NEW a \in Audits, Held(a), run'[a].claim = "disturbed",
         run'[a].found = run[a].found, Owned(a) \subseteq Owned(a)'
  PROVE  Held(a)'
<1>1. \A k \in 1..Len(run[a].found) : run[a].found[k].n \in Owned(a)
  BY HeldOwned DEF Held
<1>2. Holds(a)'
  BY <1>1 DEF Holds, Owned
<1> QED
  BY <1>2, ClassParts DEF Held, Knows, Described

\* What a person does and audits alike: every audit is disturbed or left alone.
LEMMA DisturbHeld ==
  ASSUME Base, HoldInv, Kept, NEW marks, Disturbs(marks),
         \A a \in Audits : Owned(a) \subseteq Owned(a)',
         \A a \in Audits \ marks : Apart(a)
  PROVE  \A a \in Audits : Held(a)'
<1> SUFFICES ASSUME NEW a \in Audits PROVE Held(a)'
  OBVIOUS
<1>1. Held(a)
  BY DEF HoldInv, Held
<1>2. CASE a \in marks
  BY <1>1, <1>2, DisturbedHeld DEF Disturbs
<1>3. CASE a \notin marks
  BY <1>1, <1>3, HeldKeeps DEF Disturbs
<1> QED
  BY <1>2, <1>3

\* The runs of the other audits, when one of them moves.
LEMMA OthersHeld ==
  ASSUME Base, HoldInv, Kept, NEW a \in Audits, \A b \in Audits \ {a} : run'[b] = run[b],
         \A b \in Audits \ {a} : Apart(b)
  PROVE  \A b \in Audits \ {a} : Held(b)'
  BY HeldKeeps DEF HoldInv, Held

LEMMA HoldFrom ==
  ASSUME OneMarker', \A a \in Audits : Held(a)'
  PROVE  HoldInv'
  BY DEF HoldInv, Held

LEMMA HoldDetect ==
  ASSUME Base, HoldInv, NEW a \in Audits, Detected(a)
  PROVE  HoldInv'
<1>1. Kept /\ Numbers' = Numbers /\ items' = items
  BY SameKept DEF Detected
<1>2. OneMarker' /\ \A b \in Audits : Apart(b)
  BY <1>1, SameApart DEF HoldInv, OneMarker
<1>3. \A b \in Audits \ {a} : Held(b)'
  BY <1>1, <1>2, OthersHeld DEF Detected
<1>4. Held(a)'
  <2>1. CASE run'[a].pc # "find"
    <3>1. Described(a)'
      BY <1>2, <2>1, DescribedKeeps DEF Detected, HoldInv
    <3>2. run'[a].pc \notin {"find", "act"} /\ run'[a].found = <<>>
      BY <2>1 DEF Detected
    <3> QED
      BY <3>1, <3>2, OverKnows DEF Held
  <2>2. CASE run'[a].pc = "find"
    <3>1. run'[a].page = 0 /\ run'[a].claim = "none" /\ run'[a].found = <<>>
      BY <2>2 DEF Detected
    <3>2. Described(a)'
      BY <3>1, ClassParts DEF Described
    <3>3. Len(run'[a].found) = 0
      BY <3>1, EmptySeq
    <3>4. 1..Len(run'[a].found) = {}
      BY <3>3
    <3>5. ASSUME NEW n \in Owned(a)'
          PROVE  Listing(a, n)'
      <4>1. n \in 1..Len(items') /\ Len(items') \in Nat /\ PageSize \in Nat
        BY <1>1, AuditConstants DEF Owned, Numbers, Kept
      <4>2. run'[a].page * PageSize <= Len(items') - n
        BY <3>1, <4>1
      <4> QED
        BY <2>2, <4>2 DEF Listing
    <3> QED
      BY <3>2, <3>4, <3>5 DEF Held, Knows, Holds
  <2> QED
    BY <2>1, <2>2
<1> QED
  BY <1>2, <1>3, <1>4, HoldFrom

LEMMA HoldRest ==
  ASSUME Base, HoldInv, NEW a \in Audits, Rested(a), run'[a].claim = run[a].claim,
         UNCHANGED items
  PROVE  HoldInv'
<1>1. Kept /\ Numbers' = Numbers
  BY SameKept
<1>2. OneMarker' /\ \A b \in Audits : Apart(b)
  BY <1>1, SameApart DEF HoldInv, OneMarker
<1>3. \A b \in Audits \ {a} : Held(b)'
  BY <1>1, <1>2, OthersHeld DEF Rested
<1>4. Described(a)'
  BY <1>2, DescribedKeeps DEF HoldInv
<1>5. Knows(a)' /\ Holds(a)'
  BY OverKnows DEF Rested
<1> QED
  BY <1>2, <1>3, <1>4, <1>5, HoldFrom DEF Held

\* The entries of the list are the audit's issues, and as they are.
LEMMA LongerHeld ==
  ASSUME Base, HoldInv, NEW a \in Audits
  PROVE  /\ \A k \in 1..Len(Longer(a)) : Carrying(a, Longer(a)[k].n)
         /\ run[a].claim # "disturbed" =>
               \A k \in 1..Len(Longer(a)) :
                  Longer(a)[k].open = items[Longer(a)[k].n].open
<1>1. /\ \A j \in 1..Len(run[a].found) : Carrying(a, run[a].found[j].n)
      /\ run[a].claim # "disturbed" =>
            \A j \in 1..Len(run[a].found) :
               run[a].found[j].open = items[run[a].found[j].n].open
  BY DEF HoldInv, Knows, Holds
<1>2. \A k \in 1..Len(Longer(a)) :
         \/ \E j \in 1..Len(run[a].found) : Longer(a)[k] = run[a].found[j]
         \/ /\ Carrying(a, Longer(a)[k].n)
            /\ Longer(a)[k].open = items[Longer(a)[k].n].open
  BY LongerParts DEF Base
<1> QED
  BY <1>1, <1>2

LEMMA HoldFind ==
  ASSUME Base, HoldInv, NEW a \in Audits, FindOwnedIssue(a)
  PROVE  HoldInv'
<1>1. Kept /\ Numbers' = Numbers /\ items' = items /\ run[a].pc = "find"
  BY FindEffect, SameKept DEF Base
<1>2. OneMarker' /\ \A b \in Audits : Apart(b)
  BY <1>1, SameApart DEF HoldInv, OneMarker
<1>3. ASSUME run[a].claim # "disturbed", NEW n \in Owned(a)
      PROVE  \/ \E k \in 1..Len(Longer(a)) : Longer(a)[k].n = n
             \/ /\ ~LastPage(Listed(a), run[a].page)
                /\ (run[a].page + 1) * PageSize <= Len(items) - n
  <2>1. n \in Numbers /\ Carrying(a, n) /\ Listing(a, n)
    BY <1>1, <1>3 DEF HoldInv, Knows, Owned
  <2> QED
    BY <1>1, <2>1, ListsOn
<1>4. CASE Rested(a) /\ run'[a].claim = run[a].claim
  BY <1>1, <1>4, HoldRest
<1>5. CASE /\ Rested(a) /\ LastPage(Listed(a), run[a].page) /\ run[a].class = "clean"
           /\ \A k \in 1..Len(Longer(a)) : ~Longer(a)[k].open
           /\ run[a].claim = "disturbed" => run'[a].claim = "none"
           /\ run[a].claim # "disturbed" => run'[a].claim = run[a].class
  <2>1. \A b \in Audits \ {a} : Held(b)'
    BY <1>1, <1>2, <1>5, OthersHeld DEF Rested
  <2>2. Knows(a)' /\ Holds(a)'
    BY <1>5, OverKnows DEF Rested
  <2>3. CASE run[a].claim = "disturbed"
    <3>1. Described(a)'
      BY <1>5, <2>3, ClassParts DEF Described
    <3> QED
      BY <1>2, <2>1, <2>2, <3>1, HoldFrom DEF Held
  <2>4. CASE run[a].claim # "disturbed"
    <3>1. \A n \in Owned(a) : ~items[n].open
      BY <1>3, <1>5, <2>4, LongerHeld
    <3>2. Described(a)'
      BY <1>1, <1>2, <1>5, <2>4, <3>1 DEF Described, Apart
    <3> QED
      BY <1>2, <2>1, <2>2, <3>2, HoldFrom DEF Held
  <2> QED
    BY <2>3, <2>4
<1>6. CASE /\ Looks(a)
           /\ \/ run'[a].pc = "find" /\ run'[a].page = run[a].page + 1
              \/ run'[a].pc = "act" /\ LastPage(Listed(a), run[a].page)
  <2>1. \A b \in Audits \ {a} : Held(b)'
    BY <1>1, <1>2, <1>6, OthersHeld DEF Looks
  <2>2. run'[a].claim = run[a].claim /\ run'[a].found = Longer(a)
    BY <1>6 DEF Looks
  <2>3. Described(a)'
    BY <1>2, <2>2, DescribedKeeps DEF HoldInv
  <2>4. Holds(a)'
    BY <1>1, <2>2, LongerHeld DEF Holds, Carrying
  <2>5. ASSUME run[a].claim # "disturbed", NEW n \in Owned(a)
        PROVE  Listing(a, n)'
    BY <1>1, <1>3, <1>6, <2>2, <2>5 DEF Listing
  <2>6. Knows(a)'
    BY <1>1, <1>2, <2>2, <2>5, LongerHeld DEF Knows, Apart
  <2> QED
    BY <1>2, <2>1, <2>3, <2>4, <2>6, HoldFrom DEF Held
<1> QED
  BY <1>4, <1>5, <1>6, FindEffect DEF Base

\* The issue a run acts on is its audit's, and the only one it has.
LEMMA HoldsOne ==
  ASSUME Base, HoldInv, NEW a \in Audits, run[a].pc = "act", Len(run[a].found) = 1
  PROVE  LET n == run[a].found[1].n
         IN  /\ n \in Owned(a) /\ items[n].marks = {a}
             /\ run[a].claim # "disturbed" =>
                   Owned(a) = {n} /\ run[a].found[1].open = items[n].open
<1> DEFINE n == run[a].found[1].n
<1>1. 1 \in 1..Len(run[a].found) /\ \A k \in 1..Len(run[a].found) : k = 1
  <2>1. 1..1 = {1}
    OBVIOUS
  <2> QED
    BY <2>1
<1>2. n \in Owned(a)
  BY <1>1, HeldOwned DEF HoldInv
<1>3. items[n].marks = {a}
  BY <1>2 DEF HoldInv, OneMarker, Owned, Carrying
<1>4. ASSUME run[a].claim # "disturbed"
      PROVE  Owned(a) = {n} /\ run[a].found[1].open = items[n].open
  <2>1. /\ \A m \in Owned(a) : Listing(a, m)
        /\ run[a].found[1].open = items[n].open
    BY <1>1, <1>4 DEF HoldInv, Knows
  <2>2. \A m \in Owned(a) : m = n
    BY <1>1, <2>1 DEF Listing
  <2> QED
    BY <1>2, <2>1, <2>2
<1> QED
  BY <1>2, <1>3, <1>4

LEMMA HoldChange ==
  ASSUME Base, HoldInv, NEW a \in Audits, CloseIssue(a) \/ UpdateIssue(a)
  PROVE  HoldInv'
<1> DEFINE n == run[a].found[1].n
<1>0. TypeInv
  BY DEF Base
<1>1. /\ Acts(a) /\ Touches(n) /\ Len(run[a].found) = 1
      /\ items'[n].marks = items[n].marks \/ items'[n].marks = {a}
  BY <1>0, CloseEffect, UpdateEffect
<1>2. /\ n \in Owned(a) /\ items[n].marks = {a}
      /\ run[a].claim # "disturbed" =>
            Owned(a) = {n} /\ run[a].found[1].open = items[n].open
  BY <1>1, HoldsOne DEF Acts
<1>3. \/ CloseIssue(a) /\ run[a].class = "clean"
      \/ UpdateIssue(a) /\ run[a].class # "clean"
  BY <1>0, CloseEffect, UpdateEffect
<1>5. ASSUME run'[a].claim # "none", CloseIssue(a)
      PROVE  /\ run[a].claim # "disturbed" /\ run'[a].claim = "clean" /\ ~items'[n].open
  BY <1>0, <1>5, CloseEffect
<1>6. ASSUME run'[a].claim # "none", UpdateIssue(a)
      PROVE  /\ run[a].claim # "disturbed" /\ run'[a].claim = run[a].class
             /\ run[a].class # "clean" /\ items'[n].says = run[a].class
             /\ run[a].found[1].open => items'[n].open = items[n].open
             /\ ~run[a].found[1].open => items'[n].open
  BY <1>0, <1>6, UpdateEffect
<1> HIDE DEF n
<1>7. n \in Numbers /\ items'[n].marks = {a}
  BY <1>1, <1>2 DEF Owned
<1>8. Kept /\ Numbers' = Numbers
  BY <1>1, <1>2, <1>7, TouchKept
<1>9. OneMarker'
  BY <1>1, <1>7, <1>8 DEF HoldInv, OneMarker, Touches
<1>10. \A b \in Audits \ {a} : Held(b)'
  <2>1. \A b \in Audits \ {a} : Apart(b)
    BY <1>1, <1>2, <1>7, TouchApart
  <2> QED
    BY <1>1, <1>8, <2>1, OthersHeld DEF Acts, Rested
<1>11. Knows(a)' /\ Holds(a)'
  BY <1>1, OverKnows DEF Acts, Rested
<1>12. Owned(a)' = Owned(a)
  BY <1>1, <1>2, <1>7, <1>8 DEF Owned, Carrying, Touches
<1>13. Described(a)'
  <2>1. CASE run'[a].claim = "none"
    BY <2>1, ClassParts DEF Described
  <2>2. CASE run'[a].claim # "none" /\ CloseIssue(a)
    <3>1. run'[a].claim = "clean" /\ \A m \in Owned(a)' : ~items'[m].open
      BY <1>2, <1>5, <1>12, <2>2
    <3> QED
      BY <3>1 DEF Described
  <2>3. CASE run'[a].claim # "none" /\ UpdateIssue(a)
    <3>1. run'[a].claim # "clean" /\ items'[n].says = run'[a].claim /\ Owned(a)' = {n}
      BY <1>2, <1>6, <1>12, <2>3
    <3>2. items'[n].open
      BY <1>2, <1>6, <2>3
    <3> QED
      BY <3>1, <3>2 DEF Described
  <2> QED
    BY <1>3, <2>1, <2>2, <2>3
<1> QED
  BY <1>9, <1>10, <1>11, <1>13, HoldFrom DEF Held

LEMMA HoldCreate ==
  ASSUME Base, HoldInv, NEW a \in Audits, CreateIssue(a)
  PROVE  HoldInv'
<1>1. /\ Acts(a) /\ run[a].class # "clean" /\ run[a].found = <<>>
      /\ \/ items' = items /\ run'[a].claim = "none"
         \/ /\ Adds(Fresh(a))
            /\ \/ run'[a].claim = "none"
               \/ run[a].claim # "disturbed" /\ run'[a].claim = run[a].class
  BY CreateEffect DEF Base
<1>2. Knows(a)' /\ Holds(a)' /\ \A b \in Audits \ {a} : run'[b] = run[b]
  BY <1>1, OverKnows DEF Acts, Rested
<1>3. run'[a].claim = "none" => Described(a)'
  BY ClassParts DEF Described
<1>4. CASE items' = items /\ run'[a].claim = "none"
  <2>1. Kept /\ Numbers' = Numbers
    BY <1>4, SameKept
  <2>2. OneMarker' /\ \A b \in Audits : Apart(b)
    BY <1>4, <2>1, SameApart DEF HoldInv, OneMarker
  <2>3. \A b \in Audits \ {a} : Held(b)'
    BY <1>2, <2>1, <2>2, OthersHeld
  <2> QED
    BY <1>2, <1>3, <1>4, <2>2, <2>3, HoldFrom DEF Held
<1>5. CASE /\ Adds(Fresh(a))
           /\ \/ run'[a].claim = "none"
              \/ run[a].claim # "disturbed" /\ run'[a].claim = run[a].class
  <2> DEFINE new == Len(items) + 1
  <2>1. Kept /\ new \notin Numbers /\ Numbers' = Numbers \cup {new}
    BY <1>5, AddKept
  <2>2. /\ items'[new] = Fresh(a) /\ Fresh(a).pr = FALSE /\ Fresh(a).open = TRUE
        /\ Fresh(a).marks = {a} /\ Fresh(a).says = run[a].class
        /\ \A m \in Numbers : items'[m] = items[m]
    BY <1>5, FreshParts DEF Adds, Base
  <2> HIDE DEF new
  <2>3. OneMarker'
    BY <2>1, <2>2 DEF HoldInv, OneMarker
  <2>4. \A b \in Audits \ {a} : Held(b)'
    <3>1. \A b \in Audits \ {a} : Apart(b)
      BY <1>5, <2>2, AddApart
    <3> QED
      BY <1>2, <2>1, <3>1, OthersHeld
  <2>5. Described(a)'
    <3>1. CASE run[a].claim # "disturbed" /\ run'[a].claim = run[a].class
      <4>1. 1..Len(run[a].found) = {} /\ run[a].pc = "act"
        BY <1>1, NothingFound DEF Acts
      <4>2. Owned(a) = {}
        BY <3>1, <4>1 DEF HoldInv, Knows, Listing
      <4>3. Owned(a)' = {new}
        BY <2>1, <2>2, <4>2 DEF Owned, Carrying
      <4>4. items'[new].open /\ items'[new].says = run'[a].claim
        BY <2>2, <3>1
      <4> QED
        BY <1>1, <3>1, <4>3, <4>4 DEF Described
    <3> QED
      BY <1>3, <1>5, <3>1
  <2> QED
    BY <1>2, <2>3, <2>4, <2>5, HoldFrom DEF Held
<1> QED
  BY <1>1, <1>4, <1>5

\* Nobody writes an item that carries the markers of both audits.
OneMarkerWritten == \A it \in Written : \A a, b \in it.marks : a = b

LEMMA HoldStep ==
  ASSUME Base, HoldInv, OneMarkerWritten, [Next]_vars
  PROVE  HoldInv'
<1>1. ASSUME NEW it \in Opened, Adds(ByPerson(it)), Disturbs(it.marks)
      PROVE  HoldInv'
  <2> DEFINE x == ByPerson(it)
             new == Len(items) + 1
  <2>1. x.marks = it.marks /\ \A a, b \in it.marks : a = b
    BY ByPersonParts DEF Written, OneMarkerWritten
  <2>2. Kept /\ Numbers' = Numbers \cup {new}
    BY <1>1, AddKept
  <2>3. items'[new] = x /\ (\A m \in Numbers : items'[m] = items[m]) /\ Adds(x)
    BY <1>1 DEF Adds
  <2> HIDE DEF x, new
  <2>4. OneMarker'
    BY <2>1, <2>2, <2>3 DEF HoldInv, OneMarker
  <2>5. \A a \in Audits : Owned(a) \subseteq Owned(a)'
    BY <2>2, <2>3 DEF Owned, Carrying
  <2>6. \A a \in Audits \ it.marks : Apart(a)
    BY <2>1, <2>3, AddApart
  <2>7. \A a \in Audits : Held(a)'
    BY <1>1, <2>2, <2>5, <2>6, DisturbHeld
  <2> QED
    BY <2>4, <2>7, HoldFrom
<1>2. ASSUME NEW n \in Numbers, Touches(n), Disturbs(items[n].marks),
             items'[n].marks = items[n].marks
      PROVE  HoldInv'
  <2>1. Kept /\ Numbers' = Numbers
    BY <1>2, TouchKept
  <2>2. OneMarker'
    BY <1>2, <2>1 DEF HoldInv, OneMarker, Touches
  <2>3. \A a \in Audits : Owned(a) \subseteq Owned(a)'
    BY <1>2, <2>1 DEF Owned, Carrying, Touches
  <2>4. \A a \in Audits \ items[n].marks : Apart(a)
    BY <1>2, TouchApart
  <2>5. \A a \in Audits : Held(a)'
    BY <1>2, <2>1, <2>3, <2>4, DisturbHeld
  <2> QED
    BY <2>2, <2>5, HoldFrom
<1>3. CASE Aside
  <2>1. Len(items) \in Nat /\ Len(items') = Len(items)
    BY <1>3, ItemParts DEF Base, Aside, Relabelled
  <2>2. Kept /\ Numbers' = Numbers
    BY <1>3, <2>1 DEF Aside, Relabelled, Kept, Numbers
  <2>3. OneMarker' /\ \A a \in Audits : Apart(a)
    BY <1>3, <2>2, AsideApart DEF HoldInv, OneMarker, Aside, Relabelled
  <2>4. \A a \in Audits : Held(a)'
    BY <1>3, <2>2, <2>3, HeldKeeps DEF Aside, HoldInv, Held
  <2> QED
    BY <2>3, <2>4, HoldFrom
<1>4. ASSUME NEW a \in Audits, Act(a)
      PROVE  HoldInv'
  BY <1>4, HoldChange, HoldCreate DEF Act
<1> QED
  BY <1>1, <1>2, <1>3, <1>4, BaseStep, HoldDetect, HoldRest, HoldFind DEF Stepped

LEMMA InitHold ==
  ASSUME Init, OneMarkerWritten
  PROVE  HoldInv
<1>1. Base /\ \A a \in Audits : run[a].pc = "idle" /\ run[a].claim = "none"
  BY InitBase
<1>2. \A a \in Audits : 1..Len(run[a].found) = {}
  BY <1>1, NothingFound DEF Base, TypeInv, RunFits
<1>3. OneMarker
  <2>1. ASSUME NEW n \in Numbers
        PROVE  \A a, b \in items[n].marks : a = b
    <3>1. PICK it \in Written : items[n] = ByPerson(it)
      BY InitBase
    <3>2. items[n].marks = it.marks
      BY <3>1, ByPersonParts
    <3> QED
      BY <3>2 DEF OneMarkerWritten
  <2> QED
    BY <2>1 DEF OneMarker
<1>4. \A a \in Audits : Described(a)
  BY <1>1, ClassParts DEF Described
<1> QED
  BY <1>1, <1>2, <1>3, <1>4 DEF HoldInv, Knows, Holds

\* As long as no item quotes the markers of both audits, what reconcile_owned_issue
\* reports holds until a person touches the issue: after a clean run every
\* issue of the audit is closed, else its one issue is open and says what the
\* run found, whether it was created, rewritten, reopened or left from an
\* answer that was lost.  The one who quotes both markers lets one audit
\* rewrite the issue that the other has listed.
THEOREM ReportsDescribe ==
  ASSUME OneMarkerWritten
  PROVE  Spec => []ReportHolds
<1>1. Init => Base /\ HoldInv
  BY InitBase, InitHold
<1>2. Base /\ HoldInv /\ [Next]_vars => Base' /\ HoldInv'
  BY BaseStep, HoldStep
<1>3. HoldInv => ReportHolds
  BY DEF HoldInv, Described, ReportHolds
<1> QED
  BY <1>1, <1>2, <1>3, PTL DEF Spec
=============================================================================
