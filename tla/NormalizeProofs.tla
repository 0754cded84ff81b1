-------------------------- MODULE NormalizeProofs --------------------------
(***************************************************************************)
(* Provenance links what was published to what was built, for every log,   *)
(* every map and every listing.  While the loops run, the invariant        *)
(* Tracked ties the edges to the lines already read and the facts already  *)
(* resolved; sorting permutes the records, so the same is true of the      *)
(* observation handed out.                                                 *)
(***************************************************************************)
EXTENDS Normalize, FiniteSetTheorems, SequenceTheorems, WellFoundedInduction, TLAPS

-----------------------------------------------------------------------------
(* Lists                                                                   *)

IsSeq(q) == q \in Seq({q[k] : k \in DOMAIN q})

LEMMA SeqAppend ==
  ASSUME NEW q, IsSeq(q), NEW x
  PROVE  /\ IsSeq(Append(q, x))
         /\ Len(q) \in Nat /\ Len(Append(q, x)) = Len(q) + 1
         /\ DOMAIN q = 1 .. Len(q) /\ DOMAIN Append(q, x) = 1 .. (Len(q) + 1)
         /\ Append(q, x)[Len(q) + 1] = x
         /\ \A k \in 1 .. Len(q) : Append(q, x)[k] = q[k]
<1> DEFINE T == {q[k] : k \in DOMAIN q} \cup {x}
           r == Append(q, x)
<1>1. q \in Seq(T)
  BY SeqMonotonic DEF IsSeq
<1>2. x \in T /\ r \in Seq(T)
  BY <1>1
<1>3. /\ Len(q) \in Nat /\ Len(r) = Len(q) + 1
      /\ DOMAIN q = 1 .. Len(q) /\ DOMAIN r = 1 .. (Len(q) + 1)
      /\ r[Len(q) + 1] = x /\ \A k \in 1 .. Len(q) : r[k] = q[k]
  BY <1>1, <1>2
<1>4. IsSeq(r)
  <2> HIDE DEF r, T
  <2>1. DOMAIN r = 1 .. Len(r) /\ Len(r) \in Nat
    BY <1>2
  <2>2. r \in [1 .. Len(r) -> {r[k] : k \in DOMAIN r}]
    BY <1>2, <2>1
  <2> QED  BY <2>1, <2>2, SeqDef DEF IsSeq
<1> QED  BY <1>3, <1>4

(* Every set of numbers has a least one.                                   *)
LEMMA Least ==
  ASSUME NEW T \in SUBSET Nat, T # {}
  PROVE  \E x \in T : \A y \in T : x <= y
<1> DEFINE R == OpToRel(<, Nat)
<1>1. \A x, y \in Nat : y < x => <<y, x>> \in R
  BY Zenon DEF OpToRel
<1>2. IsWellFoundedOn(R, Nat)
  BY NatLessThanWellFounded, Zenon
<1> HIDE DEF R
<1>3. \E x \in T : \A y \in T : ~ (<<y, x>> \in R)
  BY <1>2, WFMin
<1>4. PICK x \in T : \A y \in T : ~ (<<y, x>> \in R)
  BY <1>3
<1>5. \A y \in T : x <= y
  <2> SUFFICES ASSUME NEW y \in T PROVE x <= y
    OBVIOUS
  <2>1. x \in Nat /\ y \in Nat /\ ~ (y < x)
    BY <1>1, <1>4, Zenon
  <2> QED  BY <2>1
<1> QED  BY <1>5

-----------------------------------------------------------------------------
(* Sorting                                                                 *)

Timed(q) == Listed(q) /\ \A i \in DOMAIN q : q[i].ts \in Nat /\ q[i].id \in Nat

Ahead(q, i) == {j \in DOMAIN q : Sooner(q[j], q[i]) \/ (~ Sooner(q[i], q[j]) /\ j < i)}

(* Of two places in a list one is ahead of the other, and what is ahead of *)
(* the one is then ahead of the other.                                     *)
LEMMA AheadOrders ==
  ASSUME NEW q, Timed(q), NEW i \in DOMAIN q, NEW j \in DOMAIN q, i # j
  PROVE  \/ i \in Ahead(q, j) /\ i \notin Ahead(q, i) /\ Ahead(q, i) \subseteq Ahead(q, j)
         \/ j \in Ahead(q, i) /\ j \notin Ahead(q, j) /\ Ahead(q, j) \subseteq Ahead(q, i)
<1>1. \A k \in DOMAIN q : k \in Nat /\ q[k].ts \in Nat /\ q[k].id \in Nat
  BY DEF Timed, Listed
<1>2. \A a, b \in DOMAIN q : a \in Ahead(q, b) <=>
        \/ q[a].ts < q[b].ts
        \/ q[a].ts = q[b].ts /\ (q[a].id < q[b].id \/ (q[a].id = q[b].id /\ a < b))
  BY <1>1 DEF Ahead, Sooner
<1>3. \A a \in DOMAIN q : Ahead(q, a) \subseteq DOMAIN q
  BY DEF Ahead
<1>4. i \in Ahead(q, j) \/ j \in Ahead(q, i)
  BY <1>1, <1>2
<1>5. \A a, b \in DOMAIN q : a \in Ahead(q, b) => a \notin Ahead(q, a) /\ Ahead(q, a) \subseteq Ahead(q, b)
  BY <1>1, <1>2, <1>3
<1> QED  BY <1>4, <1>5

(* So each place of the sorted list is taken by one place of the list.     *)
LEMMA SortedPermutes ==
  ASSUME NEW q, Timed(q)
  PROVE  \E p : /\ p \in [DOMAIN q -> DOMAIN q]
                /\ \A k, l \in DOMAIN q : p[k] = p[l] => k = l
                /\ \A i \in DOMAIN q : \E k \in DOMAIN q : p[k] = i
                /\ Sorted(q) = [k \in DOMAIN q |-> q[p[k]]]
<1> DEFINE n    == Len(q)
           D    == DOMAIN q
           R(i) == Cardinality(Ahead(q, i))
           f    == [i \in D |-> R(i)]
           T    == {R(i) : i \in D}
           p    == [k \in D |-> CHOOSE i \in D : R(i) = k - 1]
<1>1. n \in Nat /\ D = 1 .. n /\ IsFiniteSet(D) /\ Cardinality(D) = n
  <2>1. n \in Nat /\ D = 1 .. n
    BY DEF Timed, Listed
  <2>2. 1 \in Int /\ n \in Int
    BY <2>1
  <2>3. IsFiniteSet(1 .. n) /\ Cardinality(1 .. n) = IF 1 > n THEN 0 ELSE n - 1 + 1
    BY <2>2, FS_Interval
  <2>4. Cardinality(1 .. n) = n
    <3> HIDE DEF n
    <3> QED  BY <2>1, <2>3
  <2> QED  BY <2>1, <2>3, <2>4
<1>2. \A i \in D : IsFiniteSet(Ahead(q, i)) /\ R(i) \in Nat /\ R(i) <= n - 1
  <2> SUFFICES ASSUME NEW i \in D PROVE IsFiniteSet(Ahead(q, i)) /\ R(i) \in Nat /\ R(i) <= n - 1
    OBVIOUS
  <2>1. Ahead(q, i) \subseteq D \ {i}
    <3>1. ~ Sooner(q[i], q[i]) /\ ~ (i < i)
      BY <1>1 DEF Timed, Sooner
    <3> QED  BY <3>1 DEF Ahead
  <2>2. IsFiniteSet(D \ {i}) /\ Cardinality(D \ {i}) = n - 1
    BY <1>1, FS_RemoveElement
  <2> QED  BY <1>1, <2>1, <2>2, FS_Subset, FS_CardinalityType
<1>3. \A i, j \in D : R(i) = R(j) => i = j
  <2> SUFFICES ASSUME NEW i \in D, NEW j \in D, i # j, R(i) = R(j) PROVE FALSE
    OBVIOUS
  <2>1. CASE i \in Ahead(q, j) /\ i \notin Ahead(q, i) /\ Ahead(q, i) \subseteq Ahead(q, j)
    BY <1>2, <2>1, FS_Subset
  <2>2. CASE j \in Ahead(q, i) /\ j \notin Ahead(q, j) /\ Ahead(q, j) \subseteq Ahead(q, i)
    BY <1>2, <2>2, FS_Subset
  <2> QED  BY <2>1, <2>2, AheadOrders
<1>4. T = 0 .. (n - 1)
  <2>1. f \in Bijection(D, T)
    BY <1>3 DEF Bijection, Injection, Surjection, IsInjective
  <2>2. Cardinality(T) = n
    BY <1>1, <2>1, FS_Bijection DEF ExistsBijection
  <2>3. T \subseteq 0 .. (n - 1)
    BY <1>1, <1>2
  <2>4. IsFiniteSet(0 .. (n - 1)) /\ Cardinality(0 .. (n - 1)) = n
    <3>1. 0 \in Int /\ n - 1 \in Int
      BY <1>1
    <3>2. /\ IsFiniteSet(0 .. (n - 1))
          /\ Cardinality(0 .. (n - 1)) = IF 0 > n - 1 THEN 0 ELSE (n - 1) - 0 + 1
      BY <3>1, FS_Interval
    <3> HIDE DEF n
    <3> QED  BY <1>1, <3>2
  <2> HIDE DEF T
  <2> QED  BY <2>2, <2>3, <2>4, FS_Subset
<1>5. \A k \in D : p[k] \in D /\ R(p[k]) = k - 1
  <2> SUFFICES ASSUME NEW k \in D PROVE \E i \in D : R(i) = k - 1
    BY Zenon
  <2>1. k - 1 \in 0 .. (n - 1)
    BY <1>1
  <2> QED  BY <1>4, <2>1
<1>6. \A i \in D : \E k \in D : p[k] = i
  <2> SUFFICES ASSUME NEW i \in D PROVE \E k \in D : p[k] = i
    OBVIOUS
  <2>1. R(i) + 1 \in D /\ (R(i) + 1) - 1 = R(i)
    BY <1>1, <1>2
  <2> HIDE DEF p, R
  <2> QED  BY <1>3, <1>5, <2>1
<1>7. p \in [D -> D] /\ \A k, l \in D : p[k] = p[l] => k = l
  <2>1. p \in [D -> D]
    BY <1>5
  <2>2. \A k \in D : k \in Int
    BY <1>1
  <2> HIDE DEF p, R
  <2>3. \A k, l \in D : p[k] = p[l] => k - 1 = l - 1
    BY <1>5
  <2> QED  BY <2>1, <2>2, <2>3
<1>8. Sorted(q) = [k \in D |-> q[p[k]]]
  BY DEF Sorted, Ahead
<1> HIDE DEF p
<1> QED  BY <1>6, <1>7, <1>8

-----------------------------------------------------------------------------
(* The inductive invariant                                                 *)

Building(e, d) == e.kind = "artifact_create" /\ "digest" \in DOMAIN e.args /\ e.args.digest = d

(* Some record so far carries an effect of this id; and one that builds d. *)
Present(id) == \E i \in DOMAIN records : \E j \in DOMAIN records[i].effects : records[i].effects[j].id = id

Built(id, d) ==
  \E i \in DOMAIN records : \E j \in DOMAIN records[i].effects :
    records[i].effects[j].id = id /\ Building(records[i].effects[j], d)

(* Two records carry one id: the observation will be refused.              *)
Doubled ==
  \E i, k \in DOMAIN records : /\ i # k
    /\ \E j \in DOMAIN records[i].effects, l \in DOMAIN records[k].effects :
         records[i].effects[j].id = records[k].effects[l].id

Shape ==
  /\ raw \in Raws
  /\ phase \in {"jobs", "audit", "registry", "link", "valid", "refused"}
  /\ at \in Nat /\ at >= 1
  /\ IsSeq(records) /\ IsSeq(pending)
  /\ \A i \in DOMAIN records : /\ records[i].ts \in Nat /\ records[i].id \in Nat
                               /\ DOMAIN records[i].effects \subseteq Nat
  /\ phase \in {"audit", "registry"} => Bundled
  /\ phase = "link" => ~ Bundled
  /\ phase \in {"jobs", "audit"} => edges = {}
  /\ phase \notin {"valid", "refused"} => obs = [records |-> <<>>, edges |-> {}, planes |-> MapPlanes]

EdgesShown ==
  \A x \in edges : /\ Present(x.from)
                   /\ \E p \in Provenances : p[1] = x.from /\ Built(x.to, p[2])

EdgesOnce == Doubled \/ \A x, y \in edges : x.from = y.from => x = y

PendingShown ==
  \A q \in DOMAIN pending : /\ Present(pending[q].from)
                            /\ <<pending[q].from, pending[q].digest>> \in Provenances

PendingOnce == Doubled \/ \A q, s \in DOMAIN pending : pending[q].from = pending[s].from => q = s

(* What is resolved has its edge when there is a build, and no other has.  *)
Resolved ==
  phase = "link" =>
    /\ \A x \in edges : \E q \in DOMAIN pending :
         q < at /\ x \in LinkTo(pending[q].from, pending[q].digest)
    /\ \A q \in DOMAIN pending :
         q < at /\ Builds(pending[q].digest) # {} => \E x \in edges : x.from = pending[q].from

Vouched(event) == event.action \in DOMAIN RegistryActions /\ event.provenance # NoProvenance

Linked ==
  phase = "registry" =>
    \A i \in DOMAIN raw.events :
      i < at /\ Vouched(raw.events[i]) /\ Builds(raw.events[i].provenance) # {}
        => \E x \in edges : x.from = <<raw.events[i].id, 1>>

(* Record i is that of this job, and what a fact says of the job is pending. *)
Kept(i, job) ==
  /\ \A j \in DOMAIN records[i].effects : records[i].effects[j].id = <<job.id, j>>
  /\ \A f \in FactOf(job) :
       f.provenance # NoProvenance /\ 1 \in DOMAIN records[i].effects =>
         \E q \in DOMAIN pending : pending[q].from = <<job.id, 1>> /\ pending[q].digest = f.provenance

Claimed == ~ Bundled => \A i \in DOMAIN records : \E m \in DOMAIN raw.jobs : Kept(i, raw.jobs[m])

Tracked ==
  Shape /\ EdgesShown /\ EdgesOnce /\ PendingShown /\ PendingOnce /\ Resolved /\ Linked /\ Claimed

-----------------------------------------------------------------------------
(* What a line of the log becomes                                          *)

LEMMA Rendered ==
  ASSUME NEW rules, Listed(rules), NEW c, NEW id
  PROVE  LET E == RenderEffects(rules, c, id)
         IN  /\ DOMAIN E = DOMAIN rules /\ DOMAIN E \subseteq Nat
             /\ \A i \in DOMAIN E : E[i].id = <<id, i>> /\ E[i].kind = rules[i].kind
<1>1. DOMAIN rules \subseteq Nat
  BY DEF Listed
<1> QED  BY <1>1 DEF RenderEffects

LEMMA RulesAreDeclared ==
  ASSUME NEW job, NEW rule \in RuleOf(job)
  PROVE  Listed(rule.effects)
<1>1. \E k \in DOMAIN Jobs : rule = Jobs[k]
  <2>1. CASE Bundled
    BY <2>1 DEF RuleOf, Exactly
  <2>2. CASE ~ Bundled
    <3> DEFINE tries == <<job.name, Parts[job.name].tail, Parts[job.name].base>>
               exact == {i \in 1 .. 3 : tries[i] \in DOMAIN Jobs}
               alike == {i \in DOMAIN JobKeys : Slug[JobKeys[i]] \in {Slug[Parts[job.name].base], Slug[Parts[job.name].head]}}
    <3>1. rule \in IF exact # {} THEN {Jobs[tries[i]] : i \in Foremost(exact)}
                   ELSE {Jobs[JobKeys[i]] : i \in Foremost(alike)}
      BY <2>2 DEF RuleOf, ResolveRule
    <3>2. Foremost(exact) \subseteq exact /\ Foremost(alike) \subseteq alike
      BY DEF Foremost
    <3>3. \A i \in exact : tries[i] \in DOMAIN Jobs
      OBVIOUS
    <3>4. \A i \in alike : JobKeys[i] \in DOMAIN Jobs
      BY MapAssumption
    <3> HIDE DEF tries, exact, alike
    <3> QED  BY <3>1, <3>2, <3>3, <3>4
  <2> QED  BY <2>1, <2>2
<1> QED  BY <1>1, MapAssumption

(* A job has at most one fact: find() stops at the first.                  *)
LEMMA OneFact ==
  ASSUME raw \in Raws, NEW job, NEW f \in FactOf(job), NEW g \in FactOf(job)
  PROVE  f = g
<1> DEFINE S == {j \in DOMAIN raw.facts : raw.facts[j].step \in {job.name, Parts[job.name].tail}}
<1>1. S \subseteq Nat
  BY RawsAssumption DEF Listed
<1>2. PICK i \in S, k \in S : /\ f = raw.facts[i] /\ g = raw.facts[k]
                              /\ \A j \in S : i <= j /\ k <= j
  BY DEF FactOf, Foremost
<1>3. i <= k /\ k <= i /\ i \in Nat /\ k \in Nat
  BY <1>1, <1>2
<1>4. i = k
  BY <1>3
<1> QED  BY <1>2, <1>4

-----------------------------------------------------------------------------
(* Building and linking                                                    *)

LEMMA BuildsBuild ==
  ASSUME NEW d
  PROVE  /\ \A x \in Builds(d) : /\ x[1] \in DOMAIN records /\ x[2] \in DOMAIN records[x[1]].effects
                                 /\ Building(records[x[1]].effects[x[2]], d)
                                 /\ x = <<x[1], x[2]>>
         /\ Builds(d) # {} <=>
              \E i \in DOMAIN records : \E j \in DOMAIN records[i].effects : Building(records[i].effects[j], d)
<1>1. \A x : x \in Builds(d) <=>
        /\ \E i \in DOMAIN records : \E j \in DOMAIN records[i].effects : x = <<i, j>>
        /\ Building(records[x[1]].effects[x[2]], d)
  BY DEF Builds, Building
<1>2. \A i, j : <<i, j>>[1] = i /\ <<i, j>>[2] = j
  OBVIOUS
<1>3. \A x \in Builds(d) : /\ x[1] \in DOMAIN records /\ x[2] \in DOMAIN records[x[1]].effects
                           /\ Building(records[x[1]].effects[x[2]], d)
                           /\ x = <<x[1], x[2]>>
  BY <1>1, <1>2
<1>4. ASSUME NEW i \in DOMAIN records, NEW j \in DOMAIN records[i].effects,
             Building(records[i].effects[j], d)
      PROVE  Builds(d) # {}
  <2>1. <<i, j>> \in Builds(d)
    BY <1>1, <1>2, <1>4
  <2> QED  BY <2>1
<1> QED  BY <1>3, <1>4

(* There is a first build whenever there is one.                           *)
LEMMA FirstIsBuilt ==
  ASSUME Shape, NEW d, Builds(d) # {}
  PROVE  Built(FirstBuild(d), d)
<1> DEFINE B == Builds(d)
           I == {x[1] : x \in B}
           Before(x, y) == x[1] < y[1] \/ (x[1] = y[1] /\ x[2] <= y[2])
<1>1. \A x \in B : x[1] \in Nat /\ x[2] \in Nat
  <2>1. DOMAIN records \subseteq Nat
    BY DEF Shape, IsSeq
  <2> QED  BY <2>1, BuildsBuild DEF Shape
<1> HIDE DEF B
<1>2. I # {} /\ I \in SUBSET Nat
  BY <1>1 DEF B
<1>3. PICK i \in I : \A k \in I : i <= k
  BY <1>2, Least
<1> DEFINE J == {x[2] : x \in {y \in B : y[1] = i}}
<1>4. J # {} /\ J \in SUBSET Nat
  BY <1>1
<1>5. PICK j \in J : \A l \in J : j <= l
  BY <1>4, Least
<1>6. PICK x \in B : x[1] = i /\ x[2] = j
  OBVIOUS
<1>7. \A y \in B : Before(x, y)
  <2> SUFFICES ASSUME NEW y \in B PROVE Before(x, y)
    OBVIOUS
  <2>1. x[1] \in Nat /\ y[1] \in Nat /\ x[1] <= y[1]
    BY <1>1, <1>3, <1>6
  <2>2. x[1] = y[1] => x[2] <= y[2]
    BY <1>5, <1>6
  <2> QED  BY <2>1, <2>2
<1> DEFINE w == CHOOSE z \in B : \A y \in B : Before(z, y)
<1>8. w \in B
  <2> HIDE DEF Before
  <2> QED  BY <1>6, <1>7
<1>9. FirstBuild(d) = records[w[1]].effects[w[2]].id
  BY DEF FirstBuild, B
<1> HIDE DEF w
<1> QED  BY <1>8, <1>9, BuildsBuild DEF B, Built

LEMMA Linking ==
  ASSUME Shape, NEW from, NEW d
  PROVE  /\ \A x \in LinkTo(from, d) : x.from = from /\ Built(x.to, d)
         /\ \A x, y \in LinkTo(from, d) : x = y
         /\ Builds(d) # {} => \E x \in LinkTo(from, d) : x.from = from
<1>1. CASE Builds(d) = {}
  BY <1>1 DEF LinkTo
<1>2. CASE Builds(d) # {}
  <2> DEFINE x == [ty |-> "derives_from", from |-> from, to |-> FirstBuild(d)]
  <2>1. Built(FirstBuild(d), d)
    BY <1>2, FirstIsBuilt
  <2>2. LinkTo(from, d) = {x}
    BY <1>2 DEF LinkTo
  <2>3. x.from = from /\ x.to = FirstBuild(d)
    OBVIOUS
  <2> HIDE DEF x
  <2> QED  BY <2>1, <2>2, <2>3
<1> QED  BY <1>1, <1>2

(* A record more is a record more to link against.                         *)
LEMMA Grows ==
  ASSUME IsSeq(records), NEW r, records' = Append(records, r)
  PROVE  /\ IsSeq(records')
         /\ \A i \in DOMAIN records : i \in DOMAIN records' /\ records'[i] = records[i]
         /\ \E n \in DOMAIN records' : n \notin DOMAIN records /\ records'[n] = r
         /\ \A i \in DOMAIN records' : i \in DOMAIN records \/ records'[i] = r
         /\ \A id : Present(id) => Present(id)'
         /\ \A j \in DOMAIN r.effects : Present(r.effects[j].id)'
         /\ \A id, d : Built(id, d) => Built(id, d)'
         /\ Doubled => Doubled'
         /\ \A j \in DOMAIN r.effects : Present(r.effects[j].id) => Doubled'
         /\ \A d : Builds(d)' # {} => Builds(d) # {} \/ \E j \in DOMAIN r.effects : Building(r.effects[j], d)
<1> DEFINE n == Len(records) + 1
<1>1. /\ IsSeq(records') /\ n \in DOMAIN records' /\ n \notin DOMAIN records /\ records'[n] = r
      /\ \A i \in DOMAIN records : i \in DOMAIN records' /\ records'[i] = records[i]
      /\ \A i \in DOMAIN records' : i \in DOMAIN records \/ i = n
  BY SeqAppend
<1> HIDE DEF n
<1>2. \A id : Present(id) => Present(id)'
  BY <1>1 DEF Present
<1>3. \A j \in DOMAIN r.effects : Present(r.effects[j].id)'
  BY <1>1 DEF Present
<1>4. \A id, d : Built(id, d) => Built(id, d)'
  BY <1>1 DEF Built
<1>5. Doubled => Doubled'
  BY <1>1 DEF Doubled
<1>6. ASSUME NEW j \in DOMAIN r.effects, Present(r.effects[j].id)
      PROVE  Doubled'
  <2>1. PICK i \in DOMAIN records : \E k \in DOMAIN records[i].effects : records[i].effects[k].id = r.effects[j].id
    BY <1>6 DEF Present
  <2>2. i \in DOMAIN records' /\ i # n /\ records'[i] = records[i]
    BY <1>1
  <2> QED  BY <1>1, <2>1, <2>2 DEF Doubled
<1>7. ASSUME NEW d, Builds(d)' # {}
      PROVE  Builds(d) # {} \/ \E j \in DOMAIN r.effects : Building(r.effects[j], d)
  <2>1. PICK i \in DOMAIN records' : \E j \in DOMAIN records'[i].effects : Building(records'[i].effects[j], d)
    <3>1. (Builds(d) # {} => \E i \in DOMAIN records : \E j \in DOMAIN records[i].effects :
                               Building(records[i].effects[j], d))'
      BY BuildsBuild, PTL
    <3> QED  BY <1>7, <3>1
  <2> QED  BY <1>1, <2>1, BuildsBuild
<1> QED  BY <1>1, <1>2, <1>3, <1>4, <1>5, <1>6, <1>7

-----------------------------------------------------------------------------
(* The invariant holds, step by step                                       *)

LEMMA TrackedInit == Init => Tracked /\ LinksObserved
<1> SUFFICES ASSUME Init PROVE Tracked /\ LinksObserved
  OBVIOUS
<1>1. <<>> \in Seq({<<>>[k] : k \in DOMAIN <<>>}) /\ DOMAIN <<>> = {}
  OBVIOUS
<1>2. IsSeq(records) /\ IsSeq(pending) /\ DOMAIN records = {} /\ DOMAIN pending = {} /\ edges = {}
  BY <1>1 DEF Init, IsSeq
<1>3. Shape
  BY <1>2 DEF Init, Shape
<1>4. EdgesShown /\ EdgesOnce /\ PendingShown /\ PendingOnce /\ Resolved /\ Linked /\ Claimed /\ LinksObserved
  BY <1>2 DEF Init, EdgesShown, EdgesOnce, PendingShown, PendingOnce, Resolved, Linked, Claimed, LinksObserved
<1> QED  BY <1>3, <1>4 DEF Tracked

(* What no record, edge or pending link disturbs.                          *)
LEMMA Still ==
  ASSUME raw' = raw, records' = records
  PROVE  /\ Provenances' = Provenances /\ (Bundled' <=> Bundled)
         /\ \A job : FactOf(job)' = FactOf(job)
         /\ \A id : Present(id)' <=> Present(id)
         /\ \A id, d : Built(id, d)' <=> Built(id, d)
         /\ Doubled' <=> Doubled
         /\ \A d : Builds(d)' = Builds(d)
         /\ \A from, d : LinkTo(from, d)' = LinkTo(from, d)
<1>1. /\ Provenances' = Provenances /\ (Bundled' <=> Bundled)
      /\ \A job : FactOf(job)' = FactOf(job)
  BY DEF Provenances, Bundled, FactOf
<1>2. (Doubled' <=> Doubled) /\ (\A id : Present(id)' <=> Present(id)) /\ (\A id, d : Built(id, d)' <=> Built(id, d))
  BY DEF Doubled, Present, Built
<1>3. \A d : Builds(d)' = Builds(d)
  BY DEF Builds
<1>4. \A d : FirstBuild(d)' = FirstBuild(d)
  BY <1>3 DEF FirstBuild
<1>5. \A from, d : LinkTo(from, d)' = LinkTo(from, d)
  BY <1>3, <1>4 DEF LinkTo
<1> QED  BY <1>1, <1>2, <1>3, <1>5

LEMMA StillClaimed ==
  ASSUME raw' = raw, records' = records, pending' = pending
  PROVE  Claimed' <=> Claimed
<1>1. \A i, job : Kept(i, job)' <=> Kept(i, job)
  BY DEF Kept, FactOf
<1> QED  BY <1>1, Still DEF Claimed

LEMMA StillResolved ==
  ASSUME raw' = raw, records' = records, pending' = pending, NEW q
  PROVE  /\ LinkTo(pending[q].from, pending[q].digest)' = LinkTo(pending[q].from, pending[q].digest)
         /\ Builds(pending[q].digest)' = Builds(pending[q].digest)
<1>1. Builds(pending[q].digest)' = Builds(pending[q].digest)
  BY DEF Builds
<1>2. FirstBuild(pending[q].digest)' = FirstBuild(pending[q].digest)
  BY <1>1 DEF FirstBuild
<1> QED  BY <1>1, <1>2 DEF LinkTo

LEMMA SameLogs ==
  ASSUME raw' = raw
  PROVE  /\ Provenances' = Provenances /\ (Bundled' <=> Bundled)
         /\ \A job : FactOf(job)' = FactOf(job)
BY DEF Provenances, Bundled, FactOf

(* The line the loop is at.                                                *)
LEMMA Line ==
  ASSUME Shape, NEW list \in {raw.jobs, raw.audit, raw.events}, at <= Len(list)
  PROVE  /\ at \in DOMAIN list /\ list[at].ts \in Nat /\ list[at].id \in Nat
         /\ at + 1 \in Nat /\ at + 1 >= 1 /\ \A i \in DOMAIN list : i < at + 1 => i < at \/ i = at
<1>1. Listed(list) /\ \A i \in DOMAIN list : list[i].ts \in Nat /\ list[i].id \in Nat
  BY RawsAssumption DEF Shape
<1> QED  BY <1>1 DEF Shape, Listed

(* A record whose effects are named after a line of the log joins.         *)
LEMMA Joins ==
  ASSUME Shape, EdgesShown, EdgesOnce, PendingShown,
         NEW r, r.ts \in Nat, r.id \in Nat, DOMAIN r.effects \subseteq Nat,
         raw' = raw, records' = Append(records, r)
  PROVE  /\ \A i \in DOMAIN records' : /\ records'[i].ts \in Nat /\ records'[i].id \in Nat
                                       /\ DOMAIN records'[i].effects \subseteq Nat
         /\ edges' = edges => EdgesShown' /\ EdgesOnce'
         /\ pending' = pending => PendingShown'
<1>1. /\ IsSeq(records) /\ Provenances' = Provenances
      /\ \A i \in DOMAIN records : /\ records[i].ts \in Nat /\ records[i].id \in Nat
                                   /\ DOMAIN records[i].effects \subseteq Nat
  BY SameLogs DEF Shape
<1>2. /\ \A id : Present(id) => Present(id)'
      /\ \A id, d : Built(id, d) => Built(id, d)'
      /\ Doubled => Doubled'
      /\ \A i \in DOMAIN records : i \in DOMAIN records' /\ records'[i] = records[i]
      /\ \A i \in DOMAIN records' : i \in DOMAIN records \/ records'[i] = r
  BY <1>1, Grows
<1>3. \A i \in DOMAIN records' : /\ records'[i].ts \in Nat /\ records'[i].id \in Nat
                                 /\ DOMAIN records'[i].effects \subseteq Nat
  BY <1>1, <1>2
<1>4. ASSUME edges' = edges PROVE EdgesShown' /\ EdgesOnce'
  BY <1>1, <1>2, <1>4 DEF EdgesShown, EdgesOnce
<1>5. ASSUME pending' = pending PROVE PendingShown'
  BY <1>1, <1>2, <1>5 DEF PendingShown
<1> QED  BY <1>3, <1>4, <1>5

LEMMA TrackedSkip == Tracked /\ SkipJob => Tracked'
<1> SUFFICES ASSUME Tracked, SkipJob PROVE Tracked'
  OBVIOUS
<1>1. /\ raw' = raw /\ phase' = phase /\ phase = "jobs" /\ at' = at + 1 /\ at <= Len(raw.jobs)
      /\ records' = records /\ edges' = edges /\ pending' = pending /\ obs' = obs
  BY DEF SkipJob, Looking
<1>2. at' \in Nat /\ at' >= 1
  BY <1>1 DEF Tracked, Shape
<1>3. (Provenances' = Provenances) /\ (Bundled' <=> Bundled)
  BY <1>1, SameLogs
<1>4. Shape'
  BY <1>1, <1>2, <1>3 DEF Tracked, Shape
<1>5. EdgesShown' /\ EdgesOnce' /\ PendingShown' /\ PendingOnce'
  BY <1>1, Still DEF Tracked, EdgesShown, EdgesOnce, PendingShown, PendingOnce
<1>6. Resolved' /\ Linked'
  BY <1>1 DEF Resolved, Linked
<1>7. Claimed'
  BY <1>1, StillClaimed DEF Tracked
<1> QED  BY <1>4, <1>5, <1>6, <1>7 DEF Tracked

LEMMA TrackedEntry == Tracked /\ TakeEntry => Tracked'
<1> SUFFICES ASSUME Tracked, TakeEntry PROVE Tracked'
  OBVIOUS
<1> DEFINE entry == raw.audit[at]
           rule == AuditActions[entry.action]
           r == Event(entry.id, "audit", entry.principal, rule.step, entry.ts,
                      RenderEffects(rule.effects, entry.attributes, entry.id))
<1>1. /\ raw' = raw /\ phase' = phase /\ phase = "audit" /\ at' = at + 1 /\ at <= Len(raw.audit)
      /\ edges' = edges /\ pending' = pending /\ obs' = obs
      /\ Shape /\ EdgesShown /\ EdgesOnce /\ PendingShown /\ PendingOnce /\ Claimed
  BY DEF TakeEntry, Looking, Tracked
<1>2. at' \in Nat /\ at' >= 1 /\ entry.ts \in Nat /\ entry.id \in Nat
  BY <1>1, Line
<1>3. (Bundled' <=> Bundled) /\ Bundled
  BY <1>1, SameLogs DEF Shape
<1>4. Resolved' /\ Linked' /\ Claimed'
  BY <1>1, <1>3 DEF Resolved, Linked, Claimed
<1>5. CASE entry.action \notin DOMAIN AuditActions
  <2>1. records' = records
    BY <1>5 DEF TakeEntry
  <2>2. Shape'
    BY <1>1, <1>2, <1>3, <2>1 DEF Shape
  <2>3. EdgesShown' /\ EdgesOnce' /\ PendingShown' /\ PendingOnce'
    BY <1>1, <2>1, Still DEF EdgesShown, EdgesOnce, PendingShown, PendingOnce
  <2> QED  BY <1>4, <2>2, <2>3 DEF Tracked
<1>6. CASE entry.action \in DOMAIN AuditActions
  <2>1. records' = Append(records, r)
    BY <1>6 DEF TakeEntry
  <2>2. r.ts \in Nat /\ r.id \in Nat /\ DOMAIN r.effects \subseteq Nat
    <3>1. Listed(rule.effects)
      BY <1>6, MapAssumption
    <3>2. r.ts = entry.ts /\ r.id = entry.id /\ r.effects = RenderEffects(rule.effects, entry.attributes, entry.id)
      BY DEF Event
    <3> HIDE DEF r, entry, rule
    <3> QED  BY <1>2, <3>1, <3>2, Rendered
  <2> HIDE DEF r
  <2>3. IsSeq(records') /\ (Doubled => Doubled')
    BY <1>1, <2>1, Grows DEF Shape
  <2>4. /\ \A i \in DOMAIN records' : /\ records'[i].ts \in Nat /\ records'[i].id \in Nat
                                      /\ DOMAIN records'[i].effects \subseteq Nat
        /\ EdgesShown' /\ EdgesOnce' /\ PendingShown'
    BY <1>1, <2>1, <2>2, Joins
  <2>5. Shape'
    BY <1>1, <1>2, <1>3, <2>3, <2>4 DEF Shape
  <2>6. PendingOnce'
    BY <1>1, <2>3 DEF PendingOnce
  <2> QED  BY <1>4, <2>4, <2>5, <2>6 DEF Tracked
<1> QED  BY <1>5, <1>6

LEMMA TrackedNextList == Tracked /\ NextList => Tracked'
<1> SUFFICES ASSUME Tracked, NextList PROVE Tracked'
  OBVIOUS
<1>1. /\ raw' = raw /\ phase \in {"jobs", "audit"} /\ at' = 1
      /\ records' = records /\ edges' = edges /\ pending' = pending /\ obs' = obs
      /\ Shape /\ EdgesShown /\ EdgesOnce /\ PendingShown /\ PendingOnce /\ Claimed
  BY DEF NextList, Tracked
<1>2. \/ phase = "jobs" /\ Bundled /\ phase' = "audit"
      \/ phase = "jobs" /\ ~ Bundled /\ phase' = "link"
      \/ phase = "audit" /\ Bundled /\ phase' = "registry"
  BY <1>1 DEF NextList, Shape
<1>3. (Bundled' <=> Bundled) /\ edges = {}
  BY <1>1, SameLogs DEF Shape
<1>4. Shape'
  BY <1>1, <1>2, <1>3 DEF Shape
<1>5. EdgesShown' /\ EdgesOnce' /\ PendingShown' /\ PendingOnce'
  BY <1>1, Still DEF EdgesShown, EdgesOnce, PendingShown, PendingOnce
<1>6. Claimed'
  BY <1>1, StillClaimed
<1>7. Resolved'
  <2>1. \A q \in DOMAIN pending : ~ (q < 1)
    BY <1>1 DEF Shape, IsSeq
  <2> QED  BY <1>1, <1>3, <2>1 DEF Resolved
<1>8. Linked'
  <2>1. \A i \in DOMAIN raw.events : ~ (i < 1)
    BY <1>1, RawsAssumption DEF Shape, Listed
  <2> QED  BY <1>1, <2>1 DEF Linked
<1> QED  BY <1>4, <1>5, <1>6, <1>7, <1>8 DEF Tracked

LEMMA TrackedResolve == Tracked /\ Resolve => Tracked'
<1> SUFFICES ASSUME Tracked, Resolve PROVE Tracked'
  OBVIOUS
<1> DEFINE from == pending[at].from
           d == pending[at].digest
<1>1. /\ raw' = raw /\ phase' = phase /\ phase = "link" /\ at' = at + 1 /\ at <= Len(pending)
      /\ records' = records /\ pending' = pending /\ obs' = obs
      /\ edges' = edges \cup LinkTo(from, d)
      /\ Shape /\ EdgesShown /\ EdgesOnce /\ PendingShown /\ PendingOnce /\ Claimed /\ Resolved
  BY DEF Resolve, Looking, Tracked
<1>2. /\ at \in DOMAIN pending /\ at' \in Nat /\ at' >= 1
      /\ \A q \in DOMAIN pending : q < at' <=> q < at \/ q = at
  <2>1. DOMAIN pending = 1 .. Len(pending) /\ Len(pending) \in Nat
    BY <1>1 DEF Shape, IsSeq
  <2> QED  BY <1>1, <2>1 DEF Shape
<1>3. (Bundled' <=> Bundled) /\ ~ Bundled
  BY <1>1, SameLogs DEF Shape
<1> HIDE DEF from, d
<1>4. /\ \A x \in LinkTo(from, d) : x.from = from /\ Built(x.to, d)
      /\ \A x, y \in LinkTo(from, d) : x = y
      /\ Builds(d) # {} => \E x \in LinkTo(from, d) : x.from = from
  BY <1>1, Linking
<1>5. Shape'
  BY <1>1, <1>2, <1>3 DEF Shape
<1>6. PendingShown' /\ PendingOnce'
  BY <1>1, Still DEF PendingShown, PendingOnce
<1>7. Claimed'
  BY <1>1, StillClaimed
<1>8. Linked'
  BY <1>1 DEF Linked
<1>9. EdgesShown'
  <2>1. Present(from) /\ <<from, d>> \in Provenances
    BY <1>1, <1>2 DEF PendingShown, from, d
  <2>2. ASSUME NEW x \in LinkTo(from, d)
        PROVE  Present(x.from) /\ \E p \in Provenances : p[1] = x.from /\ Built(x.to, p[2])
    <3>1. <<from, d>>[1] = from /\ <<from, d>>[2] = d
      OBVIOUS
    <3> QED  BY <1>4, <2>1, <2>2, <3>1
  <2>3. \A x \in edges' : Present(x.from) /\ \E p \in Provenances : p[1] = x.from /\ Built(x.to, p[2])
    BY <1>1, <2>2 DEF EdgesShown
  <2> QED  BY <1>1, <2>3, Still DEF EdgesShown
<1>10. EdgesOnce'
  <2>1. CASE Doubled
    BY <1>1, <2>1, Still DEF EdgesOnce
  <2>2. CASE ~ Doubled
    <3>1. \A x \in edges : \E q \in DOMAIN pending :
            q < at /\ x \in LinkTo(pending[q].from, pending[q].digest)
      BY <1>1 DEF Resolved
    <3>2. ASSUME NEW x \in edges, x.from = from PROVE FALSE
      <4>1. PICK q \in DOMAIN pending : q < at /\ x \in LinkTo(pending[q].from, pending[q].digest)
        BY <3>1
      <4>2. x.from = pending[q].from
        BY <1>1, <4>1, Linking
      <4>3. q = at
        BY <1>1, <1>2, <2>2, <3>2, <4>2 DEF PendingOnce, from
      <4> QED  BY <1>1, <4>1, <4>3 DEF Shape
    <3>3. \A x, y \in edges : x.from = y.from => x = y
      BY <1>1, <2>2 DEF EdgesOnce
    <3> QED  BY <1>1, <1>4, <3>2, <3>3 DEF EdgesOnce
  <2> QED  BY <2>1, <2>2
<1>11. Resolved'
  <2>1. \A x \in edges' : \E q \in DOMAIN pending :
          q < at' /\ x \in LinkTo(pending[q].from, pending[q].digest)
    <3> SUFFICES ASSUME NEW x \in edges'
                 PROVE  \E q \in DOMAIN pending : q < at' /\ x \in LinkTo(pending[q].from, pending[q].digest)
      OBVIOUS
    <3>1. CASE x \in edges
      BY <1>1, <1>2, <3>1 DEF Resolved
    <3>2. CASE x \in LinkTo(from, d)
      BY <1>2, <3>2 DEF from, d
    <3> QED  BY <1>1, <3>1, <3>2
  <2>2. ASSUME NEW q \in DOMAIN pending, q < at', Builds(pending[q].digest) # {}
        PROVE  \E x \in edges' : x.from = pending[q].from
    <3>1. CASE q < at
      BY <1>1, <2>2, <3>1 DEF Resolved
    <3>2. CASE q = at
      BY <1>1, <1>4, <2>2, <3>2 DEF from, d
    <3> QED  BY <1>2, <2>2, <3>1, <3>2
  <2>3. \A q : /\ LinkTo(pending[q].from, pending[q].digest)' = LinkTo(pending[q].from, pending[q].digest)
              /\ Builds(pending[q].digest)' = Builds(pending[q].digest)
    BY <1>1, StillResolved
  <2> QED  BY <1>1, <2>1, <2>2, <2>3 DEF Resolved
<1> QED  BY <1>5, <1>6, <1>7, <1>8, <1>9, <1>10, <1>11 DEF Tracked

LEMMA TrackedJob == Tracked /\ RecordJob => Tracked'
<1> SUFFICES ASSUME Tracked, RecordJob PROVE Tracked'
  OBVIOUS
<1>0. PICK job : job = raw.jobs[at]
  OBVIOUS
<1>1. /\ raw' = raw /\ phase' = phase /\ phase = "jobs" /\ at' = at + 1 /\ at <= Len(raw.jobs)
      /\ edges' = edges /\ obs' = obs
      /\ Shape /\ EdgesShown /\ EdgesOnce /\ PendingShown /\ PendingOnce /\ Claimed
  BY DEF RecordJob, Looking, Tracked
<1>2. at' \in Nat /\ at' >= 1 /\ at \in DOMAIN raw.jobs /\ job.ts \in Nat /\ job.id \in Nat
  BY <1>0, <1>1, Line
<1>3. PICK rule \in RuleOf(job) :
        /\ records' = Append(records, JobRecord(job, rule))
        /\ \/ (Bundled \/ Claims(job, rule) = {}) /\ pending' = pending
           \/ ~ Bundled /\ \E f \in Claims(job, rule) :
                pending' = Append(pending, [from |-> <<job.id, 1>>, digest |-> f.provenance])
  BY <1>0 DEF RecordJob
<1>r. PICK r : r = JobRecord(job, rule)
  OBVIOUS
<1>4. /\ r.ts \in Nat /\ r.id \in Nat /\ DOMAIN r.effects \subseteq Nat
      /\ DOMAIN r.effects = DOMAIN rule.effects /\ \A j \in DOMAIN r.effects : r.effects[j].id = <<job.id, j>>
  <2>1. Listed(rule.effects)
    BY RulesAreDeclared
  <2>2. r.ts = job.ts /\ r.id = job.id /\ r.effects = RenderEffects(rule.effects, JobContext(job), job.id)
    BY <1>r DEF JobRecord, Event
  <2> QED  BY <1>2, <2>1, <2>2, Rendered
<1>5. (Bundled' <=> Bundled) /\ (Provenances' = Provenances) /\ \A j : FactOf(j)' = FactOf(j)
  BY <1>1, SameLogs
<1>6. Resolved' /\ Linked'
  BY <1>1 DEF Resolved, Linked
<1>7. /\ IsSeq(records')
      /\ \A i \in DOMAIN records : i \in DOMAIN records' /\ records'[i] = records[i]
      /\ \A i \in DOMAIN records' : i \in DOMAIN records \/ records'[i] = r
      /\ \A id : Present(id) => Present(id)'
      /\ \A j \in DOMAIN r.effects : Present(r.effects[j].id)'
      /\ Doubled => Doubled'
      /\ \A j \in DOMAIN r.effects : Present(r.effects[j].id) => Doubled'
  <2>1. IsSeq(records) /\ records' = Append(records, r)
    BY <1>1, <1>3, <1>r DEF Shape
  <2> QED  BY <2>1, Grows
<1>8. /\ \A i \in DOMAIN records' : /\ records'[i].ts \in Nat /\ records'[i].id \in Nat
                                    /\ DOMAIN records'[i].effects \subseteq Nat
      /\ EdgesShown' /\ EdgesOnce'
      /\ pending' = pending => PendingShown'
  BY <1>1, <1>3, <1>r, <1>4, Joins
<1>9. IsSeq(pending') => Shape'
  BY <1>1, <1>2, <1>5, <1>7, <1>8 DEF Shape
(* What the invariant says of the record that joined, once pending' is known. *)
<1>10. ASSUME /\ \A q \in DOMAIN pending : q \in DOMAIN pending' /\ pending'[q] = pending[q],
              ~ Bundled => \A f \in FactOf(job) :
                f.provenance # NoProvenance /\ 1 \in DOMAIN rule.effects =>
                  \E q \in DOMAIN pending' : pending'[q].from = <<job.id, 1>> /\ pending'[q].digest = f.provenance
       PROVE  Claimed'
  <2> SUFFICES ASSUME ~ Bundled, NEW i \in DOMAIN records'
               PROVE  \E m \in DOMAIN raw.jobs : \A k : k = raw.jobs[m] => Kept(i, k)'
    BY <1>1, <1>5 DEF Claimed
  <2>1. CASE i \in DOMAIN records
    <3>1. PICK m \in DOMAIN raw.jobs : Kept(i, raw.jobs[m])
      BY <1>1, <2>1 DEF Claimed
    <3>2. ASSUME NEW k, k = raw.jobs[m] PROVE Kept(i, k)'
      <4>1. Kept(i, k) /\ records'[i] = records[i] /\ FactOf(k)' = FactOf(k)
        BY <1>5, <1>7, <2>1, <3>1, <3>2
      <4>2. \A j \in DOMAIN records'[i].effects : records'[i].effects[j].id = <<k.id, j>>
        BY <4>1 DEF Kept
      <4>3. ASSUME NEW f \in FactOf(k), f.provenance # NoProvenance, 1 \in DOMAIN records'[i].effects
            PROVE  \E q \in DOMAIN pending' : pending'[q].from = <<k.id, 1>> /\ pending'[q].digest = f.provenance
        <5>1. PICK q \in DOMAIN pending : pending[q].from = <<k.id, 1>> /\ pending[q].digest = f.provenance
          BY <4>1, <4>3 DEF Kept
        <5> QED  BY <1>10, <5>1
      <4> QED  BY <4>1, <4>2, <4>3 DEF Kept
    <3> QED  BY <3>2
  <2>2. CASE records'[i] = r
    <3>1. Kept(i, job)'
      BY <1>1, <1>4, <1>5, <1>10, <2>2 DEF Kept
    <3> QED  BY <1>0, <1>1, <1>2, <3>1
  <2> QED  BY <1>7, <2>1, <2>2
<1>11. CASE (Bundled \/ Claims(job, rule) = {}) /\ pending' = pending
  <2>1. Shape' /\ PendingShown'
    BY <1>1, <1>8, <1>9, <1>11 DEF Shape
  <2>2. PendingOnce'
    BY <1>1, <1>7, <1>11 DEF PendingOnce
  <2>3. Claimed'
    BY <1>10, <1>11 DEF Claims
  <2> QED  BY <1>6, <1>8, <2>1, <2>2, <2>3 DEF Tracked
<1>12. ASSUME ~ Bundled, NEW f \in Claims(job, rule),
              pending' = Append(pending, [from |-> <<job.id, 1>>, digest |-> f.provenance])
       PROVE  Tracked'
  <2>0. PICK p, n : p = [from |-> <<job.id, 1>>, digest |-> f.provenance] /\ n = Len(pending) + 1
    OBVIOUS
  <2>1. f \in FactOf(job) /\ f.provenance # NoProvenance /\ 1 \in DOMAIN rule.effects
    BY DEF Claims
  <2>2. /\ IsSeq(pending') /\ n \in DOMAIN pending' /\ pending'[n] = p
        /\ \A q \in DOMAIN pending : q \in DOMAIN pending' /\ pending'[q] = pending[q]
        /\ \A q \in DOMAIN pending' : q \in DOMAIN pending \/ q = n
    BY <1>1, <1>12, <2>0, SeqAppend DEF Shape
  <2>3. p.from = <<job.id, 1>> /\ p.digest = f.provenance
    BY <2>0
  <2>4. Present(p.from)' /\ (Present(p.from) => Doubled')
    BY <1>4, <1>7, <2>1, <2>3
  <2>5. <<p.from, p.digest>> \in Provenances
    BY <1>0, <1>2, <1>12, <2>1, <2>3 DEF Provenances
  <2>6. PendingShown'
    <3> SUFFICES ASSUME NEW q \in DOMAIN pending'
                 PROVE  Present(pending[q].from)' /\ <<pending'[q].from, pending'[q].digest>> \in Provenances
      BY <1>5 DEF PendingShown
    <3>1. CASE q \in DOMAIN pending
      <4>1. pending'[q] = pending[q] /\ Present(pending[q].from) /\ <<pending[q].from, pending[q].digest>> \in Provenances
        BY <1>1, <2>2, <3>1 DEF PendingShown
      <4> QED  BY <1>7, <4>1
    <3>2. CASE q = n
      BY <2>2, <2>4, <2>5, <3>2
    <3> QED  BY <2>2, <3>1, <3>2
  <2>7. PendingOnce'
    <3> SUFFICES ASSUME ~ Doubled', NEW q \in DOMAIN pending', NEW s \in DOMAIN pending',
                        pending'[q].from = pending'[s].from
                 PROVE  q = s
      BY DEF PendingOnce
    <3>1. \A k \in DOMAIN pending : pending[k].from # p.from
      BY <1>1, <2>4 DEF PendingShown
    <3>2. \A k, l \in DOMAIN pending : pending[k].from = pending[l].from => k = l
      BY <1>1, <1>7 DEF PendingOnce
    <3> QED  BY <2>2, <3>1, <3>2
  <2>8. Claimed'
    <3>1. \A g \in FactOf(job) : g = f
      BY <1>1, <2>1, OneFact DEF Shape
    <3>2. \A g \in FactOf(job) : pending'[n].from = <<job.id, 1>> /\ pending'[n].digest = g.provenance
      BY <2>2, <2>3, <3>1
    <3> QED  BY <1>10, <2>2, <3>2
  <2> QED  BY <1>6, <1>8, <1>9, <2>2, <2>6, <2>7, <2>8 DEF Tracked
<1> QED  BY <1>3, <1>11, <1>12

(* A registry entry builds nothing, so it changes nothing for the links    *)
(* drawn before it.                                                        *)
LEMMA TrackedEvent ==
  ASSUME \A a \in DOMAIN RegistryActions : RegistryActions[a].kind # "artifact_create"
  PROVE  Tracked /\ TakeEvent => Tracked'
<1> SUFFICES ASSUME Tracked, TakeEvent PROVE Tracked'
  OBVIOUS
<1>0. PICK event, d, from : event = raw.events[at] /\ d = event.provenance /\ from = <<event.id, 1>>
  OBVIOUS
<1>1. /\ raw' = raw /\ phase' = phase /\ phase = "registry" /\ at' = at + 1 /\ at <= Len(raw.events)
      /\ pending' = pending /\ obs' = obs
      /\ Shape /\ EdgesShown /\ EdgesOnce /\ PendingShown /\ PendingOnce /\ Linked
  BY DEF TakeEvent, Looking, Tracked
<1>2. /\ at' \in Nat /\ at' >= 1 /\ at \in DOMAIN raw.events /\ event.ts \in Nat /\ event.id \in Nat
      /\ \A i \in DOMAIN raw.events : i < at + 1 => i < at \/ i = at
  BY <1>0, <1>1, Line
<1>3. (Bundled' <=> Bundled) /\ Bundled /\ (Provenances' = Provenances)
  BY <1>1, SameLogs DEF Shape
<1>4. Resolved' /\ Claimed'
  BY <1>1, <1>3 DEF Resolved, Claimed
<1>5. CASE event.action \notin DOMAIN RegistryActions
  <2>1. records' = records /\ edges' = edges
    BY <1>0, <1>5 DEF TakeEvent
  <2>2. Shape'
    BY <1>1, <1>2, <1>3, <2>1 DEF Shape
  <2>3. EdgesShown' /\ EdgesOnce' /\ PendingShown' /\ PendingOnce'
    BY <1>1, <2>1, Still DEF EdgesShown, EdgesOnce, PendingShown, PendingOnce
  <2>4. Linked'
    <3> SUFFICES ASSUME NEW i \in DOMAIN raw.events, i < at + 1, Vouched(raw.events[i]),
                        (Builds(raw.events[i].provenance) # {})'
                 PROVE  \E x \in edges : x.from = <<raw.events[i].id, 1>>
      BY <1>1, <2>1 DEF Linked
    <3>1. i # at
      BY <1>0, <1>5 DEF Vouched
    <3>2. PICK e : e = raw.events[i].provenance
      OBVIOUS
    <3>3. Builds(e)' = Builds(e) /\ Builds(e)' # {}
      BY <1>1, <2>1, <3>2, Still
    <3> QED  BY <1>1, <1>2, <3>1, <3>2, <3>3 DEF Linked
  <2> QED  BY <1>4, <2>2, <2>3, <2>4 DEF Tracked
<1>6. CASE event.action \in DOMAIN RegistryActions
  <2>0. PICK rules, r :
          /\ rules = <<RegistryActions[event.action]>>
          /\ r = Event(event.id, "registry", event.actor, NoStep, event.ts,
                       RenderEffects(rules, event.fields, event.id))
    OBVIOUS
  <2>1. /\ r.ts = event.ts /\ r.id = event.id /\ r.effects = RenderEffects(rules, event.fields, event.id)
    BY <2>0 DEF Event
  <2>2. Listed(rules) /\ DOMAIN rules = {1} /\ rules[1] = RegistryActions[event.action]
    BY <2>0 DEF Listed
  <2>3. /\ DOMAIN r.effects = {1} /\ DOMAIN r.effects \subseteq Nat /\ r.effects[1].id = from
        /\ r.effects[1].kind # "artifact_create"
    BY <1>0, <1>6, <2>1, <2>2, Rendered
  <2>4. /\ records' = Append(records, r)
        /\ edges' = IF d = NoProvenance THEN edges ELSE edges \cup LinkTo(from, d)
    BY <1>0, <1>6, <2>0, <2>1, <2>3 DEF TakeEvent
  <2>5. /\ IsSeq(records')
        /\ \A id : Present(id) => Present(id)'
        /\ Present(from)' /\ (Present(from) => Doubled')
        /\ \A id, b : Built(id, b) => Built(id, b)'
        /\ Doubled => Doubled'
        /\ \A b : Builds(b)' # {} => Builds(b) # {}
    <3>1. \A j \in DOMAIN r.effects : \A b : ~ Building(r.effects[j], b)
      BY <2>3 DEF Building
    <3>2. IsSeq(records)
      BY <1>1 DEF Shape
    <3>3. /\ IsSeq(records')
          /\ \A id : Present(id) => Present(id)'
          /\ \A id, b : Built(id, b) => Built(id, b)'
          /\ Doubled => Doubled'
          /\ \A j \in DOMAIN r.effects : Present(r.effects[j].id)' /\ (Present(r.effects[j].id) => Doubled')
      BY <2>4, <3>2, Grows
    <3>4. \A b : Builds(b)' # {} => Builds(b) # {}
      <4>1. \A b : Builds(b)' # {} => Builds(b) # {} \/ \E j \in DOMAIN r.effects : Building(r.effects[j], b)
        BY <2>4, <3>2, Grows
      <4> QED  BY <3>1, <4>1
    <3>5. Present(from)' /\ (Present(from) => Doubled')
      BY <2>3, <3>3
    <3> QED  BY <3>3, <3>4, <3>5
  <2>6. /\ \A i \in DOMAIN records' : /\ records'[i].ts \in Nat /\ records'[i].id \in Nat
                                      /\ DOMAIN records'[i].effects \subseteq Nat
        /\ PendingShown'
    BY <1>1, <1>2, <2>1, <2>3, <2>4, Joins
  <2>7. Shape'
    BY <1>1, <1>2, <1>3, <2>5, <2>6 DEF Shape
  <2>8. PendingOnce'
    BY <1>1, <2>5 DEF PendingOnce
  <2>9. /\ \A x \in LinkTo(from, d) : x.from = from /\ Built(x.to, d)
        /\ \A x, y \in LinkTo(from, d) : x = y
        /\ Builds(d) # {} => \E x \in LinkTo(from, d) : x.from = from
    BY <1>1, Linking
  <2>10. EdgesShown'
    <3> SUFFICES ASSUME NEW x \in edges'
                 PROVE  \A y : y = x => Present(y.from)' /\ \E p \in Provenances : p[1] = y.from /\ Built(y.to, p[2])'
      BY <1>3 DEF EdgesShown
    <3>1. CASE x \in edges
      BY <1>1, <2>5, <3>1 DEF EdgesShown
    <3>2. CASE d # NoProvenance /\ x \in LinkTo(from, d)
      <4>1. <<from, d>> \in Provenances /\ <<from, d>>[1] = from /\ <<from, d>>[2] = d
        BY <1>0, <1>2, <1>3, <1>6, <3>2 DEF Provenances
      <4> QED  BY <2>5, <2>9, <3>2, <4>1
    <3> QED  BY <2>4, <3>1, <3>2
  <2>11. EdgesOnce'
    <3>1. ASSUME ~ Doubled', NEW x \in edges PROVE x.from # from
      BY <1>1, <2>5, <3>1 DEF EdgesShown
    <3>2. ~ Doubled' => \A x, y \in edges : x.from = y.from => x = y
      BY <1>1, <2>5 DEF EdgesOnce
    <3> QED  BY <2>4, <2>9, <3>1, <3>2 DEF EdgesOnce
  <2>12. Linked'
    <3> SUFFICES ASSUME NEW i \in DOMAIN raw.events, i < at + 1, Vouched(raw.events[i]),
                        (Builds(raw.events[i].provenance) # {})'
                 PROVE  \E x \in edges' : x.from = <<raw.events[i].id, 1>>
      BY <1>1 DEF Linked
    <3>1. PICK e : e = raw.events[i].provenance
      OBVIOUS
    <3>2. Builds(e) # {}
      BY <1>1, <2>5, <3>1
    <3>3. CASE i = at
      BY <1>0, <2>4, <2>9, <3>1, <3>2, <3>3 DEF Vouched
    <3>4. CASE i < at
      BY <1>1, <2>4, <3>1, <3>2, <3>4 DEF Linked
    <3> QED  BY <1>2, <3>3, <3>4
  <2> QED  BY <1>4, <2>6, <2>7, <2>8, <2>10, <2>11, <2>12 DEF Tracked
<1> QED  BY <1>5, <1>6

-----------------------------------------------------------------------------
(* What is handed out                                                      *)

(* Sorting neither adds nor drops an effect, nor brings two ids together.  *)
LEMMA SortedShows ==
  ASSUME Shape, NEW o, o.records = Sorted(records)
  PROVE  /\ \A e : e \in Effects(o) <=>
              \E i \in DOMAIN records : \E j \in DOMAIN records[i].effects : e = records[i].effects[j]
         /\ Valid(o) => ~ Doubled
<1>1. Timed(records)
  BY DEF Shape, Timed, IsSeq, Listed
<1>2. PICK p \in [DOMAIN records -> DOMAIN records] :
        /\ \A k, l \in DOMAIN records : p[k] = p[l] => k = l
        /\ \A i \in DOMAIN records : \E k \in DOMAIN records : p[k] = i
        /\ Sorted(records) = [k \in DOMAIN records |-> records[p[k]]]
  BY <1>1, SortedPermutes
<1>3. DOMAIN o.records = DOMAIN records /\ \A k \in DOMAIN records : o.records[k] = records[p[k]]
  BY <1>2
<1>4. \A e : e \in Effects(o) <=>
        \E k \in DOMAIN records : \E j \in DOMAIN records[p[k]].effects : e = records[p[k]].effects[j]
  BY <1>3 DEF Effects, EffectsIn, Records
<1>5. \A e : e \in Effects(o) <=>
        \E i \in DOMAIN records : \E j \in DOMAIN records[i].effects : e = records[i].effects[j]
  BY <1>2, <1>4
<1>6. ASSUME Valid(o), Doubled PROVE FALSE
  <2>1. PICK i \in DOMAIN records, k \in DOMAIN records :
          /\ i # k
          /\ \E j \in DOMAIN records[i].effects, l \in DOMAIN records[k].effects :
               records[i].effects[j].id = records[k].effects[l].id
    BY <1>6 DEF Doubled
  <2>2. PICK a \in DOMAIN records, b \in DOMAIN records : p[a] = i /\ p[b] = k
    BY <1>2
  <2>3. a # b /\ o.records[a] = records[i] /\ o.records[b] = records[k]
    BY <1>3, <2>1, <2>2
  <2>4. \E j \in DOMAIN o.records[a].effects, l \in DOMAIN o.records[b].effects :
          o.records[a].effects[j].id = o.records[b].effects[l].id
    BY <2>1, <2>3
  <2> QED  BY <1>3, <1>6, <2>3, <2>4 DEF Valid, Records
<1> QED  BY <1>5, <1>6

LEMMA TrackedFinish == Tracked /\ Finish => Tracked' /\ LinksObserved'
<1> SUFFICES ASSUME Tracked, Finish PROVE Tracked' /\ LinksObserved'
  OBVIOUS
<1>0. PICK o : o = obs'
  OBVIOUS
<1>1. /\ raw' = raw /\ phase \in {"registry", "link"} /\ Finished(phase) /\ at' = at
      /\ records' = records /\ edges' = edges /\ pending' = pending
      /\ obs' = [obs EXCEPT !.records = Sorted(records), !.edges = edges]
      /\ phase' \in {"valid", "refused"} /\ (phase' = "valid" => Valid(o))
      /\ Shape /\ EdgesShown /\ EdgesOnce /\ PendingShown /\ PendingOnce /\ Resolved /\ Linked /\ Claimed
  BY <1>0 DEF Finish, Tracked
<1>2. o.records = Sorted(records) /\ o.edges = edges
  <2>1. obs = [records |-> <<>>, edges |-> {}, planes |-> MapPlanes]
    BY <1>1 DEF Shape
  <2> QED  BY <1>0, <1>1, <2>1
<1>3. (Bundled' <=> Bundled) /\ (Provenances' = Provenances)
  BY <1>1, SameLogs
<1>4. Shape'
  BY <1>1, <1>3 DEF Shape
<1>5. EdgesShown' /\ EdgesOnce' /\ PendingShown' /\ PendingOnce'
  BY <1>1, Still DEF EdgesShown, EdgesOnce, PendingShown, PendingOnce
<1>6. Claimed'
  BY <1>1, StillClaimed
<1>7. Resolved' /\ Linked'
  BY <1>1 DEF Resolved, Linked
<1>8. ASSUME Valid(o) PROVE LinksObserved'
  <2> DEFINE Shows(digest) == {e \in Effects(o) : /\ e.kind = "artifact_create"
                                                  /\ "digest" \in DOMAIN e.args /\ e.args.digest = digest}
  <2>1. /\ \A e : e \in Effects(o) <=>
              \E i \in DOMAIN records : \E j \in DOMAIN records[i].effects : e = records[i].effects[j]
        /\ ~ Doubled
    BY <1>1, <1>2, <1>8, SortedShows
  <2>2. \A id, d : Built(id, d) => id \in {e.id : e \in Shows(d)}
    BY <2>1 DEF Built, Building
  <2>3. \A d : Shows(d) # {} => Builds(d) # {}
    BY <2>1, BuildsBuild DEF Building
  <2>4. \A x \in edges : \E p \in Provenances : p[1] = x.from /\ x.to \in {e.id : e \in Shows(p[2])}
    BY <1>1, <2>2 DEF EdgesShown
  <2>5. \A x, y \in edges : x.from = y.from => x = y
    BY <1>1, <2>1 DEF EdgesOnce
  <2>6. ASSUME NEW p \in Provenances, p[1] \in EffectIds(o), Builds(p[2]) # {}
        PROVE  \E x \in edges : x.from = p[1]
    <3>1. CASE phase = "registry"
      <4>1. PICK i \in DOMAIN raw.events : Vouched(raw.events[i]) /\ p = <<<<raw.events[i].id, 1>>, raw.events[i].provenance>>
        BY <1>1, <2>6, <3>1 DEF Provenances, Shape, Vouched
      <4>2. p[1] = <<raw.events[i].id, 1>> /\ p[2] = raw.events[i].provenance
        BY <4>1
      <4>3. i < at
        BY <1>1, <3>1, RawsAssumption DEF Finished, Shape, Listed
      <4> QED  BY <1>1, <2>6, <3>1, <4>1, <4>2, <4>3 DEF Linked
    <3>2. CASE phase = "link"
      <4>1. ~ Bundled
        BY <1>1, <3>2 DEF Shape
      <4>2. PICK m \in DOMAIN raw.jobs : \E f \in FactOf(raw.jobs[m]) :
              f.provenance # NoProvenance /\ p = <<<<raw.jobs[m].id, 1>>, f.provenance>>
        BY <2>6, <4>1 DEF Provenances
      <4>f. PICK f \in FactOf(raw.jobs[m]) :
              f.provenance # NoProvenance /\ p = <<<<raw.jobs[m].id, 1>>, f.provenance>>
        BY <4>2
      <4>3. p[1] = <<raw.jobs[m].id, 1>> /\ p[2] = f.provenance
        BY <4>f
      <4>i. PICK i \in DOMAIN records : \E j \in DOMAIN records[i].effects : records[i].effects[j].id = p[1]
        BY <2>1, <2>6 DEF EffectIds
      <4>4. PICK j \in DOMAIN records[i].effects : records[i].effects[j].id = p[1]
        BY <4>i
      <4>5. PICK k \in DOMAIN raw.jobs : Kept(i, raw.jobs[k])
        BY <1>1, <4>1 DEF Claimed
      <4>6. raw.jobs[k].id = raw.jobs[m].id /\ j = 1
        <5>1. <<raw.jobs[k].id, j>> = <<raw.jobs[m].id, 1>>
          BY <4>3, <4>4, <4>5 DEF Kept
        <5> QED  BY <5>1
      <4>7. raw.jobs[k] = raw.jobs[m]
        <5>1. raw.adapter = "github"
          BY <1>1, <4>1, RawsAssumption DEF Shape, Bundled
        <5> QED  BY <1>1, <4>6, <5>1, RawsAssumption DEF Shape
      <4>8. PICK q \in DOMAIN pending : pending[q].from = p[1] /\ pending[q].digest = p[2]
        BY <4>f, <4>3, <4>4, <4>5, <4>6, <4>7 DEF Kept
      <4>9. q < at
        BY <1>1, <3>2 DEF Finished, Shape, IsSeq
      <4> QED  BY <1>1, <2>6, <3>2, <4>8, <4>9 DEF Resolved
    <3> QED  BY <1>1, <3>1, <3>2
  <2> HIDE DEF Shows
  <2>7. \A p \in Provenances : p[1] \in EffectIds(o) /\ Shows(p[2]) # {} => \E x \in edges : x.from = p[1]
    BY <2>3, <2>6
  <2>8. /\ \A x \in o.edges : \E p \in Provenances : p[1] = x.from /\ x.to \in {e.id : e \in Shows(p[2])}
        /\ \A x, y \in o.edges : x.from = y.from => x = y
        /\ \A p \in Provenances : p[1] \in EffectIds(o) /\ Shows(p[2]) # {} => \E x \in o.edges : x.from = p[1]
    BY <1>2, <2>4, <2>5, <2>7
  <2> QED  BY <1>0, <1>3, <2>8 DEF LinksObserved, Shows
<1>9. LinksObserved'
  <2>1. CASE phase' = "valid"
    BY <1>1, <1>8, <2>1
  <2>2. CASE phase' # "valid"
    BY <2>2 DEF LinksObserved
  <2> QED  BY <2>1, <2>2
<1> QED  BY <1>4, <1>5, <1>6, <1>7, <1>9 DEF Tracked

(* Provenance links what was published to what was built, and only that,   *)
(* in whatever order a log lists its lines, for every log and every map    *)
(* whose registry rules build nothing: a bundle's registry entry is linked *)
(* when it is read, so a build by an entry listed behind it would not be   *)
(* seen (normalize() of lib.rs; that of github.rs links at the end).       *)
THEOREM ProvenanceLinked ==
  ASSUME \A a \in DOMAIN RegistryActions : RegistryActions[a].kind # "artifact_create"
  PROVE  Spec => []LinksObserved
<1> DEFINE IInv == Tracked /\ LinksObserved
<1>1. Init => IInv
  BY TrackedInit
<1>2. IInv /\ [Next]_vars => IInv'
  <2> SUFFICES ASSUME Tracked, LinksObserved, [Next]_vars PROVE Tracked' /\ LinksObserved'
    OBVIOUS
  <2>1. CASE SkipJob \/ RecordJob \/ TakeEntry \/ TakeEvent \/ Resolve \/ NextList
    <3>1. Tracked'
      BY <2>1, TrackedSkip, TrackedJob, TrackedEntry, TrackedEvent, TrackedResolve, TrackedNextList
    <3>2. phase' # "valid"
      BY <2>1 DEF SkipJob, RecordJob, TakeEntry, TakeEvent, Resolve, NextList, Looking
    <3> QED  BY <3>1, <3>2 DEF LinksObserved
  <2>2. CASE Finish
    BY <2>2, TrackedFinish
  <2>3. CASE UNCHANGED vars
    <3>1. /\ raw' = raw /\ phase' = phase /\ at' = at /\ records' = records /\ edges' = edges
          /\ pending' = pending /\ obs' = obs
      BY <2>3 DEF vars
    <3>2. Shape' /\ EdgesShown' /\ EdgesOnce' /\ PendingShown' /\ PendingOnce'
      BY <3>1, Still DEF Tracked, Shape, EdgesShown, EdgesOnce, PendingShown, PendingOnce
    <3>3. Claimed'
      BY <3>1, StillClaimed DEF Tracked
    <3>4. Resolved'
      BY <3>1, StillResolved DEF Tracked, Resolved
    <3>5. Linked'
      BY <3>1, Still DEF Tracked, Linked, Vouched
    <3>6. LinksObserved'
      BY <3>1, Still DEF LinksObserved
    <3> QED  BY <3>2, <3>3, <3>4, <3>5, <3>6 DEF Tracked
  <2> QED  BY <2>1, <2>2, <2>3 DEF Next
<1>3. IInv => LinksObserved
  OBVIOUS
<1> QED  BY <1>1, <1>2, <1>3, PTL DEF Spec
=============================================================================
