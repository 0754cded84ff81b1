--------------------------- MODULE EvidenceProofs ---------------------------
(***************************************************************************)
(* Proofs about the chain of evidence, for any hosts, keys, files and      *)
(* runs, and any number of edited certificates.                            *)
(***************************************************************************)
EXTENDS Evidence, TLAPS

(* An accepted run of the workflow attests the digest and took no evidence  *)
(* for it.                                                                 *)
Originates(d, w) ==
  \E c \in Accepted(w) : d \in c.body.digests \ Restored[c.body.spec][c.body.run]

(* What is on disk carries a signature that some host made, and what a host *)
(* signed as accepted attests digests that lead back to a run which took no *)
(* evidence for them.                                                      *)
CertificatesOK ==
  /\ \A c \in issued : Verifies(c)
  /\ \A c \in issued : c.body.verdict = "accept" =>
       \A d \in c.body.digests : Originates(d, c.body.workflow)
  /\ \A p \in Paths : files[p] \notin {NoFile, Torn} =>
       \E c \in issued : c.key = files[p].key /\ c.signature = files[p].signature

(* What a host holds: digests with a certificate behind them and a run they *)
(* originate in, and outcomes that answer what it was asked.                             *)
HostOK(h) ==
  /\ \A d \in presented[h] :
       /\ Originates(d, Workflow(ask[h]))
       /\ \E c \in Accepted(Workflow(ask[h])) :
            /\ d \in c.body.digests
            /\ c.key \in Anchor(h, ask[h].extra) \cup
                 (IF ask[h].tool = "service" THEN {Key(h)} ELSE {})
  /\ pc[h] = "idle" => presented[h] = {}
  /\ pc[h] \in {"report", "sign", "write"} /\ outcome[h] = "accept" =>
       Explainable(ask[h].spec, ask[h].run, ask[h].slack, presented[h])
  /\ pc[h] = "widen" => outcome[h] # "accept"
  /\ pc[h] = "report" /\ outcome[h] # "accept" =>
       /\ robust[h] = "no" =>
            Explainable(ask[h].spec, ask[h].run, WideSlack(ask[h].run), presented[h])
       /\ robust[h] = "yes" /\ ask[h].run \notin Huge =>
            ~ Explainable(ask[h].spec, ask[h].run, WideSlack(ask[h].run), presented[h])
  /\ pc[h] = "write" => Issued(h) \in issued

Inv == TypeOK /\ CertificatesOK /\ (\A h \in Hosts : HostOK(h)) /\ RobustHolds

USE DEF Goto, Stay

-----------------------------------------------------------------------------
(* What a command asks for is known, and a host without one asks nothing.  *)
LEMMA GivenTyped ==
  /\ Idle \notin Given
  /\ \A a \in Given : /\ a.spec \in Specs /\ a.run \in Runs /\ a.slack \in Nat
                      /\ a.out \in Paths \cup {NoPath}
                      /\ a.tool = "service" => a.evidence \in Seq(Runs)
                      /\ a.tool # "service" => a.tool = "cli" /\ a.evidence \in Seq(Paths)
BY LoadsAssumption DEF Given, Idle

(* Certificates are never taken back.                                      *)
LEMMA AcceptedGrows ==
  ASSUME issued \subseteq issued'
  PROVE  /\ \A w : Accepted(w) \subseteq Accepted(w)'
         /\ \A d, w : Originates(d, w) => Originates(d, w)'
BY DEF Accepted, Originates

(* What a host signs is a certificate, and verifies.                       *)
LEMMA SignedTyped ==
  ASSUME NEW h \in Hosts, SigningKey[h] # BadKey, NEW a, a.spec \in Specs, a.run \in Runs,
         NEW found, NEW wide \in {"none", "yes", "no"}
  PROVE  /\ Signed(h, Certificate(a, found, wide)) \in Files
         /\ Verifies(Signed(h, Certificate(a, found, wide)))
         /\ Key(h) \in Keys
<1>1. Key(h) \in Keys
  BY KeysAssumption DEF Key
<1>2. Attested(a.run, found) \subseteq Digests
  BY DEF Attested, Digests
<1>3. Certificate(a, found, wide) \in Bodies
  BY <1>2 DEF Certificate, Bodies, Workflow
<1> QED  BY <1>1, <1>3 DEF Signed, Files, Verifies

(* A file that verifies is one a host signed: nothing else than its body   *)
(* and its hash was edited, and both would show.                           *)
LEMMA VerifiedIssued ==
  ASSUME TypeOK, CertificatesOK, NEW p \in Paths, files[p] \notin {NoFile, Torn}, Verifies(files[p])
  PROVE  files[p] \in issued
<1>1. files[p] \in Files
  BY DEF TypeOK
<1>2. PICK c \in issued : c.key = files[p].key /\ c.signature = files[p].signature
  BY DEF CertificatesOK
<1>3. c \in Files /\ Verifies(c)
  BY <1>2 DEF TypeOK, CertificatesOK
<1>4. c.body = files[p].body /\ c.payload = files[p].payload
  BY <1>2, <1>3 DEF Verifies
<1>5. c = files[p]
  BY <1>1, <1>2, <1>3, <1>4 DEF Files
<1> QED  BY <1>2, <1>5

-----------------------------------------------------------------------------
(* An edited certificate is still one, with the key and the signature it    *)
(* had.                                                                    *)
LEMMA EditedTyped ==
  ASSUME NEW c \in Files, NEW r \in Runs, NEW refresh \in BOOLEAN
  PROVE  /\ Edited(c, r, refresh) \in Files
         /\ Edited(c, r, refresh).key = c.key
         /\ Edited(c, r, refresh).signature = c.signature
<1> DEFINE body == [c.body EXCEPT !.verdict = "accept", !.digests = Shown[r]]
<1>1. Shown[r] \in SUBSET Digests /\ c.body \in Bodies
  BY DEF Digests, Files
<1>2. body \in Bodies
  BY <1>1 DEF Bodies
<1>3. Edited(c, r, refresh) = [c EXCEPT !.body = body, !.payload = IF refresh THEN body ELSE c.payload]
  BY DEF Edited
<1> HIDE DEF body
<1> QED  BY <1>2, <1>3 DEF Files

(* A command that ends leaves its host without one.                        *)
LEMMA ExitTyped ==
  ASSUME TypeOK, NEW h \in Hosts, Exit(h), UNCHANGED <<todo, edits>>,
         files' \in [Paths -> {NoFile, Torn} \cup Files], issued' \subseteq Files
  PROVE  TypeOK'
<1>1. /\ todo' \in [Hosts -> SUBSET Given] /\ edits' \in 0 .. MaxEdits
      /\ pc' \in [Hosts -> {"idle", "evidence", "widen", "report", "sign", "write"}]
      /\ ask' \in [Hosts -> Given \cup {Idle}]
      /\ DOMAIN pending' = Hosts
      /\ presented' \in [Hosts -> SUBSET Digests]
      /\ outcome' \in [Hosts -> {"accept", "reject", "exhausted", "none"}]
      /\ robust' \in [Hosts -> {"none", "yes", "no"}]
  BY DEF Exit, TypeOK
<1>2. ASSUME NEW k \in Hosts
      PROVE  (/\ pc[k] = "idle" <=> ask[k] = Idle
              /\ pending[k] \in Seq(IF ask[k].tool = "service" THEN Runs ELSE Paths)
              /\ pc[k] \in {"sign", "write"} => ask[k].out \in Paths /\ SigningKey[k] # BadKey)'
  <2>1. CASE k = h
    <3>1. pc'[k] = "idle" /\ ask'[k] = Idle /\ pending'[k] = <<>>
      BY <2>1 DEF Exit, TypeOK
    <3> QED  BY <3>1
  <2>2. CASE k # h
    <3>1. pc'[k] = pc[k] /\ ask'[k] = ask[k] /\ pending'[k] = pending[k]
      BY <2>2 DEF Exit, TypeOK
    <3> QED  BY <3>1 DEF TypeOK
  <2> QED  BY <2>1, <2>2
<1> QED  BY <1>1, <1>2 DEF TypeOK

LEMMA TypeStep ==
  ASSUME TypeOK, [Next]_vars
  PROVE  TypeOK'
<1> USE GivenTyped
<1>1. ASSUME NEW h \in Hosts, Invoke(h)
      PROVE  TypeOK'
  <2>1. PICK a \in todo[h] : Invoke(h)!(a)
    BY <1>1 DEF Invoke
  <2>2. a \in Given /\ todo' \in [Hosts -> SUBSET Given]
    BY <2>1 DEF TypeOK
  <2>3. CASE Opens(a)
    <3>1. /\ pc' = [pc EXCEPT ![h] = "evidence"] /\ ask' = [ask EXCEPT ![h] = a]
          /\ pending' = [pending EXCEPT ![h] = a.evidence]
          /\ presented' = [presented EXCEPT ![h] = {}]
          /\ UNCHANGED <<files, outcome, robust, edits, issued>>
      BY <2>1, <2>3
    <3>2. a # Idle /\ a.evidence \in Seq(IF a.tool = "service" THEN Runs ELSE Paths)
      BY <2>2
    <3> QED  BY <2>2, <3>1, <3>2 DEF TypeOK
  <2>4. CASE ~ Opens(a)
    BY <2>1, <2>2, <2>4 DEF TypeOK
  <2> QED  BY <2>3, <2>4
<1>2. ASSUME NEW h \in Hosts, NEW digests \in SUBSET Digests, Give(h, digests),
             pending[h] # <<>>, UNCHANGED <<files, todo, pc, ask, outcome, robust, edits>>,
             issued' \subseteq Files
      PROVE  TypeOK'
  <2>1. Tail(pending[h]) \in Seq(IF ask[h].tool = "service" THEN Runs ELSE Paths)
    BY <1>2 DEF TypeOK
  <2> QED  BY <1>2, <2>1 DEF TypeOK, Give
<1>3. ASSUME NEW h \in Hosts, Present(h)
      PROVE  TypeOK'
  <2>1. ask[h] \in Given /\ Head(pending[h]) \in Paths
    BY <1>3 DEF Present, Loading, TypeOK
  <2>2. files[Head(pending[h])] \in Files
    BY <1>3, <2>1 DEF Present, Believable, TypeOK
  <2>3. files[Head(pending[h])].body.digests \in SUBSET Digests
    BY <2>2 DEF Files, Bodies
  <2> QED  BY <1>2, <1>3, <2>3 DEF Present, Loading, TypeOK
<1>4. ASSUME NEW h \in Hosts, RefuseEvidence(h) \/ Crash(h)
      PROVE  TypeOK'
  BY <1>4, ExitTyped DEF RefuseEvidence, Crash, TypeOK
<1>5. ASSUME NEW h \in Hosts, PresentFromRun(h)
      PROVE  TypeOK'
  <2>1. ask[h] \in Given /\ Head(pending[h]) \in Runs
    BY <1>5 DEF PresentFromRun, Loading, TypeOK
  <2> DEFINE from == [ask[h] EXCEPT !.run = Head(pending[h])]
  <2>2. from.spec \in Specs /\ from.run \in Runs
    BY <2>1
  <2>3. Attested(from.run, "accept") \in SUBSET Digests
    BY <2>2 DEF Attested, Digests
  <2>4. SigningKey[h] # BadKey => Signed(h, Certificate(from, "accept", "none")) \in Files
    BY <2>2, SignedTyped
  <2> HIDE DEF from
  <2>5. issued' \subseteq Files
    BY <1>5, <2>4 DEF PresentFromRun, TypeOK, from
  <2>6. Give(h, Attested(from.run, "accept")) \/ Give(h, {})
    BY <1>5 DEF PresentFromRun, from
  <2> QED  BY <1>2, <1>5, <2>3, <2>5, <2>6 DEF PresentFromRun, Loading
<1>6. ASSUME NEW h \in Hosts, Search(h) \/ Widen(h)
      PROVE  TypeOK'
  <2>1. ask[h] # Idle /\ pending' = pending /\ ask' = ask
    BY <1>6 DEF Search, Widen, TypeOK
  <2>2. CASE Search(h)
    BY <2>1, <2>2 DEF Search, TypeOK
  <2>3. CASE Widen(h)
    BY <2>1, <2>3 DEF Widen, TypeOK
  <2> QED  BY <1>6, <2>2, <2>3
<1>7. ASSUME NEW h \in Hosts, Report(h)
      PROVE  TypeOK'
  <2>1. CASE Exit(h)
    BY <1>7, <2>1, ExitTyped DEF Report, TypeOK
  <2>2. CASE Stay(h, "sign") /\ ask[h].out # NoPath /\ SigningKey[h] # BadKey
    <3>1. ask[h] \in Given /\ ask[h].out \in Paths
      BY <1>7, <2>2 DEF Report, TypeOK
    <3> QED  BY <1>7, <2>2, <3>1 DEF Report, TypeOK
  <2> QED  BY <1>7, <2>1, <2>2 DEF Report
<1>8. ASSUME NEW h \in Hosts, Issue(h) \/ Write(h)
      PROVE  TypeOK'
  <2>1. ask[h] \in Given /\ SigningKey[h] # BadKey /\ ask[h].out \in Paths
    BY <1>8 DEF Issue, Write, TypeOK
  <2>2. Issued(h) \in Files
    BY <2>1, SignedTyped DEF Issued, TypeOK
  <2>3. CASE Issue(h)
    BY <2>1, <2>2, <2>3 DEF Issue, TypeOK
  <2>4. CASE Write(h)
    BY <2>1, <2>2, <2>4, ExitTyped DEF Write, TypeOK
  <2> QED  BY <1>8, <2>3, <2>4
<1>9. ASSUME NEW p \in Paths, Edit(p)
      PROVE  TypeOK'
  <2>1. PICK r \in Runs, refresh \in BOOLEAN : files' = [files EXCEPT ![p] = Edited(files[p], r, refresh)]
    BY <1>9 DEF Edit
  <2>2. files[p] \in Files
    BY <1>9 DEF Edit, TypeOK
  <2>3. Edited(files[p], r, refresh) \in Files
    BY <2>2, EditedTyped
  <2>7. files' \in [Paths -> {NoFile, Torn} \cup Files]
    BY <2>1, <2>3 DEF TypeOK
  <2>6. edits' \in 0 .. MaxEdits
    BY <1>9, NumbersAssumption DEF Edit, TypeOK
  <2> QED  BY <1>9, <2>6, <2>7 DEF Edit, TypeOK
<1>10. CASE UNCHANGED vars
  BY <1>10 DEF vars, TypeOK
<1> QED  BY <1>1, <1>3, <1>4, <1>5, <1>6, <1>7, <1>8, <1>9, <1>10 DEF Next, Handle

-----------------------------------------------------------------------------
(* What a certificate attests, its run took no evidence for, or it took     *)
(* evidence that was presented.                                            *)
LEMMA IssueRooted ==
  ASSUME CertificatesOK, NEW a, NEW found, NEW wide, NEW h, NEW given,
         found = "accept" => Explainable(a.spec, a.run, a.slack, given),
         \A d \in given : Originates(d, Workflow(a)),
         Verifies(Signed(h, Certificate(a, found, wide))),
         issued' = issued \cup {Signed(h, Certificate(a, found, wide))}
  PROVE  /\ \A c \in issued' : Verifies(c)
         /\ \A c \in issued' : c.body.verdict = "accept" =>
              \A d \in c.body.digests : Originates(d, c.body.workflow)'
<1> DEFINE new == Signed(h, Certificate(a, found, wide))
<1>1. /\ new.body.workflow = Workflow(a) /\ new.body.spec = a.spec /\ new.body.run = a.run
      /\ new.body.digests = Attested(a.run, found)
      /\ new.body.verdict = (IF found = "accept" THEN "accept" ELSE "reject")
  BY DEF Signed, Certificate
<1>2. ASSUME NEW d \in new.body.digests, new.body.verdict = "accept"
      PROVE  Originates(d, Workflow(a))'
  <2>1. found = "accept"
    BY <1>1, <1>2
  <2>2. CASE d \notin Restored[a.spec][a.run]
    <3>1. new \in Accepted(Workflow(a))'
      BY <1>1, <1>2 DEF Accepted
    <3> QED  BY <1>1, <1>2, <2>2, <3>1 DEF Originates
  <2>3. CASE d \in Restored[a.spec][a.run]
    BY <2>1, <2>3, AcceptedGrows DEF Explainable
  <2> QED  BY <2>2, <2>3
<1>3. \A c \in issued : c.body.verdict = "accept" =>
        \A d \in c.body.digests : Originates(d, c.body.workflow)'
  BY AcceptedGrows DEF CertificatesOK
<1> HIDE DEF new
<1>4. issued' = issued \cup {new}
  BY DEF new
<1> QED  BY <1>1, <1>2, <1>3, <1>4 DEF CertificatesOK, new

LEMMA CertificatesStep ==
  ASSUME Inv, [Next]_vars
  PROVE  CertificatesOK'
<1> USE DEF Inv
<1>1. CASE UNCHANGED <<files, issued>>
  BY <1>1 DEF CertificatesOK, Accepted, Originates
<1>2. ASSUME NEW h \in Hosts, PresentFromRun(h), issued' # issued
      PROVE  CertificatesOK'
  <2> DEFINE from == [ask[h] EXCEPT !.run = Head(pending[h])]
  <2>1. ask[h] \in Given /\ Head(pending[h]) \in Runs /\ ask[h] # Idle
    BY <1>2, GivenTyped DEF PresentFromRun, Loading, TypeOK
  <2>2. from.run \in Runs /\ from.spec \in Specs /\ from.slack = ask[h].slack /\ from.slack \in Nat
    BY <2>1, GivenTyped
  <2>3. /\ SigningKey[h] # BadKey
        /\ Found(from.spec, from.run, 0, {}, "accept")
        /\ issued' = issued \cup {Signed(h, Certificate(from, "accept", "none"))}
        /\ files' = files
    BY <1>2 DEF PresentFromRun
  <2> HIDE DEF from
  <2>4. Explainable(from.spec, from.run, from.slack, {})
    <3>1. Unlogged[from.spec][from.run] \in Nat
      BY <2>2, NumbersAssumption
    <3> QED  BY <2>2, <2>3, <3>1 DEF Found, Explainable
  <2>5. Verifies(Signed(h, Certificate(from, "accept", "none")))
    BY <2>2, <2>3, SignedTyped
  <2>6. /\ \A c \in issued' : Verifies(c)
        /\ \A c \in issued' : c.body.verdict = "accept" =>
             \A d \in c.body.digests : Originates(d, c.body.workflow)'
    <3>1. PICK given : given = {}
      OBVIOUS
    <3>2. PICK found : found = "accept"
      OBVIOUS
    <3>3. PICK wide : wide = "none"
      OBVIOUS
    <3>4. /\ found = "accept" => Explainable(from.spec, from.run, from.slack, given)
          /\ \A d \in given : Originates(d, Workflow(from))
      BY <2>4, <3>1
    <3>5. /\ Verifies(Signed(h, Certificate(from, found, wide)))
          /\ issued' = issued \cup {Signed(h, Certificate(from, found, wide))}
      BY <2>3, <2>5, <3>2, <3>3
    <3> QED  BY <3>4, <3>5, IssueRooted
  <2> QED  BY <2>3, <2>6 DEF CertificatesOK
<1>3. ASSUME NEW h \in Hosts, Issue(h)
      PROVE  CertificatesOK'
  <2>1. ask[h] \in Given /\ ask[h].run \in Runs /\ ask[h].spec \in Specs /\ SigningKey[h] # BadKey
    BY <1>3, GivenTyped DEF Issue, TypeOK
  <2>2. Verifies(Issued(h))
    BY <2>1, SignedTyped DEF Issued, TypeOK
  <2>3. /\ outcome[h] = "accept" => Explainable(ask[h].spec, ask[h].run, ask[h].slack, presented[h])
        /\ \A d \in presented[h] : Originates(d, Workflow(ask[h]))
    BY <1>3 DEF Issue, HostOK
  <2>4. /\ \A c \in issued' : Verifies(c)
        /\ \A c \in issued' : c.body.verdict = "accept" =>
             \A d \in c.body.digests : Originates(d, c.body.workflow)'
    BY <1>3, <2>1, <2>2, <2>3, IssueRooted DEF Issue, Issued
  <2>5. ASSUME NEW p \in Paths, files'[p] \notin {NoFile, Torn}
        PROVE  files'[p] = files[p]
    BY <1>3, <2>5 DEF Issue, TypeOK
  <2> QED  BY <1>3, <2>4, <2>5 DEF CertificatesOK, Issue
<1>4. ASSUME NEW h \in Hosts, Write(h)
      PROVE  CertificatesOK'
  <2>1. Issued(h) \in issued /\ issued' = issued /\ files' = [files EXCEPT ![ask[h].out] = Issued(h)]
    BY <1>4 DEF Write, HostOK
  <2>2. ASSUME NEW p \in Paths
        PROVE  files'[p] = files[p] \/ files'[p] = Issued(h)
    BY <2>1 DEF TypeOK
  <2> QED  BY <2>1, <2>2 DEF CertificatesOK, Accepted, Originates
<1>5. ASSUME NEW p \in Paths, Edit(p)
      PROVE  CertificatesOK'
  <2>1. PICK r \in Runs, refresh \in BOOLEAN : files' = [files EXCEPT ![p] = Edited(files[p], r, refresh)]
    BY <1>5 DEF Edit
  <2>2. files[p] \in Files /\ files[p] \notin {NoFile, Torn} /\ issued' = issued
    BY <1>5 DEF Edit, TypeOK
  <2>3. files'[p].key = files[p].key /\ files'[p].signature = files[p].signature
    BY <2>1, <2>2, EditedTyped DEF TypeOK
  <2>4. \A q \in Paths \ {p} : files'[q] = files[q]
    BY <2>1 DEF TypeOK
  <2> QED  BY <2>2, <2>3, <2>4 DEF CertificatesOK, Accepted, Originates
<1>6. ASSUME NEW h \in Hosts, PresentFromRun(h)
      PROVE  UNCHANGED files
  BY <1>6 DEF PresentFromRun
<1> QED  BY <1>1, <1>2, <1>3, <1>4, <1>5, <1>6
         DEF Next, Handle, vars, Invoke, Present, RefuseEvidence, Search, Widen, Report, Crash

-----------------------------------------------------------------------------
(* What the others do costs a host nothing: certificates stay issued.      *)
LEMMA Bystander ==
  ASSUME NEW k \in Hosts, HostOK(k), issued \subseteq issued',
         pc'[k] = pc[k], ask'[k] = ask[k], presented'[k] = presented[k],
         outcome'[k] = outcome[k], robust'[k] = robust[k]
  PROVE  HostOK(k)'
<1>1. \A w : Accepted(w) \subseteq Accepted(w)'
  BY AcceptedGrows
<1>2. Issued(k)' = Issued(k) /\ Workflow(ask[k])' = Workflow(ask[k])
  BY DEF Issued, Workflow
<1>3. \A d \in presented[k] : Originates(d, Workflow(ask[k]))'
  <2>1. ASSUME NEW d \in presented[k]
        PROVE  \E c \in Accepted(Workflow(ask[k])) : d \in c.body.digests \ Restored[c.body.spec][c.body.run]
    BY DEF HostOK, Originates
  <2> QED  BY <1>1, <1>2, <2>1 DEF Originates
<1>4. \A d \in presented'[k] :
        \E c \in Accepted(Workflow(ask[k]))' :
          /\ d \in c.body.digests
          /\ c.key \in Anchor(k, ask'[k].extra) \cup
               (IF ask'[k].tool = "service" THEN {Key(k)} ELSE {})
  BY <1>1, <1>2 DEF HostOK
<1> QED  BY <1>2, <1>3, <1>4 DEF HostOK

LEMMA IssuedGrows ==
  ASSUME [Next]_vars
  PROVE  issued \subseteq issued'
BY DEF Next, Handle, vars, Invoke, Present, RefuseEvidence, PresentFromRun, Search, Widen,
       Report, Issue, Write, Crash, Edit

LEMMA ExitHost ==
  ASSUME TypeOK, NEW h \in Hosts, Exit(h)
  PROVE  HostOK(h)'
<1>1. pc'[h] = "idle" /\ presented'[h] = {}
  BY DEF Exit, TypeOK
<1> QED  BY <1>1 DEF HostOK

(* Only the host that moves changes what it holds.                         *)
LEMMA Alone ==
  ASSUME TypeOK, NEW h \in Hosts, Invoke(h) \/ Handle(h) \/ Crash(h), NEW k \in Hosts, k # h
  PROVE  /\ pc'[k] = pc[k] /\ ask'[k] = ask[k] /\ presented'[k] = presented[k]
         /\ outcome'[k] = outcome[k] /\ robust'[k] = robust[k]
<1>1. CASE Invoke(h)
  BY <1>1 DEF Invoke, TypeOK
<1>2. CASE Present(h) \/ PresentFromRun(h)
  BY <1>2 DEF Present, PresentFromRun, Give, TypeOK
<1>3. CASE RefuseEvidence(h) \/ Write(h) \/ Crash(h)
  BY <1>3 DEF RefuseEvidence, Write, Crash, Exit, TypeOK
<1>4. CASE Search(h) \/ Widen(h)
  BY <1>4 DEF Search, Widen, TypeOK
<1>5. CASE Report(h) \/ Issue(h)
  BY <1>5 DEF Report, Issue, Exit, TypeOK
<1> QED  BY <1>1, <1>2, <1>3, <1>4, <1>5 DEF Handle

(* Evidence that is believed is grounded, and originates in a run.         *)
LEMMA GivenOK ==
  ASSUME TypeOK, CertificatesOK', NEW h \in Hosts, HostOK(h), issued \subseteq issued',
         NEW c \in issued', c.body.verdict = "accept", c.body.workflow = Workflow(ask[h]),
         c.key \in Anchor(h, ask[h].extra) \cup
                      (IF ask[h].tool = "service" THEN {Key(h)} ELSE {}),
         Give(h, c.body.digests), pc[h] = "evidence", UNCHANGED <<pc, ask, outcome, robust>>
  PROVE  HostOK(h)'
<1>1. presented'[h] = presented[h] \cup c.body.digests
  BY DEF Give, TypeOK
<1>2. c \in Accepted(Workflow(ask[h]))'
  BY DEF Accepted
<1>3. \A w : Accepted(w) \subseteq Accepted(w)'
  BY AcceptedGrows
<1>4. ASSUME NEW d \in presented'[h]
      PROVE  Originates(d, Workflow(ask[h]))'
  BY <1>1, <1>4, AcceptedGrows DEF HostOK, CertificatesOK
<1>5. ASSUME NEW d \in presented'[h]
      PROVE  \E b \in Accepted(Workflow(ask[h]))' :
               /\ d \in b.body.digests
               /\ b.key \in Anchor(h, ask[h].extra) \cup
                    (IF ask[h].tool = "service" THEN {Key(h)} ELSE {})
  BY <1>1, <1>2, <1>3, <1>5 DEF HostOK
<1> QED  BY <1>4, <1>5 DEF HostOK

LEMMA NothingGiven ==
  ASSUME TypeOK, NEW h \in Hosts, HostOK(h), issued \subseteq issued', Give(h, {}),
         UNCHANGED <<pc, ask, outcome, robust>>
  PROVE  HostOK(h)'
<1>1. presented'[h] = presented[h]
  BY DEF Give, TypeOK
<1> QED  BY <1>1, Bystander

LEMMA HostsStep ==
  ASSUME Inv, CertificatesOK', [Next]_vars
  PROVE  \A k \in Hosts : HostOK(k)'
<1> USE DEF Inv
<1>0. issued \subseteq issued'
  BY IssuedGrows
<1>1. ASSUME NEW h \in Hosts, Invoke(h)
      PROVE  HostOK(h)'
  <2>1. PICK a \in todo[h] : Invoke(h)!(a)
    BY <1>1 DEF Invoke
  <2>2. CASE Opens(a)
    <3>1. pc'[h] = "evidence" /\ presented'[h] = {}
      BY <2>1, <2>2 DEF TypeOK
    <3> QED  BY <3>1 DEF HostOK
  <2>3. CASE ~ Opens(a)
    BY <2>1, <2>3, <1>0, Bystander
  <2> QED  BY <2>2, <2>3
<1>2. ASSUME NEW h \in Hosts, Present(h)
      PROVE  HostOK(h)'
  <2> DEFINE c == files[Head(pending[h])]
  <2>1. ask[h] \in Given /\ Head(pending[h]) \in Paths /\ pc[h] = "evidence"
    BY <1>2 DEF Present, Loading, TypeOK
  <2>2. Believable(h, ask[h], c) /\ Give(h, c.body.digests)
    BY <1>2 DEF Present
  <2>3. c \in issued
    BY <2>1, <2>2, VerifiedIssued DEF Believable
  <2> HIDE DEF c
  <2>4. /\ c \in issued' /\ c.body.verdict = "accept" /\ c.body.workflow = Workflow(ask[h])
        /\ c.key \in Anchor(h, ask[h].extra)
    BY <1>0, <2>2, <2>3 DEF Believable
  <2>5. UNCHANGED <<pc, ask, outcome, robust>>
    BY <1>2 DEF Present
  <2> QED  BY <1>0, <2>1, <2>2, <2>4, <2>5, GivenOK
<1>3. ASSUME NEW h \in Hosts, RefuseEvidence(h) \/ Write(h) \/ Crash(h)
      PROVE  HostOK(h)'
  BY <1>3, ExitHost DEF RefuseEvidence, Write, Crash
<1>4. ASSUME NEW h \in Hosts, PresentFromRun(h)
      PROVE  HostOK(h)'
  <2> DEFINE from == [ask[h] EXCEPT !.run = Head(pending[h])]
             c == Signed(h, Certificate(from, "accept", "none"))
  <2>1. /\ ask[h] \in Given /\ pc[h] = "evidence" /\ ask[h].tool = "service"
        /\ UNCHANGED <<pc, ask, outcome, robust>>
    BY <1>4 DEF PresentFromRun, Loading, TypeOK
  <2>2. CASE issued' = issued \cup {c} /\ Give(h, Attested(from.run, "accept"))
    <3>1. /\ c.body.verdict = "accept" /\ c.body.digests = Attested(from.run, "accept")
          /\ c.body.workflow = Workflow(from) /\ c.key = Key(h)
      BY DEF Signed, Certificate
    <3>2. Workflow(from) = Workflow(ask[h])
      BY <2>1, GivenTyped DEF Workflow
    <3> HIDE DEF c, from
    <3>3. /\ c \in issued' /\ c.body.verdict = "accept" /\ c.body.workflow = Workflow(ask[h])
          /\ c.key \in {Key(h)} /\ Give(h, c.body.digests)
      BY <2>2, <3>1, <3>2
    <3> QED  BY <1>0, <2>1, <3>3, GivenOK
  <2>3. CASE Give(h, {})
    BY <1>0, <2>1, <2>3, NothingGiven
  <2> QED  BY <1>4, <2>2, <2>3 DEF PresentFromRun
<1>5. ASSUME NEW h \in Hosts, Search(h)
      PROVE  HostOK(h)'
  <2>1. PICK answer \in {"accept", "reject", "exhausted"} :
          /\ Found(ask[h].spec, ask[h].run, ask[h].slack, presented[h], answer)
          /\ outcome' = [outcome EXCEPT ![h] = answer]
          /\ Goto(h, IF answer = "accept" THEN "report" ELSE "widen")
    BY <1>5 DEF Search
  <2>2. /\ outcome'[h] = answer /\ pc'[h] = IF answer = "accept" THEN "report" ELSE "widen"
        /\ UNCHANGED <<ask, presented, issued>>
    BY <1>5, <2>1 DEF Search, TypeOK
  <2> QED  BY <2>1, <2>2 DEF HostOK, Found, Accepted, Originates
<1>6. ASSUME NEW h \in Hosts, Widen(h)
      PROVE  HostOK(h)'
  <2>1. PICK answer \in {"accept", "reject", "exhausted"} :
          /\ Found(ask[h].spec, ask[h].run, WideSlack(ask[h].run), presented[h], answer)
          /\ robust' = [robust EXCEPT ![h] = IF answer = "accept" THEN "no" ELSE "yes"]
    BY <1>6 DEF Widen
  <2>2. robust'[h] = (IF answer = "accept" THEN "no" ELSE "yes") /\ pc'[h] = "report" /\ UNCHANGED <<ask, presented, outcome, issued>>
    BY <1>6, <2>1 DEF Widen, TypeOK
  <2> QED  BY <1>6, <2>1, <2>2 DEF HostOK, Found, Accepted, Originates, Widen
<1>7. ASSUME NEW h \in Hosts, Report(h)
      PROVE  HostOK(h)'
  <2>1. CASE Exit(h)
    BY <2>1, ExitHost
  <2>2. CASE Stay(h, "sign")
    <3>1. pc'[h] = "sign" /\ UNCHANGED <<ask, presented, outcome, robust, issued>>
      BY <1>7, <2>2 DEF Report, TypeOK
    <3> QED  BY <1>7, <3>1 DEF Report, HostOK, Accepted, Originates
  <2> QED  BY <1>7, <2>1, <2>2 DEF Report
<1>8. ASSUME NEW h \in Hosts, Issue(h)
      PROVE  HostOK(h)'
  <2>1. /\ pc[h] = "sign" /\ pc'[h] = "write" /\ UNCHANGED <<ask, presented, outcome, robust>>
        /\ issued' = issued \cup {Issued(h)}
    BY <1>8 DEF Issue, TypeOK
  <2>2. Issued(h)' = Issued(h)
    BY <2>1 DEF Issued
  <2>4. \A w : Accepted(w) \subseteq Accepted(w)'
    BY <1>0, AcceptedGrows
  <2>3. \A d \in presented[h] : Originates(d, Workflow(ask[h]))'
    <3>1. ASSUME NEW d \in presented[h]
          PROVE  \E c \in Accepted(Workflow(ask[h])) : d \in c.body.digests \ Restored[c.body.spec][c.body.run]
      BY DEF HostOK, Originates
    <3> QED  BY <2>1, <2>4, <3>1 DEF Originates, Workflow
  <2> QED  BY <2>1, <2>2, <2>3, <2>4 DEF HostOK
<1>9. ASSUME NEW h \in Hosts, Invoke(h) \/ Handle(h) \/ Crash(h), NEW k \in Hosts
      PROVE  HostOK(k)'
  <2>1. CASE k = h
    BY <1>1, <1>2, <1>3, <1>4, <1>5, <1>6, <1>7, <1>8, <1>9, <2>1 DEF Handle
  <2>2. CASE k # h
    BY <1>0, <1>9, <2>2, Alone, Bystander
  <2> QED  BY <2>1, <2>2
<1>10. ASSUME NEW p \in Paths, Edit(p), NEW k \in Hosts
       PROVE  HostOK(k)'
  BY <1>0, <1>10, Bystander DEF Edit
<1>11. ASSUME UNCHANGED vars, NEW k \in Hosts
       PROVE  HostOK(k)'
  BY <1>0, <1>11, Bystander DEF vars
<1> QED  BY <1>9, <1>10, <1>11 DEF Next

(* A verdict is entered with what the searches answered.                   *)
LEMMA JudgedStep ==
  ASSUME Inv, [Next]_vars
  PROVE  RobustHolds'
<1> USE DEF Inv
<1>1. CASE judged' = judged
  BY <1>1 DEF RobustHolds
<1>2. ASSUME NEW h \in Hosts, Report(h)
      PROVE  RobustHolds'
  <2> DEFINE j == [ask |-> ask[h], presented |-> presented[h], outcome |-> outcome[h], robust |-> robust[h]]
             wide == WideSlack(ask[h].run)
  <2>1. judged' = judged \cup {j}
    BY <1>2 DEF Report
  <2>2. ask[h] \in Given /\ pc[h] = "report"
    BY <1>2 DEF Report, TypeOK
  <2>3. wide \in Nat /\ Unlogged[ask[h].spec][ask[h].run] \in Nat
    BY <2>2, GivenTyped, NumbersAssumption DEF WideSlack
  <2>4. (\E k \in 0 .. wide : Explainable(ask[h].spec, ask[h].run, k, presented[h]))
          <=> Explainable(ask[h].spec, ask[h].run, wide, presented[h])
    <3> HIDE DEF wide
    <3> QED  BY <2>3 DEF Explainable
  <2>5. outcome[h] # "accept" =>
          /\ robust[h] = "no" => Explainable(ask[h].spec, ask[h].run, wide, presented[h])
          /\ robust[h] = "yes" /\ ask[h].run \notin Huge =>
               ~ Explainable(ask[h].spec, ask[h].run, wide, presented[h])
    BY <2>2 DEF HostOK
  <2> HIDE DEF wide
  <2>6. j.outcome # "accept" =>
          /\ j.robust = "no" => \E k \in 0 .. wide : Explainable(j.ask.spec, j.ask.run, k, j.presented)
          /\ j.robust = "yes" /\ j.ask.run \notin Huge => ~ \E k \in 0 .. wide : Explainable(j.ask.spec, j.ask.run, k, j.presented)
    BY <2>4, <2>5
  <2>7. wide = WideSlack(j.ask.run)
    BY DEF wide
  <2> HIDE DEF j
  <2> QED  BY <2>1, <2>6, <2>7 DEF RobustHolds
<1> QED  BY <1>1, <1>2
         DEF Next, Handle, vars, Invoke, Present, RefuseEvidence, PresentFromRun, Search, Widen,
             Issue, Write, Crash, Edit

-----------------------------------------------------------------------------
LEMMA InitInv == Init => Inv
<1> SUFFICES ASSUME Init PROVE Inv
  OBVIOUS
<1>1. TypeOK
  <2>1. todo \in [Hosts -> SUBSET Given]
    <3>1. todo = [h \in Hosts |-> todo[h]] /\ \A h \in Hosts : todo[h] \subseteq Given
      BY LoadsAssumption DEF Init, Given
    <3> QED  BY <3>1
  <2> QED  BY <2>1, NumbersAssumption DEF Init, TypeOK
<1> QED  BY <1>1 DEF Init, Inv, CertificatesOK, HostOK, RobustHolds

LEMMA StepInv == Inv /\ [Next]_vars => Inv'
<1> SUFFICES ASSUME Inv, [Next]_vars PROVE Inv'
  OBVIOUS
<1>1. TypeOK' /\ CertificatesOK' /\ RobustHolds'
  BY TypeStep, CertificatesStep, JudgedStep DEF Inv
<1>2. \A k \in Hosts : HostOK(k)'
  BY <1>1, HostsStep
<1> QED  BY <1>1, <1>2 DEF Inv

(* The invariant is inductive.                                             *)
LEMMA Invariant == Spec => []Inv
BY InitInv, StepInv, PTL DEF Spec

(* State, files and certificates have their types.                         *)
THEOREM TypeCorrect == Spec => []TypeOK
BY Invariant, PTL DEF Inv

(* Whoever edits files, crashes while writing or overwrites them: a digest  *)
(* reaches a net only from a certificate a trusted host issued for an      *)
(* accepted run of the same workflow (load_evidence, present_from_run).    *)
THEOREM EvidenceGrounded == Spec => []Grounded
<1>1. Inv => Grounded
  BY DEF Inv, HostOK, Grounded
<1> QED  BY <1>1, Invariant, PTL

(* However long the chain of rollbacks, it does not close on itself: an     *)
(* accepted run of that workflow attested the digest without evidence for  *)
(* it, whatever specifications share the workflow's name and whatever      *)
(* digests a run shows (explain, load_evidence).                           *)
THEOREM EvidenceRooted == Spec => []Rooted
<1>1. Inv => Rooted
  BY DEF Inv, HostOK, Rooted, Originates
<1> QED  BY <1>1, Invariant, PTL

(* What is said of robustness is true up to the widened slack.              *)
THEOREM RobustnessHolds == Spec => []RobustHolds
BY Invariant, PTL DEF Inv
=============================================================================
