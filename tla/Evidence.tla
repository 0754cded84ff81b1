------------------------------ MODULE Evidence ------------------------------
(***************************************************************************)
(* The chain of evidence between runs: an accepted run is certified, its   *)
(* certificate is presented with a later run, whose verdict may rest on    *)
(* the digests it attests, and which is certified in its turn              *)
(* (crates/explain: lib.rs, certificate.rs; crates/cli: verify; crates/api: *)
(* evaluate).                                                              *)
(*                                                                         *)
(* Hosts share the files the certificates are kept in and nothing else.    *)
(* The search is what module Decision promises of it.  A digest, a hash or *)
(* a signature is the value it stands for.                                 *)
(***************************************************************************)
EXTENDS Naturals, Sequences, FiniteSets

CONSTANTS
  Hosts, Paths, Runs, Specs, Keys,
  NoFile, Torn,      \* a path without a file, or with half of one
  NoKey, BadKey,     \* MASKEDRUNNER_SIGNING_KEY is not set, or is unusable
  NoPath,            \* no certificate is asked for
  SigningKey,        \* host -> key, NoKey or BadKey
  Ephemeral,         \* host -> the key it draws when it has none
  TrustedKeys,       \* host -> the keys of MASKEDRUNNER_TRUSTED_KEYS
  Loads,             \* what the hosts are asked: host -> commands and requests
  Broken,            \* specifications and observations that do not load
  WorkflowOf,        \* specification -> the name of its workflow
  Records,           \* run -> how many records its observation has
  Unlogged,          \* specification -> run -> unlogged steps it takes to explain it
  Restored,          \* specification -> run -> digests it takes evidence for to explain it
  Shown,             \* run -> every `digest' among the arguments of its effects
  Passed,            \* run -> digests it builds and tests
  Unreal,            \* those that start with ~ or <unresolved:
  Huge,              \* runs whose search may reach the state cap
  MaxEdits           \* bound: certificates edited by hand

(* Nothing ties what a run shows to what it builds or restores: the search  *)
(* looks at no argument of an effect that its template does not name, and   *)
(* another specification of the same workflow may ask for no evidence.     *)
(*                                                                         *)
(* A command [tool |-> "cli", ...] presents the files of `evidence'; a      *)
(* request [tool |-> "service", ...] presents at most one run, by its id.   *)
ASSUME LoadsAssumption ==
  \A load \in Loads : load = [h \in Hosts |-> load[h]] /\ \A h \in Hosts : \A a \in load[h] :
    /\ a.spec \in Specs /\ a.run \in Runs /\ a.slack \in Nat
    /\ a.extra \subseteq Keys /\ a.out \in Paths \cup {NoPath}
    /\ \/ a.tool = "cli" /\ a.evidence \in Seq(Paths)
       \/ a.tool = "service" /\ a.evidence \in Seq(Runs) /\ Len(a.evidence) <= 1

ASSUME KeysAssumption ==
  /\ {NoKey, BadKey} \cap Keys = {}
  /\ \A h \in Hosts : SigningKey[h] \in Keys \cup {NoKey, BadKey} /\ Ephemeral[h] \in Keys

ASSUME NumbersAssumption ==
  /\ MaxEdits \in Nat
  /\ \A r \in Runs : Records[r] \in Nat
  /\ \A s \in Specs, r \in Runs : Unlogged[s][r] \in Nat

VARIABLES
  files,             \* path -> NoFile, Torn or a signed certificate
  todo,              \* host -> commands and requests to come
  pc, ask,           \* host -> where it stands, in which command
  pending,           \* host -> evidence not loaded yet
  presented,         \* host -> digests presented to the net
  outcome,           \* host -> "accept", "reject", "exhausted" or "none"
  robust,            \* host -> "none", or whether the widened search still rejects
  edits,             \* how many files were edited
  issued,            \* history: every certificate that was signed
  judged             \* history: every verdict that was reported

vars == <<files, todo, pc, ask, pending, presented, outcome, robust, edits, issued, judged>>

Idle == [tool |-> "none"]   \* a host without a command

Init ==
  /\ files = [p \in Paths |-> NoFile]
  /\ todo \in Loads
  /\ pc = [h \in Hosts |-> "idle"] /\ ask = [h \in Hosts |-> Idle]
  /\ pending = [h \in Hosts |-> <<>>] /\ presented = [h \in Hosts |-> {}]
  /\ outcome = [h \in Hosts |-> "none"] /\ robust = [h \in Hosts |-> "none"]
  /\ edits = 0 /\ issued = {} /\ judged = {}

Goto(h, l) == pc' = [pc EXCEPT ![h] = l]

(* A command ends and leaves nothing behind but what it wrote.             *)
Exit(h) ==
  /\ Goto(h, "idle")
  /\ ask' = [ask EXCEPT ![h] = Idle]
  /\ pending' = [pending EXCEPT ![h] = <<>>] /\ presented' = [presented EXCEPT ![h] = {}]
  /\ outcome' = [outcome EXCEPT ![h] = "none"] /\ robust' = [robust EXCEPT ![h] = "none"]

Stay(h, l) == Goto(h, l) /\ UNCHANGED <<ask, pending, presented, outcome, robust>>

-----------------------------------------------------------------------------
(* Certificates                                                            *)

Workflow(a) == WorkflowOf[a.spec]

(* explain(): the digests of the effects of an accepted run.               *)
Attested(r, verdict) == IF verdict = "accept" THEN Shown[r] \ Unreal ELSE {}

Certificate(a, found, wide) ==
  [workflow |-> Workflow(a), spec |-> a.spec, run |-> a.run,
   verdict |-> IF found = "accept" THEN "accept" ELSE "reject",
   robust |-> wide, digests |-> Attested(a.run, found)]

(* sign(): with the key of the environment, or a new one.                  *)
Key(h) == IF SigningKey[h] = NoKey THEN Ephemeral[h] ELSE SigningKey[h]

Signed(h, body) == [body |-> body, payload |-> body, key |-> Key(h), signature |-> <<Key(h), body>>]

(* Mistake the runs must notice: the hash of the body stands in for the     *)
(* signature.                                                              *)
VerifiesByHash(c) == c.payload = c.body

Verifies(c) == c.payload = c.body /\ c.signature = <<c.key, c.body>>

Anchor(h, extra) == TrustedKeys[h] \cup extra \cup ({SigningKey[h]} \cap Keys)

(* load_evidence(), on the text it has read.                               *)
Believable(h, a, c) ==
  /\ c \notin {NoFile, Torn}
  /\ Verifies(c) /\ c.key \in Anchor(h, a.extra)
  /\ c.body.verdict = "accept" /\ c.body.workflow = Workflow(a)
  /\ c.body.digests # {}

(* Mistake the runs must notice: a binding is restored without evidence. *)
ExplainableAnyway(s, r, slack, digests) == Unlogged[s][r] <= slack

(* What verify() may answer: module Decision.                              *)
Explainable(s, r, slack, digests) ==
  Unlogged[s][r] <= slack /\ Restored[s][r] \subseteq digests

Found(s, r, slack, digests, answer) ==
  \/ answer = "accept" /\ Explainable(s, r, slack, digests)
  \/ answer = "reject" /\ ~ Explainable(s, r, slack, digests)
  \/ answer = "exhausted" /\ r \in Huge

-----------------------------------------------------------------------------
(* run_verify() and evaluate()                                             *)

Opens(a) == {a.spec, a.run} \cap Broken = {}

Invoke(h) ==
  \E a \in todo[h] :
    /\ pc[h] = "idle" /\ todo' = [todo EXCEPT ![h] = @ \ {a}]
    /\ IF Opens(a)
         THEN /\ Goto(h, "evidence")
              /\ ask' = [ask EXCEPT ![h] = a]
              /\ pending' = [pending EXCEPT ![h] = a.evidence]
              /\ presented' = [presented EXCEPT ![h] = {}]
         ELSE UNCHANGED <<pc, ask, pending, presented>>
    /\ UNCHANGED <<files, outcome, robust, edits, issued, judged>>

Loading(h, tool) == pc[h] = "evidence" /\ ask[h].tool = tool /\ pending[h] # <<>>

Give(h, digests) ==
  /\ presented' = [presented EXCEPT ![h] = @ \cup digests]
  /\ pending' = [pending EXCEPT ![h] = Tail(@)]

Present(h) ==
  /\ Loading(h, "cli")
  /\ LET c == files[Head(pending[h])]
     IN  Believable(h, ask[h], c) /\ Give(h, c.body.digests)
  /\ UNCHANGED <<files, todo, pc, ask, outcome, robust, edits, issued, judged>>

(* One file that is not believed, and there is no verdict.                 *)
RefuseEvidence(h) ==
  /\ Loading(h, "cli")
  /\ ~ Believable(h, ask[h], files[Head(pending[h])])
  /\ Exit(h)
  /\ UNCHANGED <<files, todo, edits, issued, judged>>

(* present_from_run(): the run is judged as it stands, and its certificate *)
(* signed and verified on the spot.  One that attests nothing, and one that *)
(* cannot be signed, is reported and the request goes on without it.        *)
PresentFromRun(h) ==
  LET from == [ask[h] EXCEPT !.run = Head(pending[h])]
      digests == Attested(from.run, "accept")
      c == Signed(h, Certificate(from, "accept", "none"))
  IN  /\ Loading(h, "service")
      /\ \E answer \in {"accept", "reject", "exhausted"} :
           /\ Found(from.spec, from.run, 0, {}, answer)
           /\ IF from.run \notin Broken /\ answer = "accept" /\ SigningKey[h] # BadKey
                THEN issued' = issued \cup {c} /\ Give(h, digests)
                ELSE issued' = issued /\ Give(h, {})
      /\ UNCHANGED <<files, todo, pc, ask, outcome, robust, edits, judged>>

(* Every path ends here: what is asked is what is judged.                   *)
Search(h) ==
  /\ pc[h] = "evidence" /\ pending[h] = <<>>
  /\ \E answer \in {"accept", "reject", "exhausted"} :
       /\ Found(ask[h].spec, ask[h].run, ask[h].slack, presented[h], answer)
       /\ outcome' = [outcome EXCEPT ![h] = answer]
       /\ Goto(h, IF answer = "accept" THEN "report" ELSE "widen")
  /\ UNCHANGED <<files, todo, ask, pending, presented, robust, edits, issued, judged>>

WideSlack(r) == Records[r] + 4

(* Mistake the runs must notice: the widened search is not widened. *)
WidenNot(h) ==
  /\ pc[h] = "widen"
  /\ \E answer \in {"accept", "reject", "exhausted"} :
       /\ Found(ask[h].spec, ask[h].run, ask[h].slack, presented[h], answer)
       /\ robust' = [robust EXCEPT ![h] = IF answer = "accept" THEN "no" ELSE "yes"]
  /\ Goto(h, "report")
  /\ UNCHANGED <<files, todo, ask, pending, presented, outcome, edits, issued, judged>>

(* Mistake the runs must notice: when the widened search was cut short, the *)
(* command starts over.                                                    *)
WidenUntilSettled(h) ==
  /\ pc[h] = "widen"
  /\ \E answer \in {"accept", "reject", "exhausted"} :
       /\ Found(ask[h].spec, ask[h].run, WideSlack(ask[h].run), presented[h], answer)
       /\ robust' = [robust EXCEPT ![h] = IF answer = "accept" THEN "no" ELSE "yes"]
       /\ Goto(h, IF answer = "exhausted" THEN "evidence" ELSE "report")
  /\ UNCHANGED <<files, todo, ask, pending, presented, outcome, edits, issued, judged>>

(* Whatever is not accepted counts as robust, a search that was cut short   *)
(* included.                                                               *)
Widen(h) ==
  /\ pc[h] = "widen"
  /\ \E answer \in {"accept", "reject", "exhausted"} :
       /\ Found(ask[h].spec, ask[h].run, WideSlack(ask[h].run), presented[h], answer)
       /\ robust' = [robust EXCEPT ![h] = IF answer = "accept" THEN "no" ELSE "yes"]
  /\ Goto(h, "report")
  /\ UNCHANGED <<files, todo, ask, pending, presented, outcome, edits, issued, judged>>

(* Mistake the runs must notice: a host without a usable key signs. *)
ReportUnkeyed(h) ==
  /\ pc[h] = "report"
  /\ judged' = judged \cup {[ask |-> ask[h], presented |-> presented[h],
                             outcome |-> outcome[h], robust |-> robust[h]]}
  /\ IF ask[h].tool = "cli" /\ ask[h].out # NoPath THEN Stay(h, "sign") ELSE Exit(h)
  /\ UNCHANGED <<files, todo, edits, issued>>

(* The verdict is out before a certificate is signed or written.           *)
Report(h) ==
  /\ pc[h] = "report"
  /\ judged' = judged \cup {[ask |-> ask[h], presented |-> presented[h],
                             outcome |-> outcome[h], robust |-> robust[h]]}
  /\ IF ask[h].tool = "cli" /\ ask[h].out # NoPath /\ SigningKey[h] # BadKey
       THEN Stay(h, "sign") ELSE Exit(h)
  /\ UNCHANGED <<files, todo, edits, issued>>

Issued(h) == Signed(h, Certificate(ask[h], outcome[h], robust[h]))

(* fs::write empties the file before it fills it.                          *)
Issue(h) ==
  /\ pc[h] = "sign"
  /\ issued' = issued \cup {Issued(h)}
  /\ files' = [files EXCEPT ![ask[h].out] = Torn]
  /\ Stay(h, "write")
  /\ UNCHANGED <<todo, edits, judged>>

Write(h) ==
  /\ pc[h] = "write"
  /\ files' = [files EXCEPT ![ask[h].out] = Issued(h)]
  /\ Exit(h)
  /\ UNCHANGED <<todo, edits, issued, judged>>

(* The process is killed while it writes; killed earlier, it leaves no     *)
(* trace.                                                                  *)
Crash(h) ==
  /\ pc[h] = "write" /\ Exit(h)
  /\ UNCHANGED <<files, todo, edits, issued, judged>>

(* A certificate in which the verdict and the digests are changed, and     *)
(* perhaps the hash made to fit.                                           *)
Edited(c, r, refresh) ==
  LET body == [c.body EXCEPT !.verdict = "accept", !.digests = Shown[r]]
  IN  [c EXCEPT !.body = body, !.payload = IF refresh THEN body ELSE c.payload]

Edit(p) ==
  /\ edits < MaxEdits /\ edits' = edits + 1
  /\ files[p] \notin {NoFile, Torn}
  /\ \E r \in Runs, refresh \in BOOLEAN : files' = [files EXCEPT ![p] = Edited(files[p], r, refresh)]
  /\ UNCHANGED <<todo, pc, ask, pending, presented, outcome, robust, issued, judged>>

Handle(h) ==
  \/ Present(h) \/ RefuseEvidence(h) \/ PresentFromRun(h)
  \/ Search(h) \/ Widen(h) \/ Report(h) \/ Issue(h) \/ Write(h)

Next ==
  \/ \E h \in Hosts : Invoke(h) \/ Handle(h) \/ Crash(h)
  \/ \E p \in Paths : Edit(p)

Spec == Init /\ [][Next]_vars

(* A process that runs keeps running; nobody needs to start one.           *)
FairSpec == Spec /\ \A h \in Hosts : WF_vars(Handle(h))

-----------------------------------------------------------------------------
Digests == UNION {Shown[r] : r \in Runs}

Bodies ==
  [workflow : {WorkflowOf[s] : s \in Specs}, spec : Specs, run : Runs,
   verdict : {"accept", "reject"}, robust : {"none", "yes", "no"}, digests : SUBSET Digests]

Files == [body : Bodies, payload : Bodies, key : Keys, signature : Keys \X Bodies]

Given == UNION {load[h] : load \in Loads, h \in Hosts}

(* The type invariant: what is on disk, what each host works on, and the   *)
(* certificates signed so far; only a command that asked for a certificate *)
(* and has a key comes to sign one.                                        *)
TypeOK ==
  /\ files \in [Paths -> {NoFile, Torn} \cup Files]
  /\ issued \subseteq Files
  /\ edits \in 0 .. MaxEdits
  /\ todo \in [Hosts -> SUBSET Given]
  /\ pc \in [Hosts -> {"idle", "evidence", "widen", "report", "sign", "write"}]
  /\ ask \in [Hosts -> Given \cup {Idle}]
  /\ DOMAIN pending = Hosts
  /\ presented \in [Hosts -> SUBSET Digests]
  /\ outcome \in [Hosts -> {"accept", "reject", "exhausted", "none"}]
  /\ robust \in [Hosts -> {"none", "yes", "no"}]
  /\ \A h \in Hosts :
       /\ pc[h] = "idle" <=> ask[h] = Idle
       /\ pending[h] \in Seq(IF ask[h].tool = "service" THEN Runs ELSE Paths)
       /\ pc[h] \in {"sign", "write"} => ask[h].out \in Paths /\ SigningKey[h] # BadKey

Accepted(w) == {c \in issued : c.body.verdict = "accept" /\ c.body.workflow = w}

(* A digest reaches a net only out of a certificate that a host issued for  *)
(* an accepted run of the same workflow, with a key the presenting host     *)
(* trusts, whatever was edited, cut short or overwritten on the way         *)
(* (load_evidence, present_from_run).                                      *)
Grounded ==
  \A h \in Hosts : \A d \in presented[h] :
    \E c \in Accepted(Workflow(ask[h])) :
      /\ d \in c.body.digests
      /\ c.key \in Anchor(h, ask[h].extra) \cup
           (IF ask[h].tool = "service" THEN {Key(h)} ELSE {})

(* Two certificates cannot vouch for one another: however many rollbacks    *)
(* attest a digest that reaches a net, one accepted run of that workflow    *)
(* attested it without evidence for it (attested_digests in explain()).     *)
(* More cannot be said: that run need not have built what it shows.         *)
Rooted ==
  \A h \in Hosts : \A d \in presented[h] :
    \E c \in Accepted(Workflow(ask[h])) :
      d \in c.body.digests \ Restored[c.body.spec][c.body.run]

(* "Because the certificate proves that digest already passed build and     *)
(* test" (README.md): what is presented, some accepted run of the workflow  *)
(* built and tested.                                                       *)
PassedBuildAndTest ==
  \A h \in Hosts : \A d \in presented[h] :
    \E c \in Accepted(Workflow(ask[h])) : d \in Passed[c.body.run]

(* A rejection is called robust when no number of unlogged steps up to the  *)
(* widened slack explains the run, unless that search may have been cut     *)
(* short, and is not called so only when some number does (run_verify,     *)
(* evaluate_with).                                                         *)
RobustHolds ==
  \A j \in judged :
    LET Within == \E k \in 0 .. WideSlack(j.ask.run) :
                    Explainable(j.ask.spec, j.ask.run, k, j.presented)
    IN  j.outcome # "accept" => /\ j.robust = "no" => Within
                                /\ j.robust = "yes" /\ j.ask.run \notin Huge => ~ Within

(* A command that was started ends, whatever the files hold.               *)
Finishes == \A h \in Hosts : pc[h] # "idle" ~> pc[h] = "idle"

=============================================================================
