----------------------------- MODULE Onboarding -----------------------------
(***************************************************************************)
(* A workflow file on its way to a net: generate(), lint(), compile()      *)
(* (post_onboard and run_generate call them in this order).  The runs of   *)
(* the net are compared with what GitHub runs: a job starts when the jobs   *)
(* it needs have succeeded.                                                *)
(***************************************************************************)
EXTENDS Lint, Generate

CONSTANTS
  Workflows,   \* the workflow files
  NoWorkflow   \* stands for a specification written by hand

ASSUME WorkflowsAssumption ==
  \A w \in Workflows :
    /\ w.jobs \in Seq(Range(w.jobs))
    /\ \A i \in DOMAIN w.jobs : w.needs[w.jobs[i]] \in Seq(Range(w.needs[w.jobs[i]]))

ASSUME NoWorkflowAssumption == NoWorkflow \notin Workflows

VARIABLE wf    \* the workflow file

OnboardInit ==
  \/ wf \in Workflows /\ Begin(Generated(wf))
  \/ wf = NoWorkflow /\ Init

OnboardSpec == OnboardInit /\ [][Next /\ UNCHANGED wf]_<<vars, wf>>

-----------------------------------------------------------------------------
Models == wf \in Workflows /\ phase = "play" /\ IsSound

NeedsOf(j) == {Slug[n] : n \in Range(wf.needs[j])}

(* Jobs without needs share the token of the start, and jobs that need the *)
(* same one share the token behind it: only one of them can run.           *)
Shares(i, j) == Range(Consumes(wf, i)) \cap Range(Consumes(wf, j)) # {}

Unshared(j) ==
  /\ \A a, b \in DOMAIN Consumes(wf, j) : Consumes(wf, j)[a] = Consumes(wf, j)[b] => a = b
  /\ \A i \in DOMAIN wf.jobs : Slug[wf.jobs[i]] \in Range(fired) => ~ Shares(wf.jobs[i], j)

(* A path of a sound generated net runs a job once, and only after the     *)
(* jobs it needs: no verdict explains a run that jumped ahead.  And a job  *)
(* whose needs have run can run, unless it lists a need twice or a job     *)
(* that took one of its tokens ran before it.                              *)
JobsFollowNeeds ==
  Models =>
    /\ \A k \in DOMAIN fired :
         /\ \A l \in 1 .. (k - 1) : fired[l] # fired[k]
         /\ \E i \in DOMAIN wf.jobs :
              /\ fired[k] = Slug[wf.jobs[i]]
              /\ \A n \in NeedsOf(wf.jobs[i]) : \E l \in 1 .. (k - 1) : fired[l] = n
    /\ \A i \in DOMAIN wf.jobs :
         LET j == wf.jobs[i]
         IN  NeedsOf(j) \subseteq Range(fired) /\ Slug[j] \notin Range(fired) /\ Unshared(j) =>
               Choices(TransitionOf(wf, j)) # {}
=============================================================================
