# MaskedRunner: verification development

MaskedRunner reads the declared workflow of a release pipeline (a Petri net in
YAML) and the logs a run of it left behind, and decides whether some legal
execution of the workflow explains the logs. This directory holds TLA+ models of
the program, the TLC configurations that check them, and proofs that TLAPS
checks. Paths below are relative to the repository; `engine/` stands for
`src/crates/engine/src/`.

- [1. The system](#1-the-system)
- [2. The modules](#2-the-modules)
- [3. The runs](#3-the-runs)
- [4. The proofs](#4-the-proofs)
- [5. What the checks found](#5-what-the-checks-found)
- [6. What is not modelled](#6-what-is-not-modelled)
- [7. What could follow](#7-what-could-follow)

## 1. The system

| Component | State it keeps | Operations | Hard part | What makes it correct |
|---|---|---|---|---|
| observation (`engine/observation.rs`) | records, edges, planes of one run | `validate`, `order`, look-ups, `facts`, `restrict`, `hash` | three clocks, cycles, Kahn's loop on unsigned counters | an order exactly when one exists; clocks respected within a plane |
| workflow net (`engine/net.rs`) | places, transitions, relations; markings | `compile`, `choices`, `fire`, `match_template`, `check_edges`, `check_obligations`, guards, evidence | several tokens per place, shared variables, the cap on choices | tokens conserved, bindings agree, obligations discharged by earlier steps |
| search (`engine/verify.rs`) | stack of search states, seen keys, best state, failure log | `verify`, `expand_observed`, `expand_slack`, `permissiveness` | lost log lines (slack), pruning, caps, what a rejection reports | ACCEPT iff a legal run explains the logs; an honest witness |
| wsl: loading, lint (`wsl/src/lint.rs`) | the specification | parse, hash, `lint` | coverability fixpoint, bindings guaranteed along every path | what is called dead never happens; what is called sound finds its variables |
| wsl: generate (`wsl/src/generate.rs`) | none | `guess_effect`, `generate` | jobs that share needs | a run of the generated net is a run of the jobs |
| wsl: mutate (`wsl/src/mutate.rs`) | none | the mutants of a specification | | |
| explain: certificates (`explain/src/lib.rs`, `certificate.rs`) | certificates in files | `explain`, `sign`, `trust_anchor`, `check_trusted`, `verify_signature` | rollbacks that attest rollbacks, files edited, cut short, overwritten | every digest that counts was attested by an accepted run that needed no evidence for it |
| explain: minimal facts (`explain/src/mus.rs`) | call frames | `extract`, `quickxplain`, `shrink` | a costly, possibly non-monotone oracle | the reported core is unsatisfiable and minimal |
| adapters (`adapters/src`) | records and edges built so far | `normalize` of a bundle and of a GitHub run | events in any order, matrix legs, lines delivered twice, provenance | only what was legal is explained, and what was legal is, matrix legs without facts aside |
| policy (`policy/src`) | a bot's permissions | `evaluate` | deny before allow | forbidden effects are found |
| api (`api/src/main.rs`) | loaded spec, registry of onboarded specs behind a RwLock | HTTP handlers | concurrent requests, poisoned lock, cap | a request sees one specification |
| cli (`cli/src/main.rs`) | none | commands, exit codes | evidence, widened search | exit code follows verdict |
| web console (`web/app.js`) | the run and tab on screen | asynchronous fetches | late answers | the screen shows the run selected |

How they interact: the command line and the service load a specification
(`wsl`), compile it (`Net::compile`), load or normalise an observation,
`validate()` it (all but `scenario_leg` of the command line, which takes a bundle
it has normalised as it is), present the digests that earlier certificates attest
(`present_evidence`), call `verify` with `VerifyOptions::for_observation`, call
`verify` again with a wide slack when it rejects, and hand the outcome to
`explain`, which calls `verify` on restricted observations. Everything passes by
function call within one thread; only the service runs several requests at once.

## 2. The modules

| Module | Stands for | Notes |
|---|---|---|
| `Observation` | `engine/observation.rs`: effects, planes, direct predecessors, `validate` | operators only |
| `WorkflowNet` | `engine/net.rs`: markings, choices, firing, matching, obligations, evidence, edges | operators over a net given as constants, with the assumptions the proofs use |
| `Order` | Kahn's loop in `Observation::order` | one action per branch of each loop |
| `Verify` | `verify`, `expand_observed`, `expand_slack` | one action per branch; see below |
| `VerifyProperties` | what every search state and the outcome satisfy | state predicates |
| `Decision` | the promise: one verdict, the right one | abstract specification |
| `LegalRun` | what a legal run is, without the search | declarative, bags instead of Vecs |
| `VerifyReference` | `Verify` implements `Decision` with `LegalRun` deciding | `D == INSTANCE Decision` |
| `Registry` | `post_onboard`, `post_live` and the `RwLock` between them in `api/src/main.rs` | one action per step of a handler |
| `Mus` | `explain/src/mus.rs`: `extract`, `quickxplain`, `shrink` | explicit call frames, an arbitrary oracle |
| `Evidence` | `explain/src/lib.rs`, `certificate.rs`, `run_verify` and `load_evidence` of the command line, `evaluate` and `present_from_run` of the service | hosts that share files; the search is what `Decision` promises |
| `Lint` | `wsl/src/lint.rs`, and the token game of the net `Net::compile` makes of the same specification | the loop transition by transition, pass by pass |
| `Generate` | `wsl/src/generate.rs` | operators only |
| `Onboarding` | generate, lint, compile, as `post_onboard` and the commands `generate` and `lint` chain them | `Lint` with `Generate` |
| `Normalize` | `adapters/src/lib.rs`, `github.rs` | one action per event |
| `Ingest` | `run_ingest`, `run_ingest_actions`, and the judgement that follows | `Normalize` with `LegalRun` |
| `OrderProofs`, `VerifyProofs`, `SearchProofs`, `RegistryProofs`, `MusProofs`, `EvidenceProofs`, `LintProofs`, `NormalizeProofs` | theorems | section 4 |
| `MCNet` | notation for nets and logs, the ways a log departs from a clean run | |
| `MCRelease`, `MCVerify` | `spec/release.wsl.yaml` and `fixtures/` | |
| `MCToy`, `MCFindings` | an assembly workflow with what the release workflow lacks | |
| `MCOrder` | all graphs over N records | |
| `MCRegistry` | five requests that meet at the registry | |
| `MCMus` | lists of facts and oracles | |
| `MCEvidence` | four hosts, nine runs, what they are asked | |
| `MCLint` | graphs of needs, nets written by hand | |
| `MCIngest` | courses of events and the logs they leave | |

### The search, action by action

`Verify` has the program counter `pc` of one call of `verify()`:

    start -> pop -> observed <-> fire
              ^        |
              |        v
              +----- slack <-> invent          pop, exhausted -> conclude -> done

- `start`: `RejectEdges` or `Begin` (`engine/verify.rs` 141-177).
- `pop`: `PopExhausted`, `PopDiscarded`, `Accept`, `Expand`, `SearchEmpty`: the
  head of the while loop up to the expansion (179-231).
- `observed`: the loop over records in `expand_observed`; `SkipRecord`,
  `UnknownStep`, `IdentityMismatch`, `NotEnabled`, `EffectShapeMismatch` are its
  early continues, each with the failure it logs, `TryRecord` enters the loop
  over token choices, `RecordsDone` leaves.
- `fire`: one choice of tokens: `EffectArgMismatch`, `NotAttested`, `GuardFalse`,
  `ObligationUnmet`, or `FireObserved`, which pushes the successor.
- `slack` and `invent`: the same for `expand_slack`, where a step that left no
  line is supposed. `SilentMismatch`, `SilentRefused`, `SilentObligationUnmet`,
  `FireSilent`.
- `conclude`: the failures, the blocked record, the outcome (233-286).

A choice of tokens that the loops have still to try is in `alts`, and each action
takes the first in the order of the loops (`LoopsBefore`), so the order in which
successors are pushed, states popped and failures logged is the code's.

### The registry, handler by handler

Each request has a program counter. `post_onboard` is `Refuse` (a bad file or
name), `NotSound` (answered, not registered), `Queue` (it reaches `specs_write`),
then under the write lock `RegistryFull` or `Insert`. `post_live` is `ReadMap`
(the first read, whose guard is dropped at the end of the expression), `Invalid`
or `Unverifiable` (early answers), `Choose` (the second read and the choice of a
specification), `Judge` (the search, and the guard dropped with the answer) or
`Panic` (the same with a panic that `CatchPanicLayer` turns into an answer). A
reader waits as long as a writer waits, the strictest policy an `RwLock` may
have: what is answered under it is answered under the others.

### The minimal explanation, call by call

`Mus` keeps the frames of `quickxplain` on `stack`: background, `delta_used`, a
slice of the list of facts, and what the frame awaits. `Prune`, `Single` and
`Join` return, `Split` and `LeftHalf` call. A call on no fact at all splits into two
empty halves and makes itself again: `Overflow` is the end of a thread whose stack,
`StackLimit` calls deep, is used up. `CoreFound`, `Remove`, `Keep`,
`NextPass` and `Conclude` are the passes of `shrink`. The oracle, a whole search
per question in the code, is any set of rejected sets of facts.

### Evidence, host by host

A host is a process of the command line or a worker of the service. `Invoke`
takes the next command or request; `Present`, `RefuseEvidence` and
`PresentFromRun` are the loop over evidence (`load_evidence`, one file after
another, the first that is not believed ends the command; `present_from_run`,
which judges, signs and verifies on the spot, and goes on without evidence when
that fails). `Search` and `Widen` are the two calls of `verify`, `Report` is the
verdict, `Issue` and `Write` the two halves of `fs::write`, and `Crash` falls
between them. `Edit` changes a certificate on disk, with or without making its
hash fit. A signature is the pair of key and body it was made from: nobody signs
without the key. `Explainable` says of a run how many unlogged steps it needs
and which digests it restores; a search answers by it or, for runs in `Huge`,
may answer that it was exhausted.

What ties a certificate to a specification is the workflow's name:
`load_evidence` reads `spec_hash` and compares it with nothing. So `Restored`, the
digests a run takes evidence for, depends on the specification (`lax` in `MCEvidence`
is an older release workflow that asks for none), and `Shown`, what `explain` attests
of an accepted run, is any `digest` among the arguments of its effects: the search
looks only at arguments a template names (`engine/net.rs` 413), and a line may carry
others. Nothing in the model ties what a run shows to what it built.

### The linter and the net

`Examine` and `Pass` are the body and the end of a pass of
`structural_coverability`, `Report` all the diagnostics W001 to W022, `Play` a
firing of the compiled net: `compile` leaves out places nobody declares, and a
token keeps the carried variables that were bound. Guards, values and evidence
only forbid firings, so what holds of every firing holds without them.
`Generated` translates the text `generate` writes into what the parser reads.

### From logs to a verdict

`SkipJob`, `RecordJob`, `TakeEntry`, `TakeEvent` take one event each in the order
of the log; `Resolve` draws the edges of GitHub facts when all jobs are in;
`Finish` sorts by time and id and validates. A bundle draws the edge of a registry
event at once, to what was built so far: jobs and audit entries come first, so
only an artifact created by a later registry event could lose its edge, and no
map in `spec/` declares one.

### What is abstracted

- A place is a set of tokens that remember their birth `<<depth, slot>>`; the Vec
  of the code is that set in order of birth. `VerifyProofs` proves that births
  tell the tokens of a marking apart (`MarkingOK`).
- `Net::canonical` renders the marking as text for the `seen` key, every value as it
  is with separators between them (`engine/net.rs` 378-394), and the key of a state
  joins effect ids with commas (`engine/verify.rs` 188-203). Both are modelled as the
  structured values they render: the multiset of token contents of each place, the
  set of effect ids. Two states whose names contain the separators could share a key
  in the code and do not in the model.
- A glob is the set of values it matches; principals are matched by the set
  `admits`; `classify()` decides at compile time what is a variable.
- Strings are named values. The fresh values `~fresh<n>` are `FreshValue(n)`.
- Failures keep their kind and what a property reads. `EffectMismatch` stands for
  both failures of `match_template`; the failure log is a set (the code removes
  duplicates when it reports).
- `blocked` keeps the first step record that the best state leaves open.
- Record ids are positions, so a clash of record ids, which `validate` also
  rejects, cannot be written down.
- In `Registry` a workflow file stands for the specification generated from it;
  of a specification remain its transitions and the map from jobs to steps, and
  the search itself is one step. `BadNames` stands for the length test on names.
- In `Lint` an emission keeps the variables it refers to, its effect and its
  obligations; in `Generate` a step keeps the keywords found in its label.
- In `Normalize` a template holds one `${key}` between two texts, an id is its rank
  among the ids (compared as strings in the code, so 10 sorts before 9), and how a
  name splits into head, tail and base, and its slug, are constants. The stable
  sort is what it does: a record comes behind those that are ahead of it.

## 3. The runs

| Run | Question | Instance |
|---|---|---|
| `release_search` | Is the verdict right (`Decides`: `Verify` implements `Decision`), is every search state sound, is what is reported true, and does `verify()` return (`SearchReturns`)? | release workflow, six fixtures, all logs one departure away, two departures from the rollback fixture, slack 0 to 2; the fixtures with state caps of 1, 3 and 5 too |
| `assembly` | Is the verdict right when tokens share a place, are tokens conserved, and are invented values distinct? | assembly workflow, departures, incomplete planes, unseen and valueless cuts, slack 0 and 1, state caps 5 and 200000 |
| `order` | Does Kahn's loop decide acyclicity, with exact books, and return? | every graph on four records |
| `registry` | Does the registry keep its cap, its entries and its lock right, and is every request answered? | two versions of one repository, another one, a bad one; two runs; cap 2 |
| `mus` | Is the reported set rejected and minimal, and does `extract` return? | no fact, every oracle on three facts in every order, oracles with a healing fact on four and five |
| `evidence` | Can certificates vouch for one another in a circle? Does robust mean what it says, up to the widened slack? Does every command end? | four hosts, two files, six sets of commands, one edit |
| `lint` | Are the diagnostics true of the net, does a sound net keep its bindings, does a generated one follow the needs? | 648 workflow files of three jobs, three odd ones, twelve nets by hand, four firings |
| `ingest` | Is a run explained when what happened was legal, and only then? | 24 courses of events as a bundle and twelve as GitHub jobs, in every listing of the jobs, matrix legs in either order and facts about one leg or both; the lists with a line delivered twice keep one order |

A departure is what happens to logs: a line lost, a step known only by its
effect, a step filed under another plane, no common clock at all, another
principal, an unknown step name, another digest or scope, two neighbours
swapped in time, a step performed again, an incomplete plane, no edges.

The other runs (`clock_gap`, `rejection_proof`, `registry_map`, `evidence_passed`) each end in a counterexample, and section 5 says which statement
of the repository it contradicts.

**Bounds.** The fixtures have three to five records; the release workflow has one
loop (a build may be repeated) and one transition that consumes nothing (the
emergency grant), so slack 2 already lets the search invent an unbounded branch
once per allowed step and meet itself again through `seen`. Two tokens of one
place, two emissions of one kind and tokens that disagree need the assembly
workflow: three pieces of stock make six ways to fill the two slots of
`stack_left`. State caps of 1, 3 and 5 fall inside the searches, so the exhausted
branch is taken. Four records are enough for Kahn's loop to meet a cycle
with a tail, two components, and a record with three predecessors.

The registry's cap of 256 is 2, one more than what is loaded at startup: two new
names compete for the last place and a third request replaces an entry. Three
onboarding and two live requests are enough for a writer to fall between the two
reads of a run, twice, while another run holds the lock. Three facts under every
oracle give `quickxplain` both halves empty or not, pruned or not; four and five
give it two levels of recursion, lists with an edge observed twice included. A stack
of six calls has room for one more than the longest list asks for, and the empty list
uses it up.

In `evidence` the six sets of commands are those whose interleavings matter: two
rollbacks that write where the other reads, a certificate of one workflow
offered to another, runs with unlogged steps and with a search that may be cut
short, a rollback judged by a specification that asks for no evidence, a run that
shows a digest it did not build, service requests that name good, bad and broken runs, and a host whose key
is unusable. One edit is enough to forge a verdict and digests; a second edit of
the same file is an edit of a file nobody signed. Three jobs give needs in
sequence, in parallel, joined, crossed and cyclic; four firings exceed the three
any of them can make. The ingest listings are all permutations of four or five jobs (two of them legs of one test in `MatrixJobs`).

**Fairness.** `verify()` and `order()` are sequential functions: the thread that
entered them runs them. Weak fairness of `Next` is all the liveness properties
assume, and it stands for exactly that; `FairOnFixtures` assumes it of the searches
`SearchReturns` speaks of, those of the fixtures. In the registry every handler is fair on
its own (`WF_vars(Handle(r))`): tokio runs each request on some thread, and the
handlers await nothing but the lock, which is held for a bounded time. In
`Evidence` a host that has begun a command goes on with it (`WF_vars(Handle(h))`):
a process runs until it exits; nothing obliges anyone to start one, to edit a file
or to kill a process, and a process killed has ended too. That no
handler is overtaken for ever needs no strong fairness, because waiting writers
stop new readers.

**Deadlock** checking is off: a function that has returned takes no more steps.

**What each property is about**

- `Decides`: ACCEPT implies that `LegalRun` finds an execution, REJECT that it
  finds none or that the outcome admits exhaustion; nothing changes after that.
- `Accounting`, `WitnessOrdered`, `BoundNeverCuts`: the counters of a search
  state agree with its path, and the depth bound is never what loses a run.
- `EffectsRealized`, `WitnessAuthorized`, `CompletePlanesBelieved`: what the
  witness of an accepted run must look like to an auditor who replays it.
- `LongestPrefix`: the prefix a rejection reports cannot be bettered.
- `TokensConserved`, `FreshNamesDistinct`: replay with counters; unknown values
  stay unknown.
- `Bookkeeping` (exact counters, nothing queued twice or forgotten), `Correct`: Kahn's
  loop.
- `WithinCap`, `NeverUnavailable`, `OwnMapOwnModel`, `Answered`: the registry under
  requests in any order. `NeverUnavailable` is the claim of a comment that a branch
  is unreachable; `OwnMapOwnModel` is what remains true of the two reads although
  `MapOfModel` is not.
- `CallsRejected`, `CoreRejected`, `LocallyMinimal`, `DivideSuffices`, `Returns`: the
  minimal explanation, with an oracle that need not be monotone except in
  `DivideSuffices`, which says that a monotone one leaves the deletion pass idle.
  `Returns` also says where `extract` does not: on an empty list the oracle rejects,
  and `TypeOK` that it is the only list to use up the stack.
- `Grounded`: behind every digest a net believes stands a certificate that a host
  issued for an accepted run of that workflow, with a key the presenting host
  trusts. `Rooted`: however often the digest was restored since, one such run attested
  it without evidence for it, so certificates never vouch for one another in a circle;
  that this run built it cannot be said (`evidence_passed`). `RobustHolds`: what
  "robust" says of slack, except where the widened search was cut short, which the
  code reports as robust too. `Finishes`: commands end.
- `CoverageExact`: least fixpoint. `NoFalseAlarm`, `BindingsGuaranteed`: diagnostics
  against reachable markings. `JobsFollowNeeds`: a generated net runs a job once,
  after its needs, and offers it when its tokens are there.
- `LinksObserved`: edges run exactly from a provenance to the build it names.
  `JudgedAsHappened`: what is explained was legal, and what was legal is explained,
  unless a matrix is recorded by a leg of which the facts say nothing while they speak
  of another leg (`LegWithoutFact`); only a line delivered twice is turned away.

## 4. The proofs

`OrderProofs` proves for every `N` and every set of graphs:

- `TypeCorrect`, `BooksKept` (`Bookkeeping`), `OrderCorrect` (`Correct`).
- The inductive invariant `Inv` adds to them that the popped records are closed
  under predecessors, that every set of popped records has one that nothing in it
  precedes (the order of popping, without a sequence), and that the scan of
  the release loop is ahead of what it has released. `Correct` then follows: if
  all records are popped the graph is founded; if some are left when the queue is
  empty, each of them waits for another one left.

`VerifyProofs` proves for every net, set of observations and options:

- `TypeCorrect` (`TypeOK`), `PathsAccount` (`Accounting`), `WitnessesOrdered`
  (`WitnessOrdered`), and `BoundIsEnough` (`BoundNeverCuts`) under the assumption
  that the bound is at least the number of step records plus the slack, which is
  what `VerifyOptions::for_observation` computes.
- The inductive invariant `Inv` says of every state on the stack, of `best` and
  of `cur` that it is well formed, that its path accounts for it and that the
  path is ordered, and of the program counter that a record being tried is ready.
  Readiness is what makes the step inductive: a record enters a path only once
  its predecessors are consumed, and a consumed step record is on the path.

Its second half proves what a state of the search owes to the checks that let it in:

- `WitnessesAuthorized` (`WitnessAuthorized`, and the same of the path of every state
  the search holds: principal, step name, evidence and guard), `TokensAreConserved`
  (`TokensConserved`); `WitnessesRealize` (`EffectsRealized`) and
  `CompletePlanesAreBelieved` (`CompletePlanesBelieved`) when the observations are
  `Valid`, as every caller of `verify` but `scenario_leg` makes sure; `FreshNamesStayDistinct`
  (`FreshNamesDistinct`) when `FreshValue` is injective, as `~fresh<n>` is.
- `TryingInvariance` is what the loops add to `Inv`: a choice still to be tried is one
  of the marking of `cur`, its tokens agree, the transition is one the record or the
  slack admits. The checks before the loop thus still hold when `FireObserved` or
  `FireSilent` pushes the successor, several steps later.
- Each result is an invariant of all states the search holds, not only of the accepted
  one: each step of a path `Authorized`; each matched effect `Accounts`ed for by
  a step, and each required relation by an earlier one (`RealizedIn`); a path that
  `PathReplays`; a path whose unlogged steps cover the matched dangling effects kind by kind, exactly so on a
  complete plane (`Believed`); invented names among the first `fresh` (`Novel`).
  `AcceptedWas` carries it to the outcome: what is accepted is the path of the
  state popped, all of whose records are consumed and effects matched.
- `Pairing` and `MatchPairs` are recursive functions of a number. What is said of
  them is a set of numbers closed under successor, and the lemma `Induction`, from
  the well-foundedness of the numbers, makes it all of `Nat`. Tokens are counted with the cardinalities of the
  sets of births: a birth is new (`MarkingOK`), a choice takes one token for each
  slot, and firing adds one for each slot.

`SearchProofs` proves what the two verdicts mean:

- `AcceptedIsLegal`: an accepted path is a firing sequence of the net from the initial
  marking to a final one (`Reaches`), has each step record once and after its direct
  predecessors, spends no more unlogged steps than the slack, and each logged step
  emits the effects of its record, no two the same (`Explains`); the edges were
  checked. Every state the search holds has such a path; that is the invariant.
- `RejectionIsExhaustive`, for a depth bound as `for_observation` computes it: a rejection
  that does not admit exhaustion has explored a set of states that
  contains the root, contains a state of the same key for every successor of a
  member, and no accepting one. `Follows` says what a successor is by `Logs` and
  `Supposes`, the conditions under which a record is explained or a step
  supposed, without the loops, the stack or the order. The invariant `Explored(S)`,
  of the set of states expanded so far, says that `seen` holds their keys, that each state
  on the stack follows from one of them, and that each successor of one has a key seen
  or on the stack, or is one the loops have still to push (`Pending`): no early
  continue and no order of the loops loses one.

- `AcceptanceDerives`, `RejectionRefutes`, `SearchDecides`: the verdict is right about
  what the net can do. `Derivable(o, slack)` says that the edges hold and that a chain
  of firings (`Leads`: one record explained or one step supposed, with any choice of
  tokens) leads from the initial marking to a final one and consumes every record
  and effect. What is accepted is derivable; what is rejected without admitting
  exhaustion is not; so `Verify` implements `Decision` with `Derivable` for what can be explained
  (`DD!Spec`).
- `BestIsLongest`: the state such a rejection reports scores at least as high as
  every state the net can reach.

Between the second item and these lies the pruning. The search drops a state whose
key it has seen, although the two differ in their paths, their depths, the births of
their tokens and the numbers of their invented values. `Mirrored(s, z)` says that `z`
stands for `s`: the same records consumed, effects matched and slack used, and a
one-to-one renaming of invented values with a matching of tokens, place by place,
that carries the marking of `s` into that of `z` (`Renames`, `Simulates`). States of
equal keys mirror one another (their markings hold the same values, place by place),
and a firing of `s` is answered by one of `z` with the tokens matched
and the values renamed, newly invented ones paired with each other
(`ExplainingMirrored`, `SupposingMirrored`). By induction on
the chain everything reachable is mirrored in the explored set (`AllMirrored`). Two
conditions are needed, and `Assured` states them: invented names occur in no log,
no evidence and no guard of the specification (`FreshReserved`; nothing in the code
keeps a log from containing `~fresh0`), and no reachable marking offers a transition
more than `MaxChoices` choices (`Uncapped`; section 5 shows what the cap loses).
Both hold in the runs `release_search` and `assembly`. `Bounded` is the depth bound of `for_observation`.

What `Decides` adds to `SearchDecides` is the distance between `Derivable`, whose steps
pair effects and invent values as the code does, and `LegalRun`, which allows what a
reader of the specification would: that distance is checked by TLC on the runs
and is not nothing in general, as section 5 shows.

`NormalizeProofs` proves `ProvenanceLinked` (`LinksObserved`) for every log, every map
and every order of the lines, of both adapters. The invariant `Tracked` says of every
edge drawn that its source is an effect recorded and its target a build of the digest a
provenance names; of every line already passed, and every pending fact already
resolved, that it has its edge if there is a build; of GitHub records that the facts about
their jobs are pending. An edge is drawn once unless two records carry one effect id
(`Doubled`), and then `validate` refuses the observation. A first build exists because numbers are
well founded, and sorting permutes the records (`SortedPermutes`: the places ahead of a
record are counted, and no two records have as many), so what held of the list built
holds of the list handed out. One hypothesis is the theorem's own: no registry rule
declares an `artifact_create`. A bundle links a registry entry when it reads it, so a
build by an entry further down would not be seen; without the hypothesis the
statement is false of `adapters/src/lib.rs`, and no map in the repository breaks it.

`RegistryProofs` proves for every set of requests, names and workflows and every
cap `TypeCorrect`, `CapHolds` (`WithinCap`), `OwnModelJudges` (`OwnMapOwnModel`) and
`AlwaysAModel` (`NeverUnavailable`). The invariant adds that a map other than the
default was read from an entry that still has its name (entries are replaced,
never removed), that only onboarding requests wait to write, and that a handler
that has not read its map has chosen nothing. `AlwaysAModel` needs the lemma
`Highest`: a finite set has an element of highest score.

`MusProofs` proves for every list of facts, the empty one included, and every oracle
`TypeCorrect`, `DivisionSound` (`CallsRejected`), `CoreExplains` (`CoreRejected`),
`PassMinimal` (`LocallyMinimal`) and `DivisionMinimal` (`DivideSuffices`). Of the empty
list it says that each call repeats the one before (`Hopeless`), until the stack is used
up; of any other list (`Inv`) that calls nest no deeper than the list is long, so that
`Overflow` never happens. `Inv` says of each frame that its
background with its candidates is rejected, of two neighbours on the stack that
the upper one was given the lower one's background with one half or with what
the other half gave, and of a return that it is rejected together with that
background. None of it asks the oracle to be monotone, but for `DivisionMinimal`: there
`Sharp` adds that the oracle has accepted the background of a call that went on or
that will not ask about it, and that nothing a call returned can be spared on
top of its background, so that the two halves joined spare nothing either. What the repository says
of the deletion pass (`src/README.md` 381-384) is right, the set it starts from is
always a rejected one, and the note of `explain/src/lib.rs` 42 about a core that
is not locally minimal is never written.

`EvidenceProofs` proves for all hosts, files, keys, commands, edits and crashes
`TypeCorrect`, `EvidenceGrounded` (`Grounded`), `EvidenceRooted` (`Rooted`) and
`RobustnessHolds` (`RobustHolds`). `CertificatesOK` says
that every signature on disk is one that some host made (an edited certificate that
verifies carries the signature of its very body, so it is one that was issued), and
that every digest an accepted certificate attests `Originates` in some accepted run
of its workflow: that run attests it and took no evidence for it. `HostOK` says of a host that what it has presented came from such
certificates under keys it trusts, and that the verdicts it holds between two steps
answer what it was asked. The set of issued
certificates only grows; of the digests a new one attests, those its run took no
evidence for originate in that run, and the others were presented, so they originated
before. Nothing is assumed of what a run shows or of what other specifications
of the workflow ask for.

`LintProofs` proves for every specification and workflow file `TypeCorrect`,
`CoverageIsExact` (`CoverageExact`), `AlarmsAreTrue` (`NoFalseAlarm`),
`BindingsAreGuaranteed` (`BindingsGuaranteed`) and `JobsRunInOrder`
(`JobsFollowNeeds`). `LoopOK` says that a pass without change has examined every
transition up to `at` against the final set and that the set lies in every closed
one; `Diagnosed` says what the errors are once the linter is done; `TokensFull`
says that each token of a sound net carries all that its place declares, which
makes `BindingsGuaranteed` inductive, by W022. `JobsOK` says of generated nets where
the tokens are: each stands at the start or behind a job that ran (`Behind`), no two
at one place (`Single`), and it stays until a job takes it (`Placed`), so that no
job runs twice (`Once`) or before its needs (`Ran`).

Assumptions are those the modules name. Of the search: the initial marking is finite,
keeps its tokens apart, and an initial token carries nothing but what the compiler
hides in it (`InitialAssumption`); transitions, bindings, emissions and requirements
are sequences, transitions have distinct ids, consume from declared places, and an
argument of an emission is of a known kind (`TransitionsAssumption`); observations are
finite sequences of records with sequences of effects (`ObservationsAssumption`);
bound and slack are natural numbers (`OptionsAssumption`). Of the others: `Graphs`
holds predecessor functions, a request is one of two kinds (`LoadsAssumption`), at
least one specification was loaded and names and transitions are finitely many
(`LoadedAssumption`), the stack has room for a call per fact (`InstancesAssumption`), commands
name runs, paths and keys (`LoadsAssumption` of `Evidence`), unusable keys are no keys
(`KeysAssumption`), specifications and workflow files are sequences
(`NetsAssumption`, `WorkflowsAssumption`), final places are declared ones
(`FinalsAssumption`), the jobs of a map and the lines of a log are listed with times and
ranks that are natural numbers, and two lines of one GitHub job are the same
line (`MapAssumption`, `RawsAssumption`). TLC evaluates them on every run.
A theorem that needs more says so in its own ASSUME: valid observations, distinct fresh
names, the bound of `for_observation`, `Assured`, or registry rules that build nothing.

Only model-checked: `Decides`, `LongestPrefix` and `JudgedAsHappened`, which speak of the
executions of `LegalRun`: a recursive definition over the observation, whose value for
every input needs induction over data, in a module that counts with operators on bags the
prover does not have. What they say of the code's own steps is `SearchDecides` and
`BestIsLongest`. And `SearchReturns`, `Terminates`, `Answered`, `Returns` and `Finishes`: liveness under
fairness.

## 5. What the checks found

| Run | The documents say | The code does |
|---|---|---|
| `clock_gap` | timestamps order the events of one source (ARCHITECTURE.md 199) | only neighbours are related, and a step-less line between two steps counts as consumed from the start: the two steps may be explained against the clock. In the trace a `test` line, a step-less `vcs_read` line and a `build` line of the runner, in this order, are accepted as checkout (unlogged), build, test, publish; the observation is valid and `order()` succeeds on it |
| `rejection_proof` | a rejection is a proof (ARCHITECTURE.md 154) | four observations (`MCFindings.Unproven`) that a legal run explains are rejected, see below |
| `registry_map` | a run that names an onboarded specification is normalised with that repository's own map (`api/src/main.rs` 520) | the registry is read twice and the lock released in between: when the specification is onboarded, or onboarded again, between the two reads, the run is normalised with the default (or the former) map and judged by the new model |
| `evidence_passed` | "the certificate proves that digest already passed build and test" (README.md 126) | `explain` attests every `digest` an accepted run shows (`explain/src/lib.rs` 60): an emergency release that ran no test is certified, and its certificate serves a standard rollback |

The four observations of `Unproven`, each of which violates `RejectionIsProof`
when it is given alone as `Observations`:

- `SecondPartOnly`: a record shows only the second of two emissions of one kind.
  Effects are paired with emissions greedily, so it is held to the first.
- `BlankCut`: the line of a step does not show the value the step binds and a later
  line does. The search invents a value (`engine/verify.rs` 411). This is the first
  counterexample TLC prints.
- `LostCut`: the line of a step is lost and a later line shows the value the step
  bound. The search invents a value instead of reading it there.
- `BothPartsNoStep`: two effects are logged without the step that emitted both.
  Effects without a step are given only to transitions of one emission.

A fifth reason does not show at the size of the cap in the code: token choices
after the 512th (`engine/net.rs` 299) are not tried, and the outcome does not say
so. With `MaxChoices = 1` and `MCFindings.SecondPiece` the same run shows it.

Observations without a run. The comment at `api/src/main.rs` 37 calls the
registry insert-only; an entry of the same name is replaced, which is what the
second half of `registry_map` rests on. And `quickxplain` does not return on an
empty list of facts (`explain/src/mus.rs` 59: the base case asks for one): an
observation without steps and effects, judged by a workflow that cannot finish
in the four unlogged steps the oracle allows, makes it call itself until the stack
overflows, which `Mus` models as `Overflow` and `Returns` states.

The failures a rejection lists are logged per score (`engine/verify.rs` 233), so
one may belong to another state than the path reported. The record a cycle error
names (`engine/observation.rs` 245) is the first one not released: it may only
follow the cycle. An exhausted widened search counts as a rejection and is called
robust (`RobustHolds` excludes it by `Huge`); and where README.md 81 says "robust means
the rejection survives unbounded assumed missing logging", the widened search allows as
many unlogged steps as there are records, plus four (`cli/src/main.rs` 283), so that a
run of three records that eight unlogged steps would explain is called robust. A run may also attest a digest nobody
built, in an argument no template names (`tagged` in `MCEvidence`), and a run accepted
by a weaker specification of the same workflow name attests what it restored without
evidence (`lax`): both can be restored afterwards, which `Rooted` allows. Two jobs that need the
same job consume the same token of a generated net, so the net runs only one of
them, and the linter calls the specification sound; a file with a test job and no
build is generated into a specification that W018 rejects. Variables used only in
a guard are not among those `referenced_vars` checks, and an initial token in a
place that declares variables carries none of them (`BindingsGuaranteed` excludes
it). Of a matrix, GitHub's first listed leg is the one recorded (`adapters/src/github.rs`
195), with the facts that name that leg: when they name only another one, its digest
is `<unresolved:...>` and a legal run is rejected (`LegWithoutFact`).

The passing runs keep away from the four observations of `Unproven`: the logs of `MCToy.ToyLogs` and
`MCRelease` show effects with their steps, in the order of the emissions, and lose a
line only where no later line carries a value it bound that nothing else
carries, or are logs on which both sides reject.

## 6. What is not modelled

- `wsl/src/mutate.rs` removes one thing at a time from a specification and lists the
  copies; `policy/src/lib.rs` filters the effects of one observation by a list of
  permissions, reported beside the verdict; the permissiveness meter
  (`engine/verify.rs` 575-648) counts markings for a report. None keeps state that
  another part reads.
  What `mutate` reports rests on the search: widening the argument that shows a
  bound variable (`digest` of `build`) makes each such line a `BlankCut` (section 5),
  and the widened workflow rejects the clean run of `fixtures/case1.json`.
- The console (`web/app.js`) keeps a selection and the last answer. An answer for a run
  selected earlier that arrives late, or after a live verdict, replaces what is
  shown (660, 825), while Sign certifies the selection (917). No document says what
  it shows in between, and verdicts are the service's.
- What the runs do not reach, though the modules say it: an invalid observation on
  which `verify` goes on without an order (`engine/verify.rs` 157; the runs of the
  search filter `Valid`), the cap of 512 token choices at its size, a build by a later
  registry entry (excluded by the hypothesis of `ProvenanceLinked`).
- The service's read-only handlers, the commands `scenario`, `mutate`,
  `permissiveness` and `check` render what other parts return.
- `Observation::facts` and `restrict` are part of the oracle of `Mus`; `hash` is a value.
- Parsing, hashing, rendering and printing; `Net::compile` where it only renumbers.

## 7. What could follow

Under which logs `Derivable` and `LegalRun` agree: lines that show every value their
step binds and every emission in order are a candidate (section 5 lists what breaks
it), and with it `Decides` would follow from `SearchDecides`. That a log is refused
only when a line of it was delivered twice (the second half of `JudgedAsHappened`),
from `Tracked`, for logs whose clocks agree with their provenance. `Mus` with an oracle made of `LegalRun`, to see which oracles the search
realises; late answers in the console.
