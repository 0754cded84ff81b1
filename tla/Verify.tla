------------------------------- MODULE Verify -------------------------------
(***************************************************************************)
(* verify() (crates/engine/src/verify.rs): the depth-first search that     *)
(* decides whether some firing sequence of the net explains an             *)
(* observation.  One action is one branch of the loop body, of             *)
(* expand_observed or of expand_slack.                                     *)
(*                                                                         *)
(* `stack' is the Vec whose last element is popped first; `alts' holds the *)
(* alternatives (a choice of tokens and, in expand_slack, a target effect) *)
(* that the inner loops have still to try, in the order LoopsBefore.       *)
(***************************************************************************)
EXTENDS WorkflowNet

CONSTANTS
  Observations,      \* the observations to decide
  OptionsFor(_)      \* observation -> the options [bound, slack, maxStates] tried

ASSUME ObservationsAssumption ==
  \A o \in Observations : /\ Listed(o.records)
                          /\ \A i \in Records(o) : Listed(o.records[i].effects)

ASSUME OptionsAssumption ==
  \A o \in Observations : \A op \in OptionsFor(o) : op.slack \in Nat /\ op.bound \in Nat

VARIABLES
  obs, options,      \* the arguments of verify()
  pc,                \* where the program stands
  preds,             \* record -> the records that must be consumed before it
  stack,             \* search states to expand
  seen,              \* keys of the states already expanded
  states,            \* states popped so far
  exhausted,         \* the search stopped at maxStates
  best,              \* the expanded state of highest score
  log,               \* FailureLog: the failures met at the highest score
  cur,               \* the state being expanded
  cursor,            \* record (expand_observed) or transition (expand_slack)
  alts,              \* alternatives of the cursor still to try
  outcome            \* VerifyOutcome, NoOutcome until verify() returns

vars == <<obs, options, pc, preds, stack, seen, states, exhausted, best, log,
          cur, cursor, alts, outcome>>

input  == <<obs, options, preds>>
search == <<seen, states, exhausted, best, cur, outcome>>

NoOutcome == [verdict |-> "none"]

-----------------------------------------------------------------------------
(* Search states                                                           *)

Root == [marking |-> Initial, consumed |-> DanglingRecords(obs), matched |-> {},
         used |-> 0, depth |-> 0, fresh |-> 0, path |-> <<>>]

Score(s) == <<Cardinality(s.consumed), Cardinality(s.matched)>>

Less(a, b) == a[1] < b[1] \/ (a[1] = b[1] /\ a[2] < b[2])

Key(s) == <<Canonical(s.marking), s.consumed, s.matched, s.used>>

Complete(s) == s.consumed = Records(obs) /\ s.matched = EffectIds(obs)

Top == stack[Len(stack)]

LogPush(failures) ==
  IF failures = {} THEN log
  ELSE IF Less(log.score, Score(cur)) THEN [score |-> Score(cur), items |-> failures]
  ELSE IF log.score = Score(cur) THEN [log EXCEPT !.items = @ \cup failures]
  ELSE log

-----------------------------------------------------------------------------
(* Alternatives.  A target is the place <<record, position>> of a dangling *)
(* effect; Untargeted stands for None, which the code tries first.         *)

Untargeted == <<0, 0>>

DanglingEffects ==
  UNION {{<<i, j>> : j \in DOMAIN obs.records[i].effects} : i \in DanglingRecords(obs)}

EffectAt(g) == obs.records[g[1]].effects[g[2]]

LoopsBefore(a, b) ==
  \/ Before(a.choice, b.choice)
  \/ /\ a.choice = b.choice
     /\ Less(a.target, b.target)

(* merge_env drops a choice whose tokens disagree on a variable.           *)
Agreeing(t) == {c \in Choices(cur.marking, t) : ~ MergeConflict(c)}

NextAlt(a) == \A b \in alts \ {a} : LoopsBefore(a, b)

Drop(a, failures) ==
  /\ alts' = alts \ {a}
  /\ log' = LogPush(failures)
  /\ UNCHANGED <<input, search, pc, stack, cursor>>

Push(a, s) ==
  /\ alts' = alts \ {a}
  /\ stack' = Append(stack, s)
  /\ UNCHANGED <<input, search, pc, log, cursor>>

-----------------------------------------------------------------------------
(* The prologue of verify()                                                *)

Init ==
  /\ obs \in Observations
  /\ options \in OptionsFor(obs)
  /\ pc = "start"
  /\ preds = [j \in Records(obs) |-> {}]
  /\ stack = <<>> /\ seen = {} /\ states = 0 /\ exhausted = FALSE
  /\ best = Root /\ cur = Root
  /\ log = [score |-> <<0, 0>>, items |-> {}]
  /\ cursor = 0 /\ alts = {}
  /\ outcome = NoOutcome

RejectEdges ==
  /\ pc = "start"
  /\ CheckEdges(obs) # {}
  /\ outcome' = [verdict |-> "reject", explained |-> <<>>, blocked |-> {},
                 failures |-> CheckEdges(obs), exhausted |-> FALSE]
  /\ pc' = "done"
  /\ UNCHANGED <<input, stack, seen, states, exhausted, best, log, cur, cursor, alts>>

Begin ==
  /\ pc = "start"
  /\ CheckEdges(obs) = {}
  /\ preds' = Order(obs)
  /\ stack' = <<Root>>
  /\ pc' = "pop"
  /\ UNCHANGED <<obs, options, search, log, cursor, alts>>

-----------------------------------------------------------------------------
(* The loop: pop a state, discard it, accept it or expand it               *)

Pop ==
  /\ pc = "pop"
  /\ stack # <<>>
  /\ stack' = SubSeq(stack, 1, Len(stack) - 1)
  /\ states' = states + 1

PopExhausted ==
  /\ Pop
  /\ states + 1 > options.maxStates
  /\ exhausted' = TRUE
  /\ pc' = "conclude"
  /\ UNCHANGED <<input, seen, best, log, cur, cursor, alts, outcome>>

PopDiscarded ==
  /\ Pop
  /\ states + 1 <= options.maxStates
  /\ Top.depth > options.bound \/ Key(Top) \in seen
  /\ UNCHANGED <<input, pc, seen, exhausted, best, log, cur, cursor, alts, outcome>>

(* Mistake the runs must notice: best is the last state expanded. *)
PopNewKeepingLast ==
  /\ Pop
  /\ states + 1 <= options.maxStates
  /\ Top.depth <= options.bound
  /\ Key(Top) \notin seen
  /\ seen' = seen \cup {Key(Top)}
  /\ best' = Top
  /\ UNCHANGED <<input, exhausted, log, alts>>

PopNew ==
  /\ Pop
  /\ states + 1 <= options.maxStates
  /\ Top.depth <= options.bound
  /\ Key(Top) \notin seen
  /\ seen' = seen \cup {Key(Top)}
  /\ best' = IF Less(Score(best), Score(Top)) THEN Top ELSE best
  /\ UNCHANGED <<input, exhausted, log, alts>>

Accept ==
  /\ PopNew
  /\ Complete(Top) /\ IsFinal(Top.marking)
  /\ outcome' = [verdict |-> "accept", explained |-> Top.path, blocked |-> {},
                 failures |-> {}, exhausted |-> FALSE]
  /\ pc' = "done"
  /\ UNCHANGED <<cur, cursor>>

Expand ==
  /\ PopNew
  /\ ~ (Complete(Top) /\ IsFinal(Top.marking))
  /\ cur' = Top
  /\ cursor' = 1
  /\ pc' = "observed"
  /\ UNCHANGED outcome

-----------------------------------------------------------------------------
(* expand_observed: every record that can come next, every token choice    *)

Rec == obs.records[cursor]

(* Mistake the runs must notice: a consumed record is tried again. *)
ReadyAgain ==
  /\ cursor \in StepRecords(obs)
  /\ preds[cursor] \subseteq cur.consumed

(* Mistake the runs must notice: the order of the records is ignored. *)
ReadyUnordered == cursor \in StepRecords(obs) \ cur.consumed

Ready ==
  /\ cursor \in StepRecords(obs) \ cur.consumed
  /\ preds[cursor] \subseteq cur.consumed

Known    == Rec.step \in TransitionIds
Step     == TransitionById(Rec.step)
(* Mistake the runs must notice: the principal is not checked. *)
AdmittedAnyone == TRUE

Admitted == Rec.principal \in Step.admits
Enabled  == MissingPlaces(cur.marking, Step) = {}
Shaped   == ShapeOk(Rec.effects, Step.emits)

(* Mistake the runs must notice: the loop does not advance. *)
NextRecordStuck(failures) ==
  /\ cursor' = cursor
  /\ log' = LogPush(failures)
  /\ UNCHANGED <<input, search, pc, stack, alts>>

NextRecord(failures) ==
  /\ cursor' = cursor + 1
  /\ log' = LogPush(failures)
  /\ UNCHANGED <<input, search, pc, stack, alts>>

SkipRecord ==
  /\ pc = "observed" /\ cursor \in Records(obs)
  /\ ~ Ready
  /\ NextRecord({})

UnknownStep ==
  /\ pc = "observed" /\ Ready
  /\ ~ Known
  /\ NextRecord({[reason |-> "UnknownStep", step |-> Rec.step]})

IdentityMismatch ==
  /\ pc = "observed" /\ Ready /\ Known
  /\ ~ Admitted
  /\ NextRecord({[reason |-> "IdentityMismatch", step |-> Rec.step, principal |-> Rec.principal]})

NotEnabled ==
  /\ pc = "observed" /\ Ready /\ Known /\ Admitted
  /\ ~ Enabled
  /\ NextRecord({[reason |-> "NotEnabled", step |-> Rec.step]})

EffectShapeMismatch ==
  /\ pc = "observed" /\ Ready /\ Known /\ Admitted /\ Enabled
  /\ ~ Shaped
  /\ NextRecord({[reason |-> "EffectShapeMismatch", step |-> Rec.step]})

Gaps ==
  LET pair == Pairing(Rec.effects, Step.emits)
  IN  UNION {StructuralGaps(obs, Step, Step.emits[pair[i]], Rec.effects[i].id) :
               i \in DOMAIN Rec.effects}

TryRecord ==
  /\ pc = "observed" /\ Ready /\ Known /\ Admitted /\ Enabled /\ Shaped
  /\ log' = LogPush(Gaps)
  /\ alts' = {[choice |-> c, target |-> Untargeted] : c \in Agreeing(Step)}
  /\ pc' = "fire"
  /\ UNCHANGED <<input, search, stack, cursor>>

Match(a)   == MatchPairs(Rec.effects, Step.emits, MergedEnv(a.choice))
Env(a)     == BindFresh(Step, Match(a).env, cur.fresh)
Unifies(a)   == Match(a).bad = 0
Evidenced(a) == UnattestedVars(Step, Env(a)) = {}
Guarded(a)   == GuardHolds(Step, Env(a))

(* The obligations of the first pair that has an open one.                 *)
UnmetOf(a) ==
  LET pair    == Pairing(Rec.effects, Step.emits)
      open(i) == Unmet(obs, Step, Step.emits[pair[i]], Rec.effects[i].id, Env(a), cur.matched)
  IN  UNION {open(i) : i \in {j \in DOMAIN Rec.effects : \A k \in 1 .. (j - 1) : open(k) = {}}}

Fired(a) ==
  [marking  |-> Fire(cur.marking, Step, a.choice, Env(a), cur.depth + 1),
   consumed |-> cur.consumed \cup {cursor},
   matched  |-> cur.matched \cup IdsOfRecord(obs, cursor),
   used     |-> cur.used,
   depth    |-> cur.depth + 1,
   fresh    |-> cur.fresh + Cardinality(Unbound(Step, Match(a).env)),
   path     |-> Append(cur.path, [transition |-> Step.id, principal |-> Rec.principal,
                                  record |-> cursor, bindings |-> Env(a)])]

EffectArgMismatch ==
  /\ pc = "fire"
  /\ \E a \in alts : /\ NextAlt(a)
                     /\ ~ Unifies(a)
                     /\ Drop(a, {MismatchFailure(Step, Rec.effects[Match(a).bad])})

NotAttested ==
  /\ pc = "fire"
  /\ \E a \in alts : /\ NextAlt(a)
                     /\ Unifies(a) /\ ~ Evidenced(a)
                     /\ Drop(a, {[reason |-> "NotAttested", step |-> Step.id,
                                  vars |-> UnattestedVars(Step, Env(a))]})

GuardFalse ==
  /\ pc = "fire"
  /\ \E a \in alts : /\ NextAlt(a)
                     /\ Unifies(a) /\ Evidenced(a) /\ ~ Guarded(a)
                     /\ Drop(a, {[reason |-> "GuardFalse", transition |-> Step.id]})

ObligationUnmet ==
  /\ pc = "fire"
  /\ \E a \in alts : /\ NextAlt(a)
                     /\ Unifies(a) /\ Evidenced(a) /\ Guarded(a) /\ UnmetOf(a) # {}
                     /\ Drop(a, UnmetOf(a))

FireObserved ==
  /\ pc = "fire"
  /\ \E a \in alts : /\ NextAlt(a)
                     /\ Unifies(a) /\ Evidenced(a) /\ Guarded(a) /\ UnmetOf(a) = {}
                     /\ Push(a, Fired(a))

RecordTried ==
  /\ pc = "fire" /\ alts = {}
  /\ pc' = "observed"
  /\ cursor' = cursor + 1
  /\ UNCHANGED <<input, search, stack, log, alts>>

(* Mistake the runs must notice: off by one in the slack spent. *)
RecordsDoneOverspending ==
  /\ pc = "observed" /\ cursor \notin Records(obs)
  /\ pc' = IF cur.used <= options.slack THEN "slack" ELSE "pop"
  /\ cursor' = 1
  /\ UNCHANGED <<input, search, stack, log, alts>>

RecordsDone ==
  /\ pc = "observed" /\ cursor \notin Records(obs)
  /\ pc' = IF cur.used < options.slack THEN "slack" ELSE "pop"
  /\ cursor' = 1
  /\ UNCHANGED <<input, search, stack, log, alts>>

-----------------------------------------------------------------------------
(* expand_slack: every transition that may have fired without a log line   *)

Silent == Transitions[cursor]

(* Mistake the runs must notice: complete planes are not believed. *)
LoggedNever(t) == FALSE

Logged(t) == \E i \in DOMAIN t.emits : PlaneCarries(obs, t.emits[i].effect)

Targets(t) ==
  (IF Logged(t) THEN {} ELSE {Untargeted}) \cup
  {g \in DanglingEffects : /\ Len(t.emits) = 1
                           /\ EffectAt(g).kind = t.emits[1].effect
                           /\ EffectAt(g).id \notin cur.matched}

SkipTransition ==
  /\ pc = "slack" /\ cursor \in DOMAIN Transitions
  /\ MissingPlaces(cur.marking, Silent) # {}
  /\ cursor' = cursor + 1
  /\ UNCHANGED <<input, search, pc, stack, log, alts>>

TryTransition ==
  /\ pc = "slack" /\ cursor \in DOMAIN Transitions
  /\ MissingPlaces(cur.marking, Silent) = {}
  /\ alts' = {[choice |-> c, target |-> g] : c \in Agreeing(Silent), g \in Targets(Silent)}
  /\ pc' = "invent"
  /\ UNCHANGED <<input, search, stack, log, cursor>>

Base(a)     == MergedEnv(a.choice)
Targeted(a) == a.target # Untargeted

SilentUnifies(a) == Targeted(a) => Matches(Silent.emits[1], EffectAt(a.target), Base(a))

SilentMatch(a) ==
  IF Targeted(a) THEN Unified(Silent.emits[1], EffectAt(a.target), Base(a)) ELSE Base(a)

Burnt(a) == IF Targeted(a) THEN 0 ELSE Cardinality(BurntNames(Silent, Base(a)))

SilentEnv(a) == BindFresh(Silent, SilentMatch(a), cur.fresh + Burnt(a))

(* Mistake the runs must notice: no evidence is asked for an unlogged step. *)
SilentAllowedUnattested(a) == GuardHolds(Silent, SilentEnv(a))

SilentAllowed(a) ==
  UnattestedVars(Silent, SilentEnv(a)) = {} /\ GuardHolds(Silent, SilentEnv(a))

(* Mistake the runs must notice: an unlogged step owes no relation. *)
SilentUnmetNever(a) == {}

SilentUnmet(a) ==
  IF Targeted(a)
  THEN Unmet(obs, Silent, Silent.emits[1], EffectAt(a.target).id, SilentEnv(a), cur.matched)
  ELSE {}

Invented(a) ==
  [marking  |-> Fire(cur.marking, Silent, a.choice, SilentEnv(a), cur.depth + 1),
   consumed |-> cur.consumed,
   matched  |-> IF Targeted(a) THEN cur.matched \cup {EffectAt(a.target).id} ELSE cur.matched,
   used     |-> cur.used + 1,
   depth    |-> cur.depth + 1,
   fresh    |-> cur.fresh + Burnt(a) + Cardinality(Unbound(Silent, SilentMatch(a))),
   path     |-> Append(cur.path, [transition |-> Silent.id, principal |-> Silent.principal,
                                  record |-> 0, bindings |-> SilentEnv(a)])]

SilentMismatch ==
  /\ pc = "invent"
  /\ \E a \in alts : /\ NextAlt(a)
                     /\ ~ SilentUnifies(a)
                     /\ Drop(a, {MismatchFailure(Silent, EffectAt(a.target))})

(* Unattested bindings and false guards leave no trace in the log here.    *)
SilentRefused ==
  /\ pc = "invent"
  /\ \E a \in alts : /\ NextAlt(a)
                     /\ SilentUnifies(a) /\ ~ SilentAllowed(a)
                     /\ Drop(a, {})

SilentObligationUnmet ==
  /\ pc = "invent"
  /\ \E a \in alts : /\ NextAlt(a)
                     /\ SilentUnifies(a) /\ SilentAllowed(a) /\ SilentUnmet(a) # {}
                     /\ Drop(a, SilentUnmet(a))

FireSilent ==
  /\ pc = "invent"
  /\ \E a \in alts : /\ NextAlt(a)
                     /\ SilentUnifies(a) /\ SilentAllowed(a) /\ SilentUnmet(a) = {}
                     /\ Push(a, Invented(a))

TransitionTried ==
  /\ pc = "invent" /\ alts = {}
  /\ pc' = "slack"
  /\ cursor' = cursor + 1
  /\ UNCHANGED <<input, search, stack, log, alts>>

TransitionsDone ==
  /\ pc = "slack" /\ cursor \notin DOMAIN Transitions
  /\ pc' = "pop"
  /\ cursor' = 1
  /\ UNCHANGED <<input, search, stack, log, alts>>

-----------------------------------------------------------------------------
(* The epilogue: name what failed                                          *)

Unexplained ==
  {[reason |-> "StepNotExplained", record |-> i] : i \in StepRecords(obs) \ best.consumed} \cup
  {[reason |-> "UnmatchedEffect", effect |-> e] : e \in EffectIds(obs) \ best.matched}

Failures ==
  IF log.items # {} THEN log.items
  ELSE IF Unexplained # {} THEN Unexplained
  ELSE {[reason |-> "NoFinalMarking"]}

Blocked ==
  LET open == StepRecords(obs) \ best.consumed
  IN  {i \in open : \A j \in open : i <= j}

SearchEmpty ==
  /\ pc = "pop" /\ stack = <<>>
  /\ pc' = "conclude"
  /\ UNCHANGED <<input, search, stack, log, cursor, alts>>

Conclude ==
  /\ pc = "conclude"
  /\ outcome' = [verdict |-> "reject", explained |-> best.path, blocked |-> Blocked,
                 failures |-> Failures, exhausted |-> exhausted]
  /\ pc' = "done"
  /\ UNCHANGED <<input, stack, seen, states, exhausted, best, log, cur, cursor, alts>>

-----------------------------------------------------------------------------
Next ==
  \/ RejectEdges \/ Begin
  \/ PopExhausted \/ PopDiscarded \/ Accept \/ Expand
  \/ SkipRecord \/ UnknownStep \/ IdentityMismatch \/ NotEnabled
  \/ EffectShapeMismatch \/ TryRecord
  \/ EffectArgMismatch \/ NotAttested \/ GuardFalse \/ ObligationUnmet
  \/ FireObserved \/ RecordTried \/ RecordsDone
  \/ SkipTransition \/ TryTransition
  \/ SilentMismatch \/ SilentRefused \/ SilentObligationUnmet
  \/ FireSilent \/ TransitionTried \/ TransitionsDone
  \/ SearchEmpty \/ Conclude

Spec == Init /\ [][Next]_vars

=============================================================================
