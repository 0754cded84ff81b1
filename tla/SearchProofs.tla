---------------------------- MODULE SearchProofs ----------------------------
(***************************************************************************)
(* What the verdicts of the search mean, for every net, every observation  *)
(* and every option.  An accepted path is a firing sequence of the net     *)
(* that explains the observation.  A rejection that does not admit         *)
(* exhaustion has explored every state the root leads to, up to states of  *)
(* the same key; states of the same key lead to the same ends, invented    *)
(* values renamed; so nothing the net allows derives the observation, and  *)
(* the search implements Decision with that for what can be explained.     *)
(***************************************************************************)
EXTENDS VerifyProofs

(* Step k of the path takes the tokens taken[k], which agree on what they  *)
(* carry, binds what they carry and every variable of its transition, and  *)
(* turns marks[k - 1] into marks[k].                                       *)
FiresAt(path, marks, taken, k) ==
  LET t == TransitionOf(path[k])
  IN  /\ \E j \in DOMAIN Transitions : t = Transitions[j]
      /\ taken[k] \in AllChoices(marks[k - 1], t)
      /\ ~ MergeConflict(taken[k])
      /\ Extends(MergedEnv(taken[k]), path[k].bindings)
      /\ \A j \in DOMAIN t.binds : t.binds[j] \in DOMAIN path[k].bindings
      /\ marks[k] = Fire(marks[k - 1], t, taken[k], path[k].bindings, k)

(* The path is a firing sequence from the initial marking to m.            *)
Reaches(path, m) ==
  \E marks, taken :
    /\ marks[0] = Initial /\ marks[Len(path)] = m
    /\ \A k \in DOMAIN path : FiresAt(path, marks, taken, k)

(* The effects of a logged step are emissions of its transition, no two    *)
(* the same, under the values the step binds.                              *)
Embedded(step) ==
  step.record # 0 =>
    LET effects == obs.records[step.record].effects
        emits   == TransitionOf(step).emits
    IN  \E f \in [DOMAIN effects -> DOMAIN emits] :
          /\ \A i, j \in DOMAIN effects : f[i] = f[j] => i = j
          /\ \A i \in DOMAIN effects : Matches(emits[f[i]], effects[i], step.bindings)

(* A path explains every step record at one of its steps, and causes and   *)
(* earlier neighbours in a plane before what follows them; its other steps *)
(* are the unlogged ones the slack allows.                                 *)
Explains(path) ==
  /\ \A i \in StepRecords(obs) : \E k \in DOMAIN path : path[k].record = i
  /\ \A k \in DOMAIN path : path[k].record \in {0} \cup StepRecords(obs)
  /\ \A k, l \in DOMAIN path : path[k].record = path[l].record => k = l \/ path[k].record = 0
  /\ \A k \in DOMAIN path : path[k].record # 0 =>
       \A i \in DirectPreds(obs)[path[k].record] \cap StepRecords(obs) :
         \E l \in 1 .. (k - 1) : path[l].record = i
  /\ Cardinality({k \in DOMAIN path : path[k].record = 0}) <= options.slack
  /\ \A k \in DOMAIN path : Embedded(path[k])

-----------------------------------------------------------------------------
(* A path is a firing sequence                                             *)

(* A firing sequence grows by a step that its last marking enables.        *)
LEMMA ReachesGrows ==
  ASSUME Inv, NEW m, Reaches(cur.path, m), NEW x, NEW i \in DOMAIN Transitions, NEW c,
         TransitionOf(x) = Transitions[i], c \in AllChoices(m, Transitions[i]), ~ MergeConflict(c),
         Extends(MergedEnv(c), x.bindings),
         \A j \in DOMAIN Transitions[i].binds : Transitions[i].binds[j] \in DOMAIN x.bindings
  PROVE  Reaches(Append(cur.path, x), Fire(m, Transitions[i], c, x.bindings, Len(cur.path) + 1))
<1> DEFINE n == Len(cur.path)
           q == Append(cur.path, x)
           after == Fire(m, Transitions[i], c, x.bindings, n + 1)
<1>1. /\ n \in Nat /\ DOMAIN cur.path = 1 .. n
      /\ DOMAIN q = 1 .. (n + 1) /\ q[n + 1] = x /\ \A k \in 1 .. n : q[k] = cur.path[k]
      /\ Len(q) = n + 1
  BY Longer, SeqAppend DEF Inv, Live, Good, StateOK
<1>2. PICK marks, taken :
        /\ marks[0] = Initial /\ marks[n] = m
        /\ \A k \in DOMAIN cur.path : FiresAt(cur.path, marks, taken, k)
  BY DEF Reaches
<1> DEFINE ms == [k \in 0 .. (n + 1) |-> IF k = n + 1 THEN after ELSE marks[k]]
           ts == [k \in 1 .. (n + 1) |-> IF k = n + 1 THEN c ELSE taken[k]]
<1>3. /\ ms[0] = Initial /\ ms[n] = m /\ ms[n + 1] = after /\ ts[n + 1] = c
      /\ \A k \in 1 .. n : ms[k] = marks[k] /\ ms[k - 1] = marks[k - 1] /\ ts[k] = taken[k]
  BY <1>1, <1>2
<1>4. (n + 1) - 1 = n
  BY <1>1
<1> HIDE DEF ms, ts, q
<1>5. FiresAt(q, ms, ts, n + 1)
  BY <1>1, <1>3, <1>4 DEF FiresAt
<1>6. ASSUME NEW k \in 1 .. n PROVE FiresAt(q, ms, ts, k)
  <2>1. FiresAt(cur.path, marks, taken, k)
    BY <1>1, <1>2
  <2>2. q[k] = cur.path[k] /\ ms[k] = marks[k] /\ ms[k - 1] = marks[k - 1] /\ ts[k] = taken[k]
    BY <1>1, <1>3
  <2> QED  BY <2>1, <2>2 DEF FiresAt
<1>7. \A k \in DOMAIN q : k \in 1 .. n \/ k = n + 1
  BY <1>1
<1> QED  BY <1>1, <1>3, <1>5, <1>6, <1>7 DEF Reaches, q

LEMMA BindFreshBinds ==
  \A t, env, fresh : \A j \in DOMAIN t.binds : t.binds[j] \in DOMAIN BindFresh(t, env, fresh)
BY DEF BindFresh, Unbound

(* What the states the search holds have in common.                        *)
Runs(s) == Reaches(s.path, s.marking) /\ \A k \in DOMAIN s.path : Embedded(s.path[k])

LEMMA RunsRoot == Inputs => Runs(Root)
<1>1. Root.path = <<>> /\ Root.marking = Initial /\ DOMAIN <<>> = {} /\ Len(<<>>) = 0
  BY SeqEmpty DEF Root
<1>2. Reaches(<<>>, Initial)
  <2> DEFINE ms == [k \in {0} |-> Initial]
  <2>1. ms[0] = Initial
    OBVIOUS
  <2> QED  BY <1>1, <2>1 DEF Reaches
<1> QED  BY <1>1, <1>2 DEF Runs

LEMMA FiredRuns ==
  ASSUME Inv, Trying, pc = "fire", Runs(cur), NEW a \in alts, FiredBy(a)
  PROVE  Runs(Fired(a))
<1> DEFINE step == [transition |-> Step.id, principal |-> Rec.principal,
                    record |-> cursor, bindings |-> Env(a)]
           pair == Pairing(Rec.effects, Step.emits)
<1>1. /\ Fired(a).path = Append(cur.path, step)
      /\ Fired(a).marking = Fire(cur.marking, Step, a.choice, Env(a), cur.depth + 1)
  BY DEF Fired
<1>2. /\ TransitionOf(step) = Step /\ step.record = cursor /\ step.bindings = Env(a)
      /\ cursor \in Records(obs) /\ Rec = obs.records[cursor]
  BY StepNamed DEF TransitionOf, Inv, Control, StepRecords, Rec
<1>3. PICK i \in DOMAIN Transitions : Step = Transitions[i]
  BY StepNamed
<1>4. Listed(Rec.effects)
  BY <1>2, ObservationsAssumption DEF Inv, Inputs
<1>5. Listed(Step.emits) /\ \A j \in DOMAIN Step.emits : KindsKnown(Step.emits[j])
  BY <1>3, TransitionsAssumption DEF KindsKnown
<1>6. ShapeOk(Rec.effects, Step.emits)
  BY DEF Trying, Shaped
<1>7. Match(a).bad = 0 /\ Match(a) = MatchPairs(Rec.effects, Step.emits, MergedEnv(a.choice))
  BY DEF FiredBy, Unifies, Match
<1>8. /\ Extends(MergedEnv(a.choice), Match(a).env)
      /\ \A j \in DOMAIN Rec.effects :
           pair[j] \in DOMAIN Step.emits /\ Settled(Step.emits[pair[j]], Rec.effects[j], Match(a).env)
  BY <1>4, <1>5, <1>6, <1>7, MatchPairsSettle
<1>9. Extends(MergedEnv(a.choice), Env(a))
  BY <1>8, BindFreshExtends, ExtendsTransitive DEF Env
<1>10. \A j \in DOMAIN Step.binds : Step.binds[j] \in DOMAIN Env(a)
  BY BindFreshBinds DEF Env
<1>11. Embedded(step)
  <2>1. pair \in [DOMAIN Rec.effects -> DOMAIN Step.emits]
    BY <1>8 DEF Pairing
  <2>2. \A j \in DOMAIN Rec.effects : Matches(Step.emits[pair[j]], Rec.effects[j], Env(a))
    BY <1>5, <1>8, BindFreshExtends, SettledKept DEF Env, Settled
  <2>3. \A j, k \in DOMAIN Rec.effects : j < k => pair[j] < pair[k]
    BY <1>4, <1>5, <1>6, PairingSteps
  <2>4. \A j \in DOMAIN Rec.effects : pair[j] \in Nat /\ j \in Nat
    BY <1>4, <1>5, PairingSteps DEF Listed
  <2> HIDE DEF pair
  <2>5. \A j, k \in DOMAIN Rec.effects : pair[j] = pair[k] => j = k
    BY <2>3, <2>4
  <2> HIDE DEF step
  <2> QED  BY <1>2, <2>1, <2>2, <2>5 DEF Embedded
<1>12. cur.depth = Len(cur.path) /\ Reaches(cur.path, cur.marking)
  BY DEF Inv, Live, Good, PathAccounts, Runs
<1>13. a.choice \in AllChoices(cur.marking, Step) /\ ~ MergeConflict(a.choice)
  BY AgreeingFill DEF Trying
<1> HIDE DEF step, pair
<1>14. Reaches(Append(cur.path, step), Fired(a).marking)
  BY <1>1, <1>2, <1>3, <1>9, <1>10, <1>12, <1>13, ReachesGrows
<1>15. \A k \in DOMAIN Append(cur.path, step) : Embedded(Append(cur.path, step)[k])
  BY <1>11, Longer DEF Runs
<1> QED  BY <1>1, <1>14, <1>15 DEF Runs

LEMMA InventedRuns ==
  ASSUME Inv, Trying, pc = "invent", Runs(cur), NEW a \in alts, InventedBy(a)
  PROVE  Runs(Invented(a))
<1> DEFINE step == [transition |-> Silent.id, principal |-> Silent.principal,
                    record |-> 0, bindings |-> SilentEnv(a)]
<1>1. /\ Invented(a).path = Append(cur.path, step)
      /\ Invented(a).marking = Fire(cur.marking, Silent, a.choice, SilentEnv(a), cur.depth + 1)
  BY DEF Invented
<1>2. TransitionOf(step) = Silent /\ step.record = 0 /\ step.bindings = SilentEnv(a)
  BY SilentNamed DEF TransitionOf
<1>3. cursor \in DOMAIN Transitions /\ Silent = Transitions[cursor]
  BY SilentNamed
<1>4. Extends(Base(a), SilentMatch(a))
  BY UnifiedExtends DEF SilentMatch, Extends
<1>5. Extends(MergedEnv(a.choice), SilentEnv(a))
  BY <1>4, BindFreshExtends, ExtendsTransitive DEF SilentEnv, Base
<1>6. \A j \in DOMAIN Silent.binds : Silent.binds[j] \in DOMAIN SilentEnv(a)
  BY BindFreshBinds DEF SilentEnv
<1>7. Embedded(step)
  BY <1>2 DEF Embedded
<1>8. cur.depth = Len(cur.path) /\ Reaches(cur.path, cur.marking)
  BY DEF Inv, Live, Good, PathAccounts, Runs
<1>9. a.choice \in AllChoices(cur.marking, Silent) /\ ~ MergeConflict(a.choice)
  BY AgreeingFill DEF Trying
<1> HIDE DEF step
<1>10. Reaches(Append(cur.path, step), Invented(a).marking)
  BY <1>1, <1>2, <1>3, <1>5, <1>6, <1>8, <1>9, ReachesGrows
<1>11. \A k \in DOMAIN Append(cur.path, step) : Embedded(Append(cur.path, step)[k])
  BY <1>7, Longer DEF Runs
<1> QED  BY <1>1, <1>10, <1>11 DEF Runs

-----------------------------------------------------------------------------
(* An accepted path explains the observation                               *)

(* The arguments of verify() do not change.                                *)
LEMMA ArgumentsKept ==
  ASSUME [Next]_vars
  PROVE  options' = options
<1>1. Skips \/ Drops \/ Turns => options' = options
  BY Quiet DEF input
<1>2. FireObserved \/ FireSilent => options' = options
  BY DEF FireObserved, FireSilent, Push, input
<1>3. RejectEdges \/ Begin \/ PopExhausted \/ PopDiscarded \/ Accept \/ Expand \/ TryRecord
        \/ TryTransition \/ Conclude \/ UNCHANGED vars
      => options' = options
  BY DEF RejectEdges, Begin, PopExhausted, PopDiscarded, Accept, Expand, PopNew, TryRecord,
         TryTransition, Conclude, input, vars
<1> QED  BY <1>1, <1>2, <1>3, Moves

(* The search starts only when the edges hold, and in the order of order().*)
Prepared ==
  \/ pc = "start" /\ outcome = NoOutcome
  \/ pc = "done" /\ Rejected
  \/ CheckEdges(obs) = {} /\ preds = Order(obs)

LEMMA PreparedNext ==
  ASSUME Inv, Prepared, [Next]_vars
  PROVE  Prepared'
<1>1. obs' = obs
  BY Held
<1>2. CASE RejectEdges
  BY <1>2 DEF RejectEdges, Prepared, Rejected
<1>3. CASE Begin
  BY <1>1, <1>3 DEF Begin, Prepared
<1>4. CASE preds' = preds /\ pc \notin {"start", "done"}
  <2>1. CheckEdges(obs) = {} /\ preds = Order(obs)
    BY <1>4 DEF Prepared
  <2> QED  BY <1>1, <1>4, <2>1 DEF Prepared
<1>5. CASE UNCHANGED vars
  BY <1>5 DEF vars, Prepared, Rejected
<1>6. Skips \/ Drops \/ Turns => preds' = preds
  BY Quiet DEF input
<1>7. Skips \/ Drops \/ Turns => pc \notin {"start", "done"}
  BY DEF Skips, SkipRecord, UnknownStep, IdentityMismatch, NotEnabled, EffectShapeMismatch,
         Drops, EffectArgMismatch, NotAttested, GuardFalse, ObligationUnmet, SilentMismatch,
         SilentRefused, SilentObligationUnmet, Turns, RecordTried, RecordsDone, SkipTransition,
         TransitionTried, TransitionsDone, SearchEmpty
<1>8. FireObserved \/ FireSilent => preds' = preds /\ pc \notin {"start", "done"}
  BY DEF FireObserved, FireSilent, Push, input
<1>9. PopExhausted \/ PopDiscarded \/ Accept \/ Expand \/ TryRecord \/ TryTransition \/ Conclude
      => preds' = preds /\ pc \notin {"start", "done"}
  BY DEF PopExhausted, PopDiscarded, Accept, Expand, PopNew, Pop, TryRecord, TryTransition,
         Conclude, input
<1> QED  BY <1>2, <1>3, <1>4, <1>5, <1>6, <1>7, <1>8, <1>9, Moves

(* The steps of a path that explain no record are the slack it has used.   *)
LEMMA UnloggedWithinSlack ==
  ASSUME Inv, NEW s \in Live
  PROVE  Cardinality({k \in DOMAIN s.path : s.path[k].record = 0}) <= options.slack
<1> DEFINE D == DOMAIN s.path
           Z == {k \in D : s.path[k].record = 0}
           L == D \ Z
           R == s.consumed \cap StepRecords(obs)
<1>1. PathAccounts(s) /\ StateOK(s) /\ Inputs
  BY DEF Inv, Good
<1>2. /\ Len(s.path) = Cardinality(R) + s.used /\ s.used <= options.slack
      /\ s.used \in Nat /\ options.slack \in Nat
      /\ D = 1 .. Len(s.path) /\ Len(s.path) \in Nat
  BY <1>1, OptionsAssumption, SeqTight DEF PathAccounts, StateOK, Inputs, IsSeq
<1>3. IsFiniteSet(D) /\ Cardinality(D) = Len(s.path)
  BY <1>2, FS_Interval
<1>4. /\ IsFiniteSet(Z) /\ IsFiniteSet(L)
      /\ Cardinality(Z) \in Nat /\ Cardinality(L) \in Nat
  BY <1>3, FS_Subset, FS_CardinalityType
<1>5. Cardinality(L) = Cardinality(D) - Cardinality(Z)
  <2>1. Cardinality(D \ Z) = Cardinality(D) - Cardinality(D \cap Z)
    BY <1>3, FS_Difference
  <2>2. D \cap Z = Z
    OBVIOUS
  <2> QED  BY <2>1, <2>2
<1>6. Cardinality(R) <= Cardinality(L)
  <2> DEFINE f == [k \in L |-> s.path[k].record]
  <2>1. \A i \in R : i # 0 /\ \E k \in D : s.path[k].record = i
    BY <1>1, RecordsFinite DEF PathAccounts, StepRecords
  <2>2. \A k \in L : s.path[k].record \in R
    BY <1>1 DEF PathAccounts
  <2>3. f \in Surjection(L, R)
    <3>1. f \in [L -> R]
      BY <2>2
    <3>2. \A i \in R : \E k \in L : f[k] = i
      BY <2>1
    <3> QED  BY <3>1, <3>2 DEF Surjection
  <2> HIDE DEF f, L, R
  <2> QED  BY <1>4, <2>3, FS_Surjection
<1>7. Cardinality(R) \in Nat
  BY <1>1, RecordsFinite DEF StepRecords
<1> HIDE DEF D, Z, L, R
<1>8. Cardinality(Z) <= options.slack
  BY <1>2, <1>3, <1>4, <1>5, <1>6, <1>7
<1> QED  BY <1>8 DEF Z, D

(* The acceptance is justified: every edge holds its relation's            *)
(* constraint, and the path reported is a firing sequence to a final       *)
(* marking that explains the observation.                                  *)
Justified ==
  /\ CheckEdges(obs) = {}
  /\ Explains(outcome.explained)
  /\ \E m : Reaches(outcome.explained, m) /\ IsFinal(m)

AllRun ==
  /\ Prepared
  /\ \A s \in Live : Runs(s)
  /\ Accepted => Justified

LEMMA RunsFrame ==
  ASSUME obs' = obs
  PROVE  \A s : Runs(s) => Runs(s)'
BY DEF Runs, Embedded

LEMMA ExplainsFrame ==
  ASSUME obs' = obs, options' = options
  PROVE  \A path : Explains(path) => Explains(path)'
<1>1. \A step : Embedded(step) => Embedded(step)'
  BY DEF Embedded
<1>2. DirectPreds(obs)' = DirectPreds(obs) /\ StepRecords(obs)' = StepRecords(obs)
  BY DEF DirectPreds, PlanePreds, EdgePreds, StepRecords
<1> QED  BY <1>1, <1>2 DEF Explains

(* A complete state of the search explains the observation.                *)
LEMMA CompleteExplains ==
  ASSUME Inv, Valid(obs), preds = Order(obs), NEW s \in Live, Runs(s), Complete(s)
  PROVE  Explains(s.path)
<1>1. PathAccounts(s) /\ PathOrdered(s)
  BY DEF Inv, Good
<1>2. s.consumed \cap StepRecords(obs) = StepRecords(obs)
  BY DEF Complete, StepRecords
<1>3. preds = DirectPreds(obs)
  BY DEF Order, Valid
<1>4. Cardinality({k \in DOMAIN s.path : s.path[k].record = 0}) <= options.slack
  BY UnloggedWithinSlack
<1>5. \A k \in DOMAIN s.path : s.path[k].record # 0 =>
        \A i \in DirectPreds(obs)[s.path[k].record] \cap StepRecords(obs) :
          \E l \in 1 .. (k - 1) : s.path[l].record = i
  BY <1>1, <1>3 DEF PathOrdered
<1>6. /\ \A i \in StepRecords(obs) : \E k \in DOMAIN s.path : s.path[k].record = i
      /\ \A k \in DOMAIN s.path : s.path[k].record \in {0} \cup StepRecords(obs)
      /\ \A k, l \in DOMAIN s.path : s.path[k].record = s.path[l].record => k = l \/ s.path[k].record = 0
  BY <1>1, <1>2 DEF PathAccounts
<1>7. \A k \in DOMAIN s.path : Embedded(s.path[k])
  BY DEF Runs
<1> QED  BY <1>4, <1>5, <1>6, <1>7 DEF Explains

LEMMA JustifiedNow ==
  ASSUME Inv, Valid(obs), AllRun, NEW s \in Live, Complete(s), IsFinal(s.marking), pc \notin {"start", "done"}
  PROVE  /\ CheckEdges(obs) = {} /\ Explains(s.path)
         /\ \E m : Reaches(s.path, m) /\ IsFinal(m)
<1>1. CheckEdges(obs) = {} /\ preds = Order(obs)
  BY DEF AllRun, Prepared
<1>2. Runs(s)
  BY DEF AllRun
<1>3. Explains(s.path)
  BY <1>1, <1>2, CompleteExplains
<1> QED  BY <1>1, <1>2, <1>3 DEF Runs

LEMMA RunNext ==
  ASSUME Inv, Trying, Valid(obs), AllRun, [Next]_vars
  PROVE  AllRun'
<1>1. obs' = obs /\ options' = options /\ \A s \in Live' : s \in Live \/ Pushed(s)
  BY Held, ArgumentsKept
<1>2. Runs(cur)
  BY DEF Live, AllRun
<1>3. \A s : Pushed(s) => Runs(s)
  BY <1>2, FiredRuns, InventedRuns DEF Pushed
<1>4. \A s \in Live' : Runs(s)'
  BY <1>1, <1>3, RunsFrame DEF AllRun
<1>5. Prepared'
  BY PreparedNext DEF AllRun
<1>6. ASSUME Accepted' PROVE Justified'
  <2> DEFINE path == outcome'.explained
  <2>1. CheckEdges(obs) = {} /\ Explains(path) /\ \E m : Reaches(path, m) /\ IsFinal(m)
    <3>1. CASE Accepted /\ outcome' = outcome
      BY <3>1 DEF AllRun, Justified
    <3>2. ASSUME pc = "pop", NEW s \in Live, Complete(s), IsFinal(s.marking), path = s.path
          PROVE  CheckEdges(obs) = {} /\ Explains(path) /\ \E m : Reaches(path, m) /\ IsFinal(m)
      BY <3>2, JustifiedNow
    <3> QED  BY <1>6, <3>1, <3>2, AcceptedWas
  <2>2. (CheckEdges(obs) = {})'
    BY <1>1, <2>1
  <2>3. Explains(outcome.explained)'
    BY <1>1, <2>1, ExplainsFrame
  <2>4. (\E m : Reaches(outcome.explained, m) /\ IsFinal(m))'
    BY <2>1
  <2> QED  BY <2>2, <2>3, <2>4 DEF Justified
<1> QED  BY <1>4, <1>5, <1>6 DEF AllRun

(* Acceptance is sound: what verify() accepts is explained by a firing     *)
(* sequence of the net from its initial marking to a final one, which has  *)
(* every logged step once and after its causes, in which the effects of a  *)
(* logged step embed, and which spends no more unlogged steps than the     *)
(* slack allows.  With WitnessesAuthorized, WitnessesRealize and           *)
(* CompletePlanesAreBelieved this is all that a legal run has to keep to.  *)
THEOREM AcceptedIsLegal ==
  ASSUME \A o \in Observations : Valid(o)
  PROVE  Spec => [](Accepted => Justified)
<1>1. Init => AllRun
  <2> SUFFICES ASSUME Init PROVE AllRun
    OBVIOUS
  <2>1. Runs(Root)
    BY RunsRoot DEF Init, Inputs
  <2> QED  BY <2>1, InitLive DEF AllRun, Prepared, Init
<1>2. AllRun => (Accepted => Justified)
  BY DEF AllRun
<1> QED  BY <1>1, <1>2, InputsValid, RunNext, TryingInvariance, PTL DEF Spec

-----------------------------------------------------------------------------
(* What an expansion has to push                                           *)

(* What one firing makes of a search state, under an observation o and a   *)
(* slack, whatever the search does with it: no stack, no keys, no bound on *)
(* the depth and no cap on the token choices.                              *)

(* n follows from s by explaining record i of o with the tokens c.         *)
Explaining(o, s, i, c, n) ==
  LET rec  == o.records[i]
      t    == TransitionById(rec.step)
      pair == Pairing(rec.effects, t.emits)
      m    == MatchPairs(rec.effects, t.emits, MergedEnv(c))
      env  == BindFresh(t, m.env, s.fresh)
  IN  /\ i \in StepRecords(o) \ s.consumed /\ Order(o)[i] \subseteq s.consumed
      /\ rec.step \in TransitionIds /\ rec.principal \in t.admits
      /\ ShapeOk(rec.effects, t.emits)
      /\ c \in AllChoices(s.marking, t) /\ ~ MergeConflict(c)
      /\ m.bad = 0 /\ UnattestedVars(t, env) = {} /\ GuardHolds(t, env)
      /\ \A k \in DOMAIN rec.effects :
           Unmet(o, t, t.emits[pair[k]], rec.effects[k].id, env, s.matched) = {}
      /\ n = [marking  |-> Fire(s.marking, t, c, env, s.depth + 1),
              consumed |-> s.consumed \cup {i},
              matched  |-> s.matched \cup IdsOfRecord(o, i),
              used     |-> s.used,
              depth    |-> s.depth + 1,
              fresh    |-> s.fresh + Cardinality(Unbound(t, m.env)),
              path     |-> Append(s.path, [transition |-> t.id, principal |-> rec.principal,
                                           record |-> i, bindings |-> env])]

(* The dangling effect an unlogged step of t accounts for, if any.         *)
Supposable(o, s, t) ==
  (IF \E i \in DOMAIN t.emits : PlaneCarries(o, t.emits[i].effect) THEN {} ELSE {Untargeted}) \cup
  {g \in UNION {{<<i, j>> : j \in DOMAIN o.records[i].effects} : i \in DanglingRecords(o)} :
     /\ Len(t.emits) = 1
     /\ o.records[g[1]].effects[g[2]].kind = t.emits[1].effect
     /\ o.records[g[1]].effects[g[2]].id \notin s.matched}

(* n follows from s by supposing that the transition j took the tokens c   *)
(* unlogged and accounts for g.                                            *)
Supposing(o, slack, s, j, c, g, n) ==
  LET t    == Transitions[j]
      base == MergedEnv(c)
      aims == g # Untargeted
      e    == o.records[g[1]].effects[g[2]]
      m    == IF aims THEN Unified(t.emits[1], e, base) ELSE base
      lost == IF aims THEN 0 ELSE Cardinality(BurntNames(t, base))
      env  == BindFresh(t, m, s.fresh + lost)
  IN  /\ s.used < slack
      /\ j \in DOMAIN Transitions
      /\ c \in AllChoices(s.marking, t) /\ ~ MergeConflict(c) /\ g \in Supposable(o, s, t)
      /\ aims => Matches(t.emits[1], e, base)
      /\ UnattestedVars(t, env) = {} /\ GuardHolds(t, env)
      /\ aims => Unmet(o, t, t.emits[1], e.id, env, s.matched) = {}
      /\ n = [marking  |-> Fire(s.marking, t, c, env, s.depth + 1),
              consumed |-> s.consumed,
              matched  |-> IF aims THEN s.matched \cup {e.id} ELSE s.matched,
              used     |-> s.used + 1,
              depth    |-> s.depth + 1,
              fresh    |-> s.fresh + lost + Cardinality(Unbound(t, m)),
              path     |-> Append(s.path, [transition |-> t.id, principal |-> t.principal,
                                           record |-> 0, bindings |-> env])]

Leads(o, slack, s, n) ==
  (\E i, c : Explaining(o, s, i, c, n)) \/ (\E j, c, g : Supposing(o, slack, s, j, c, g, n))

Origin(o) == [marking |-> Initial, consumed |-> DanglingRecords(o), matched |-> {},
              used |-> 0, depth |-> 0, fresh |-> 0, path |-> <<>>]

(* The chain f takes k steps from the initial marking.                     *)
Chain(o, slack, f, k) ==
  /\ f[0] = Origin(o)
  /\ \A i \in 1 .. k : Leads(o, slack, f[i - 1], f[i])

Reachable(o, slack, s) == \E k \in Nat : \E f : Chain(o, slack, f, k) /\ f[k] = s

(* The observation can be derived: its edges hold, and some sequence of    *)
(* firings consumes its records and effects and ends in a final marking.   *)
Derivable(o, slack) ==
  /\ CheckEdges(o) = {}
  /\ \E s : /\ Reachable(o, slack, s)
            /\ s.consumed = Records(o) /\ s.matched = EffectIds(o) /\ IsFinal(s.marking)

(* The walk over the token choices of a marking is not cut short.          *)
Uncapped(m) == \A i \in DOMAIN Transitions : Choices(m, Transitions[i]) = AllChoices(m, Transitions[i])

(* What the search can push: the firings the cap lets it see.              *)
Logs(s, i, c, n) ==
  /\ Explaining(obs, s, i, c, n)
  /\ c \in Choices(s.marking, TransitionById(obs.records[i].step))
  /\ MissingPlaces(s.marking, TransitionById(obs.records[i].step)) = {}

Supposes(s, j, c, g, n) ==
  /\ Supposing(obs, options.slack, s, j, c, g, n)
  /\ c \in Choices(s.marking, Transitions[j])
  /\ MissingPlaces(s.marking, Transitions[j]) = {}

LogsFrom(s, i, n)     == \E k, c : k >= i /\ Logs(s, k, c, n)
SupposesFrom(s, i, n) == \E k, c, g : k >= i /\ Supposes(s, k, c, g, n)

Follows(s, n) == LogsFrom(s, 1, n) \/ SupposesFrom(s, 1, n)

Accepting(s) == Complete(s) /\ IsFinal(s.marking)

(* What the expansion of cur has still to push.                            *)
Pending(n) ==
  \/ /\ pc = "observed"
     /\ (LogsFrom(cur, cursor, n) \/ SupposesFrom(cur, 1, n))
  \/ /\ pc = "fire"
     /\ \/ \E a \in alts : Logs(cur, cursor, a.choice, n)
        \/ LogsFrom(cur, cursor + 1, n)
        \/ SupposesFrom(cur, 1, n)
  \/ /\ pc = "slack"
     /\ SupposesFrom(cur, cursor, n)
  \/ /\ pc = "invent"
     /\ \/ \E a \in alts : Supposes(cur, cursor, a.choice, a.target, n)
        \/ SupposesFrom(cur, cursor + 1, n)

Waiting == {Key(stack[i]) : i \in DOMAIN stack}

Stacked == {stack[i] : i \in DOMAIN stack}

(* S are the states expanded so far: the root is one of them, all are      *)
(* reachable, none is accepting, and what follows from them has the key of *)
(* one of them, waits on the stack or has still to be pushed.              *)
Explored(S) ==
  /\ seen = {Key(s) : s \in S}
  /\ \A n \in S \cup Stacked : Reachable(obs, options.slack, n)
  /\ pc \in {"observed", "fire", "slack", "invent"} => cur \in S
  /\ Root \in S \/ (pc = "pop" /\ S = {} /\ stack = <<Root>>)
  /\ \A s \in S : ~ Accepting(s)
  /\ \A s \in S : \A n : Follows(s, n) => Key(n) \in seen \cup Waiting \/ (s = cur /\ Pending(n))

Exploring ==
  /\ pc # "done" => outcome = NoOutcome
  /\ pc \in {"observed", "fire", "slack", "invent"} => cursor >= 1
  /\ \/ pc = "start" /\ seen = {}
     \/ pc = "done" /\ (Accepted \/ CheckEdges(obs) # {})
     \/ exhausted /\ pc \in {"conclude", "done"} /\ (pc = "done" => outcome.exhausted)
     \/ /\ \E S : Explored(S)
        /\ pc # "start"
        /\ pc \in {"conclude", "done"} => stack = <<>>

-----------------------------------------------------------------------------
(* The expansion pushes all of it                                          *)

LEMMA SupposingNeeds ==
  ASSUME NEW o, NEW slack, NEW s, NEW j, NEW c, NEW g, NEW n, Supposing(o, slack, s, j, c, g, n)
  PROVE  j \in DOMAIN Transitions /\ s.used < slack /\ c \in AllChoices(s.marking, Transitions[j])
BY DEF Supposing

(* The loop over the token choices of a record drops only what does not    *)
(* follow.                                                                 *)
LEMMA LogsHere ==
  ASSUME preds = Order(obs), NEW c, NEW n, Logs(cur, cursor, c, n)
  PROVE  /\ Ready /\ Known /\ Admitted /\ Enabled /\ Shaped /\ c \in Agreeing(Step)
         /\ \A a : a.choice = c => FiredBy(a) /\ n = Fired(a)
<1>1. Ready /\ Known /\ Admitted /\ Enabled /\ Shaped /\ c \in Agreeing(Step)
  BY DEF Logs, Explaining, Ready, Known, Admitted, Enabled, Shaped, Agreeing, Step, Rec
<1>2. ASSUME NEW a, a.choice = c PROVE FiredBy(a) /\ n = Fired(a)
  <2>1. /\ Match(a) = MatchPairs(Rec.effects, Step.emits, MergedEnv(c))
        /\ Env(a) = BindFresh(Step, Match(a).env, cur.fresh)
    BY <1>2 DEF Match, Env
  <2>2. Unifies(a) /\ Evidenced(a) /\ Guarded(a)
    BY <2>1 DEF Logs, Explaining, Unifies, Evidenced, Guarded, Step, Rec
  <2>3. \A k \in DOMAIN Rec.effects :
          Unmet(obs, Step, Step.emits[Pairing(Rec.effects, Step.emits)[k]], Rec.effects[k].id,
                Env(a), cur.matched) = {}
    BY <2>1 DEF Logs, Explaining, Step, Rec
  <2>4. UnmetOf(a) = {}
    BY <2>3 DEF UnmetOf
  <2>5. n = Fired(a)
    BY <1>2, <2>1 DEF Logs, Explaining, Fired, Step, Rec
  <2> QED  BY <2>2, <2>4, <2>5 DEF FiredBy
<1> QED  BY <1>1, <1>2

LEMMA SupposesHere ==
  ASSUME NEW c, NEW g, NEW n, Supposes(cur, cursor, c, g, n)
  PROVE  /\ MissingPlaces(cur.marking, Silent) = {} /\ c \in Agreeing(Silent) /\ g \in Targets(Silent)
         /\ \A a : a.choice = c /\ a.target = g => InventedBy(a) /\ n = Invented(a)
<1>1. MissingPlaces(cur.marking, Silent) = {} /\ c \in Agreeing(Silent) /\ g \in Targets(Silent)
  BY DEF Supposes, Supposing, Supposable, Logged, DanglingEffects, EffectAt, Targets, Agreeing, Silent
<1>2. ASSUME NEW a, a.choice = c, a.target = g PROVE InventedBy(a) /\ n = Invented(a)
  <2>1. /\ Base(a) = MergedEnv(c) /\ Targeted(a) = (g # Untargeted)
        /\ SilentMatch(a) = IF g # Untargeted THEN Unified(Silent.emits[1], EffectAt(g), Base(a)) ELSE Base(a)
        /\ Burnt(a) = IF g # Untargeted THEN 0 ELSE Cardinality(BurntNames(Silent, Base(a)))
        /\ SilentEnv(a) = BindFresh(Silent, SilentMatch(a), cur.fresh + Burnt(a))
    BY <1>2 DEF Base, Targeted, SilentMatch, Burnt, SilentEnv
  <2>2. SilentUnifies(a)
    BY <1>2, <2>1 DEF Supposes, Supposing, EffectAt, SilentUnifies, Silent
  <2>3. SilentAllowed(a)
    BY <2>1 DEF Supposes, Supposing, EffectAt, SilentAllowed, Silent
  <2>4. SilentUnmet(a) = {}
    BY <1>2, <2>1 DEF Supposes, Supposing, EffectAt, SilentUnmet, Silent
  <2>5. n = Invented(a)
    BY <1>2, <2>1 DEF Supposes, Supposing, EffectAt, Invented, Silent
  <2> QED  BY <2>2, <2>3, <2>4, <2>5 DEF InventedBy
<1> QED  BY <1>1, <1>2

(* A chain grows by a step from its last state.                            *)
LEMMA ReachableGrows ==
  ASSUME NEW o, NEW slack, NEW s, NEW n, Reachable(o, slack, s), Leads(o, slack, s, n)
  PROVE  Reachable(o, slack, n)
<1>1. PICK k, f : k \in Nat /\ Chain(o, slack, f, k) /\ f[k] = s
  BY DEF Reachable
<1> DEFINE h == [i \in 0 .. (k + 1) |-> IF i = k + 1 THEN n ELSE f[i]]
<1>2. h[0] = f[0] /\ h[k + 1] = n /\ k + 1 \in Nat
  BY <1>1
<1>3. ASSUME NEW i \in 1 .. (k + 1) PROVE Leads(o, slack, h[i - 1], h[i])
  <2>1. CASE i = k + 1
    <3>1. h[i - 1] = f[k] /\ h[i] = n
      BY <1>1, <2>1
    <3> QED  BY <1>1, <3>1
  <2>2. CASE i \in 1 .. k
    <3>1. h[i - 1] = f[i - 1] /\ h[i] = f[i]
      BY <1>1, <2>2
    <3>2. Leads(o, slack, f[i - 1], f[i])
      BY <1>1, <2>2 DEF Chain
    <3> QED  BY <3>1, <3>2
  <2> QED  BY <1>1, <2>1, <2>2
<1> HIDE DEF h
<1>4. Chain(o, slack, h, k + 1)
  BY <1>1, <1>2, <1>3 DEF Chain
<1> QED  BY <1>2, <1>4 DEF Reachable

LEMMA RootReachable == Root = Origin(obs) /\ Reachable(obs, options.slack, Root)
<1>1. Root = Origin(obs)
  BY DEF Root, Origin
<1> DEFINE f == [i \in {0} |-> Root]
<1>2. f[0] = Root
  OBVIOUS
<1> HIDE DEF f
<1>3. Chain(obs, options.slack, f, 0)
  BY <1>1, <1>2 DEF Chain
<1> QED  BY <1>1, <1>2, <1>3 DEF Reachable

LEMMA FollowsReach ==
  ASSUME NEW s, NEW n, Reachable(obs, options.slack, s), Follows(s, n)
  PROVE  Reachable(obs, options.slack, n)
<1>1. Leads(obs, options.slack, s, n)
  BY DEF Follows, LogsFrom, SupposesFrom, Logs, Supposes, Leads
<1> QED  BY <1>1, ReachableGrows

(* What an expansion pushes follows from the state it expands.             *)
LEMMA PushedFollows ==
  ASSUME Inv, Trying, preds = Order(obs), NEW n, Pushed(n)
  PROVE  Follows(cur, n)
<1>1. ASSUME pc = "fire", NEW a \in alts, FiredBy(a) PROVE Follows(cur, Fired(a))
  <2>1. /\ cursor \in StepRecords(obs) \ cur.consumed /\ preds[cursor] \subseteq cur.consumed /\ Known
        /\ Admitted /\ Enabled /\ Shaped /\ a.choice \in Agreeing(Step)
    BY <1>1 DEF Inv, Control, Trying
  <2>2. /\ Listed(Rec.effects) /\ cursor \in Nat /\ cursor >= 1
    BY <2>1, ObservationsAssumption DEF Inv, Inputs, Rec, StepRecords, Records, Listed
  <2>3. \A k \in DOMAIN Rec.effects :
          Unmet(obs, Step, Step.emits[Pairing(Rec.effects, Step.emits)[k]], Rec.effects[k].id,
                Env(a), cur.matched) = {}
    BY <1>1, <2>2, AllDischarged DEF FiredBy
  <2>4. /\ Match(a) = MatchPairs(Rec.effects, Step.emits, MergedEnv(a.choice))
        /\ Env(a) = BindFresh(Step, Match(a).env, cur.fresh)
    BY DEF Match, Env
  <2>5. Match(a).bad = 0 /\ UnattestedVars(Step, Env(a)) = {} /\ GuardHolds(Step, Env(a))
    BY <1>1 DEF FiredBy, Unifies, Evidenced, Guarded
  <2>6. Logs(cur, cursor, a.choice, Fired(a))
    BY <2>1, <2>3, <2>4, <2>5, AgreeingFill
       DEF Logs, Explaining, Fired, Known, Admitted, Enabled, Shaped, Agreeing, Step, Rec
  <2>7. LogsFrom(cur, 1, Fired(a))
    BY <2>2, <2>6 DEF LogsFrom
  <2> QED  BY <2>7 DEF Follows
<1>2. ASSUME pc = "invent", NEW a \in alts, InventedBy(a) PROVE Follows(cur, Invented(a))
  <2>1. /\ cursor \in DOMAIN Transitions /\ cur.used < options.slack
        /\ MissingPlaces(cur.marking, Silent) = {}
        /\ a.choice \in Agreeing(Silent) /\ a.target \in Targets(Silent)
    BY <1>2 DEF Inv, Control, Trying
  <2>2. cursor \in Nat /\ cursor >= 1
    BY <2>1, TransitionsAssumption DEF Listed
  <2>3. /\ Base(a) = MergedEnv(a.choice) /\ Targeted(a) = (a.target # Untargeted)
        /\ SilentMatch(a) = IF a.target # Untargeted
                            THEN Unified(Silent.emits[1], EffectAt(a.target), Base(a)) ELSE Base(a)
        /\ Burnt(a) = IF a.target # Untargeted THEN 0 ELSE Cardinality(BurntNames(Silent, Base(a)))
        /\ SilentEnv(a) = BindFresh(Silent, SilentMatch(a), cur.fresh + Burnt(a))
    BY DEF Base, Targeted, SilentMatch, Burnt, SilentEnv
  <2>4. /\ a.target # Untargeted => Matches(Silent.emits[1], EffectAt(a.target), Base(a))
        /\ UnattestedVars(Silent, SilentEnv(a)) = {} /\ GuardHolds(Silent, SilentEnv(a))
        /\ a.target # Untargeted =>
             Unmet(obs, Silent, Silent.emits[1], EffectAt(a.target).id, SilentEnv(a), cur.matched) = {}
    BY <1>2, <2>3 DEF InventedBy, SilentUnifies, SilentAllowed, SilentUnmet
  <2>5. Supposes(cur, cursor, a.choice, a.target, Invented(a))
    BY <2>1, <2>3, <2>4, AgreeingFill DEF Supposes, Supposing, Supposable, Logged, DanglingEffects, EffectAt, Targets, Invented, Agreeing, Silent
  <2>6. SupposesFrom(cur, 1, Invented(a))
    BY <2>2, <2>5 DEF SupposesFrom
  <2> QED  BY <2>6 DEF Follows
<1> QED  BY <1>1, <1>2 DEF Pushed

(* What follows from a state depends on the arguments of verify() only.    *)
LEMMA FollowsFrame ==
  ASSUME obs' = obs, options' = options
  PROVE  \A s, i, c, g, n : /\ Logs(s, i, c, n)' <=> Logs(s, i, c, n)
                            /\ Supposes(s, i, c, g, n)' <=> Supposes(s, i, c, g, n)
                            /\ LogsFrom(s, i, n)' <=> LogsFrom(s, i, n)
                            /\ SupposesFrom(s, i, n)' <=> SupposesFrom(s, i, n)
                            /\ Follows(s, n)' <=> Follows(s, n)
<1>1. \A s, i, c, n : Logs(s, i, c, n)' <=> Logs(s, i, c, n)
  BY DEF Logs
<1>2. \A s, i, c, g, n : Supposes(s, i, c, g, n)' <=> Supposes(s, i, c, g, n)
  BY DEF Supposes
<1> QED  BY <1>1, <1>2 DEF LogsFrom, SupposesFrom, Follows

(* What follows at or behind the cursor follows at it or behind it.        *)
LEMMA FromHere ==
  ASSUME Inv, NEW s, NEW n, NEW i \in Nat
  PROVE  /\ LogsFrom(s, i, n) => LogsFrom(s, i + 1, n) \/ \E c : Logs(s, i, c, n)
         /\ SupposesFrom(s, i, n) => SupposesFrom(s, i + 1, n) \/ \E c, g : Supposes(s, i, c, g, n)
         /\ i >= 1 /\ i \notin Records(obs) => ~ LogsFrom(s, i, n)
         /\ i >= 1 /\ i \notin DOMAIN Transitions => ~ SupposesFrom(s, i, n)
<1>1. \A k, c : Logs(s, k, c, n) => k \in Records(obs)
  BY DEF Logs, Explaining, StepRecords
<1>2. \A k, c, g : Supposes(s, k, c, g, n) => k \in DOMAIN Transitions
  BY SupposingNeeds DEF Supposes
<1>3. Len(obs.records) \in Nat /\ Records(obs) = 1 .. Len(obs.records)
  BY ObservationsAssumption DEF Inv, Inputs, Listed, Records
<1>4. Len(Transitions) \in Nat /\ DOMAIN Transitions = 1 .. Len(Transitions)
  BY TransitionsAssumption DEF Listed
<1>5. LogsFrom(s, i, n) => LogsFrom(s, i + 1, n) \/ \E c : Logs(s, i, c, n)
  BY <1>1, <1>3 DEF LogsFrom
<1>6. SupposesFrom(s, i, n) => SupposesFrom(s, i + 1, n) \/ \E c, g : Supposes(s, i, c, g, n)
  BY <1>2, <1>4 DEF SupposesFrom
<1>7. i >= 1 /\ i \notin Records(obs) => ~ LogsFrom(s, i, n)
  BY <1>1, <1>3 DEF LogsFrom
<1>8. i >= 1 /\ i \notin DOMAIN Transitions => ~ SupposesFrom(s, i, n)
  BY <1>2, <1>4 DEF SupposesFrom
<1> QED  BY <1>5, <1>6, <1>7, <1>8

LEMMA SkipsPush ==
  ASSUME Inv, preds = Order(obs), Skips, NEW n, Pending(n)
  PROVE  Pending(n)'
<1>1. pc = "observed" /\ ~ (Ready /\ Known /\ Admitted /\ Enabled /\ Shaped)
  BY DEF Skips, SkipRecord, UnknownStep, IdentityMismatch, NotEnabled, EffectShapeMismatch
<1>2. cursor' = cursor + 1 /\ UNCHANGED <<obs, options, pc, cur>>
  BY Quiet DEF Skips, SkipRecord, UnknownStep, IdentityMismatch, NotEnabled, EffectShapeMismatch,
               NextRecord, input, search
<1>3. \A c : ~ Logs(cur, cursor, c, n)
  BY <1>1, LogsHere
<1>4. LogsFrom(cur, cursor + 1, n) \/ SupposesFrom(cur, 1, n)
  BY <1>1, <1>3, FromHere DEF Pending, Inv, Control
<1> QED  BY <1>1, <1>2, <1>4, FollowsFrame DEF Pending

LEMMA TryRecordPush ==
  ASSUME Inv, preds = Order(obs), TryRecord, NEW n, Pending(n)
  PROVE  Pending(n)'
<1>1. /\ pc = "observed" /\ pc' = "fire" /\ UNCHANGED <<obs, options, cur, cursor>>
      /\ alts' = {[choice |-> c, target |-> Untargeted] : c \in Agreeing(Step)}
  BY DEF TryRecord, input, search
<1>2. ASSUME NEW c, Logs(cur, cursor, c, n) PROVE \E a \in alts' : Logs(cur, cursor, a.choice, n)
  <2>1. c \in Agreeing(Step)
    BY <1>2, LogsHere
  <2>2. [choice |-> c, target |-> Untargeted] \in alts'
    BY <1>1, <2>1
  <2> QED  BY <1>2, <2>2
<1>3. \/ \E a \in alts' : Logs(cur, cursor, a.choice, n)
      \/ LogsFrom(cur, cursor + 1, n) \/ SupposesFrom(cur, 1, n)
  BY <1>1, <1>2, FromHere DEF Pending, Inv, Control
<1> QED  BY <1>1, <1>3, FollowsFrame DEF Pending

(* An alternative is dropped only when nothing follows from it.            *)
LEMMA DropsPush ==
  ASSUME Inv, preds = Order(obs), Drops, NEW n, Pending(n)
  PROVE  Pending(n)'
<1>1. UNCHANGED <<obs, options, pc, cur, cursor>> /\ pc \in {"fire", "invent"}
  BY Quiet DEF Drops, EffectArgMismatch, NotAttested, GuardFalse, ObligationUnmet, SilentMismatch,
               SilentRefused, SilentObligationUnmet, input, search
<1>2. PICK a : /\ alts' = alts \ {a}
               /\ pc = "fire" => ~ FiredBy(a)
               /\ pc = "invent" => ~ InventedBy(a)
  <2>1. CASE EffectArgMismatch \/ NotAttested \/ GuardFalse \/ ObligationUnmet
    BY <2>1 DEF EffectArgMismatch, NotAttested, GuardFalse, ObligationUnmet, Drop, FiredBy
  <2>2. CASE SilentMismatch \/ SilentRefused \/ SilentObligationUnmet
    BY <2>2 DEF SilentMismatch, SilentRefused, SilentObligationUnmet, Drop, InventedBy
  <2> QED  BY <2>1, <2>2 DEF Drops
<1>3. CASE pc = "fire"
  <2>1. \A b \in alts : Logs(cur, cursor, b.choice, n) => b \in alts'
    BY <1>2, <1>3, LogsHere
  <2>2. \/ \E b \in alts' : Logs(cur, cursor, b.choice, n)
        \/ LogsFrom(cur, cursor + 1, n) \/ SupposesFrom(cur, 1, n)
    BY <1>3, <2>1 DEF Pending
  <2> QED  BY <1>1, <1>3, <2>2, FollowsFrame DEF Pending
<1>4. CASE pc = "invent"
  <2>1. \A b \in alts : Supposes(cur, cursor, b.choice, b.target, n) => b \in alts'
    BY <1>2, <1>4, SupposesHere
  <2>2. \/ \E b \in alts' : Supposes(cur, cursor, b.choice, b.target, n)
        \/ SupposesFrom(cur, cursor + 1, n)
    BY <1>4, <2>1 DEF Pending
  <2> QED  BY <1>1, <1>4, <2>2, FollowsFrame DEF Pending
<1> QED  BY <1>1, <1>3, <1>4

LEMMA FirePush ==
  ASSUME Inv, preds = Order(obs), FireObserved \/ FireSilent, NEW n, Pending(n)
  PROVE  Pending(n)' \/ \E i \in DOMAIN stack' : stack'[i] = n
<1>1. PICK a, s : /\ Push(a, s)
                  /\ pc = "fire" => s = Fired(a)
                  /\ pc = "invent" => s = Invented(a)
  BY DEF FireObserved, FireSilent
<1>2. /\ UNCHANGED <<obs, options, pc, cur, cursor>> /\ alts' = alts \ {a} /\ pc \in {"fire", "invent"}
      /\ stack' = Append(stack, s)
  BY <1>1 DEF Push, input, search, FireObserved, FireSilent
<1>3. \E i \in DOMAIN stack' : stack'[i] = s
  <2>1. IsSeq(stack)
    BY DEF Inv
  <2>2. Len(stack) \in Nat /\ DOMAIN stack' = 1 .. (Len(stack) + 1) /\ stack'[Len(stack) + 1] = s
    BY <1>2, <2>1, SeqAppend
  <2> QED  BY <2>2
<1>4. CASE pc = "fire"
  <2>1. \A b \in alts : Logs(cur, cursor, b.choice, n) => b \in alts' \/ n = s
    BY <1>1, <1>2, <1>4, LogsHere
  <2>2. \/ n = s
        \/ \E b \in alts' : Logs(cur, cursor, b.choice, n)
        \/ LogsFrom(cur, cursor + 1, n) \/ SupposesFrom(cur, 1, n)
    BY <1>4, <2>1 DEF Pending
  <2> QED  BY <1>2, <1>3, <1>4, <2>2, FollowsFrame DEF Pending
<1>5. CASE pc = "invent"
  <2>1. \A b \in alts : Supposes(cur, cursor, b.choice, b.target, n) => b \in alts' \/ n = s
    BY <1>1, <1>2, <1>5, SupposesHere
  <2>2. \/ n = s
        \/ \E b \in alts' : Supposes(cur, cursor, b.choice, b.target, n)
        \/ SupposesFrom(cur, cursor + 1, n)
    BY <1>5, <2>1 DEF Pending
  <2> QED  BY <1>2, <1>3, <1>5, <2>2, FollowsFrame DEF Pending
<1> QED  BY <1>2, <1>4, <1>5

LEMMA TryTransitionPush ==
  ASSUME Inv, TryTransition, NEW n, Pending(n)
  PROVE  Pending(n)'
<1>1. /\ pc = "slack" /\ pc' = "invent" /\ UNCHANGED <<obs, options, cur, cursor>>
      /\ alts' = {[choice |-> c, target |-> g] : c \in Agreeing(Silent), g \in Targets(Silent)}
  BY DEF TryTransition, input, search
<1>2. ASSUME NEW c, NEW g, Supposes(cur, cursor, c, g, n)
      PROVE  \E a \in alts' : Supposes(cur, cursor, a.choice, a.target, n)
  <2>1. c \in Agreeing(Silent) /\ g \in Targets(Silent)
    BY <1>2, SupposesHere
  <2>2. [choice |-> c, target |-> g] \in alts'
    BY <1>1, <2>1
  <2> QED  BY <1>2, <2>2
<1>3. \/ \E a \in alts' : Supposes(cur, cursor, a.choice, a.target, n)
      \/ SupposesFrom(cur, cursor + 1, n)
  BY <1>1, <1>2, FromHere DEF Pending, Inv, Control
<1> QED  BY <1>1, <1>3, FollowsFrame DEF Pending

(* The loops end only when nothing more follows.                           *)
LEMMA TurnsPush ==
  ASSUME Inv, cursor >= 1, Turns, NEW n, Pending(n)
  PROVE  Pending(n)'
<1>1. UNCHANGED <<obs, options, cur>> /\ cursor \in Nat
  BY Quiet DEF input, search, Inv, Control
<1>2. CASE RecordTried
  <2>1. pc = "fire" /\ alts = {} /\ pc' = "observed" /\ cursor' = cursor + 1
    BY <1>2 DEF RecordTried
  <2>2. LogsFrom(cur, cursor + 1, n) \/ SupposesFrom(cur, 1, n)
    BY <2>1 DEF Pending
  <2> QED  BY <1>1, <2>1, <2>2, FollowsFrame DEF Pending
<1>3. CASE RecordsDone
  <2>1. /\ pc = "observed" /\ cursor \notin Records(obs)
        /\ pc' = (IF cur.used < options.slack THEN "slack" ELSE "pop") /\ cursor' = 1
    BY <1>3 DEF RecordsDone
  <2>2. SupposesFrom(cur, 1, n)
    BY <1>1, <2>1, FromHere DEF Pending
  <2>3. cur.used < options.slack
    BY <2>2, SupposingNeeds DEF SupposesFrom, Supposes
  <2> QED  BY <1>1, <2>1, <2>2, <2>3, FollowsFrame DEF Pending
<1>4. CASE SkipTransition
  <2>1. /\ pc = "slack" /\ MissingPlaces(cur.marking, Silent) # {}
        /\ cursor' = cursor + 1 /\ pc' = pc
    BY <1>4 DEF SkipTransition
  <2>2. \A c, g : ~ Supposes(cur, cursor, c, g, n)
    BY <2>1, SupposesHere
  <2>3. SupposesFrom(cur, cursor + 1, n)
    BY <1>1, <2>1, <2>2, FromHere DEF Pending
  <2> QED  BY <1>1, <2>1, <2>3, FollowsFrame DEF Pending
<1>5. CASE TransitionTried
  <2>1. pc = "invent" /\ alts = {} /\ pc' = "slack" /\ cursor' = cursor + 1
    BY <1>5 DEF TransitionTried
  <2>2. SupposesFrom(cur, cursor + 1, n)
    BY <2>1 DEF Pending
  <2> QED  BY <1>1, <2>1, <2>2, FollowsFrame DEF Pending
<1>6. ~ TransitionsDone
  <2> SUFFICES ASSUME TransitionsDone PROVE FALSE
    OBVIOUS
  <2>1. pc = "slack" /\ cursor \notin DOMAIN Transitions
    BY DEF TransitionsDone
  <2> QED  BY <1>1, <2>1, FromHere DEF Pending
<1>7. ~ SearchEmpty
  BY DEF SearchEmpty, Pending
<1> QED  BY <1>2, <1>3, <1>4, <1>5, <1>6, <1>7 DEF Turns

(* A loop that forgets nothing keeps the exploration complete.             *)
LEMMA ExploredKept ==
  ASSUME NEW S, Explored(S), pc # "pop", UNCHANGED <<obs, options, cur, seen>>, Waiting \subseteq Waiting',
         \A n : Pending(n) => Pending(n)' \/ Key(n) \in Waiting',
         \A n \in Stacked' : n \in Stacked \/ (Pushed(n) /\ Follows(cur, n)),
         pc' \in {"observed", "fire", "slack", "invent"} => pc \in {"observed", "fire", "slack", "invent"}
  PROVE  Explored(S)'
<1>1. Root' = Root /\ Root \in S
  BY DEF Explored, Root
<1>2. \A s \in S : ~ Accepting(s)'
  BY DEF Explored, Accepting, Complete
<1>3. \A s, n : Follows(s, n)' <=> Follows(s, n)
  BY FollowsFrame
<1>4. ASSUME NEW s \in S, NEW n, Follows(s, n)
      PROVE  Key(n) \in seen' \cup Waiting' \/ (s = cur' /\ Pending(n)')
  <2>1. Key(n) \in seen \cup Waiting \/ (s = cur /\ Pending(n))
    BY <1>4 DEF Explored
  <2> QED  BY <2>1
<1>5. seen' = {Key(s) : s \in S}
  BY DEF Explored
<1>6. ASSUME NEW n \in S \cup Stacked' PROVE Reachable(obs', options'.slack, n)
  <2>1. CASE n \in S \cup Stacked
    BY <2>1 DEF Explored
  <2>2. CASE Pushed(n) /\ Follows(cur, n)
    <3>1. cur \in S
      BY <2>2 DEF Pushed, Explored
    <3>2. Reachable(obs, options.slack, cur)
      BY <3>1 DEF Explored
    <3> QED  BY <2>2, <3>2, FollowsReach
  <2> QED  BY <2>1, <2>2
<1>7. pc' \in {"observed", "fire", "slack", "invent"} => cur' \in S
  BY DEF Explored
<1> QED  BY <1>1, <1>2, <1>3, <1>4, <1>5, <1>6, <1>7 DEF Explored

LEMMA PopLeaves ==
  ASSUME Inv, Pop
  PROVE  /\ Top \in Live /\ Waiting \subseteq Waiting' \cup {Key(Top)}
         /\ Top \in Stacked /\ Stacked' \subseteq Stacked
<1>1. IsSeq(stack) /\ stack # <<>> /\ stack' = SubSeq(stack, 1, Len(stack) - 1)
  BY DEF Inv, Pop
<1> DEFINE T == {stack[i] : i \in DOMAIN stack}
<1>2. stack \in Seq(T)
  BY <1>1 DEF IsSeq
<1> HIDE DEF T
<1>3. \A i \in DOMAIN stack : i = Len(stack) \/ (i \in DOMAIN stack' /\ stack'[i] = stack[i])
  BY <1>1, <1>2
<1>4. Top \in Live
  BY <1>1, SeqPop DEF Live, Top
<1>5. Top \in Stacked /\ Stacked' \subseteq Stacked
  BY <1>1, SeqPop DEF Stacked, Top
<1> QED  BY <1>3, <1>4, <1>5 DEF Waiting, Top

(* Expanding a state adds it to those explored.                            *)
LEMMA ExpandExplores ==
  ASSUME Inv, NEW S, Explored(S), Expand, NEW s0, s0 = Top
  PROVE  Explored(S \cup {s0})'
<1>1. /\ pc = "pop" /\ pc' = "observed" /\ cursor' = 1 /\ cur' = Top /\ UNCHANGED <<obs, options>>
      /\ seen' = seen \cup {Key(Top)} /\ ~ Accepting(Top) /\ stack # <<>> /\ Pop
  BY DEF Expand, PopNew, Pop, Accepting, input
<1> DEFINE S1 == S \cup {s0}
<1>2. Root' = Root /\ Root \in S1
  <2>1. stack = <<Root>> => Top = Root
    BY DEF Top
  <2> QED  BY <1>1, <2>1 DEF Explored, Root
<1>3. Waiting \subseteq Waiting' \cup {Key(s0)}
  BY <1>1, PopLeaves
<1>4. seen' = {Key(s) : s \in S1}
  BY <1>1 DEF Explored
<1>5. \A s \in S1 : ~ Accepting(s)
  BY <1>1 DEF Explored
<1>6. \A s \in S1 : ~ Accepting(s)'
  BY <1>1, <1>5 DEF Accepting, Complete
<1>7. \A s, n : Follows(s, n)' <=> Follows(s, n)
  BY <1>1, FollowsFrame
<1>8. cur' = s0
  BY <1>1
<1>9. ASSUME NEW s \in S1, NEW n, Follows(s, n)
      PROVE  Key(n) \in seen' \cup Waiting' \/ (s = cur' /\ Pending(n)')
  <2>1. CASE s \in S
    <3>1. ~ Pending(n)
      BY <1>1 DEF Pending
    <3> QED  BY <1>1, <1>3, <1>9, <2>1, <3>1 DEF Explored
  <2>2. CASE s = s0
    <3>1. LogsFrom(s, 1, n) \/ SupposesFrom(s, 1, n)
      BY <1>9 DEF Follows
    <3>2. (LogsFrom(s, 1, n) \/ SupposesFrom(s, 1, n))'
      BY <1>1, <3>1, FollowsFrame
    <3>3. Pending(n)'
      BY <1>1, <1>8, <2>2, <3>2 DEF Pending
    <3> QED  BY <1>8, <2>2, <3>3
  <2> QED  BY <2>1, <2>2
<1>10. ASSUME NEW n \in S1 \cup Stacked' PROVE Reachable(obs', options'.slack, n)
  <2>1. n \in S \cup Stacked
    BY <1>1, <1>8, PopLeaves
  <2> QED  BY <1>1, <2>1 DEF Explored
<1>11. cur' \in S1
  BY <1>8
<1> HIDE DEF S1
<1>12. Explored(S1)'
  BY <1>1, <1>2, <1>4, <1>6, <1>7, <1>9, <1>10, <1>11 DEF Explored
<1> QED  BY <1>12 DEF S1

InLoop == pc \in {"observed", "fire", "slack", "invent"}

(* What the steps of the two expansions have in common.                    *)
LEMMA LoopSteps ==
  ASSUME Inv, Exploring,
         Skips \/ Drops \/ TryRecord \/ TryTransition \/ FireObserved \/ FireSilent \/ (Turns /\ ~ SearchEmpty)
  PROVE  /\ InLoop /\ pc' \in {"observed", "fire", "slack", "invent", "pop"} /\ cursor' >= 1
         /\ UNCHANGED <<obs, options, preds, cur, seen, outcome>>
         /\ Waiting \subseteq Waiting' /\ \A n \in Stacked' : n \in Stacked \/ Pushed(n)
<1>1. CASE Skips \/ Drops
  <2>1. InLoop
    BY <1>1 DEF InLoop, Skips, SkipRecord, UnknownStep, IdentityMismatch, NotEnabled, EffectShapeMismatch,
           Drops, EffectArgMismatch, NotAttested, GuardFalse, ObligationUnmet, SilentMismatch,
           SilentRefused, SilentObligationUnmet
  <2>2. cursor' \in {cursor, cursor + 1}
    BY <1>1, Quiet DEF Skips, SkipRecord, UnknownStep, IdentityMismatch, NotEnabled,
           EffectShapeMismatch, NextRecord
  <2>3. UNCHANGED <<obs, options, preds, cur, seen, outcome, pc, stack>>
    BY <1>1, Quiet DEF input, search
  <2>4. cursor \in Nat /\ cursor >= 1
    BY <2>1 DEF InLoop, Inv, Control, Exploring
  <2> QED  BY <2>1, <2>2, <2>3, <2>4 DEF Waiting, Stacked, InLoop
<1>2. CASE TryRecord \/ TryTransition
  BY <1>2 DEF TryRecord, TryTransition, InLoop, input, search, Waiting, Stacked, Exploring
<1>3. CASE FireObserved \/ FireSilent
  <2>1. InLoop /\ \E s : Pushed(s) /\ \E a : Push(a, s)
    BY <1>3 DEF FireObserved, FireSilent, InLoop, Pushed, FiredBy, InventedBy
  <2>2. PICK s : Pushed(s) /\ stack' = Append(stack, s)
    BY <2>1 DEF Push
  <2>3. UNCHANGED <<obs, options, preds, cur, seen, outcome, pc, cursor>>
    BY <2>1 DEF Push, input, search
  <2>4. Waiting \subseteq Waiting'
    <3>1. IsSeq(stack)
      BY DEF Inv
    <3>2. \A i \in DOMAIN stack : i \in DOMAIN stack' /\ stack'[i] = stack[i]
      BY <2>2, <3>1, SeqAppend
    <3> QED  BY <3>2 DEF Waiting
  <2>5. \A n \in Stacked' : n \in Stacked \/ n = s
    <3>1. IsSeq(stack)
      BY DEF Inv
    <3> QED  BY <2>2, <3>1, SeqAppend DEF Stacked
  <2> QED  BY <2>1, <2>2, <2>3, <2>4, <2>5 DEF InLoop, Exploring
<1>4. CASE Turns /\ ~ SearchEmpty
  <2>1. UNCHANGED <<obs, options, preds, cur, seen, outcome, stack>>
    BY <1>4, Quiet DEF input, search
  <2>2. /\ InLoop /\ pc' \in {"observed", "slack", "pop"}
        /\ cursor' \in {1, cursor + 1}
    BY <1>4 DEF Turns, RecordTried, RecordsDone, SkipTransition, TransitionTried, TransitionsDone, InLoop
  <2>3. cursor \in Nat
    BY DEF Inv, Control
  <2> QED  BY <2>1, <2>2, <2>3 DEF Waiting, Stacked
<1> QED  BY <1>1, <1>2, <1>3, <1>4

LEMMA LoopExplores ==
  ASSUME Inv, Trying, Prepared, Exploring,
         Skips \/ Drops \/ TryRecord \/ TryTransition \/ FireObserved \/ FireSilent \/ (Turns /\ ~ SearchEmpty)
  PROVE  Exploring'
<1>1. /\ InLoop /\ pc' \in {"observed", "fire", "slack", "invent", "pop"} /\ cursor' >= 1
      /\ UNCHANGED <<obs, options, preds, cur, seen, outcome>>
      /\ Waiting \subseteq Waiting' /\ \A n \in Stacked' : n \in Stacked \/ Pushed(n)
  BY LoopSteps
<1>2. preds = Order(obs) /\ cursor >= 1 /\ outcome = NoOutcome
  BY <1>1 DEF InLoop, Prepared, Exploring
<1>3. PICK S : Explored(S)
  BY <1>1 DEF InLoop, Exploring
<1>4. ASSUME NEW n, Pending(n) PROVE Pending(n)' \/ Key(n) \in Waiting'
  <2>1. CASE FireObserved \/ FireSilent
    <3>1. Pending(n)' \/ \E i \in DOMAIN stack' : stack'[i] = n
      BY <1>2, <1>4, <2>1, FirePush
    <3> QED  BY <3>1 DEF Waiting
  <2>2. CASE Skips \/ Drops \/ TryRecord \/ TryTransition \/ (Turns /\ ~ SearchEmpty)
    BY <1>2, <1>4, <2>2, SkipsPush, DropsPush, TryRecordPush, TryTransitionPush, TurnsPush
  <2> QED  BY <2>1, <2>2
<1>5. Explored(S)'
  <2>1. pc # "pop" /\ pc \in {"observed", "fire", "slack", "invent"}
    BY <1>1 DEF InLoop
  <2>2. \A n \in Stacked' : n \in Stacked \/ (Pushed(n) /\ Follows(cur, n))
    BY <1>1, <1>2, PushedFollows
  <2> QED  BY <1>1, <1>3, <1>4, <2>1, <2>2, ExploredKept
<1> QED  BY <1>1, <1>2, <1>5 DEF Exploring

(* No state is popped and forgotten: it is discarded for its key, or       *)
(* accepted, or expanded.                                                  *)
LEMMA PopExplores ==
  ASSUME Inv, BoundNeverCuts, Exploring, PopExhausted \/ PopDiscarded \/ Accept \/ Expand
  PROVE  Exploring'
<1>1. pc = "pop" /\ Pop
  BY DEF PopExhausted, PopDiscarded, Accept, Expand, PopNew, Pop
<1>2. PICK S : Explored(S)
  BY <1>1 DEF Exploring
<1>3. outcome = NoOutcome
  BY <1>1 DEF Exploring
<1>4. CASE PopExhausted
  BY <1>3, <1>4 DEF PopExhausted, Exploring
<1>5. CASE Accept
  BY <1>5 DEF Accept, Exploring, Accepted
<1>6. CASE Expand
  <2>1. PICK s0 : s0 = Top
    OBVIOUS
  <2>2. Explored(S \cup {s0})'
    BY <1>2, <1>6, <2>1, ExpandExplores
  <2>3. pc' = "observed" /\ cursor' = 1 /\ outcome' = outcome
    BY <1>6 DEF Expand
  <2> QED  BY <1>3, <2>2, <2>3 DEF Exploring
<1>7. CASE PopDiscarded
  <2>1. /\ UNCHANGED <<obs, options, pc, seen, cur, outcome>>
        /\ Top.depth > options.bound \/ Key(Top) \in seen
    BY <1>7 DEF PopDiscarded, input
  <2>2. Top \in Live /\ Waiting \subseteq Waiting' \cup {Key(Top)}
    BY <1>1, PopLeaves
  <2>3. Key(Top) \in seen
    <3>1. Top.depth <= options.bound
      BY <2>2 DEF BoundNeverCuts
    <3>2. Top.depth \in Nat /\ options.bound \in Nat
      BY <2>2, OptionsAssumption DEF Inv, Inputs, Good, StateOK
    <3> QED  BY <2>1, <3>1, <3>2
  <2>4. Root \in S /\ Root' = Root
    BY <1>2, <2>1, <2>3 DEF Explored, Root
  <2>5. \A s \in S : ~ Accepting(s)'
    BY <1>2, <2>1 DEF Explored, Accepting, Complete
  <2>6. \A s, n : Follows(s, n)' <=> Follows(s, n)
    BY <2>1, FollowsFrame
  <2>7. ASSUME NEW s \in S, NEW n, Follows(s, n) PROVE Key(n) \in seen' \cup Waiting'
    <3>1. ~ Pending(n)
      BY <1>1 DEF Pending
    <3>2. Key(n) \in seen \cup Waiting
      BY <1>2, <2>7, <3>1 DEF Explored
    <3> QED  BY <2>1, <2>2, <2>3, <3>2
  <2>8. seen' = {Key(s) : s \in S}
    BY <1>2, <2>1 DEF Explored
  <2>9. \A n \in S \cup Stacked' : Reachable(obs', options'.slack, n)
    BY <1>1, <1>2, <2>1, PopLeaves DEF Explored
  <2>10. Explored(S)'
    BY <1>1, <2>1, <2>4, <2>5, <2>6, <2>7, <2>8, <2>9 DEF Explored
  <2> QED  BY <1>1, <1>3, <2>1, <2>10 DEF Exploring
<1> QED  BY <1>4, <1>5, <1>6, <1>7

LEMMA ExploringNext ==
  ASSUME Inv, Trying, Prepared, BoundNeverCuts, Exploring, [Next]_vars
  PROVE  Exploring'
<1>1. CASE RejectEdges
  <2>1. obs' = obs /\ CheckEdges(obs) # {} /\ pc' = "done"
    BY <1>1 DEF RejectEdges, input
  <2> QED  BY <2>1 DEF Exploring
<1>2. CASE Begin
  <2>1. /\ pc = "start" /\ pc' = "pop" /\ stack' = <<Root>> /\ obs' = obs
        /\ UNCHANGED <<seen, outcome, options>>
    BY <1>2 DEF Begin, search
  <2>2. seen = {} /\ outcome = NoOutcome
    BY <2>1 DEF Exploring
  <2>3. Root' = Root
    BY <2>1 DEF Root
  <2>4. Explored({})'
    <3>1. seen' = {Key(s) : s \in {}}
      BY <2>1, <2>2
    <3>2. pc' = "pop" /\ stack' = <<Root'>>
      BY <2>1, <2>3
    <3>3. \A n \in Stacked' : n = Root
      BY <2>3, <3>2, SeqOne DEF Stacked
    <3>4. \A n \in Stacked' : Reachable(obs', options'.slack, n)
      BY <2>1, <3>3, RootReachable
    <3> QED  BY <3>1, <3>2, <3>4 DEF Explored
  <2> QED  BY <2>1, <2>2, <2>4 DEF Exploring
<1>3. CASE PopExhausted \/ PopDiscarded \/ Accept \/ Expand
  BY <1>3, PopExplores
<1>4. CASE Skips \/ Drops \/ TryRecord \/ TryTransition \/ FireObserved \/ FireSilent \/ (Turns /\ ~ SearchEmpty)
  BY <1>4, LoopExplores
<1>5. CASE SearchEmpty
  <2>1. pc = "pop" /\ stack = <<>> /\ pc' = "conclude" /\ UNCHANGED <<obs, options, seen, cur, outcome, stack>>
    BY <1>5 DEF SearchEmpty, input, search
  <2>2. PICK S : Explored(S)
    BY <2>1 DEF Exploring
  <2>3. Root \in S /\ Root' = Root
    <3>1. DOMAIN stack = {} /\ DOMAIN <<Root>> = {1}
      BY <2>1, SeqEmpty, SeqOne
    <3> QED  BY <2>1, <2>2, <3>1 DEF Explored, Root
  <2>4. \A s \in S : ~ Accepting(s)'
    BY <2>1, <2>2 DEF Explored, Accepting, Complete
  <2>5. \A s, n : Follows(s, n)' <=> Follows(s, n)
    BY <2>1, FollowsFrame
  <2>6. ASSUME NEW s \in S, NEW n, Follows(s, n) PROVE Key(n) \in seen' \cup Waiting'
    BY <2>1, <2>2, <2>6 DEF Explored, Pending, Waiting
  <2>7. seen' = {Key(s) : s \in S}
    BY <2>1, <2>2 DEF Explored
  <2>8. \A n \in S \cup Stacked' : Reachable(obs', options'.slack, n)
    BY <2>1, <2>2 DEF Explored, Stacked
  <2>9. Explored(S)'
    BY <2>1, <2>3, <2>4, <2>5, <2>6, <2>7, <2>8 DEF Explored
  <2> QED  BY <2>1, <2>9 DEF Exploring
<1>6. CASE Conclude
  <2>1. /\ pc = "conclude" /\ pc' = "done" /\ outcome'.exhausted = exhausted
        /\ UNCHANGED <<obs, options, seen, cur, exhausted, stack>>
    BY <1>6 DEF Conclude, input
  <2>2. CASE exhausted
    BY <2>1, <2>2 DEF Exploring
  <2>3. CASE ~ exhausted
    <3>1. PICK S : Explored(S)
      BY <2>1, <2>3 DEF Exploring
    <3>2. stack = <<>>
      BY <2>1, <2>3 DEF Exploring
    <3>3. \A n : ~ Pending(n)
      BY <2>1 DEF Pending
    <3>4. Waiting \subseteq Waiting'
      BY <2>1 DEF Waiting
    <3>5. Stacked' = Stacked
      BY <2>1 DEF Stacked
    <3>6. Explored(S)'
      BY <2>1, <3>1, <3>3, <3>4, <3>5, ExploredKept
    <3> QED  BY <2>1, <3>2, <3>6 DEF Exploring
  <2> QED  BY <2>2, <2>3
<1>7. CASE UNCHANGED vars
  <2>1. UNCHANGED <<obs, options, pc, stack, seen, exhausted, cur, cursor, alts, outcome>>
    BY <1>7 DEF vars
  <2>2. ASSUME NEW S, Explored(S) PROVE Explored(S)'
    <3>1. Root' = Root /\ Waiting' = Waiting /\ Stacked' = Stacked
      BY <2>1 DEF Root, Waiting, Stacked
    <3>2. \A s \in S : ~ Accepting(s)'
      BY <2>1, <2>2 DEF Explored, Accepting, Complete
    <3>3. \A s, n : Follows(s, n)' <=> Follows(s, n)
      BY <2>1, FollowsFrame
    <3>4. \A n : Pending(n) => Pending(n)'
      BY <2>1, FollowsFrame DEF Pending
    <3> QED  BY <2>1, <2>2, <3>1, <3>2, <3>3, <3>4 DEF Explored
  <2> QED  BY <2>1, <2>2 DEF Exploring, Accepted
<1> QED  BY <1>1, <1>2, <1>3, <1>4, <1>5, <1>6, <1>7, Moves

(* verify() rejects and does not admit that it was cut short.              *)
RejectedInFull == Rejected /\ ~ outcome.exhausted

(* What such a rejection leaves behind.                                    *)
LEMMA RejectedExplored ==
  ASSUME Exploring, RejectedInFull, CheckEdges(obs) = {}
  PROVE  \E S : /\ seen = {Key(s) : s \in S}
                /\ Root \in S
                /\ \A n \in S : Reachable(obs, options.slack, n)
                /\ \A s \in S : ~ Accepting(s)
                /\ \A s \in S : \A n : Follows(s, n) => \E m \in S : Key(m) = Key(n)
<1>1. pc = "done" /\ ~ Accepted
  BY DEF Exploring, Rejected, RejectedInFull, Accepted, NoOutcome
<1>2. PICK S : Explored(S)
  BY <1>1 DEF Exploring, RejectedInFull
<1>3. stack = <<>>
  BY <1>1 DEF Exploring, RejectedInFull
<1>4. \A n : Key(n) \notin Waiting /\ ~ Pending(n)
  BY <1>1, <1>3, SeqEmpty DEF Waiting, Pending
<1>5. \A s \in S : \A n : Follows(s, n) => \E m \in S : Key(m) = Key(n)
  BY <1>2, <1>4 DEF Explored
<1> QED  BY <1>1, <1>2, <1>5 DEF Explored

(* The depth bound for_observation() computes, or a higher one.            *)
Bounded(o) ==
  \A op \in OptionsFor(o) : op.bound >= Cardinality(StepRecords(o)) + op.slack

(* The exploration is invariant.                                           *)
LEMMA ExploringAlways ==
  ASSUME \A o \in Observations : Bounded(o)
  PROVE  Spec => [](Inv /\ Prepared /\ Exploring)
<1>1. Init => Prepared /\ Exploring
  BY DEF Init, Prepared, Exploring
<1>2. Inv /\ Trying /\ Prepared /\ BoundNeverCuts /\ Exploring /\ [Next]_vars
        => Prepared' /\ Exploring'
  BY PreparedNext, ExploringNext
<1>3. Spec => []BoundNeverCuts
  BY BoundIsEnough DEF Bounded
<1> QED  BY <1>1, <1>2, <1>3, TryingInvariance, PTL DEF Spec

(* The search has missed nothing: some set of reachable states holds the   *)
(* root, none that verify() would accept, and a state of the same key for  *)
(* each that follows from a member.                                        *)
NothingMissed ==
  \E S : /\ Root \in S
         /\ \A n \in S : Reachable(obs, options.slack, n)
         /\ \A s \in S : ~ Accepting(s)
         /\ \A s \in S : \A n : Follows(s, n) => \E m \in S : Key(m) = Key(n)

(* Rejection is exhaustive: unless the search says that it was cut short,  *)
(* it rejects for an edge or after it has expanded everything that follows *)
(* from the initial marking, up to states of the same key, and met nothing *)
(* it would accept.  The stack, the keys seen, the order of the loops and  *)
(* the early continues lose nothing.                                       *)
THEOREM RejectionIsExhaustive ==
  ASSUME \A o \in Observations : Bounded(o)
  PROVE  Spec => [](Rejected /\ ~ outcome.exhausted => CheckEdges(obs) # {} \/ NothingMissed)
<1>1. Exploring => (Rejected /\ ~ outcome.exhausted => CheckEdges(obs) # {} \/ NothingMissed)
  BY RejectedExplored DEF RejectedInFull, NothingMissed
<1> QED  BY <1>1, ExploringAlways, PTL

-----------------------------------------------------------------------------
(* States of the same key have the same prospects                          *)

FreshNames == {FreshValue(n) : n \in Nat}

UpTo(n) == {FreshValue(i) : i \in 1 .. n}

(* Invented names are distinct, and neither the specification, the         *)
(* certificates nor the observation mentions one.                          *)
FreshReserved(o) ==
  /\ Injective
  /\ Attested \cap FreshNames = {}
  /\ \A e \in Effects(o) : \A k \in DOMAIN e.args : e.args[k] \notin FreshNames
  /\ \A i \in DOMAIN Transitions : \A c \in Transitions[i].guard :
       \A side \in {c.left, c.right} : side.kind # "var" => side.text \notin FreshNames

(* R renames invented names, one to one: those up to f to those up to g.   *)
Renames(R, f, g) ==
  /\ \A a, b : <<a, b>> \in R => a \in UpTo(f) /\ b \in UpTo(g)
  /\ \A a, b, c, d : <<a, b>> \in R /\ <<c, d>> \in R => (a = c <=> b = d)

(* The values are the same but for the renaming.                           *)
Same(R, a, b) == <<a, b>> \in R \/ (a = b /\ a \notin FreshNames)

SameEnv(R, e, h) == DOMAIN e = DOMAIN h /\ \A v \in DOMAIN e : Same(R, e[v], h[v])

LEMMA UpToNames == \A n \in Nat : UpTo(n) \subseteq FreshNames
BY DEF UpTo, FreshNames

LEMMA UpToGrows == \A m, n \in Nat : m <= n => UpTo(m) \subseteq UpTo(n)
BY DEF UpTo

(* What tells two values apart tells them apart under other names.         *)
LEMMA SameTells ==
  ASSUME NEW f \in Nat, NEW g \in Nat, NEW R, Renames(R, f, g), NEW a, NEW b, Same(R, a, b)
  PROVE  /\ \A c, d : Same(R, c, d) => (a = c <=> b = d)
         /\ \A x : x \notin FreshNames => (a = x <=> b = x)
<1>1. \A c, d : <<c, d>> \in R => c \in FreshNames /\ d \in FreshNames
  BY UpToNames DEF Renames
<1> QED  BY <1>1 DEF Same, Renames

LEMMA SameMore == \A R, Q, a, b : R \subseteq Q /\ Same(R, a, b) => Same(Q, a, b)
BY DEF Same

(* A match compares with observed values only.                             *)
LEMMA MatchesSame ==
  ASSUME NEW f \in Nat, NEW g \in Nat, NEW R, Renames(R, f, g), NEW e, NEW h, SameEnv(R, e, h),
         NEW tpl, KindsKnown(tpl), NEW effect, \A k \in DOMAIN effect.args : effect.args[k] \notin FreshNames
  PROVE  /\ Matches(tpl, effect, e) <=> Matches(tpl, effect, h)
         /\ Matches(tpl, effect, e) => SameEnv(R, Unified(tpl, effect, e), Unified(tpl, effect, h))
<1>1. ASSUME ArgsPresent(tpl, effect), NEW k \in DOMAIN tpl.args
      PROVE  ArgMatches(tpl.args[k], effect.args[k], e) <=> ArgMatches(tpl.args[k], effect.args[k], h)
  <2>1. effect.args[k] \notin FreshNames
    BY <1>1 DEF ArgsPresent
  <2>2. CASE tpl.args[k].kind \in {"lit", "glob"}
    BY <2>2 DEF ArgMatches
  <2>3. CASE tpl.args[k].kind = "var"
    <3>1. ASSUME tpl.args[k].text \in DOMAIN e
          PROVE  e[tpl.args[k].text] = effect.args[k] <=> h[tpl.args[k].text] = effect.args[k]
      BY <2>1, <3>1, SameTells DEF SameEnv
    <3> QED  BY <2>3, <3>1 DEF ArgMatches, SameEnv
  <2> QED  BY <2>2, <2>3 DEF KindsKnown
<1>2. Matches(tpl, effect, e) <=> Matches(tpl, effect, h)
  BY <1>1 DEF Matches
<1>3. ASSUME Matches(tpl, effect, e) PROVE SameEnv(R, Unified(tpl, effect, e), Unified(tpl, effect, h))
  <2> DEFINE x == Unified(tpl, effect, e)
             y == Unified(tpl, effect, h)
  <2>1. DOMAIN e = DOMAIN h /\ DOMAIN x = DOMAIN y
    BY DEF SameEnv, Unified
  <2>2. ASSUME NEW v \in DOMAIN x PROVE Same(R, x[v], y[v])
    <3>1. CASE v \in DOMAIN e
      <4>1. x[v] = e[v] /\ y[v] = h[v]
        BY <2>1, <3>1 DEF Unified
      <4> QED  BY <3>1, <4>1 DEF SameEnv
    <3>2. CASE v \notin DOMAIN e
      <4>1. x[v] = y[v]
        BY <2>1, <3>2 DEF Unified
      <4>2. \E k \in DOMAIN effect.args : x[v] = effect.args[k]
        BY <1>3, <3>2, UnifiedDraws
      <4> QED  BY <4>1, <4>2 DEF Same
    <3> QED  BY <3>1, <3>2
  <2> HIDE DEF x, y
  <2> QED  BY <2>1, <2>2 DEF SameEnv, x, y
<1> QED  BY <1>2, <1>3

(* So does the match of all the effects of a record.                       *)
LEMMA MatchPairsSame ==
  ASSUME NEW f \in Nat, NEW g \in Nat, NEW R, Renames(R, f, g), NEW e, NEW h, SameEnv(R, e, h),
         NEW effects, NEW emits, Listed(effects), Listed(emits), ShapeOk(effects, emits),
         \A j \in DOMAIN emits : KindsKnown(emits[j]),
         \A i \in DOMAIN effects : \A k \in DOMAIN effects[i].args : effects[i].args[k] \notin FreshNames
  PROVE  LET x == MatchPairs(effects, emits, e)
             y == MatchPairs(effects, emits, h)
         IN  x.bad = 0 => y.bad = 0 /\ SameEnv(R, x.env, y.env)
<1> DEFINE n == Len(effects)
<1>1. n \in Nat /\ DOMAIN effects = 1 .. n
  BY DEF Listed
<1>2. \A i \in 1 .. n : Pairing(effects, emits)[i] \in DOMAIN emits
  BY <1>1, PairingSteps DEF ShapeOk, Listed
<1>3. PICK xs : /\ xs[0] = [env |-> e, bad |-> 0]
                /\ \A i \in 1 .. n : xs[i] = MatchStep(effects, emits, xs[i - 1], i)
                /\ MatchPairs(effects, emits, e) = xs[n]
  BY MatchPairsUnfold
<1>4. PICK ys : /\ ys[0] = [env |-> h, bad |-> 0]
                /\ \A i \in 1 .. n : ys[i] = MatchStep(effects, emits, ys[i - 1], i)
                /\ MatchPairs(effects, emits, h) = ys[n]
  BY MatchPairsUnfold
<1> HIDE DEF n
<1> DEFINE T == {m \in Nat : m <= n => /\ xs[m] = [env |-> xs[m].env, bad |-> xs[m].bad]
                                       /\ xs[m].bad = 0 => ys[m].bad = 0 /\ SameEnv(R, xs[m].env, ys[m].env)}
<1>5. 0 \in T
  BY <1>3, <1>4
<1>6. ASSUME NEW m \in T PROVE m + 1 \in T
  <2> DEFINE x == xs[m]
             y == ys[m]
             tpl == emits[Pairing(effects, emits)[m + 1]]
             effect == effects[m + 1]
  <2> SUFFICES ASSUME m + 1 <= n
               PROVE  /\ xs[m + 1] = [env |-> xs[m + 1].env, bad |-> xs[m + 1].bad]
                      /\ xs[m + 1].bad = 0 => ys[m + 1].bad = 0 /\ SameEnv(R, xs[m + 1].env, ys[m + 1].env)
    OBVIOUS
  <2>1. m \in Nat /\ m + 1 \in 1 .. n /\ (m + 1) - 1 = m
    BY <1>1
  <2>2. x = [env |-> x.env, bad |-> x.bad] /\ (x.bad = 0 => y.bad = 0 /\ SameEnv(R, x.env, y.env))
    BY <1>1, <2>1
  <2>3. xs[m + 1] = MatchStep(effects, emits, x, m + 1) /\ ys[m + 1] = MatchStep(effects, emits, y, m + 1)
    BY <1>3, <1>4, <2>1
  <2>4. /\ KindsKnown(tpl) /\ \A k \in DOMAIN effect.args : effect.args[k] \notin FreshNames
    BY <1>1, <1>2, <2>1
  <2> HIDE DEF T, x, y
  <2>5. CASE x.bad # 0
    BY <2>2, <2>3, <2>5 DEF MatchStep
  <2>6. CASE x.bad = 0 /\ ~ Matches(tpl, effect, x.env)
    <3>1. xs[m + 1] = [x EXCEPT !.bad = m + 1]
      BY <2>3, <2>6 DEF MatchStep
    <3>2. xs[m + 1] = [env |-> x.env, bad |-> m + 1] /\ m + 1 # 0
      BY <2>1, <2>2, <3>1
    <3> QED  BY <3>2
  <2>7. CASE x.bad = 0 /\ Matches(tpl, effect, x.env)
    <3>1. Matches(tpl, effect, y.env) /\ SameEnv(R, Unified(tpl, effect, x.env), Unified(tpl, effect, y.env))
      BY <2>2, <2>4, <2>7, MatchesSame
    <3>2. xs[m + 1] = [env |-> Unified(tpl, effect, x.env), bad |-> 0]
      BY <2>3, <2>7 DEF MatchStep
    <3>3. ys[m + 1] = [env |-> Unified(tpl, effect, y.env), bad |-> 0]
      BY <2>2, <2>3, <2>7, <3>1 DEF MatchStep
    <3> QED  BY <3>1, <3>2, <3>3
  <2> QED  BY <2>5, <2>6, <2>7
<1>7. n \in T
  <2> HIDE DEF T
  <2>1. T \in SUBSET Nat
    BY DEF T
  <2> QED  BY <1>1, <1>5, <1>6, <2>1, Induction
<1> QED  BY <1>1, <1>3, <1>4, <1>7

(* The names a firing invents are new on both sides.                       *)
LEMMA BindSame ==
  ASSUME Injective, NEW f \in Nat, NEW g \in Nat, NEW R, Renames(R, f, g), NEW e, NEW h, SameEnv(R, e, h),
         NEW i \in DOMAIN Transitions
  PROVE  LET t == Transitions[i]
             n == Cardinality(Unbound(t, e))
         IN  \E Q : /\ R \subseteq Q /\ Renames(Q, f + n, g + n)
                    /\ SameEnv(Q, BindFresh(t, e, f), BindFresh(t, h, g))
<1> DEFINE t == Transitions[i]
           open == Unbound(t, e)
           n == Cardinality(open)
           At(v) == CHOOSE j \in open : t.binds[j] = v
           New == {<<FreshValue(f + j), FreshValue(g + j)>> : j \in 1 .. n}
           Q == R \cup New
           x == BindFresh(t, e, f)
           y == BindFresh(t, h, g)
<1>1. open \in SUBSET Nat /\ IsFiniteSet(open) /\ n \in Nat
  <2>1. IsFiniteSet(DOMAIN t.binds) /\ DOMAIN t.binds \subseteq Nat
    BY TransitionsAssumption, ListedFinite
  <2>2. open \subseteq DOMAIN t.binds
    BY DEF Unbound
  <2> HIDE DEF open
  <2> QED  BY <2>1, <2>2, FS_Subset, FS_CardinalityType
<1>2. DOMAIN e = DOMAIN h /\ Unbound(t, h) = open
  BY DEF SameEnv, Unbound
<1>3. DOMAIN x = DOMAIN y /\ DOMAIN x = DOMAIN e \cup {t.binds[j] : j \in open}
  BY <1>2 DEF BindFresh
<1>4. ASSUME NEW v \in DOMAIN x, v \notin DOMAIN e
      PROVE  \E j \in 1 .. n : x[v] = FreshValue(f + j) /\ y[v] = FreshValue(g + j)
  <2>1. At(v) \in open
    BY <1>3, <1>4
  <2>2. /\ x[v] = FreshValue(f + Cardinality({j \in open : j <= At(v)}))
        /\ y[v] = FreshValue(g + Cardinality({j \in open : j <= At(v)}))
    BY <1>2, <1>3, <1>4 DEF BindFresh
  <2> HIDE DEF open, At, x, y
  <2>3. Rank(open, At(v)) \in 1 .. n
    BY <1>1, <2>1, Ranks
  <2> QED  BY <2>2, <2>3 DEF Rank
<1>5. ASSUME NEW v \in DOMAIN e PROVE x[v] = e[v] /\ y[v] = h[v]
  BY <1>2, <1>3 DEF BindFresh
<1> HIDE DEF open, n, x, y
<1>6. ASSUME NEW v \in DOMAIN x PROVE Same(Q, x[v], y[v])
  <2>1. CASE v \in DOMAIN e
    <3>1. Same(R, x[v], y[v])
      BY <1>5, <2>1 DEF SameEnv
    <3> QED  BY <3>1, SameMore
  <2>2. CASE v \notin DOMAIN e
    BY <1>4, <2>2 DEF Same
  <2> QED  BY <2>1, <2>2
<1>7. Renames(Q, f + n, g + n)
  <2>1. ASSUME NEW a, NEW b, <<a, b>> \in New
        PROVE  \E j \in 1 .. n : a = FreshValue(f + j) /\ b = FreshValue(g + j)
    BY <2>1
  <2>2. \A j \in 1 .. n : f + j \in 1 .. (f + n) /\ g + j \in 1 .. (g + n) /\ f + j \in Nat /\ g + j \in Nat
    BY <1>1
  <2>3. UpTo(f) \subseteq UpTo(f + n) /\ UpTo(g) \subseteq UpTo(g + n)
    BY <1>1, UpToGrows
  <2>4. \A j \in 1 .. n : FreshValue(f + j) \notin UpTo(f) /\ FreshValue(g + j) \notin UpTo(g)
    BY <1>1, <2>2 DEF UpTo, Injective
  <2>5. \A j, k \in 1 .. n : /\ FreshValue(f + j) = FreshValue(f + k) => j = k
                             /\ FreshValue(g + j) = FreshValue(g + k) => j = k
    BY <1>1, <2>2 DEF Injective
  <2>6. \A j \in 1 .. n : FreshValue(f + j) \in UpTo(f + n) /\ FreshValue(g + j) \in UpTo(g + n)
    BY <2>2 DEF UpTo
  <2>7. ASSUME NEW a, NEW b, <<a, b>> \in Q PROVE a \in UpTo(f + n) /\ b \in UpTo(g + n)
    BY <2>1, <2>3, <2>6, <2>7 DEF Renames
  <2>8. ASSUME NEW a, NEW b, NEW c, NEW d, <<a, b>> \in Q, <<c, d>> \in Q PROVE a = c <=> b = d
    <3>1. CASE <<a, b>> \in R /\ <<c, d>> \in R
      BY <3>1 DEF Renames
    <3>2. CASE <<a, b>> \in R /\ <<c, d>> \in New
      <4>1. a \in UpTo(f) /\ b \in UpTo(g)
        BY <3>2 DEF Renames
      <4> QED  BY <2>1, <2>4, <3>2, <4>1
    <3>3. CASE <<a, b>> \in New /\ <<c, d>> \in R
      <4>1. c \in UpTo(f) /\ d \in UpTo(g)
        BY <3>3 DEF Renames
      <4> QED  BY <2>1, <2>4, <3>3, <4>1
    <3>4. CASE <<a, b>> \in New /\ <<c, d>> \in New
      <4>1. PICK j \in 1 .. n : a = FreshValue(f + j) /\ b = FreshValue(g + j)
        BY <2>1, <3>4
      <4>2. PICK k \in 1 .. n : c = FreshValue(f + k) /\ d = FreshValue(g + k)
        BY <2>1, <3>4
      <4> QED  BY <2>5, <4>1, <4>2
    <3> QED  BY <2>8, <3>1, <3>2, <3>3, <3>4
  <2> HIDE DEF Q
  <2> QED  BY <2>7, <2>8 DEF Renames
<1>8. R \subseteq Q
  OBVIOUS
<1> HIDE DEF Q
<1>9. SameEnv(Q, x, y)
  BY <1>3, <1>6 DEF SameEnv
<1> QED  BY <1>7, <1>8, <1>9 DEF n, open, x, y

(* A side of a clause has the same value but for the renaming.             *)
LEMMA SideSame ==
  ASSUME NEW R, NEW e, NEW h, SameEnv(R, e, h), NEW side
  PROVE  \/ SideValue(side, e) = SideValue(side, h) /\ SideValue(side, e) = {}
         \/ side.kind # "var" /\ SideValue(side, e) = {side.text} /\ SideValue(side, h) = {side.text}
         \/ \E a, b : Same(R, a, b) /\ SideValue(side, e) = {a} /\ SideValue(side, h) = {b}
<1>1. CASE side.kind # "var"
  <2>1. SideValue(side, e) = {side.text} /\ SideValue(side, h) = {side.text}
    BY <1>1 DEF SideValue
  <2> QED  BY <1>1, <2>1
<1>2. CASE side.kind = "var" /\ side.text \in DOMAIN e
  <2>1. SideValue(side, e) = {e[side.text]} /\ SideValue(side, h) = {h[side.text]}
    BY <1>2 DEF SideValue, SameEnv
  <2> QED  BY <1>2, <2>1 DEF SameEnv
<1>3. CASE side.kind = "var" /\ side.text \notin DOMAIN e
  BY <1>3 DEF SideValue, SameEnv
<1> QED  BY <1>1, <1>2, <1>3

(* The tests of a firing have the same outcome under other names.          *)
LEMMA GuardSame ==
  ASSUME NEW o, FreshReserved(o), NEW f \in Nat, NEW g \in Nat, NEW R, Renames(R, f, g),
         NEW e, NEW h, SameEnv(R, e, h), NEW i \in DOMAIN Transitions
  PROVE  GuardHolds(Transitions[i], e) => GuardHolds(Transitions[i], h)
<1> DEFINE t == Transitions[i]
<1>1. ASSUME NEW c \in t.guard, ClauseHolds(c.op, SideValue(c.left, e), SideValue(c.right, e))
      PROVE  ClauseHolds(c.op, SideValue(c.left, h), SideValue(c.right, h))
  <2> DEFINE Fixed(A, B) == A = B /\ A \cap FreshNames = {}
             Moved(A, B) == \E a, b : Same(R, a, b) /\ A = {a} /\ B = {b}
             l == SideValue(c.left, e)
             r == SideValue(c.right, e)
             m == SideValue(c.left, h)
             s == SideValue(c.right, h)
  <2>1. \A side \in {c.left, c.right} : side.kind # "var" => side.text \notin FreshNames
    BY DEF FreshReserved
  <2>2. \A side \in {c.left, c.right} : \/ Fixed(SideValue(side, e), SideValue(side, h))
                                        \/ Moved(SideValue(side, e), SideValue(side, h))
    BY <2>1, SideSame
  <2>3. (Fixed(l, m) \/ Moved(l, m)) /\ (Fixed(r, s) \/ Moved(r, s))
    BY <2>2
  <2> HIDE DEF l, r, m, s
  <2>4. l # {} => m # {}
    BY <2>3
  <2>5. r # {} => s # {}
    BY <2>3
  <2>6. ASSUME NEW a, NEW b, Same(R, a, b), NEW A, A \cap FreshNames = {} PROVE {a} = A <=> {b} = A
    <3>1. CASE a = b
      BY <3>1
    <3>2. CASE <<a, b>> \in R
      <4>1. a \in FreshNames /\ b \in FreshNames
        BY <3>2, UpToNames DEF Renames
      <4> QED  BY <2>6, <4>1
    <3> QED  BY <2>6, <3>1, <3>2 DEF Same
  <2>7. l = r <=> m = s
    <3>1. CASE Fixed(l, m) /\ Fixed(r, s)
      BY <3>1
    <3>2. CASE Moved(l, m) /\ Fixed(r, s)
      BY <2>6, <3>2
    <3>3. CASE Fixed(l, m) /\ Moved(r, s)
      BY <2>6, <3>3
    <3>4. CASE Moved(l, m) /\ Moved(r, s)
      <4>1. PICK a, b : Same(R, a, b) /\ l = {a} /\ m = {b}
        BY <3>4
      <4>2. PICK c0, d0 : Same(R, c0, d0) /\ r = {c0} /\ s = {d0}
        BY <3>4
      <4>3. a = c0 <=> b = d0
        BY <4>1, <4>2, SameTells
      <4> QED  BY <4>1, <4>2, <4>3
    <3> QED  BY <2>3, <3>1, <3>2, <3>3, <3>4
  <2> QED  BY <1>1, <2>4, <2>5, <2>7 DEF ClauseHolds, l, r, m, s
<1> QED  BY <1>1 DEF GuardHolds

LEMMA AttestedSame ==
  ASSUME NEW o, FreshReserved(o), NEW f \in Nat, NEW g \in Nat, NEW R, Renames(R, f, g),
         NEW e, NEW h, SameEnv(R, e, h), NEW t, UnattestedVars(t, e) = {}
  PROVE  UnattestedVars(t, h) = {}
<1> SUFFICES ASSUME NEW v \in t.attested PROVE v \in DOMAIN h /\ h[v] \in Attested
  BY DEF UnattestedVars
<1>1. v \in DOMAIN e /\ e[v] \in Attested
  BY DEF UnattestedVars
<1>2. Same(R, e[v], h[v]) /\ DOMAIN h = DOMAIN e
  BY <1>1 DEF SameEnv
<1>3. e[v] \notin FreshNames
  BY <1>1 DEF FreshReserved
<1>4. h[v] = e[v]
  BY <1>2, <1>3, SameTells
<1> QED  BY <1>1, <1>2, <1>4

LEMMA UnmetSame ==
  ASSUME NEW o, FreshReserved(o), NEW f \in Nat, NEW g \in Nat, NEW R, Renames(R, f, g),
         NEW e, NEW h, SameEnv(R, e, h), NEW t, NEW tpl, NEW id, NEW matched
  PROVE  Unmet(o, t, tpl, id, e, matched) = Unmet(o, t, tpl, id, h, matched)
<1>1. ASSUME NEW side, NEW x, x \notin FreshNames PROVE SideValue(side, e) = {x} <=> SideValue(side, h) = {x}
  <2>1. \A a, b : Same(R, a, b) => (a = x <=> b = x)
    BY <1>1, SameTells
  <2> QED  BY <2>1, SideSame
<1>2. ASSUME NEW edge, NEW ob
      PROVE  Discharges(o, edge, ob, id, e, matched) <=> Discharges(o, edge, ob, id, h, matched)
  <2> DEFINE Meets(target, env) ==
               \A k \in DOMAIN ob.bind :
                 k \in DOMAIN target.args /\ SideValue(ob.bind[k], env) = {target.args[k]}
  <2>1. ASSUME NEW target \in EffectNamed(o, edge.to) PROVE Meets(target, e) <=> Meets(target, h)
    <3>1. \A k \in DOMAIN target.args : target.args[k] \notin FreshNames
      BY DEF FreshReserved, EffectNamed
    <3> QED  BY <1>1, <3>1
  <2> DEFINE Hit(env) == \E target \in EffectNamed(o, edge.to) :
                           target.kind = ob.target /\ target.id \in matched /\ Meets(target, env)
  <2>2. Hit(e) <=> Hit(h)
    BY <2>1
  <2> HIDE DEF Hit
  <2>3. \A env : Discharges(o, edge, ob, id, env, matched)
                  <=> edge.ty = ob.ty /\ edge.from = id /\ Hit(env)
    BY DEF Discharges, Hit
  <2> QED  BY <2>2, <2>3
<1>3. UnmetIndices(o, tpl, id, e, matched) = UnmetIndices(o, tpl, id, h, matched)
  BY <1>2 DEF UnmetIndices
<1> QED  BY <1>3 DEF Unmet

(* B finds for each token of m one of its own in w, in the same place and  *)
(* with the same visible contents but for the renaming.                    *)
Simulates(R, B, m, w) ==
  /\ \A p \in Places : \A x \in m[p] :
       /\ B[x] \in w[p] /\ Visible(B[x]) = Visible(x)
       /\ \A v \in Visible(x) : Same(R, x.env[v], B[x].env[v])
  /\ \A p, q \in Places : \A x \in m[p], y \in m[q] : B[x] = B[y] => x = y

(* What tokens carry into a firing.                                        *)
LEMMA MergedAt ==
  ASSUME NEW c, ~ MergeConflict(c), NEW k \in DOMAIN c, NEW v \in Visible(c[k])
  PROVE  v \in DOMAIN MergedEnv(c) /\ MergedEnv(c)[v] = c[k].env[v]
<1> DEFINE j == CHOOSE s \in DOMAIN c : v \in Visible(c[s])
<1>1. j \in DOMAIN c /\ v \in Visible(c[j])
  OBVIOUS
<1>2. v \in DOMAIN MergedEnv(c) /\ MergedEnv(c)[v] = c[j].env[v]
  BY DEF MergedEnv
<1> HIDE DEF j
<1>3. c[j].env[v] = c[k].env[v]
  BY <1>1 DEF MergeConflict
<1> QED  BY <1>2, <1>3

LEMMA ChoiceSame ==
  ASSUME NEW f \in Nat, NEW g \in Nat, NEW R, Renames(R, f, g), NEW B, NEW m, NEW w,
         Simulates(R, B, m, w), NEW i \in DOMAIN Transitions,
         NEW c \in AllChoices(m, Transitions[i]), ~ MergeConflict(c),
         NEW d, d = [k \in DOMAIN c |-> B[c[k]]]
  PROVE  /\ d \in AllChoices(w, Transitions[i]) /\ ~ MergeConflict(d)
         /\ SameEnv(R, MergedEnv(c), MergedEnv(d))
<1> DEFINE t == Transitions[i]
<1>1. /\ DOMAIN c = DOMAIN t.consumes /\ DOMAIN d = DOMAIN c
      /\ \A k \in DOMAIN c : c[k] \in m[t.consumes[k]] /\ t.consumes[k] \in Places /\ d[k] = B[c[k]]
      /\ \A k, l \in DOMAIN c : c[k] = c[l] => k = l
  BY TransitionsAssumption DEF AllChoices
<1>2. \A k \in DOMAIN c : /\ d[k] \in w[t.consumes[k]] /\ Visible(d[k]) = Visible(c[k])
                          /\ \A v \in Visible(c[k]) : Same(R, c[k].env[v], d[k].env[v])
  BY <1>1 DEF Simulates
<1>3. \A k, l \in DOMAIN c : d[k] = d[l] => k = l
  BY <1>1 DEF Simulates
<1>4. d \in AllChoices(w, t)
  <2>1. d \in [DOMAIN t.consumes -> UNION {w[p] : p \in Places}]
    BY <1>1, <1>2
  <2> QED  BY <1>1, <1>2, <1>3, <2>1 DEF AllChoices
<1>5. ~ MergeConflict(d)
  <2> SUFFICES ASSUME NEW k \in DOMAIN d, NEW l \in DOMAIN d, NEW v \in Visible(d[k]) \cap Visible(d[l])
               PROVE  d[k].env[v] = d[l].env[v]
    BY DEF MergeConflict
  <2>1. v \in Visible(c[k]) /\ v \in Visible(c[l]) /\ k \in DOMAIN c /\ l \in DOMAIN c
    BY <1>1, <1>2
  <2>2. c[k].env[v] = c[l].env[v]
    BY <2>1 DEF MergeConflict
  <2>3. Same(R, c[k].env[v], d[k].env[v]) /\ Same(R, c[l].env[v], d[l].env[v])
    BY <1>2, <2>1
  <2> QED  BY <2>2, <2>3, SameTells
<1>6. SameEnv(R, MergedEnv(c), MergedEnv(d))
  <2>1. DOMAIN MergedEnv(c) = DOMAIN MergedEnv(d)
    <3>1. \A x, v : v \in DOMAIN MergedEnv(x) <=> \E k \in DOMAIN x : v \in Visible(x[k])
      BY DEF MergedEnv
    <3>2. \A k \in DOMAIN c : Visible(c[k]) = Visible(d[k])
      BY <1>2
    <3>3. \A v : v \in DOMAIN MergedEnv(c) <=> v \in DOMAIN MergedEnv(d)
      BY <1>1, <3>1, <3>2
    <3> QED  BY <3>3
  <2>2. ASSUME NEW v \in DOMAIN MergedEnv(c) PROVE Same(R, MergedEnv(c)[v], MergedEnv(d)[v])
    <3>1. PICK k \in DOMAIN c : v \in Visible(c[k])
      BY DEF MergedEnv
    <3>2. k \in DOMAIN d /\ v \in Visible(d[k])
      BY <1>1, <1>2, <3>1
    <3>3. MergedEnv(c)[v] = c[k].env[v] /\ MergedEnv(d)[v] = d[k].env[v]
      BY <1>5, <3>1, <3>2, MergedAt
    <3> QED  BY <1>2, <3>1, <3>3
  <2> QED  BY <2>1, <2>2 DEF SameEnv
<1> QED  BY <1>4, <1>5, <1>6

(* The firing leaves markings that correspond.                             *)
LEMMA FireSame ==
  ASSUME NEW R, NEW B, NEW m, NEW w, Simulates(R, B, m, w), NEW Q, R \subseteq Q,
         NEW a \in Nat, NEW b \in Nat, MarkingOK(m, a), MarkingOK(w, b),
         NEW i \in DOMAIN Transitions, NEW c \in AllChoices(m, Transitions[i]),
         NEW d, d = [k \in DOMAIN c |-> B[c[k]]], NEW e, NEW h, SameEnv(Q, e, h)
  PROVE  \E D : Simulates(Q, D, Fire(m, Transitions[i], c, e, a + 1), Fire(w, Transitions[i], d, h, b + 1))
<1> DEFINE t == Transitions[i]
           n == Fire(m, t, c, e, a + 1)
           u == Fire(w, t, d, h, b + 1)
           Twin(x) == [born |-> <<b + 1, x.born[2]>>, env |-> Carried(h, t.produces[x.born[2]])]
           D == [x \in UNION {n[p] : p \in Places} |-> IF x.born[1] = a + 1 THEN Twin(x) ELSE B[x]]
<1>1. ASSUME NEW p \in Places, NEW x \in n[p]
      PROVE  \/ x \in m[p] /\ x.born[1] # a + 1 /\ x \notin {c[k] : k \in DOMAIN c} /\ D[x] = B[x]
             \/ /\ x.born[1] = a + 1 /\ x.born[2] \in DOMAIN t.produces /\ t.produces[x.born[2]] = p
                /\ x = [born |-> <<a + 1, x.born[2]>>, env |-> Carried(e, p)] /\ D[x] = Twin(x)
  <2>1. \/ x \in m[p] /\ x \notin {c[k] : k \in DOMAIN c}
        \/ \E r \in DOMAIN t.produces : t.produces[r] = p /\ x = [born |-> <<a + 1, r>>, env |-> Carried(e, p)]
    BY DEF Fire
  <2>2. x \in UNION {n[q] : q \in Places}
    OBVIOUS
  <2> HIDE DEF Twin, n
  <2>3. D[x] = IF x.born[1] = a + 1 THEN Twin(x) ELSE B[x]
    BY <2>2
  <2> HIDE DEF D
  <2>4. CASE x \in m[p] /\ x \notin {c[k] : k \in DOMAIN c}
    <3>1. x.born[1] <= a /\ x.born[1] \in Nat
      BY <2>4 DEF MarkingOK
    <3>2. x.born[1] # a + 1
      BY <3>1
    <3> QED  BY <2>3, <2>4, <3>2
  <2>5. CASE \E r \in DOMAIN t.produces : t.produces[r] = p /\ x = [born |-> <<a + 1, r>>, env |-> Carried(e, p)]
    <3>1. PICK r \in DOMAIN t.produces : t.produces[r] = p /\ x = [born |-> <<a + 1, r>>, env |-> Carried(e, p)]
      BY <2>5
    <3>2. x.born[1] = a + 1 /\ x.born[2] = r
      BY <3>1
    <3> QED  BY <2>3, <3>1, <3>2
  <2> QED  BY <2>1, <2>4, <2>5
<1>2. \A p \in Places : u[p] = (w[p] \ {d[k] : k \in DOMAIN d}) \cup
        {[born |-> <<b + 1, r>>, env |-> Carried(h, p)] : r \in {l \in DOMAIN t.produces : t.produces[l] = p}}
  BY DEF Fire
<1>3. \A k \in DOMAIN c : c[k] \in m[t.consumes[k]] /\ t.consumes[k] \in Places
  BY TransitionsAssumption DEF AllChoices
<1>4. \A p \in Places : \A x \in w[p] : x.born[1] # b + 1
  <2>1. \A p \in Places : \A x \in w[p] : x.born[1] <= b /\ x.born[1] \in Nat
    BY DEF MarkingOK
  <2> QED  BY <2>1
<1> HIDE DEF n, u, D
<1>5. ASSUME NEW p \in Places, NEW x \in n[p]
      PROVE  /\ D[x] \in u[p] /\ Visible(D[x]) = Visible(x)
             /\ \A v \in Visible(x) : Same(Q, x.env[v], D[x].env[v])
  <2>1. CASE x \in m[p] /\ x.born[1] # a + 1 /\ x \notin {c[k] : k \in DOMAIN c} /\ D[x] = B[x]
    <3>1. B[x] \in w[p] /\ Visible(B[x]) = Visible(x) /\ \A v \in Visible(x) : Same(R, x.env[v], B[x].env[v])
      BY <2>1 DEF Simulates
    <3>2. B[x] \notin {d[k] : k \in DOMAIN d}
      BY <1>3, <2>1 DEF Simulates
    <3> QED  BY <1>2, <2>1, <3>1, <3>2, SameMore
  <2>2. CASE /\ x.born[1] = a + 1 /\ x.born[2] \in DOMAIN t.produces /\ t.produces[x.born[2]] = p
             /\ x = [born |-> <<a + 1, x.born[2]>>, env |-> Carried(e, p)] /\ D[x] = Twin(x)
    <3>1. D[x] = [born |-> <<b + 1, x.born[2]>>, env |-> Carried(h, p)]
      BY <2>2
    <3>2. D[x] \in u[p]
      BY <1>2, <2>2, <3>1
    <3>3. x.env = Carried(e, p) /\ D[x].env = Carried(h, p)
      BY <2>2, <3>1
    <3>4. SameEnv(Q, Carried(e, p), Carried(h, p))
      BY DEF SameEnv, Carried
    <3> QED  BY <3>2, <3>3, <3>4 DEF Visible, SameEnv
  <2> QED  BY <1>1, <2>1, <2>2
<1>6. ASSUME NEW p \in Places, NEW q \in Places, NEW x \in n[p], NEW y \in n[q], D[x] = D[y] PROVE x = y
  <2> DEFINE Old(z, r) == z \in m[r] /\ D[z] = B[z]
             Newly(z, r) == /\ z.born[2] \in DOMAIN t.produces /\ t.produces[z.born[2]] = r
                            /\ z = [born |-> <<a + 1, z.born[2]>>, env |-> Carried(e, r)] /\ D[z] = Twin(z)
  <2>1. (Old(x, p) \/ Newly(x, p)) /\ (Old(y, q) \/ Newly(y, q))
    BY <1>1
  <2>2. CASE Old(x, p) /\ Old(y, q)
    BY <1>6, <2>2 DEF Simulates
  <2>3. CASE Newly(x, p) /\ Newly(y, q)
    <3>1. Twin(x).born = <<b + 1, x.born[2]>> /\ Twin(y).born = <<b + 1, y.born[2]>>
      OBVIOUS
    <3>2. Twin(x) = Twin(y)
      BY <1>6, <2>3
    <3>3. <<b + 1, x.born[2]>> = <<b + 1, y.born[2]>>
      BY <3>1, <3>2
    <3>4. x.born[2] = y.born[2] /\ p = q
      BY <2>3, <3>3
    <3> QED  BY <2>3, <3>4
  <2>4. \A z, r : r \in Places /\ Old(z, r) => D[z].born[1] # b + 1
    BY <1>4 DEF Simulates
  <2>5. \A z, r : Newly(z, r) => D[z].born[1] = b + 1
    OBVIOUS
  <2> HIDE DEF Old, Newly
  <2> QED  BY <1>6, <2>1, <2>2, <2>3, <2>4, <2>5
<1>7. Simulates(Q, D, n, u)
  BY <1>5, <1>6 DEF Simulates
<1> QED  BY <1>7 DEF n, u

(* The environment holds no invented name beyond the counter.              *)
Counted(env, n) == \A v \in DOMAIN env : env[v] \in FreshNames => env[v] \in UpTo(n)

(* What a state keeps to wherever the firings lead.                        *)
Sane(s) ==
  /\ s.depth \in Nat /\ s.fresh \in Nat /\ MarkingOK(s.marking, s.depth)
  /\ \A p \in Places : /\ IsFiniteSet(s.marking[p])
                       /\ \A x \in s.marking[p] : \A v \in Visible(x) :
                            x.env[v] \in FreshNames => x.env[v] \in UpTo(s.fresh)

(* Whatever s explains and however it goes on, z can do the same.          *)
Mirrored(s, z) ==
  /\ s.consumed = z.consumed /\ s.matched = z.matched /\ s.used = z.used
  /\ \E R, B : Renames(R, s.fresh, z.fresh) /\ Simulates(R, B, s.marking, z.marking)

LEMMA OriginSane == \A o : Sane(Origin(o))
<1>1. \A p \in Places : \A x \in Initial[p] : Visible(x) = {}
  BY InitialAssumption DEF Visible
<1> QED  BY <1>1, InitialAssumption DEF Sane, Origin

LEMMA OriginMirrored == \A o : Mirrored(Origin(o), Origin(o))
<1> DEFINE B == [x \in UNION {Initial[p] : p \in Places} |-> x]
<1>1. \A p \in Places : \A x \in Initial[p] : Visible(x) = {}
  BY InitialAssumption DEF Visible
<1>2. Simulates({}, B, Initial, Initial)
  BY <1>1 DEF Simulates
<1>3. Renames({}, 0, 0)
  BY DEF Renames
<1> QED  BY <1>2, <1>3 DEF Mirrored, Origin

LEMMA MergedCounted ==
  ASSUME NEW s, Sane(s), NEW i \in DOMAIN Transitions, NEW c \in AllChoices(s.marking, Transitions[i]),
         ~ MergeConflict(c)
  PROVE  Counted(MergedEnv(c), s.fresh)
<1> SUFFICES ASSUME NEW v \in DOMAIN MergedEnv(c), MergedEnv(c)[v] \in FreshNames
             PROVE  MergedEnv(c)[v] \in UpTo(s.fresh)
  BY DEF Counted
<1>1. PICK k \in DOMAIN c : v \in Visible(c[k])
  BY DEF MergedEnv
<1>2. MergedEnv(c)[v] = c[k].env[v]
  BY <1>1, MergedAt
<1>3. c[k] \in s.marking[Transitions[i].consumes[k]] /\ Transitions[i].consumes[k] \in Places
  BY TransitionsAssumption DEF AllChoices
<1> QED  BY <1>1, <1>2, <1>3 DEF Sane

LEMMA BindCounted ==
  ASSUME Injective, NEW f \in Nat, NEW g \in Nat, f <= g, NEW i \in DOMAIN Transitions,
         NEW env, Counted(env, f)
  PROVE  /\ Cardinality(Unbound(Transitions[i], env)) \in Nat
         /\ Counted(BindFresh(Transitions[i], env, g), g + Cardinality(Unbound(Transitions[i], env)))
<1> DEFINE t == Transitions[i]
           n == Cardinality(Unbound(t, env))
           x == BindFresh(t, env, g)
<1>1. n \in Nat
  BY UnboundFinite
<1>2. ASSUME NEW v \in DOMAIN x, x[v] \in FreshNames PROVE x[v] \in UpTo(g + n)
  <2>1. CASE v \in DOMAIN env
    <3>1. x[v] = env[v]
      BY <2>1 DEF BindFresh
    <3>2. x[v] \in UpTo(f)
      BY <1>2, <2>1, <3>1 DEF Counted
    <3>3. f <= g + n /\ g + n \in Nat
      BY <1>1
    <3> QED  BY <3>2, <3>3, UpToGrows
  <2>2. CASE v \notin DOMAIN env
    <3>1. v \in {t.binds[j] : j \in DOMAIN t.binds}
      BY <2>2 DEF BindFresh, Unbound
    <3>2. PICK k \in (g + 1) .. (g + n) : x[v] = FreshValue(k)
      BY <2>2, <3>1, BindFreshNames
    <3>3. k \in 1 .. (g + n)
      BY <1>1, <3>2
    <3> QED  BY <3>2, <3>3 DEF UpTo
  <2> QED  BY <2>1, <2>2
<1> HIDE DEF n, x
<1> QED  BY <1>1, <1>2 DEF Counted, n, x

LEMMA FireSane ==
  ASSUME NEW s, Sane(s), NEW i \in DOMAIN Transitions, NEW c \in AllChoices(s.marking, Transitions[i]),
         NEW f \in Nat, s.fresh <= f, NEW env, Counted(env, f),
         NEW n, n.depth = s.depth + 1, n.fresh = f,
         n.marking = Fire(s.marking, Transitions[i], c, env, s.depth + 1)
  PROVE  Sane(n)
<1>1. /\ s.depth \in Nat /\ s.fresh \in Nat /\ MarkingOK(s.marking, s.depth)
      /\ \A p \in Places : IsFiniteSet(s.marking[p])
  BY DEF Sane
<1>2. MarkingOK(n.marking, n.depth) /\ n.depth \in Nat
  BY <1>1, FireOK
<1>3. \A p \in Places : IsFiniteSet(n.marking[p])
  BY <1>1, FireCount
<1>4. ASSUME NEW p \in Places, NEW x \in n.marking[p], NEW v \in Visible(x), x.env[v] \in FreshNames
      PROVE  x.env[v] \in UpTo(f)
  <2>1. x \in s.marking[p] \/ x.env = Carried(env, p)
    BY DEF Fire
  <2>2. CASE x \in s.marking[p]
    BY <1>1, <1>4, <2>2, UpToGrows DEF Sane
  <2>3. CASE x.env = Carried(env, p)
    <3>1. v \in DOMAIN env /\ x.env[v] = env[v]
      BY <2>3 DEF Visible, Carried
    <3> QED  BY <1>4, <3>1 DEF Counted
  <2> QED  BY <2>1, <2>2, <2>3
<1> QED  BY <1>2, <1>3, <1>4 DEF Sane

(* Tokens of markings with the same rendering correspond.                  *)
LEMMA CanonicalSame ==
  ASSUME NEW m, NEW w, NEW a, NEW b, MarkingOK(m, a), MarkingOK(w, b),
         \A p \in Places : IsFiniteSet(m[p]) /\ IsFiniteSet(w[p]), Canonical(m) = Canonical(w)
  PROVE  \E D : /\ \A p \in Places : \A x \in m[p] : D[x] \in w[p] /\ D[x].env = x.env
                /\ \A p, q \in Places : \A x \in m[p], y \in m[q] : D[x] = D[y] => x = y
<1> DEFINE T(n, p, e) == {x \in n[p] : x.env = e}
           Bij(p, e) == CHOOSE f : f \in Bijection(T(m, p, e), T(w, p, e))
           At(x) == CHOOSE p \in Places : x \in m[p]
           D == [x \in UNION {m[p] : p \in Places} |-> Bij(At(x), x.env)[x]]
<1>1. ASSUME NEW p \in Places, NEW x \in m[p]
      PROVE  Bij(p, x.env) \in Bijection(T(m, p, x.env), T(w, p, x.env))
  <2> DEFINE Row(n) == [e \in {tk.env : tk \in n[p]} |-> Cardinality({tk \in n[p] : tk.env = e})]
  <2>1. \A n : Canonical(n)[p] = Row(n)
    BY DEF Canonical
  <2>2. Row(m) = Row(w)
    BY <2>1
  <2>3. DOMAIN Row(m) = {tk.env : tk \in m[p]} /\ DOMAIN Row(w) = {tk.env : tk \in w[p]}
    OBVIOUS
  <2>4. x.env \in DOMAIN Row(m) /\ x.env \in DOMAIN Row(w)
    BY <2>2, <2>3
  <2>5. Row(m)[x.env] = Cardinality(T(m, p, x.env)) /\ Row(w)[x.env] = Cardinality(T(w, p, x.env))
    BY <2>4
  <2> HIDE DEF Row
  <2>6. Cardinality(T(m, p, x.env)) = Cardinality(T(w, p, x.env))
    BY <2>2, <2>5
  <2>7. IsFiniteSet(T(m, p, x.env)) /\ IsFiniteSet(T(w, p, x.env))
    BY FS_Subset
  <2> HIDE DEF T
  <2>8. ExistsBijection(T(m, p, x.env), T(w, p, x.env))
    BY <2>6, <2>7, FS_SameCardinalityBij
  <2> QED  BY <2>8 DEF ExistsBijection
<1>2. ASSUME NEW p \in Places, NEW x \in m[p] PROVE D[x] = Bij(p, x.env)[x]
  <2>1. At(x) \in Places /\ x \in m[At(x)]
    OBVIOUS
  <2>2. At(x) = p
    BY <2>1 DEF MarkingOK
  <2> HIDE DEF Bij, At
  <2>3. x \in UNION {m[q] : q \in Places}
    OBVIOUS
  <2> QED  BY <2>2, <2>3
<1> HIDE DEF D, Bij, At
<1>3. ASSUME NEW p \in Places, NEW x \in m[p] PROVE D[x] \in w[p] /\ D[x].env = x.env
  <2>1. Bij(p, x.env) \in [T(m, p, x.env) -> T(w, p, x.env)] /\ x \in T(m, p, x.env)
    BY <1>1 DEF Bijection, Injection
  <2>2. D[x] \in T(w, p, x.env)
    BY <1>2, <2>1
  <2> QED  BY <2>2
<1>4. ASSUME NEW p \in Places, NEW q \in Places, NEW x \in m[p], NEW y \in m[q], D[x] = D[y] PROVE x = y
  <2>1. D[x] \in w[p] /\ D[x] \in w[q] /\ x.env = y.env
    BY <1>3, <1>4
  <2>2. p = q
    BY <2>1 DEF MarkingOK
  <2>3. D[x] = Bij(p, x.env)[x] /\ D[y] = Bij(p, x.env)[y]
    BY <1>2, <2>1, <2>2
  <2>4. x \in T(m, p, x.env) /\ y \in T(m, p, x.env)
    BY <2>1, <2>2
  <2> HIDE DEF T
  <2>5. Bij(p, x.env) \in Injection(T(m, p, x.env), T(w, p, x.env))
    BY <1>1 DEF Bijection
  <2> QED  BY <1>4, <2>3, <2>4, <2>5 DEF Injection, IsInjective
<1> QED  BY <1>3, <1>4

(* The key says all that the prospects of a state depend on.               *)
LEMMA KeyMirrors ==
  ASSUME NEW s, NEW z, NEW y, Mirrored(s, z), Sane(z), Sane(y), Key(z) = Key(y)
  PROVE  Mirrored(s, y)
<1>1. /\ Canonical(z.marking) = Canonical(y.marking) /\ z.consumed = y.consumed
      /\ z.matched = y.matched /\ z.used = y.used
  BY DEF Key
<1>2. PICK R, B : Renames(R, s.fresh, z.fresh) /\ Simulates(R, B, s.marking, z.marking)
  BY DEF Mirrored
<1>3. PICK D : /\ \A p \in Places : \A x \in z.marking[p] : D[x] \in y.marking[p] /\ D[x].env = x.env
               /\ \A p, q \in Places : \A x \in z.marking[p], u \in z.marking[q] : D[x] = D[u] => x = u
  <2>1. PICK m, w, a, b : m = z.marking /\ w = y.marking /\ a = z.depth /\ b = y.depth
    OBVIOUS
  <2>2. /\ MarkingOK(m, a) /\ MarkingOK(w, b) /\ Canonical(m) = Canonical(w)
        /\ \A p \in Places : IsFiniteSet(m[p]) /\ IsFiniteSet(w[p])
    BY <1>1, <2>1 DEF Sane
  <2>3. \E D : /\ \A p \in Places : \A x \in m[p] : D[x] \in w[p] /\ D[x].env = x.env
               /\ \A p, q \in Places : \A x \in m[p], u \in m[q] : D[x] = D[u] => x = u
    BY <2>2, CanonicalSame
  <2> QED  BY <2>1, <2>3
<1> DEFINE Q == {r \in R : r[2] \in UpTo(y.fresh)}
           E == [x \in UNION {s.marking[p] : p \in Places} |-> D[B[x]]]
<1>4. Renames(Q, s.fresh, y.fresh)
  BY <1>2 DEF Renames
<1>5. ASSUME NEW p \in Places, NEW x \in s.marking[p]
      PROVE  /\ E[x] = D[B[x]] /\ B[x] \in z.marking[p] /\ E[x] \in y.marking[p] /\ E[x].env = B[x].env
             /\ Visible(E[x]) = Visible(x)
             /\ \A v \in Visible(x) : Same(R, x.env[v], E[x].env[v])
  <2>1. E[x] = D[B[x]]
    OBVIOUS
  <2>2. /\ B[x] \in z.marking[p] /\ Visible(B[x]) = Visible(x)
        /\ \A v \in Visible(x) : Same(R, x.env[v], B[x].env[v])
    BY <1>2 DEF Simulates
  <2> QED  BY <1>3, <2>1, <2>2 DEF Visible
<1> HIDE DEF E
<1>6. ASSUME NEW p \in Places, NEW x \in s.marking[p], NEW v \in Visible(x) PROVE Same(Q, x.env[v], E[x].env[v])
  <2>1. Same(R, x.env[v], E[x].env[v]) /\ E[x] \in y.marking[p] /\ v \in Visible(E[x])
    BY <1>5
  <2>2. E[x].env[v] \in FreshNames => E[x].env[v] \in UpTo(y.fresh)
    BY <2>1 DEF Sane
  <2>3. z.fresh \in Nat
    BY DEF Sane
  <2>4. \A a, b : <<a, b>> \in R => b \in FreshNames
    BY <1>2, <2>3, UpToNames DEF Renames
  <2> QED  BY <2>1, <2>2, <2>4 DEF Same
<1>7. Simulates(Q, E, s.marking, y.marking)
  <2>1. \A p, q \in Places : \A x \in s.marking[p], u \in s.marking[q] : E[x] = E[u] => x = u
    BY <1>2, <1>3, <1>5 DEF Simulates
  <2> QED  BY <1>5, <1>6, <2>1 DEF Simulates
<1> QED  BY <1>1, <1>4, <1>7 DEF Mirrored

(* An effect of an observation has arguments that can be counted.          *)
LEMMA EffectsListed ==
  ASSUME NEW o \in Observations, FreshReserved(o), NEW i \in Records(o)
  PROVE  /\ Listed(o.records[i].effects)
         /\ \A k \in DOMAIN o.records[i].effects :
              \A j \in DOMAIN o.records[i].effects[k].args : o.records[i].effects[k].args[j] \notin FreshNames
<1>1. \A k \in DOMAIN o.records[i].effects : o.records[i].effects[k] \in Effects(o)
  BY DEF Effects, EffectsIn
<1> QED  BY <1>1, ObservationsAssumption DEF FreshReserved

LEMMA NamedTransition ==
  ASSUME NEW id \in TransitionIds
  PROVE  \E j \in DOMAIN Transitions : TransitionById(id) = Transitions[j]
BY DEF TransitionById, TransitionIds

LEMMA SupposableEffect ==
  ASSUME NEW o, NEW s, NEW t, NEW g \in Supposable(o, s, t), g # Untargeted
  PROVE  o.records[g[1]].effects[g[2]] \in Effects(o) /\ Len(t.emits) = 1
<1>1. /\ g \in UNION {{<<x, y>> : y \in DOMAIN o.records[x].effects} : x \in DanglingRecords(o)}
      /\ Len(t.emits) = 1
  BY DEF Supposable
<1>2. PICK x \in DanglingRecords(o) : \E y \in DOMAIN o.records[x].effects : g = <<x, y>>
  BY <1>1
<1>3. PICK y \in DOMAIN o.records[x].effects : g = <<x, y>>
  BY <1>2
<1>4. o.records[g[1]].effects[g[2]] = o.records[x].effects[y] /\ x \in Records(o)
  BY <1>3 DEF DanglingRecords
<1> QED  BY <1>1, <1>3, <1>4 DEF Effects, EffectsIn

(* Explaining a record keeps a state sane.                                 *)
LEMMA ExplainingSane ==
  ASSUME NEW o \in Observations, FreshReserved(o), NEW s, Sane(s), NEW i, NEW c, NEW n, Explaining(o, s, i, c, n)
  PROVE  Sane(n)
<1> DEFINE rec == o.records[i]
           t   == TransitionById(rec.step)
           m   == MatchPairs(rec.effects, t.emits, MergedEnv(c))
           env == BindFresh(t, m.env, s.fresh)
           k   == Cardinality(Unbound(t, m.env))
<1>1. /\ i \in Records(o) /\ rec.step \in TransitionIds /\ ShapeOk(rec.effects, t.emits)
      /\ c \in AllChoices(s.marking, t) /\ ~ MergeConflict(c) /\ m.bad = 0
      /\ n.marking = Fire(s.marking, t, c, env, s.depth + 1) /\ n.depth = s.depth + 1
      /\ n.fresh = s.fresh + k
  BY DEF Explaining, StepRecords
<1>2. PICK j \in DOMAIN Transitions : t = Transitions[j]
  BY <1>1, NamedTransition
<1>3. /\ Listed(rec.effects)
      /\ \A l \in DOMAIN rec.effects : \A a \in DOMAIN rec.effects[l].args : rec.effects[l].args[a] \notin FreshNames
  BY <1>1, EffectsListed
<1>4. Listed(t.emits) /\ \A l \in DOMAIN t.emits : KindsKnown(t.emits[l])
  BY <1>2, TransitionsAssumption DEF KindsKnown
<1> HIDE DEF t, rec
<1>5. /\ Extends(MergedEnv(c), m.env)
      /\ \A v \in DOMAIN m.env \ DOMAIN MergedEnv(c) : m.env[v] \in ArgsOf(rec.effects)
  BY <1>1, <1>3, <1>4, MatchPairsSettle
<1>6. Counted(MergedEnv(c), s.fresh)
  BY <1>1, <1>2, MergedCounted
<1>7. Counted(m.env, s.fresh)
  <2>1. \A x \in ArgsOf(rec.effects) : x \notin FreshNames
    BY <1>3 DEF ArgsOf
  <2> HIDE DEF m
  <2> QED  BY <1>5, <1>6, <2>1 DEF Counted, Extends
<1>8. s.fresh \in Nat /\ Injective
  BY DEF Sane, FreshReserved
<1> HIDE DEF m
<1>9. k \in Nat /\ Counted(env, s.fresh + k)
  BY <1>2, <1>7, <1>8, BindCounted
<1>10. s.fresh + k \in Nat /\ s.fresh <= s.fresh + k
  BY <1>8, <1>9
<1> HIDE DEF env, k
<1> QED  BY <1>1, <1>2, <1>9, <1>10, FireSane

(* So does supposing a step.                                               *)
LEMMA SupposingSane ==
  ASSUME NEW o \in Observations, FreshReserved(o), NEW slack, NEW s, Sane(s), NEW j, NEW c, NEW g, NEW n,
         Supposing(o, slack, s, j, c, g, n)
  PROVE  Sane(n)
<1> DEFINE t    == Transitions[j]
           base == MergedEnv(c)
           aims == g # Untargeted
           e    == o.records[g[1]].effects[g[2]]
           m    == IF aims THEN Unified(t.emits[1], e, base) ELSE base
           lost == IF aims THEN 0 ELSE Cardinality(BurntNames(t, base))
           env  == BindFresh(t, m, s.fresh + lost)
           k    == Cardinality(Unbound(t, m))
<1>1. /\ j \in DOMAIN Transitions /\ c \in AllChoices(s.marking, t) /\ ~ MergeConflict(c)
      /\ g \in Supposable(o, s, t) /\ (aims => Matches(t.emits[1], e, base))
      /\ n.marking = Fire(s.marking, t, c, env, s.depth + 1) /\ n.depth = s.depth + 1
      /\ n.fresh = s.fresh + lost + k
  BY DEF Supposing
<1>2. aims => e \in Effects(o)
  BY <1>1, SupposableEffect
<1>3. Counted(base, s.fresh)
  BY <1>1, MergedCounted
<1>4. Counted(m, s.fresh)
  <2>1. CASE ~ aims
    BY <1>3, <2>1
  <2>2. CASE aims
    <3>1. \A a \in DOMAIN e.args : e.args[a] \notin FreshNames
      BY <1>2, <2>2 DEF FreshReserved
    <3>2. Matches(t.emits[1], e, base) /\ m = Unified(t.emits[1], e, base)
      BY <1>1, <2>2
    <3>3. Extends(base, m)
      BY <3>2, UnifiedExtends
    <3> HIDE DEF base, e, t
    <3>4. \A v \in DOMAIN m \ DOMAIN base : m[v] \notin FreshNames
      BY <3>1, <3>2, UnifiedDraws
    <3> HIDE DEF m
    <3> QED  BY <1>3, <3>3, <3>4 DEF Counted, Extends
  <2> QED  BY <2>1, <2>2
<1>5. lost \in Nat
  BY <1>1, BurntFinite
<1>6. s.fresh \in Nat /\ Injective
  BY DEF Sane, FreshReserved
<1> HIDE DEF m, lost
<1>7. s.fresh + lost \in Nat /\ s.fresh <= s.fresh + lost
  BY <1>5, <1>6
<1>8. k \in Nat /\ Counted(env, s.fresh + lost + k)
  BY <1>1, <1>4, <1>6, <1>7, BindCounted
<1>9. s.fresh + lost + k \in Nat /\ s.fresh <= s.fresh + lost + k
  BY <1>7, <1>8, <1>6
<1> HIDE DEF env, k
<1> QED  BY <1>1, <1>8, <1>9, FireSane

(* A state that mirrors another can explain what it explains.              *)
LEMMA ExplainingMirrored ==
  ASSUME NEW o \in Observations, FreshReserved(o), NEW s, Sane(s), NEW z, Sane(z), Mirrored(s, z),
         NEW i, NEW c, NEW n, Explaining(o, s, i, c, n)
  PROVE  \E d, u : Explaining(o, z, i, d, u) /\ Mirrored(n, u)
<1> DEFINE rec == o.records[i]
           t   == TransitionById(rec.step)
           m   == MatchPairs(rec.effects, t.emits, MergedEnv(c))
           env == BindFresh(t, m.env, s.fresh)
           k   == Cardinality(Unbound(t, m.env))
<1>1. /\ i \in Records(o) /\ rec.step \in TransitionIds /\ ShapeOk(rec.effects, t.emits)
      /\ c \in AllChoices(s.marking, t) /\ ~ MergeConflict(c) /\ m.bad = 0
      /\ UnattestedVars(t, env) = {} /\ GuardHolds(t, env)
  BY DEF Explaining, StepRecords
<1>2. PICK j \in DOMAIN Transitions : t = Transitions[j]
  BY <1>1, NamedTransition
<1>3. /\ Listed(rec.effects)
      /\ \A l \in DOMAIN rec.effects : \A a \in DOMAIN rec.effects[l].args : rec.effects[l].args[a] \notin FreshNames
  BY <1>1, EffectsListed
<1>4. Listed(t.emits) /\ \A l \in DOMAIN t.emits : KindsKnown(t.emits[l])
  BY <1>2, TransitionsAssumption DEF KindsKnown
<1>5. PICK R, B : Renames(R, s.fresh, z.fresh) /\ Simulates(R, B, s.marking, z.marking)
  BY DEF Mirrored
<1>6. /\ s.fresh \in Nat /\ z.fresh \in Nat /\ s.depth \in Nat /\ z.depth \in Nat /\ Injective
      /\ MarkingOK(s.marking, s.depth) /\ MarkingOK(z.marking, z.depth)
  BY DEF Sane, FreshReserved
<1> DEFINE d    == [l \in DOMAIN c |-> B[c[l]]]
           w    == MatchPairs(rec.effects, t.emits, MergedEnv(d))
           more == BindFresh(t, w.env, z.fresh)
<1> HIDE DEF t, rec
<1>7. d \in AllChoices(z.marking, t) /\ ~ MergeConflict(d) /\ SameEnv(R, MergedEnv(c), MergedEnv(d))
  BY <1>1, <1>2, <1>5, <1>6, ChoiceSame
<1>8. w.bad = 0 /\ SameEnv(R, m.env, w.env)
  BY <1>1, <1>3, <1>4, <1>5, <1>6, <1>7, MatchPairsSame
<1> HIDE DEF d, m, w
<1>9. PICK Q : R \subseteq Q /\ Renames(Q, s.fresh + k, z.fresh + k) /\ SameEnv(Q, env, more)
  BY <1>2, <1>5, <1>6, <1>8, BindSame
<1>10. k \in Nat /\ Unbound(t, w.env) = Unbound(t, m.env)
  BY <1>2, <1>8, UnboundFinite DEF SameEnv, Unbound
<1>11. s.fresh + k \in Nat /\ z.fresh + k \in Nat
  BY <1>6, <1>10
<1>12. /\ n.marking = Fire(s.marking, t, c, env, s.depth + 1) /\ n.consumed = s.consumed \cup {i}
       /\ n.matched = s.matched \cup IdsOfRecord(o, i) /\ n.used = s.used /\ n.fresh = s.fresh + k
  BY DEF Explaining, m, t, rec
<1> DEFINE u == [marking  |-> Fire(z.marking, t, d, more, z.depth + 1),
                 consumed |-> z.consumed \cup {i},
                 matched  |-> z.matched \cup IdsOfRecord(o, i),
                 used     |-> z.used,
                 depth    |-> z.depth + 1,
                 fresh    |-> z.fresh + Cardinality(Unbound(t, w.env)),
                 path     |-> Append(z.path, [transition |-> t.id, principal |-> rec.principal,
                                              record |-> i, bindings |-> more])]
<1> HIDE DEF env, more, k
<1>13. UnattestedVars(t, more) = {} /\ GuardHolds(t, more)
  BY <1>1, <1>2, <1>9, <1>11, AttestedSame, GuardSame
<1>14. \A tpl, id, matched : Unmet(o, t, tpl, id, env, matched) = Unmet(o, t, tpl, id, more, matched)
  BY <1>9, <1>11, UnmetSame
<1>15. z.consumed = s.consumed /\ z.matched = s.matched /\ z.used = s.used
  BY DEF Mirrored
<1>16. Explaining(o, z, i, d, u)
  <2>1. /\ i \in StepRecords(o) \ s.consumed /\ Order(o)[i] \subseteq s.consumed /\ rec.principal \in t.admits
        /\ \A l \in DOMAIN rec.effects :
             Unmet(o, t, t.emits[Pairing(rec.effects, t.emits)[l]], rec.effects[l].id, env, s.matched) = {}
    BY DEF Explaining, env, m, t, rec
  <2>2. /\ i \in StepRecords(o) \ z.consumed /\ Order(o)[i] \subseteq z.consumed
        /\ \A l \in DOMAIN rec.effects :
             Unmet(o, t, t.emits[Pairing(rec.effects, t.emits)[l]], rec.effects[l].id, more, z.matched) = {}
    BY <1>14, <1>15, <2>1
  <2> QED  BY <1>1, <1>7, <1>8, <1>13, <2>1, <2>2 DEF Explaining, more, w, t, rec
<1>17. PICK D : Simulates(Q, D, n.marking, Fire(z.marking, t, d, more, z.depth + 1))
  BY <1>1, <1>2, <1>5, <1>6, <1>9, <1>12, FireSame DEF d
<1>18. Mirrored(n, u)
  <2>1. u.fresh = z.fresh + k
    BY <1>10 DEF k
  <2> QED  BY <1>9, <1>12, <1>15, <1>17, <2>1 DEF Mirrored
<1> QED  BY <1>16, <1>18

(* And it can suppose what the other supposes.                             *)
LEMMA SupposingMirrored ==
  ASSUME NEW o \in Observations, FreshReserved(o), NEW slack, NEW s, Sane(s), NEW z, Sane(z), Mirrored(s, z),
         NEW j, NEW c, NEW g, NEW n, Supposing(o, slack, s, j, c, g, n)
  PROVE  \E d, u : Supposing(o, slack, z, j, d, g, u) /\ Mirrored(n, u)
<1> DEFINE t    == Transitions[j]
           aims == g # Untargeted
           e    == o.records[g[1]].effects[g[2]]
           Met(base)  == IF aims THEN Unified(t.emits[1], e, base) ELSE base
           Lost(base) == IF aims THEN 0 ELSE Cardinality(BurntNames(t, base))
           m    == Met(MergedEnv(c))
           lost == Lost(MergedEnv(c))
           env  == BindFresh(t, m, s.fresh + lost)
           k    == Cardinality(Unbound(t, m))
<1>1. /\ j \in DOMAIN Transitions /\ c \in AllChoices(s.marking, t) /\ ~ MergeConflict(c)
      /\ g \in Supposable(o, s, t) /\ (aims => Matches(t.emits[1], e, MergedEnv(c))) /\ s.used < slack
      /\ UnattestedVars(t, env) = {} /\ GuardHolds(t, env)
      /\ aims => Unmet(o, t, t.emits[1], e.id, env, s.matched) = {}
      /\ n.marking = Fire(s.marking, t, c, env, s.depth + 1) /\ n.consumed = s.consumed
      /\ n.matched = (IF aims THEN s.matched \cup {e.id} ELSE s.matched) /\ n.used = s.used + 1
      /\ n.fresh = s.fresh + lost + k
  BY DEF Supposing
<1>2. aims => e \in Effects(o) /\ Len(t.emits) = 1
  BY <1>1, SupposableEffect
<1>3. aims => KindsKnown(t.emits[1]) /\ \A a \in DOMAIN e.args : e.args[a] \notin FreshNames
  <2> SUFFICES ASSUME aims PROVE KindsKnown(t.emits[1]) /\ \A a \in DOMAIN e.args : e.args[a] \notin FreshNames
    OBVIOUS
  <2>1. Listed(t.emits)
    BY <1>1, TransitionsAssumption
  <2>2. 1 \in DOMAIN t.emits
    <3>1. Len(t.emits) = 1
      BY <1>2
    <3>2. DOMAIN t.emits = 1 .. Len(t.emits)
      BY <2>1 DEF Listed
    <3>3. DOMAIN t.emits = 1 .. 1
      BY <3>1, <3>2
    <3> HIDE DEF t
    <3> QED  BY <3>3, SMT
  <2>3. KindsKnown(t.emits[1])
    BY <1>1, <2>2, TransitionsAssumption DEF KindsKnown
  <2>4. \A a \in DOMAIN e.args : e.args[a] \notin FreshNames
    BY <1>2 DEF FreshReserved
  <2> QED  BY <2>3, <2>4
<1>4. PICK R, B : Renames(R, s.fresh, z.fresh) /\ Simulates(R, B, s.marking, z.marking)
  BY DEF Mirrored
<1>5. /\ s.fresh \in Nat /\ z.fresh \in Nat /\ s.depth \in Nat /\ z.depth \in Nat /\ Injective
      /\ MarkingOK(s.marking, s.depth) /\ MarkingOK(z.marking, z.depth)
  BY DEF Sane, FreshReserved
<1>6. z.consumed = s.consumed /\ z.matched = s.matched /\ z.used = s.used
  BY DEF Mirrored
<1> DEFINE d    == [l \in DOMAIN c |-> B[c[l]]]
           w    == Met(MergedEnv(d))
           more == BindFresh(t, w, z.fresh + lost)
<1>7. d \in AllChoices(z.marking, t) /\ ~ MergeConflict(d) /\ SameEnv(R, MergedEnv(c), MergedEnv(d))
  BY <1>1, <1>4, <1>5, ChoiceSame
<1> HIDE DEF d, e, t
<1>8. aims => Matches(t.emits[1], e, MergedEnv(d))
  BY <1>1, <1>3, <1>4, <1>5, <1>7, MatchesSame
<1>9. SameEnv(R, m, w)
  BY <1>1, <1>3, <1>4, <1>5, <1>7, MatchesSame
<1>10. Lost(MergedEnv(d)) = lost /\ lost \in Nat
  <2>1. BurntNames(t, MergedEnv(d)) = BurntNames(t, MergedEnv(c))
    BY <1>7 DEF SameEnv, BurntNames
  <2>2. Cardinality(BurntNames(t, MergedEnv(c))) \in Nat
    BY <1>1, BurntFinite DEF t
  <2> QED  BY <2>1, <2>2
<1> HIDE DEF m, w, Met, Lost, lost
<1>11. Renames(R, s.fresh + lost, z.fresh + lost) /\ s.fresh + lost \in Nat /\ z.fresh + lost \in Nat
  <2>1. /\ s.fresh + lost \in Nat /\ s.fresh <= s.fresh + lost
        /\ z.fresh + lost \in Nat /\ z.fresh <= z.fresh + lost
    BY <1>5, <1>10
  <2> QED  BY <1>4, <1>5, <2>1, UpToGrows DEF Renames
<1>12. PICK Q : /\ R \subseteq Q /\ Renames(Q, s.fresh + lost + k, z.fresh + lost + k)
                /\ SameEnv(Q, env, more)
  BY <1>1, <1>5, <1>9, <1>11, BindSame DEF t
<1>13. k \in Nat /\ Unbound(t, w) = Unbound(t, m)
  BY <1>1, <1>9, UnboundFinite DEF SameEnv, Unbound, t
<1>14. s.fresh + lost + k \in Nat /\ z.fresh + lost + k \in Nat
  BY <1>5, <1>10, <1>13
<1> DEFINE u == [marking  |-> Fire(z.marking, t, d, more, z.depth + 1),
                 consumed |-> z.consumed,
                 matched  |-> IF aims THEN z.matched \cup {e.id} ELSE z.matched,
                 used     |-> z.used + 1,
                 depth    |-> z.depth + 1,
                 fresh    |-> z.fresh + Lost(MergedEnv(d)) + Cardinality(Unbound(t, w)),
                 path     |-> Append(z.path, [transition |-> t.id, principal |-> t.principal,
                                              record |-> 0, bindings |-> more])]
<1> HIDE DEF env, more, k
<1>15. UnattestedVars(t, more) = {} /\ GuardHolds(t, more)
  BY <1>1, <1>12, <1>14, AttestedSame, GuardSame DEF t
<1>16. aims => Unmet(o, t, t.emits[1], e.id, more, z.matched) = {}
  BY <1>1, <1>6, <1>12, <1>14, UnmetSame
<1>17. Supposing(o, slack, z, j, d, g, u)
  <2>1. g \in Supposable(o, z, t)
    BY <1>1, <1>6 DEF Supposable
  <2> HIDE DEF u
  <2>2. z.used < slack /\ j \in DOMAIN Transitions
    BY <1>1, <1>6
  <2>3. more = BindFresh(t, Met(MergedEnv(d)), z.fresh + Lost(MergedEnv(d)))
    BY <1>10 DEF more, w
  <2>4. u = [marking  |-> Fire(z.marking, t, d, more, z.depth + 1),
             consumed |-> z.consumed,
             matched  |-> IF aims THEN z.matched \cup {e.id} ELSE z.matched,
             used     |-> z.used + 1,
             depth    |-> z.depth + 1,
             fresh    |-> z.fresh + Lost(MergedEnv(d)) + Cardinality(Unbound(t, Met(MergedEnv(d)))),
             path     |-> Append(z.path, [transition |-> t.id, principal |-> t.principal,
                                          record |-> 0, bindings |-> more])]
    BY DEF u, w
  <2> HIDE DEF more
  <2> QED  BY <1>7, <1>8, <1>15, <1>16, <2>1, <2>2, <2>3, <2>4 DEF Supposing, Met, Lost, e, t
<1>18. PICK D : Simulates(Q, D, n.marking, Fire(z.marking, t, d, more, z.depth + 1))
  BY <1>1, <1>4, <1>5, <1>12, FireSame DEF d, t
<1>19. Mirrored(n, u)
  <2>1. u.fresh = z.fresh + lost + k
    BY <1>10, <1>13 DEF k
  <2> QED  BY <1>1, <1>6, <1>12, <1>18, <2>1 DEF Mirrored
<1> QED  BY <1>17, <1>19

LEMMA LeadsSane ==
  ASSUME NEW o \in Observations, FreshReserved(o), NEW slack, NEW s, Sane(s), NEW n, Leads(o, slack, s, n)
  PROVE  Sane(n)
BY ExplainingSane, SupposingSane DEF Leads

LEMMA LeadsMirrored ==
  ASSUME NEW o \in Observations, FreshReserved(o), NEW slack, NEW s, Sane(s), NEW z, Sane(z), Mirrored(s, z),
         NEW n, Leads(o, slack, s, n)
  PROVE  \E u : Leads(o, slack, z, u) /\ Mirrored(n, u)
<1>1. ASSUME NEW i, NEW c, Explaining(o, s, i, c, n) PROVE \E u : Leads(o, slack, z, u) /\ Mirrored(n, u)
  <2>1. PICK d, u : Explaining(o, z, i, d, u) /\ Mirrored(n, u)
    BY <1>1, ExplainingMirrored
  <2> QED  BY <2>1 DEF Leads
<1>2. ASSUME NEW j, NEW c, NEW g, Supposing(o, slack, s, j, c, g, n)
      PROVE  \E u : Leads(o, slack, z, u) /\ Mirrored(n, u)
  <2>1. PICK d, u : Supposing(o, slack, z, j, d, g, u) /\ Mirrored(n, u)
    BY <1>2, SupposingMirrored
  <2> QED  BY <2>1 DEF Leads
<1> QED  BY <1>1, <1>2 DEF Leads

(* So every reachable state is sane.                                       *)
LEMMA ReachableSane ==
  ASSUME NEW o \in Observations, FreshReserved(o), NEW slack, NEW s, Reachable(o, slack, s)
  PROVE  Sane(s)
<1>1. PICK k, f : k \in Nat /\ Chain(o, slack, f, k) /\ f[k] = s
  BY DEF Reachable
<1> DEFINE T == {i \in Nat : i <= k => Sane(f[i])}
<1>2. 0 \in T
  BY <1>1, OriginSane DEF Chain
<1>3. ASSUME NEW i \in T PROVE i + 1 \in T
  <2> SUFFICES ASSUME i + 1 <= k PROVE Sane(f[i + 1])
    OBVIOUS
  <2>1. i \in Nat /\ i <= k /\ i + 1 \in 1 .. k /\ (i + 1) - 1 = i
    BY <1>1
  <2>2. Sane(f[i]) /\ Leads(o, slack, f[i], f[i + 1])
    BY <1>1, <2>1 DEF Chain
  <2> QED  BY <2>2, LeadsSane
<1>4. k \in T
  <2> HIDE DEF T
  <2>1. T \in SUBSET Nat
    BY DEF T
  <2> QED  BY <1>1, <1>2, <1>3, <2>1, Induction
<1> QED  BY <1>1, <1>4

(* No place is short of tokens for a transition that has a choice of them. *)
LEMMA ChoiceEnables ==
  ASSUME NEW s, Sane(s), NEW i \in DOMAIN Transitions, NEW c \in AllChoices(s.marking, Transitions[i])
  PROVE  MissingPlaces(s.marking, Transitions[i]) = {}
<1> DEFINE t == Transitions[i]
<1>1. \A p \in Places : SlotsOf(t.consumes, p) = {r \in DOMAIN t.consumes : t.consumes[r] = p}
  BY DEF SlotsOf
<1>2. s.depth \in Nat /\ MarkingOK(s.marking, s.depth) /\ \A p \in Places : IsFiniteSet(s.marking[p])
  BY DEF Sane
<1>3. ASSUME NEW p \in Places PROVE ~ (Cardinality(s.marking[p]) < TokensNeeded(t, p))
  <2>1. PICK env : env = EmptyEnv
    OBVIOUS
  <2>2. /\ Cardinality(SlotsOf(t.consumes, p)) \in Nat /\ Cardinality(s.marking[p]) \in Nat
        /\ Cardinality(SlotsOf(t.consumes, p)) <= Cardinality(s.marking[p])
    BY <1>2, FireCount
  <2> QED  BY <1>1, <2>2 DEF TokensNeeded
<1> QED  BY <1>3 DEF MissingPlaces

(* Where the walk over the choices is not cut short, what one firing leads *)
(* to is what an expansion pushes.                                         *)
LEMMA LeadsFollows ==
  ASSUME Inputs, NEW z, Sane(z), Uncapped(z.marking), NEW u, Leads(obs, options.slack, z, u)
  PROVE  Follows(z, u)
<1>1. ASSUME NEW i, NEW c, Explaining(obs, z, i, c, u) PROVE Follows(z, u)
  <2>1. /\ i \in Records(obs) /\ obs.records[i].step \in TransitionIds
        /\ c \in AllChoices(z.marking, TransitionById(obs.records[i].step))
    BY <1>1 DEF Explaining, StepRecords
  <2>2. PICK j \in DOMAIN Transitions : TransitionById(obs.records[i].step) = Transitions[j]
    BY <2>1, NamedTransition
  <2>3. Logs(z, i, c, u)
    BY <1>1, <2>1, <2>2, ChoiceEnables DEF Logs, Uncapped
  <2>4. i >= 1
    BY <2>1, RecordsFinite DEF Inputs
  <2> QED  BY <2>3, <2>4 DEF Follows, LogsFrom
<1>2. ASSUME NEW j, NEW c, NEW g, Supposing(obs, options.slack, z, j, c, g, u) PROVE Follows(z, u)
  <2>1. j \in DOMAIN Transitions /\ c \in AllChoices(z.marking, Transitions[j])
    BY <1>2, SupposingNeeds
  <2>2. Supposes(z, j, c, g, u)
    BY <1>2, <2>1, ChoiceEnables DEF Supposes, Uncapped
  <2>3. j >= 1
    BY <2>1, TransitionsAssumption DEF Listed
  <2> QED  BY <2>2, <2>3 DEF Follows, SupposesFrom
<1> QED  BY <1>1, <1>2 DEF Leads

(* The caller's side of the bargain: names are reserved, and no reachable  *)
(* marking offers more choices than are walked.                            *)
Assured(o, slack) ==
  FreshReserved(o) /\ \A s : Reachable(o, slack, s) => Uncapped(s.marking)

(* What the search has explored mirrors everything reachable.              *)
LEMMA AllMirrored ==
  ASSUME Inputs, Assured(obs, options.slack), NEW S, Root \in S,
         \A n \in S : Reachable(obs, options.slack, n),
         \A s \in S : \A n : Follows(s, n) => \E m \in S : Key(m) = Key(n),
         NEW s, Reachable(obs, options.slack, s)
  PROVE  \E z \in S : Mirrored(s, z)
<1>1. PICK k, f : k \in Nat /\ Chain(obs, options.slack, f, k) /\ f[k] = s
  BY DEF Reachable
<1>2. obs \in Observations /\ FreshReserved(obs)
  BY DEF Inputs, Assured
<1> DEFINE T == {i \in Nat : i <= k => Reachable(obs, options.slack, f[i]) /\ \E z \in S : Mirrored(f[i], z)}
<1>3. 0 \in T
  <2>1. f[0] = Root /\ Root = Origin(obs) /\ Reachable(obs, options.slack, Root)
    BY <1>1, RootReachable DEF Chain
  <2> QED  BY <2>1, OriginMirrored
<1>4. ASSUME NEW i \in T PROVE i + 1 \in T
  <2> SUFFICES ASSUME i + 1 <= k
               PROVE  Reachable(obs, options.slack, f[i + 1]) /\ \E z \in S : Mirrored(f[i + 1], z)
    OBVIOUS
  <2>1. i \in Nat /\ i <= k /\ i + 1 \in 1 .. k /\ (i + 1) - 1 = i
    BY <1>1
  <2>2. Reachable(obs, options.slack, f[i]) /\ \E z \in S : Mirrored(f[i], z)
    BY <2>1
  <2>3. Leads(obs, options.slack, f[i], f[i + 1])
    BY <1>1, <2>1 DEF Chain
  <2>4. Reachable(obs, options.slack, f[i + 1])
    BY <2>2, <2>3, ReachableGrows
  <2>5. PICK z \in S : Mirrored(f[i], z)
    BY <2>2
  <2>6. Reachable(obs, options.slack, z) /\ Uncapped(z.marking)
    BY DEF Assured
  <2>7. Sane(f[i]) /\ Sane(z)
    BY <1>2, <2>2, <2>6, ReachableSane
  <2>8. PICK u : Leads(obs, options.slack, z, u) /\ Mirrored(f[i + 1], u)
    BY <1>2, <2>3, <2>5, <2>7, LeadsMirrored
  <2>9. Follows(z, u) /\ Sane(u)
    BY <1>2, <2>6, <2>7, <2>8, LeadsFollows, LeadsSane
  <2>10. PICK m \in S : Key(m) = Key(u)
    BY <2>9
  <2>11. Sane(m)
    BY <1>2, ReachableSane
  <2>12. Mirrored(f[i + 1], m)
    BY <2>8, <2>9, <2>10, <2>11, KeyMirrors
  <2> QED  BY <2>4, <2>12
<1>5. k \in T
  <2> HIDE DEF T
  <2>1. T \in SUBSET Nat
    BY DEF T
  <2> QED  BY <1>1, <1>3, <1>4, <2>1, Induction
<1> QED  BY <1>1, <1>5

(* So a search that has missed nothing refutes the observation.            *)
LEMMA NothingDerivable ==
  ASSUME Inputs, Assured(obs, options.slack), NothingMissed
  PROVE  ~ Derivable(obs, options.slack)
<1> SUFFICES ASSUME NEW s, Reachable(obs, options.slack, s), s.consumed = Records(obs),
                    s.matched = EffectIds(obs), IsFinal(s.marking)
             PROVE  FALSE
  BY DEF Derivable
<1>1. PICK S : /\ Root \in S /\ \A n \in S : Reachable(obs, options.slack, n)
               /\ \A n \in S : ~ Accepting(n)
               /\ \A x \in S : \A n : Follows(x, n) => \E m \in S : Key(m) = Key(n)
  BY DEF NothingMissed
<1>2. PICK z \in S : Mirrored(s, z)
  BY <1>1, AllMirrored
<1>3. PICK R, B : Simulates(R, B, s.marking, z.marking)
  BY <1>2 DEF Mirrored
<1>4. IsFinal(z.marking)
  BY <1>3, FinalsAssumption DEF IsFinal, Simulates
<1> QED  BY <1>1, <1>2, <1>4 DEF Mirrored, Accepting, Complete

(* Rejection is right: a rejection that does not admit to exhaustion means *)
(* that no sequence of firings, whatever tokens, targets and order it      *)
(* chooses, derives the observation within the slack.  Discarding states   *)
(* by key costs no answer, although a key keeps neither the names invented *)
(* nor the identity of the tokens.                                         *)
THEOREM RejectionRefutes ==
  ASSUME \A o \in Observations : Bounded(o)
  PROVE  Spec => [](Assured(obs, options.slack) /\ RejectedInFull => ~ Derivable(obs, options.slack))
<1>1. Inv /\ Exploring => (Assured(obs, options.slack) /\ RejectedInFull => ~ Derivable(obs, options.slack))
  <2> SUFFICES ASSUME Inv, Exploring, Assured(obs, options.slack), RejectedInFull,
                      CheckEdges(obs) = {}
               PROVE  ~ Derivable(obs, options.slack)
    BY DEF Derivable
  <2>1. NothingMissed
    BY RejectedExplored DEF NothingMissed
  <2> QED  BY <2>1, NothingDerivable DEF Inv
<1> QED  BY <1>1, ExploringAlways, PTL

-----------------------------------------------------------------------------
(* The prefix a rejection reports                                          *)

ScoreOf(consumed, matched) == <<Cardinality(consumed), Cardinality(matched)>>

(* Nothing expanded scores higher than best.                               *)
BestSeen ==
  \A k \in seen : /\ Cardinality(k[2]) \in Nat /\ Cardinality(k[3]) \in Nat
                  /\ ~ Less(Score(best), ScoreOf(k[2], k[3]))

LEMMA ImageFinite ==
  ASSUME NEW S, IsFiniteSet(S), NEW f
  PROVE  IsFiniteSet({f[x] : x \in S})
<1> DEFINE T == {f[x] : x \in S}
           g == [x \in S |-> f[x]]
<1>1. g \in Surjection(S, T)
  BY DEF Surjection
<1> HIDE DEF g, T
<1>2. IsFiniteSet(T)
  BY <1>1, FS_Surjection
<1> QED  BY <1>2 DEF T

LEMMA EffectsFinite ==
  ASSUME Inputs
  PROVE  \A M \in SUBSET EffectIds(obs) : IsFiniteSet(M) /\ Cardinality(M) \in Nat
<1> DEFINE Of  == [i \in Records(obs) |-> {obs.records[i].effects[j] : j \in DOMAIN obs.records[i].effects}]
           All == {Of[i] : i \in Records(obs)}
           Id  == [e \in Effects(obs) |-> e.id]
<1>1. \A i \in Records(obs) : IsFiniteSet(Of[i])
  <2> SUFFICES ASSUME NEW i \in Records(obs) PROVE IsFiniteSet(Of[i])
    OBVIOUS
  <2> DEFINE f == obs.records[i].effects
  <2>1. IsFiniteSet(DOMAIN f)
    BY ObservationsAssumption, ListedFinite DEF Inputs
  <2>2. Of[i] = {f[j] : j \in DOMAIN f}
    OBVIOUS
  <2> HIDE DEF f, Of
  <2> QED  BY <2>1, <2>2, ImageFinite
<1>2. IsFiniteSet(All)
  <2>1. IsFiniteSet(Records(obs))
    BY RecordsFinite
  <2> HIDE DEF Of
  <2> QED  BY <2>1, ImageFinite
<1>3. IsFiniteSet(UNION All)
  BY <1>1, <1>2, FS_UNION
<1>4. Effects(obs) = UNION All
  BY DEF Effects, EffectsIn
<1>5. IsFiniteSet(EffectIds(obs))
  <2> HIDE DEF All
  <2>1. IsFiniteSet(Effects(obs))
    BY <1>3, <1>4
  <2>2. EffectIds(obs) = {Id[e] : e \in Effects(obs)}
    BY DEF EffectIds
  <2> HIDE DEF Id
  <2> QED  BY <2>1, <2>2, ImageFinite
<1> QED  BY <1>5, FS_Subset, FS_CardinalityType

(* Scores count finite sets.                                               *)
LEMMA ScoreType ==
  ASSUME Inv
  PROVE  \A s \in Live : Cardinality(s.consumed) \in Nat /\ Cardinality(s.matched) \in Nat
<1> SUFFICES ASSUME NEW s \in Live
             PROVE  Cardinality(s.consumed) \in Nat /\ Cardinality(s.matched) \in Nat
  OBVIOUS
<1>1. Inputs /\ s.consumed \subseteq Records(obs) /\ s.matched \subseteq EffectIds(obs)
  BY DEF Inv, Good, StateOK
<1> QED  BY <1>1, RecordsFinite, EffectsFinite

(* best is replaced by what beats it, and by nothing else.                 *)
LEMMA BestSeenNext ==
  ASSUME Inv, BestSeen, [Next]_vars
  PROVE  BestSeen'
<1>1. CASE UNCHANGED <<seen, best>>
  BY <1>1 DEF BestSeen, Score
<1>2. CASE PopNew
  <2>1. /\ seen' = seen \cup {Key(Top)}
        /\ best' = IF Less(Score(best), Score(Top)) THEN Top ELSE best
    BY <1>2 DEF PopNew
  <2>2. Top \in Live /\ best \in Live
    BY <1>2, SeqPop DEF PopNew, Pop, Inv, Live, Top
  <2>3. /\ Cardinality(Top.consumed) \in Nat /\ Cardinality(Top.matched) \in Nat
        /\ Cardinality(best.consumed) \in Nat /\ Cardinality(best.matched) \in Nat
    BY <2>2, ScoreType
  <2>4. Key(Top)[2] = Top.consumed /\ Key(Top)[3] = Top.matched
    BY DEF Key
  <2>5. ASSUME NEW k \in seen'
        PROVE  /\ Cardinality(k[2]) \in Nat /\ Cardinality(k[3]) \in Nat
               /\ ~ Less(Score(best'), ScoreOf(k[2], k[3]))
    <3>1. /\ Cardinality(k[2]) \in Nat /\ Cardinality(k[3]) \in Nat
          /\ k # Key(Top) => ~ Less(Score(best), ScoreOf(k[2], k[3]))
      BY <2>1, <2>3, <2>4, <2>5 DEF BestSeen
    <3>2. CASE Less(Score(best), Score(Top))
      <4>1. best' = Top
        BY <2>1, <3>2
      <4>2. ~ Less(Score(Top), ScoreOf(k[2], k[3]))
        BY <2>3, <2>4, <3>1, <3>2 DEF Less, Score, ScoreOf
      <4> QED  BY <3>1, <4>1, <4>2
    <3>3. CASE ~ Less(Score(best), Score(Top))
      <4>1. best' = best
        BY <2>1, <3>3
      <4>2. ~ Less(Score(best), ScoreOf(k[2], k[3]))
        BY <2>4, <3>1, <3>3 DEF Less, Score, ScoreOf
      <4> QED  BY <3>1, <4>1, <4>2
    <3> QED  BY <3>2, <3>3
  <2>6. \A x : Score(x)' = Score(x)
    BY DEF Score
  <2> QED  BY <2>5 DEF BestSeen, Score
<1>3. Accept \/ Expand => PopNew
  BY DEF Accept, Expand
<1>4. CASE Begin \/ TryRecord \/ TryTransition
  BY <1>1, <1>4 DEF Begin, TryRecord, TryTransition, search
<1>5. CASE RejectEdges \/ PopExhausted \/ PopDiscarded \/ Conclude \/ UNCHANGED vars
  BY <1>1, <1>5 DEF RejectEdges, PopExhausted, PopDiscarded, Conclude, vars
<1>6. CASE FireObserved \/ FireSilent
  BY <1>1, <1>6 DEF FireObserved, FireSilent, Push, search
<1>7. CASE Skips \/ Drops \/ Turns
  BY <1>1, <1>7, Quiet DEF search
<1> QED  BY <1>2, <1>3, <1>4, <1>5, <1>6, <1>7, Moves

(* The partial run a rejection reports is as long as any: no reachable     *)
(* state explains more records, or as many records and more effects.       *)
THEOREM BestIsLongest ==
  ASSUME \A o \in Observations : Bounded(o)
  PROVE  Spec => [](Assured(obs, options.slack) /\ RejectedInFull /\ CheckEdges(obs) = {} =>
                      \A s : Reachable(obs, options.slack, s) => ~ Less(Score(best), Score(s)))
<1>1. Init => BestSeen
  BY DEF Init, BestSeen
<1>2. Inv /\ BestSeen /\ [Next]_vars => BestSeen'
  BY BestSeenNext
<1>3. Inv /\ Exploring /\ BestSeen
        => (Assured(obs, options.slack) /\ RejectedInFull /\ CheckEdges(obs) = {} =>
              \A s : Reachable(obs, options.slack, s) => ~ Less(Score(best), Score(s)))
  <2> SUFFICES ASSUME Inv, Exploring, BestSeen, Assured(obs, options.slack), RejectedInFull,
                      CheckEdges(obs) = {}, NEW s, Reachable(obs, options.slack, s)
               PROVE  ~ Less(Score(best), Score(s))
    OBVIOUS
  <2>1. PICK S : /\ seen = {Key(z) : z \in S}
                 /\ Root \in S
                 /\ \A n \in S : Reachable(obs, options.slack, n)
                 /\ \A z \in S : \A n : Follows(z, n) => \E m \in S : Key(m) = Key(n)
    BY RejectedExplored
  <2>2. PICK z \in S : Mirrored(s, z)
    BY <2>1, AllMirrored DEF Inv
  <2>3. ~ Less(Score(best), ScoreOf(Key(z)[2], Key(z)[3]))
    BY <2>1 DEF BestSeen
  <2>4. ScoreOf(Key(z)[2], Key(z)[3]) = Score(s)
    BY <2>2 DEF Mirrored, Key, Score, ScoreOf
  <2> QED  BY <2>3, <2>4
<1> QED  BY <1>1, <1>2, <1>3, ExploringAlways, Invariance, PTL DEF Spec

-----------------------------------------------------------------------------
(* The search implements Decision                                          *)

(* What the search holds is reachable, and what it accepts derivable.      *)
AllReached ==
  /\ Prepared
  /\ \A s \in Live : Reachable(obs, options.slack, s)
  /\ Accepted => Derivable(obs, options.slack)

LEMMA ReachedNext ==
  ASSUME Inv, Trying, AllReached, [Next]_vars
  PROVE  AllReached'
<1>1. obs' = obs /\ options' = options /\ \A s \in Live' : s \in Live \/ Pushed(s)
  BY Held, ArgumentsKept
<1>2. ASSUME NEW s, Pushed(s) PROVE Reachable(obs, options.slack, s)
  <2>1. pc \in {"fire", "invent"} /\ cur \in Live
    BY <1>2 DEF Pushed, Live
  <2>2. preds = Order(obs)
    BY <2>1 DEF AllReached, Prepared
  <2> QED  BY <1>2, <2>1, <2>2, PushedFollows, FollowsReach DEF AllReached
<1>3. \A s \in Live' : Reachable(obs, options.slack, s)'
  BY <1>1, <1>2 DEF AllReached
<1>4. Prepared'
  BY PreparedNext DEF AllReached
<1>5. ASSUME Accepted' PROVE Derivable(obs, options.slack)
  <2>1. CASE Accepted /\ outcome' = outcome
    BY <2>1 DEF AllReached
  <2>2. ASSUME pc = "pop", NEW s \in Live, Complete(s), IsFinal(s.marking)
        PROVE  Derivable(obs, options.slack)
    <3>1. CheckEdges(obs) = {}
      BY <2>2 DEF AllReached, Prepared
    <3> QED  BY <2>2, <3>1 DEF AllReached, Derivable, Complete
  <2> QED  BY <1>5, <2>1, <2>2, AcceptedWas
<1>6. Accepted' => Derivable(obs, options.slack)'
  BY <1>1, <1>5
<1> QED  BY <1>3, <1>4, <1>6 DEF AllReached

LEMMA ReachedAlways == Spec => []AllReached
<1>1. Init => AllReached
  <2> SUFFICES ASSUME Init PROVE AllReached
    OBVIOUS
  <2>1. Live = {Root} /\ ~ Accepted
    BY InitLive
  <2> QED  BY <2>1, RootReachable DEF AllReached, Prepared, Init
<1> QED  BY <1>1, ReachedNext, TryingInvariance, PTL DEF Spec

(* What verify() accepts can be derived, in the very sense in which what   *)
(* it rejects cannot.                                                      *)
THEOREM AcceptanceDerives == Spec => [](Accepted => Derivable(obs, options.slack))
<1>1. AllReached => (Accepted => Derivable(obs, options.slack))
  BY DEF AllReached
<1> QED  BY <1>1, ReachedAlways, PTL

(* The promise of ARCHITECTURE.md, section 5, for what can be derived.     *)
DD == INSTANCE Decision WITH verdict <- outcome.verdict, Explainable <- Derivable

Refuted == RejectedInFull => ~ Derivable(obs, options.slack)

(* A step of the search is a step of Decision or changes nothing there.    *)
LEMMA DecidesStep ==
  ASSUME Inv, Exploring, AllReached', Refuted', [Next]_vars
  PROVE  [DD!Next]_DD!vars
<1>1. obs' = obs /\ options' = options
  BY Held, ArgumentsKept
<1>2. pc # "done" => outcome.verdict = "none"
  BY DEF Exploring, NoOutcome
<1>3. ASSUME outcome' = outcome, exhausted' = exhausted PROVE [DD!Next]_DD!vars
  BY <1>1, <1>3 DEF DD!vars
<1>4. CASE RejectEdges \/ Conclude
  <2>1. /\ pc # "done" /\ exhausted' = exhausted /\ outcome'.verdict = "reject"
        /\ outcome'.exhausted \in {FALSE, exhausted}
    <3>1. CASE RejectEdges
      BY <3>1 DEF RejectEdges
    <3>2. CASE Conclude
      BY <3>2 DEF Conclude
    <3> QED  BY <1>4, <3>1, <3>2
  <2>2. exhausted \/ ~ Derivable(obs, options.slack)
    <3> SUFFICES ASSUME ~ exhausted PROVE ~ Derivable(obs, options.slack)
      OBVIOUS
    <3>1. RejectedInFull'
      BY <2>1 DEF RejectedInFull, Rejected
    <3> QED  BY <1>1, <3>1 DEF Refuted
  <2> QED  BY <1>1, <1>2, <2>1, <2>2 DEF DD!Next, DD!Reject
<1>5. CASE Accept
  <2>1. pc # "done" /\ exhausted' = exhausted /\ outcome'.verdict = "accept"
    BY <1>5 DEF Accept, PopNew, Pop
  <2>2. Derivable(obs, options.slack)
    BY <1>1, <2>1 DEF AllReached, Accepted
  <2> QED  BY <1>1, <1>2, <2>1, <2>2 DEF DD!Next, DD!Accept
<1>6. CASE PopExhausted
  <2>1. pc # "done" /\ exhausted' = TRUE /\ outcome' = outcome
    BY <1>6 DEF PopExhausted, Pop
  <2> QED  BY <1>1, <1>2, <2>1 DEF DD!Next, DD!GiveUp
<1>7. CASE Begin \/ TryRecord \/ TryTransition
  BY <1>3, <1>7 DEF Begin, TryRecord, TryTransition, search
<1>8. CASE PopDiscarded \/ Expand \/ UNCHANGED vars
  BY <1>3, <1>8 DEF PopDiscarded, Expand, PopNew, vars
<1>9. CASE FireObserved \/ FireSilent
  BY <1>3, <1>9 DEF FireObserved, FireSilent, Push, search
<1>10. CASE Skips \/ Drops \/ Turns
  BY <1>3, <1>10, Quiet DEF search
<1> QED  BY <1>4, <1>5, <1>6, <1>7, <1>8, <1>9, <1>10, Moves

(* verify() decides: it answers at most once, ACCEPT only for what can be  *)
(* derived and REJECT only for what cannot, or after giving up.            *)
THEOREM SearchDecides ==
  ASSUME \A o \in Observations : Bounded(o) /\ \A op \in OptionsFor(o) : Assured(o, op.slack)
  PROVE  Spec => DD!Spec
<1>1. Init => DD!Init
  <2> SUFFICES ASSUME Init PROVE DD!Init
    OBVIOUS
  <2>1. options.slack \in Nat
    BY OptionsAssumption DEF Init
  <2> QED  BY <2>1 DEF Init, DD!Init, NoOutcome
<1>2. Spec => []Refuted
  <2>1. Inv => Assured(obs, options.slack)
    BY DEF Inv, Inputs
  <2>2. Assured(obs, options.slack) /\ (Assured(obs, options.slack) /\ RejectedInFull => ~ Derivable(obs, options.slack))
          => Refuted
    BY DEF Refuted
  <2>3. \A o \in Observations : Bounded(o)
    OBVIOUS
  <2> QED  BY <2>1, <2>2, <2>3, RejectionRefutes, Invariance, PTL
<1>3. Spec => [](Inv /\ Prepared /\ Exploring)
  BY ExploringAlways
<1>4. Inv /\ Exploring /\ AllReached' /\ Refuted' /\ [Next]_vars => [DD!Next]_DD!vars
  BY DecidesStep
<1> QED  BY <1>1, <1>2, <1>3, <1>4, ReachedAlways, PTL DEF Spec, DD!Spec
=============================================================================
