------------------------------ MODULE LegalRun ------------------------------
(***************************************************************************)
(* What the documents promise that verify() decides: whether some          *)
(* accepting firing sequence of the net, consistent with the observed      *)
(* steps and identities, emits effects in which the observed effects       *)
(* embed (ARCHITECTURE.md, section 5), when at most `slack' steps may have *)
(* gone unlogged.                                                          *)
(*                                                                         *)
(* It is stated without the machinery of the search: markings are bags of  *)
(* environments, an effect may embed in any emission of its kind, a        *)
(* binding may hold any value the observation mentions, an unlogged step   *)
(* may account for several effects, the clock of a plane orders every pair *)
(* of its steps, and no number of choices is too many.                     *)
(***************************************************************************)
EXTENDS WorkflowNet, Bags, TLC

LOCAL INSTANCE Functions

(* A configuration: the marking, the step records and effects explained so *)
(* far, and the number of unlogged steps.                                  *)
BagOf(S) == [e \in {tk.env : tk \in S} |-> Cardinality({tk \in S : tk.env = e})]

Start(o) == [m |-> [p \in Places |-> BagOf(Initial[p])],
             done |-> {}, made |-> {}, unseen |-> 0]

(* i must have happened before j: both are steps of one plane and its      *)
(* clock says so, or an edge makes i the cause of j.                       *)
HappenedBefore(o, i, j) == Earlier(o, i, j) \/ i \in EdgePreds(o, j)

Variables(t) ==
  {t.binds[i] : i \in DOMAIN t.binds} \cup
  UNION {{t.emits[i].args[k].text : k \in VarArgs(t.emits[i])} : i \in DOMAIN t.emits}

(* The tokens a firing takes: one environment for each consumed slot.      *)
Takings(m, t) ==
  LET envs == UNION {DOMAIN m[p] : p \in Places}
  IN  {c \in [DOMAIN t.consumes -> envs] :
         \A p \in Places : \A e \in envs :
           Cardinality({s \in DOMAIN c : t.consumes[s] = p /\ c[s] = e}) <= CopiesIn(e, m[p])}

CarriedIn(c) == UNION {{<<k, c[s][k]>> : k \in DOMAIN c[s] \ Hidden} : s \in DOMAIN c}

Names(bindings) == {b[1] : b \in bindings}

Consistent(bindings) == \A a, b \in bindings : a[1] = b[1] => a = b

AsEnv(bindings) ==
  [k \in Names(bindings) |-> (CHOOSE b \in bindings : b[1] = k)[2]]

ValuesIn(o) == UNION {{e.args[k] : k \in DOMAIN e.args} : e \in Effects(o)}

(* A binding nothing observes may hold any value: one the observation      *)
(* mentions, or one it never does.                                         *)
Guesses(o, n) == ValuesIn(o) \cup {FreshValue(n)}

Completions(o, t, bindings, n) ==
  LET open == Variables(t) \ Names(bindings)
  IN  {bindings \cup {<<v, g[v]>> : v \in open} : g \in [open -> Guesses(o, n)]}

(* The bindings an embedding f of effects into emissions forces.           *)
Forced(t, f) ==
  UNION {{<<t.emits[f[e]].args[k].text, e.args[k]>> : k \in VarArgs(t.emits[f[e]]) \cap DOMAIN e.args}
           : e \in DOMAIN f}

Embeddings(t, E) == {f \in [E -> DOMAIN t.emits] : IsInjective(f)}

Embeds(t, f, env) == \A e \in DOMAIN f : Matches(t.emits[f[e]], e, env)

(* The firings of t that account for the effects E, as the environments    *)
(* they bind.                                                              *)
Firings(o, cfg, t, c, f) ==
  LET forced == CarriedIn(c) \cup Forced(t, f)
  IN  IF ~ Consistent(forced) THEN {}
      ELSE {env \in {AsEnv(b) : b \in Completions(o, t, forced, cfg.unseen + Cardinality(cfg.done))} :
              /\ Embeds(t, f, env)
              /\ UnattestedVars(t, env) = {}
              /\ GuardHolds(t, env)
              /\ \A e \in DOMAIN f : UnmetIndices(o, t.emits[f[e]], e.id, env, cfg.made) = {}}

TakenFrom(c, t, p) ==
  [e \in {c[s] : s \in {r \in DOMAIN c : t.consumes[r] = p}} |->
     Cardinality({s \in DOMAIN c : t.consumes[s] = p /\ c[s] = e})]

PutInto(t, p, env) ==
  LET n == Cardinality({s \in DOMAIN t.produces : t.produces[s] = p})
  IN  IF n = 0 THEN EmptyBag ELSE (Carried(env, p) :> n)

AfterFiring(m, t, c, env) ==
  [p \in Places |-> (m[p] (-) TakenFrom(c, t, p)) (+) PutInto(t, p, env)]

TransitionSet == {Transitions[i] : i \in DOMAIN Transitions}

ObservedSuccessors(o, cfg) ==
  {[m |-> AfterFiring(cfg.m, x[2], x[3], x[5]),
    done |-> cfg.done \cup {x[1]}, made |-> cfg.made \cup IdsOfRecord(o, x[1]),
    unseen |-> cfg.unseen] : x \in
     UNION {UNION {UNION {{<<i, t, c, f, env>> : env \in Firings(o, cfg, t, c, f)}
                     : c \in Takings(cfg.m, t), f \in Embeddings(t, EffectsIn(o, {i}))}
              : t \in {u \in TransitionSet : u.id = o.records[i].step /\ o.records[i].principal \in u.admits}}
       : i \in {j \in StepRecords(o) \ cfg.done :
                  \A k \in StepRecords(o) \ {j} : HappenedBefore(o, k, j) => k \in cfg.done}}}

(* An unlogged step may account for dangling effects.  What it emits of a  *)
(* kind that a complete plane carries must be among them.                  *)
HiddenEffects(o, cfg) == {e \in EffectsIn(o, DanglingRecords(o)) : e.id \notin cfg.made}

Unloggable(o, t, f) ==
  \A i \in DOMAIN t.emits : PlaneCarries(o, t.emits[i].effect) => i \in Range(f)

UnloggedSuccessors(o, cfg) ==
  {[m |-> AfterFiring(cfg.m, x[1], x[2], x[4]),
    done |-> cfg.done, made |-> cfg.made \cup {e.id : e \in DOMAIN x[3]},
    unseen |-> cfg.unseen + 1] : x \in
     UNION {UNION {UNION {{<<t, c, f, env>> : env \in Firings(o, cfg, t, c, f)}
                     : c \in Takings(cfg.m, t)}
              : f \in {g \in UNION {Embeddings(t, E) : E \in SUBSET HiddenEffects(o, cfg)} :
                         Unloggable(o, t, g)}}
       : t \in TransitionSet}}

(* Everything reachable: each step explains a record or spends slack, so   *)
(* StepRecords + slack rounds are enough.                                  *)
Configurations(o, slack) ==
  LET reach[n \in Nat] ==
        IF n = 0 THEN {Start(o)}
        ELSE LET prev == reach[n - 1]
             IN  prev \cup
                 UNION {ObservedSuccessors(o, cfg) \cup
                        (IF cfg.unseen < slack THEN UnloggedSuccessors(o, cfg) ELSE {})
                        : cfg \in prev}
  IN  IF CheckEdges(o) = {} THEN reach[Cardinality(StepRecords(o)) + slack] ELSE {}

Explains(o, cfg) ==
  /\ cfg.done = StepRecords(o)
  /\ cfg.made = EffectIds(o)
  /\ \E p \in Finals : DOMAIN cfg.m[p] # {}

Explainable(o, slack) == \E cfg \in Configurations(o, slack) : Explains(o, cfg)
=============================================================================
