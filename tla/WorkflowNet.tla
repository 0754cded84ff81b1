---------------------------- MODULE WorkflowNet ----------------------------
(***************************************************************************)
(* The compiled workflow net (crates/engine/src/net.rs): places that hold  *)
(* tokens carrying values, and transitions that consume and produce        *)
(* tokens, bind variables and emit effects.                                *)
(*                                                                         *)
(* A place is a Vec of tokens in the code.  Here it is a set of tokens     *)
(* that remember when they were born, <<depth of the firing, slot>>, so    *)
(* the order of the Vec is the order of birth.                             *)
(*                                                                         *)
(* An environment maps the bound variables to values: a function whose     *)
(* domain is the set of bound variables.                                   *)
(***************************************************************************)
EXTENDS Observation

CONSTANTS
  Places,            \* the places of the net
  PlaceCarries,      \* place -> the variables a token produced there keeps
  Initial,           \* place -> the set of tokens of the initial marking
  Finals,            \* the final places
  Transitions,       \* sequence of transitions, in specification order
  Relations,         \* relation name -> [from, to, constraint]
  Hidden,            \* token keys that start with an underscore
  Attested,          \* values the presented certificates attest
  FreshValue(_),     \* the n-th invented value, "~fresh<n>"
  MaxChoices         \* cap on the token choices walked (512 in the code)

(* A transition is a record with the fields                                *)
(*   id, admits (the principals its principal class matches), consumes,    *)
(*   produces (sequences of places), binds (sequence of variables),        *)
(*   attested (set of them), guard (set of clauses),                       *)
(*   emits (sequence of templates).                                        *)
(* A template is [effect, args, requires], args a function from argument   *)
(* names to patterns and requires a sequence of [ty, target, bind].        *)
(* A pattern is [kind |-> "lit" | "glob" | "var", text, matches], where    *)
(* matches is the set of values a glob matches.                            *)

TransitionIds == {Transitions[i].id : i \in DOMAIN Transitions}

TransitionById(id) == Transitions[CHOOSE i \in DOMAIN Transitions : Transitions[i].id = id]

EmptyEnv == <<>>

(* Births tell apart the tokens of a marking, in one place or in two: the  *)
(* set stands for the Vec without losing a token.                          *)
MarkingOK(m, depth) ==
  /\ m = [p \in Places |-> m[p]]
  /\ \A p \in Places : \A tk \in m[p] :
       /\ tk = [born |-> tk.born, env |-> tk.env]
       /\ tk.born \in Nat \X Nat
       /\ tk.born[1] <= depth
  /\ \A p, q \in Places : \A tk \in m[p], uk \in m[q] : tk.born = uk.born => p = q /\ tk = uk

(* compile() gives the tokens of the initial marking a type and a value    *)
(* only, under hidden keys.                                                *)
ASSUME InitialAssumption ==
  /\ MarkingOK(Initial, 0)
  /\ \A p \in Places : /\ IsFiniteSet(Initial[p])
                       /\ \A tk \in Initial[p] : DOMAIN tk.env \subseteq Hidden

(* compile() drops the final places nobody declares.                       *)
ASSUME FinalsAssumption == Finals \subseteq Places

(* compile() drops the arcs to places nobody declares, and load_checked()  *)
(* refuses a specification in which two transitions share an id (W002).    *)
ASSUME TransitionsAssumption ==
  /\ Listed(Transitions)
  /\ \A i \in DOMAIN Transitions :
       LET t == Transitions[i]
       IN  /\ Listed(t.consumes) /\ Listed(t.produces) /\ Listed(t.binds) /\ Listed(t.emits)
           /\ \A s \in DOMAIN t.consumes : t.consumes[s] \in Places
           /\ \A j \in DOMAIN t.emits :
                LET tpl == t.emits[j]
                IN  /\ IsFiniteSet(DOMAIN tpl.args) /\ Listed(tpl.requires)
                    /\ \A k \in DOMAIN tpl.args : tpl.args[k].kind \in {"lit", "glob", "var"}
           /\ \A j \in DOMAIN Transitions : Transitions[j].id = t.id => i = j

-----------------------------------------------------------------------------
(* Markings                                                                *)

TokensNeeded(t, p) == Cardinality({s \in DOMAIN t.consumes : t.consumes[s] = p})

MissingPlaces(m, t) == {p \in Places : Cardinality(m[p]) < TokensNeeded(t, p)}

Older(a, b) ==
  \/ a.born[1] < b.born[1]
  \/ a.born[1] = b.born[1] /\ a.born[2] < b.born[2]

(* Choices are walked in lexicographic order of token positions.           *)
Before(c, d) ==
  \E s \in DOMAIN c : Older(c[s], d[s]) /\ \A r \in 1 .. (s - 1) : c[r] = d[r]

AllChoices(m, t) ==
  {c \in [DOMAIN t.consumes -> UNION {m[p] : p \in Places}] :
     /\ \A s \in DOMAIN c : c[s] \in m[t.consumes[s]]
     /\ \A s, r \in DOMAIN c : c[s] = c[r] => s = r}

(* Mistake the runs must notice: only the first token choice is tried. *)
ChoicesFirstOnly(m, t) ==
  {c \in AllChoices(m, t) : \A d \in AllChoices(m, t) : ~ Before(d, c)}

Choices(m, t) ==
  LET all == AllChoices(m, t)
  IN  {c \in all : Cardinality({d \in all : Before(d, c)}) < MaxChoices}

Visible(token) == DOMAIN token.env \ Hidden

MergeConflict(c) ==
  \E s, r \in DOMAIN c : \E k \in Visible(c[s]) \cap Visible(c[r]) :
     c[s].env[k] # c[r].env[k]

MergedEnv(c) ==
  [k \in UNION {Visible(c[s]) : s \in DOMAIN c} |->
     LET s == CHOOSE s \in DOMAIN c : k \in Visible(c[s]) IN c[s].env[k]]

Carried(env, p) == [k \in PlaceCarries[p] \cap DOMAIN env |-> env[k]]

(* Mistake the runs must notice: consumed tokens are left in place. *)
FireCopying(m, t, c, env, depth) ==
  [p \in Places |->
     m[p] \cup {[born |-> <<depth, s>>, env |-> Carried(env, p)] :
                  s \in {r \in DOMAIN t.produces : t.produces[r] = p}}]

Fire(m, t, c, env, depth) ==
  [p \in Places |->
     (m[p] \ {c[s] : s \in DOMAIN c}) \cup
     {[born |-> <<depth, s>>, env |-> Carried(env, p)] :
        s \in {r \in DOMAIN t.produces : t.produces[r] = p}}]

IsFinal(m) == \E p \in Finals : m[p] # {}

(* The rendered marking: the multiset of token contents of each place.     *)
Canonical(m) ==
  [p \in Places |->
     [e \in {tk.env : tk \in m[p]} |-> Cardinality({tk \in m[p] : tk.env = e})]]

-----------------------------------------------------------------------------
(* Effects against templates                                               *)

ArgMatches(pattern, value, env) ==
  CASE pattern.kind = "lit"  -> value = pattern.text
    [] pattern.kind = "glob" -> value \in pattern.matches
    [] pattern.kind = "var"  -> pattern.text \in DOMAIN env => env[pattern.text] = value

VarArgs(tpl) == {k \in DOMAIN tpl.args : tpl.args[k].kind = "var"}

ArgsPresent(tpl, effect) == tpl.effect = effect.kind /\ DOMAIN tpl.args \subseteq DOMAIN effect.args

Matches(tpl, effect, env) ==
  /\ ArgsPresent(tpl, effect)
  /\ \A k \in DOMAIN tpl.args : ArgMatches(tpl.args[k], effect.args[k], env)
  /\ \A j, k \in VarArgs(tpl) :
       tpl.args[j].text = tpl.args[k].text => effect.args[j] = effect.args[k]

Unified(tpl, effect, env) ==
  [v \in DOMAIN env \cup {tpl.args[k].text : k \in VarArgs(tpl)} |->
     IF v \in DOMAIN env THEN env[v]
     ELSE effect.args[CHOOSE k \in VarArgs(tpl) : tpl.args[k].text = v]]

(* The greedy cursor that pairs the effects of a record, in order, with    *)
(* the emissions of the transition: pairing[i] is the template of effect   *)
(* i, or Len(emits) + 1 once the cursor has run off the end.               *)
Pairing(effects, emits) ==
  LET stuck == Len(emits) + 1
      at[i \in 0 .. Len(effects)] ==
        IF i = 0 THEN 0
        ELSE LET fits == {c \in (at[i - 1] + 1) .. Len(emits) : emits[c].effect = effects[i].kind}
             IN  IF fits = {} THEN stuck
                 ELSE CHOOSE c \in fits : \A d \in fits : c <= d
  IN  [i \in DOMAIN effects |-> at[i]]

ShapeOk(effects, emits) == \A i \in DOMAIN effects : Pairing(effects, emits)[i] <= Len(emits)

(* match_template folded over the pairs of one record: the environment     *)
(* after the first i pairs, and the first pair that did not match (0 while *)
(* there is none).                                                         *)
MatchPairs(effects, emits, env) ==
  LET pair == Pairing(effects, emits)
      after[i \in 0 .. Len(effects)] ==
        IF i = 0 THEN [env |-> env, bad |-> 0]
        ELSE LET prev == after[i - 1]
             IN  IF prev.bad # 0 THEN prev
                 ELSE IF Matches(emits[pair[i]], effects[i], prev.env)
                      THEN [env |-> Unified(emits[pair[i]], effects[i], prev.env), bad |-> 0]
                      ELSE [prev EXCEPT !.bad = i]
  IN  after[Len(effects)]

(* EffectShapeMismatch or EffectArgMismatch, whichever argument comes first *)
(* in the template.                                                        *)
MismatchFailure(t, effect) ==
  [reason |-> "EffectMismatch", step |-> t.id, effect |-> effect.id]

-----------------------------------------------------------------------------
(* Bindings, evidence and guards                                           *)

Unbound(t, env) == {i \in DOMAIN t.binds : t.binds[i] \notin DOMAIN env}

(* Mistake the runs must notice: each firing starts again at ~fresh1. *)
BindFreshFromOne(t, env, fresh) ==
  LET open == Unbound(t, env)
  IN  [v \in DOMAIN env \cup {t.binds[i] : i \in open} |->
         IF v \in DOMAIN env THEN env[v]
         ELSE LET i == CHOOSE i \in open : t.binds[i] = v
              IN  FreshValue(Cardinality({j \in open : j <= i}))]

(* Every declared binding the match left open is given a fresh value.      *)
BindFresh(t, env, fresh) ==
  LET open == Unbound(t, env)
  IN  [v \in DOMAIN env \cup {t.binds[i] : i \in open} |->
         IF v \in DOMAIN env THEN env[v]
         ELSE LET i == CHOOSE i \in open : t.binds[i] = v
              IN  FreshValue(fresh + Cardinality({j \in open : j <= i}))]

(* resolve() over the arguments of an unlogged step: the values it renders *)
(* are dropped, the fresh counter keeps the names it burnt.                *)
BurntNames(t, env) ==
  UNION {{<<i, k>> : k \in {j \in VarArgs(t.emits[i]) : t.emits[i].args[j].text \notin DOMAIN env}}
           : i \in DOMAIN t.emits}

UnattestedVars(t, env) == {v \in t.attested : v \notin DOMAIN env \/ env[v] \notin Attested}

(* A side of a clause is a pattern; its value is a set of at most one.     *)
SideValue(side, env) ==
  IF side.kind = "var" THEN {env[v] : v \in DOMAIN env \cap {side.text}} ELSE {side.text}

ClauseHolds(op, left, right) ==
  left # {} /\ right # {} /\ (IF op = "==" THEN left = right ELSE left # right)

GuardHolds(t, env) ==
  \A c \in t.guard : ClauseHolds(c.op, SideValue(c.left, env), SideValue(c.right, env))

-----------------------------------------------------------------------------
(* Relation edges                                                          *)

(* A side of a constraint names an argument of the edge's source or target *)
(* effect, or is a literal.                                                *)
EndValue(side, from, to) ==
  CASE side.kind = "from" -> {from.args[k] : k \in DOMAIN from.args \cap {side.text}}
    [] side.kind = "to"   -> {to.args[k] : k \in DOMAIN to.args \cap {side.text}}
    [] side.kind = "lit"  -> {side.text}

ConstraintHolds(constraint, from, to) ==
  \A c \in constraint :
    ClauseHolds(c.op, EndValue(c.left, from, to), EndValue(c.right, from, to))

EdgeFault(o, e) ==
  IF e.ty \notin DOMAIN Relations THEN {"EdgeIllTyped"}
  ELSE UNION {IF from.kind # Relations[e.ty].from \/ to.kind # Relations[e.ty].to
              THEN {"EdgeIllTyped"}
              ELSE IF ConstraintHolds(Relations[e.ty].constraint, from, to) THEN {}
                   ELSE {"ConstraintViolated"}
              : from \in EffectNamed(o, e.from), to \in EffectNamed(o, e.to)}

CheckEdges(o) ==
  UNION {{[reason |-> f, relation |-> e.ty, from |-> e.from, to |-> e.to] : f \in EdgeFault(o, e)}
           : e \in o.edges}

(* An edge that discharges the obligation: it leaves the effect, points at *)
(* an effect of the target kind that an earlier step of the path already   *)
(* produced, and the target's arguments are the ones bound here.           *)
Discharges(o, edge, ob, effectId, env, matched) ==
  /\ edge.ty = ob.ty /\ edge.from = effectId
  /\ \E target \in EffectNamed(o, edge.to) :
       /\ target.kind = ob.target
       /\ target.id \in matched
       /\ \A k \in DOMAIN ob.bind :
            k \in DOMAIN target.args /\ SideValue(ob.bind[k], env) = {target.args[k]}

ObligationFailure(t, ob, effectId) ==
  [reason |-> "ObligationUnmet", transition |-> t.id, relation |-> ob.ty, effect |-> effectId]

UnmetIndices(o, tpl, effectId, env, matched) ==
  {i \in DOMAIN tpl.requires :
     ~ \E edge \in o.edges : Discharges(o, edge, tpl.requires[i], effectId, env, matched)}

(* check_obligations stops at the first obligation nothing discharges.     *)
Unmet(o, t, tpl, effectId, env, matched) ==
  LET open == UnmetIndices(o, tpl, effectId, env, matched)
  IN  {ObligationFailure(t, tpl.requires[i], effectId) :
         i \in {j \in open : \A k \in open : j <= k}}

StructuralGaps(o, t, tpl, effectId) ==
  {ObligationFailure(t, tpl.requires[i], effectId) :
     i \in {j \in DOMAIN tpl.requires :
              ~ \E edge \in o.edges :
                  /\ edge.ty = tpl.requires[j].ty /\ edge.from = effectId
                  /\ \E target \in EffectNamed(o, edge.to) :
                       target.kind = tpl.requires[j].target}}
=============================================================================
