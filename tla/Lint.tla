-------------------------------- MODULE Lint --------------------------------
(***************************************************************************)
(* The linter of specifications (crates/wsl/src/lint.rs), and the token    *)
(* game of the net compiled from the specification it has read: what the   *)
(* linter says of a specification is compared with what its net does.      *)
(*                                                                         *)
(* Places are known by position in `places', with the variables each       *)
(* carries and the tokens each starts with; an id may occur twice.  Of an   *)
(* emission remain the variables it refers to, its effect and obligations.  *)
(***************************************************************************)
EXTENDS Naturals, Sequences, FiniteSets, Functions

CONSTANTS
  Nets,          \* the specifications linted
  MaxFirings     \* bound: firings played

WellFormed(s) ==
  /\ s.places \in Seq(Range(s.places)) /\ s.transitions \in Seq(Range(s.transitions))
  /\ \A i \in DOMAIN s.places : s.tokens[i] \in Nat

ASSUME NetsAssumption == MaxFirings \in Nat /\ \A s \in Nets : WellFormed(s)

VARIABLES
  net,             \* the specification
  phase,           \* "scan", "report" or "play"
  at, changed,     \* the loop over the transitions, and whether a pass added something
  live, covered,   \* transitions enabled and places marked, as far as the loop knows
  errors, warnings,
  marking,         \* the tokens [place, born, vars] of the compiled net
  fired            \* the transitions that fired, in order

vars == <<net, phase, at, changed, live, covered, errors, warnings, marking, fired>>

Ids(s) == Range(s.places)
Steps(s) == Range(s.transitions)
Names(s) == {t.id : t \in Steps(s)}
Firings(s) == Seq(Names(s))
Marked(s) == {s.places[i] : i \in {j \in DOMAIN s.places : s.tokens[j] > 0}}
InitialTokens(s) ==
  UNION {{[place |-> s.places[i], born |-> <<0, i, n>>, vars |-> {}] : n \in 1 .. s.tokens[i]} :
         i \in DOMAIN s.places}

Begin(s) ==
  /\ net = s
  /\ phase = "scan" /\ at = 1 /\ changed = FALSE
  /\ live = {} /\ covered = Marked(net)
  /\ errors = {} /\ warnings = {}
  /\ marking = InitialTokens(net) /\ fired = <<>>

Init == \E s \in Nets : Begin(s)

-----------------------------------------------------------------------------
(* structural_coverability()                                               *)

(* Mistake the runs must notice: one covered input place is enough. *)
EnablesAny(places, t) == t.consumes = <<>> \/ Range(t.consumes) \cap places # {}

Enables(places, t) == Range(t.consumes) \subseteq places

Examine ==
  /\ phase = "scan" /\ at <= Len(net.transitions)
  /\ LET t == net.transitions[at]
     IN  IF Enables(covered, t)
           THEN /\ live' = live \cup {t.id} /\ covered' = covered \cup Range(t.produces)
                /\ changed' = (changed \/ live' # live \/ covered' # covered)
           ELSE UNCHANGED <<live, covered, changed>>
  /\ at' = at + 1
  /\ UNCHANGED <<net, phase, errors, warnings, marking, fired>>

(* Mistake the runs must notice: what one pass covered is returned. *)
PassOnce ==
  /\ phase = "scan" /\ at > Len(net.transitions)
  /\ phase' = "report" /\ UNCHANGED <<at, changed>>
  /\ UNCHANGED <<net, live, covered, errors, warnings, marking, fired>>

(* Mistake the runs must notice: the next pass starts before the first transition. *)
PassFromZero ==
  /\ phase = "scan" /\ at > Len(net.transitions)
  /\ IF changed THEN at' = 0 /\ changed' = FALSE /\ phase' = phase
                ELSE phase' = "report" /\ UNCHANGED <<at, changed>>
  /\ UNCHANGED <<net, live, covered, errors, warnings, marking, fired>>

Pass ==
  /\ phase = "scan" /\ at > Len(net.transitions)
  /\ IF changed THEN at' = 1 /\ changed' = FALSE /\ phase' = phase
                ELSE phase' = "report" /\ UNCHANGED <<at, changed>>
  /\ UNCHANGED <<net, live, covered, errors, warnings, marking, fired>>

-----------------------------------------------------------------------------
(* lint(): a diagnostic is its code and what it is about.                  *)

Twice(seq) == {seq[i] : i \in {j \in DOMAIN seq : \E k \in 1 .. (j - 1) : seq[k] = seq[j]}}

Emitted(s) == UNION {t.emits : t \in Steps(s)}
Produced(s) == UNION {Range(t.produces) : t \in Steps(s)}
Consumed(s) == UNION {Range(t.consumes) : t \in Steps(s)}
Says(code, subjects) == {<<code, x>> : x \in subjects}

Structure(s) ==
  Says("W001", Twice(s.places))
  \cup Says("W002", Twice([i \in DOMAIN s.transitions |-> s.transitions[i].id]))
  \cup Says("W003", (Consumed(s) \cup Produced(s)) \ Ids(s))
  \cup Says("W004", {t.id : t \in {u \in Steps(s) : u.principal \notin s.principals}})
  \cup Says("W005", {t.id : t \in {u \in Steps(s) : u.consumes = <<>> /\ u.produces = <<>>}})
  \cup Says("W006", {x \in {"final"} : s.finals = <<>>})
  \cup Says("W007", Range(s.finals) \ Ids(s))
  \cup Says("W008", {x \in {"initial"} : Marked(s) = {}})
  \cup Says("W012", Ids(s) \ (Produced(s) \cup Marked(s)))

Reach(s) ==
  Says("W009", Names(s) \ live) \cup Says("W010", Range(s.finals) \ covered)

RelationsOf(s) ==
  Says("W014", {r.name : r \in {q \in s.relations : q.from \notin Emitted(s)}})
  \cup Says("W015", {r.name : r \in {q \in s.relations : q.to \notin Emitted(s)}})
  \cup UNION {UNION {Says(IF \A q \in s.relations : q.name # o.ty THEN "W016" ELSE "W017", {t.id}) :
                      o \in {x \in t.obliges :
                        [name |-> x.ty, from |-> x.effect, to |-> x.target] \notin s.relations}} :
               t \in Steps(s)}

(* place_variables(): of places with one id the last one counts.           *)
PlaceVars(s, p) ==
  IF p \in Ids(s) THEN s.carries[CHOOSE i \in DOMAIN s.places :
                         s.places[i] = p /\ \A j \in DOMAIN s.places : s.places[j] = p => j <= i]
  ELSE {}

Available(s, t) == UNION {PlaceVars(s, p) : p \in Range(t.consumes)} \cup t.binds

(* Mistake the runs must notice: what a produced place carries is not asked for. *)
BindingsRefsOnly(s) == Says("W018", {t.id : t \in {u \in Steps(s) : ~ u.refs \subseteq Available(s, u)}})

Bindings(s) ==
  Says("W018", {t.id : t \in {u \in Steps(s) : ~ u.refs \subseteq Available(s, u)}})
  \cup Says("W022", {t.id : t \in {u \in Steps(s) :
              \E p \in Range(u.produces) : ~ PlaceVars(s, p) \subseteq Available(s, u)}})

Invariants(s) ==
  Says("W019", s.named \ Emitted(s)) \cup Says("W020", s.once \ Ids(s))
  \cup Says("W021", {p \in s.once : \E t \in Steps(s) : p \in Range(t.consumes) \cap Range(t.produces)})

Isolated(s) == Says("W011", Ids(s) \ (Produced(s) \cup Consumed(s)))

NotFreeChoice(s) ==
  Says("W013", {{q[1].id, q[2].id} : q \in {p \in Steps(s) \X Steps(s) :
    LET a == Range(p[1].consumes) b == Range(p[2].consumes) IN a \cap b # {} /\ a # b}})

Report ==
  /\ phase = "report" /\ phase' = "play"
  /\ errors' = Structure(net) \cup Reach(net) \cup RelationsOf(net) \cup Bindings(net) \cup Invariants(net)
  /\ warnings' = Isolated(net) \cup NotFreeChoice(net)
  /\ UNCHANGED <<net, at, changed, live, covered, marking, fired>>

IsSound == errors = {}

-----------------------------------------------------------------------------
(* The token game of the compiled net: places nobody declares are left out *)
(* by compile(); a token keeps the carried variables that were bound.      *)
(* Values, guards and evidence, which only forbid firings, are left out.   *)

Slots(places) == {s \in DOMAIN places : places[s] \in Ids(net)}

Choices(t) ==
  {c \in [Slots(t.consumes) -> marking] :
     /\ \A s \in Slots(t.consumes) : c[s].place = t.consumes[s]
     /\ \A r, s \in Slots(t.consumes) : c[r] = c[s] => r = s}

Bound(t, c) == UNION {c[s].vars : s \in DOMAIN c} \cup t.binds

Made(t, c) ==
  {[place |-> t.produces[s], born |-> <<Len(fired) + 1, s, 1>>,
    vars |-> PlaceVars(net, t.produces[s]) \cap Bound(t, c)] : s \in Slots(t.produces)}

Fire(t, c) ==
  /\ marking' = (marking \ Range(c)) \cup Made(t, c)
  /\ fired' = Append(fired, t.id)

Play ==
  /\ phase = "play" /\ Len(fired) < MaxFirings
  /\ \E t \in Steps(net) : \E c \in Choices(t) : Fire(t, c)
  /\ UNCHANGED <<net, phase, at, changed, live, covered, errors, warnings>>

Next == Examine \/ Pass \/ Report \/ Play

Spec == Init /\ [][Next]_vars

-----------------------------------------------------------------------------
(* The type invariant: the loop stays within the net.                      *)
TypeOK ==
  /\ phase \in {"scan", "report", "play"} /\ at \in 1 .. (Len(net.transitions) + 1)
  /\ changed \in BOOLEAN
  /\ live \subseteq Names(net)
  /\ covered \subseteq Marked(net) \cup Produced(net)
  /\ fired \in Firings(net)
  /\ \A m \in marking : m.place \in Ids(net) /\ m.vars \subseteq PlaceVars(net, m.place)

Closed(places) ==
  /\ Marked(net) \subseteq places
  /\ \A t \in Steps(net) : Range(t.consumes) \subseteq places => Range(t.produces) \subseteq places

(* The loop of structural_coverability() returns the least set of places   *)
(* that holds the initial ones and is closed under the transitions, and    *)
(* the transitions that set enables, in whatever order they are written.   *)
CoverageExact ==
  phase # "scan" =>
    /\ Closed(covered)
    /\ \A places \in SUBSET (Marked(net) \cup Produced(net)) : Closed(places) => covered \subseteq places
    /\ live = {t.id : t \in {u \in Steps(net) : Range(u.consumes) \subseteq covered}}

(* "Dead: never structurally enabled" and "unreachable" (W009, W010) are   *)
(* said of no transition that fires and no place that is marked, when      *)
(* every place is declared.                                                *)
NoFalseAlarm ==
  phase = "play" /\ (\A x \in errors : x[1] # "W003") =>
    /\ \A i \in DOMAIN fired : fired[i] \in live
    /\ \A m \in marking : m.place \in covered

(* A transition of a sound specification finds every variable it refers to *)
(* bound (W018, W022), when the tokens of the start are not asked for one:  *)
(* those carry nothing, whatever their place declares.                     *)
BindingsGuaranteed ==
  /\ phase = "play" /\ IsSound
  /\ \A i \in DOMAIN net.places : net.tokens[i] > 0 => net.carries[i] = {}
  => \A t \in Steps(net) : \A c \in Choices(t) : t.refs \subseteq Bound(t, c)
=============================================================================
