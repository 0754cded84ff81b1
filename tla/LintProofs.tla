----------------------------- MODULE LintProofs -----------------------------
(***************************************************************************)
(* Proofs about the linter and the nets of the specifications it reads, for *)
(* any specification and any workflow file.                                *)
(***************************************************************************)
EXTENDS Onboarding, TLAPS

Diagnosed ==
  phase = "play" =>
    errors = Structure(net) \cup Reach(net) \cup RelationsOf(net) \cup Bindings(net) \cup Invariants(net)

Done(t) == Range(t.consumes) \subseteq covered => t.id \in live /\ Range(t.produces) \subseteq covered

(* The loop: what it covered is no more than it must, and a pass without a  *)
(* change leaves nothing to do among the transitions it has seen.          *)
LoopOK ==
  /\ Marked(net) \subseteq covered
  /\ \A places \in SUBSET (Marked(net) \cup Produced(net)) : Closed(places) => covered \subseteq places
  /\ \A x \in live : \E t \in Steps(net) : t.id = x /\ Range(t.consumes) \subseteq covered
  /\ phase = "scan" /\ ~ changed => \A k \in 1 .. (at - 1) : Done(net.transitions[k])
  /\ phase # "scan" => \A t \in Steps(net) : Done(t)

(* Before the game starts, the marking is the initial one.                 *)
GameStarts == phase # "play" => marking = InitialTokens(net) /\ fired = <<>>

StartsBare == \A i \in DOMAIN net.places : net.tokens[i] > 0 => net.carries[i] = {}

(* In a sound net a token has every variable its place carries.            *)
TokensFull ==
  phase = "play" /\ IsSound /\ StartsBare => \A m \in marking : m.vars = PlaceVars(net, m.place)

(* The net of a workflow file: a token stands at the start or behind a job  *)
(* that ran, no two at one place, and none before a job that ran; it is     *)
(* there until a job takes it.                                             *)
Behind == \A m \in marking : m.place = Start \/ \E k \in DOMAIN fired : m.place = <<"p", fired[k]>>
Single == \A m, n \in marking : m.place = n.place => m = n
Ran(k, j) ==
  /\ fired[k] = Slug[j]
  /\ \A m \in marking : m.place \notin Range(Consumes(wf, j))
  /\ \A n \in NeedsOf(j) : \E l \in 1 .. (k - 1) : fired[l] = n
Once == \A k \in DOMAIN fired : \A l \in 1 .. (k - 1) : fired[l] # fired[k]

Spent(p) == \E i \in DOMAIN wf.jobs : Slug[wf.jobs[i]] \in Range(fired) /\ p \in Range(Consumes(wf, wf.jobs[i]))
Placed == \A p \in {Start} \cup {<<"p", fired[k]>> : k \in DOMAIN fired} : (\E m \in marking : m.place = p) \/ Spent(p)

JobsOK == Models => Behind /\ Single /\ Placed /\ Once /\ \A k \in DOMAIN fired : \E i \in DOMAIN wf.jobs : Ran(k, wf.jobs[i])

NetOK == WellFormed(net) /\ (wf \in Workflows => net = Generated(wf))

Inv == NetOK /\ TypeOK /\ LoopOK /\ Diagnosed /\ GameStarts /\ NoFalseAlarm /\ TokensFull

-----------------------------------------------------------------------------
(* A generated specification has one place per job after the start, and one *)
(* transition per job.                                                     *)
LEMMA GeneratedShape ==
  ASSUME NEW w \in Workflows
  PROVE  LET s == Generated(w)
         IN  /\ DOMAIN s.places = 1 .. (Len(w.jobs) + 1) /\ s.places[1] = Start
             /\ \A i \in 1 .. Len(w.jobs) : s.places[i + 1] = PlaceOf(w.jobs[i])
             /\ \A i \in DOMAIN s.places : s.tokens[i] = IF i = 1 THEN 1 ELSE 0
             /\ DOMAIN s.transitions = 1 .. Len(w.jobs)
             /\ \A i \in 1 .. Len(w.jobs) : s.transitions[i] = TransitionOf(w, w.jobs[i])
             /\ WellFormed(s)
<1> DEFINE S == Generated(w)
           places == <<Start>> \o [i \in DOMAIN w.jobs |-> PlaceOf(w.jobs[i])]
<1>1. w.jobs \in Seq(Range(w.jobs)) /\ DOMAIN w.jobs = 1 .. Len(w.jobs) /\ Len(w.jobs) \in Nat
  BY WorkflowsAssumption
<1>2. /\ S.places = places
      /\ S.tokens = [i \in DOMAIN places |-> IF i = 1 THEN 1 ELSE 0]
      /\ S.transitions = [i \in DOMAIN w.jobs |-> TransitionOf(w, w.jobs[i])]
  BY DEF Generated
<1>3. [i \in DOMAIN w.jobs |-> PlaceOf(w.jobs[i])] \in Seq({PlaceOf(w.jobs[i]) : i \in DOMAIN w.jobs})
  BY <1>1
<1>4. /\ DOMAIN places = 1 .. (Len(w.jobs) + 1) /\ places[1] = Start
      /\ \A i \in 1 .. Len(w.jobs) : places[i + 1] = PlaceOf(w.jobs[i])
  <2> DEFINE behind == [i \in DOMAIN w.jobs |-> PlaceOf(w.jobs[i])]
             all == {PlaceOf(w.jobs[i]) : i \in DOMAIN w.jobs}
  <2>1. behind \in Seq(all) /\ Len(behind) = Len(w.jobs)
    BY <1>1, <1>3
  <2>2. \A i \in 1 .. Len(w.jobs) : behind[i] = PlaceOf(w.jobs[i])
    BY <1>1
  <2>3. places = <<Start>> \o behind
    OBVIOUS
  <2> HIDE DEF behind, all, places
  <2>4. DOMAIN places = 1 .. (Len(w.jobs) + 1) /\ places[1] = Start
    BY <1>1, <2>1, <2>3
  <2>5. \A i \in 1 .. Len(w.jobs) : places[i + 1] = behind[i]
    BY <1>1, <2>1, <2>3
  <2> QED  BY <2>2, <2>4, <2>5
<1>5. places \in Seq(Range(places)) /\ S.transitions \in Seq(Range(S.transitions))
  <2>1. places = [i \in 1 .. (Len(w.jobs) + 1) |-> places[i]]
    BY <1>3, <1>4
  <2>2. \A i \in 1 .. (Len(w.jobs) + 1) : places[i] \in Range(places)
    BY <1>4 DEF Range
  <2> HIDE DEF places
  <2>3. places \in [1 .. (Len(w.jobs) + 1) -> Range(places)]
    BY <2>1, <2>2
  <2>4. S.transitions \in [1 .. Len(w.jobs) -> Range(S.transitions)]
    BY <1>1, <1>2 DEF Range
  <2>5. /\ Len(w.jobs) \in Nat /\ Len(w.jobs) + 1 \in Nat
        /\ S.places \in [1 .. (Len(w.jobs) + 1) -> Range(S.places)]
    BY <1>1, <1>2, <2>3
  <2> HIDE DEF S
  <2>6. S.places \in Seq(Range(S.places))
    BY <2>5
  <2>7. S.transitions \in Seq(Range(S.transitions))
    BY <2>4, <2>5
  <2> QED  BY <1>2, <2>6, <2>7
<1> HIDE DEF places, S
<1>6. \A i \in DOMAIN S.places : S.tokens[i] = IF i = 1 THEN 1 ELSE 0
  BY <1>2
<1>7. WellFormed(S)
  BY <1>2, <1>5, <1>6 DEF WellFormed
<1>8. DOMAIN S.transitions = 1 .. Len(w.jobs) /\ \A i \in 1 .. Len(w.jobs) : S.transitions[i] = TransitionOf(w, w.jobs[i])
  BY <1>1, <1>2
<1>9. /\ DOMAIN S.places = 1 .. (Len(w.jobs) + 1) /\ S.places[1] = Start
      /\ \A i \in 1 .. Len(w.jobs) : S.places[i + 1] = PlaceOf(w.jobs[i])
  BY <1>2, <1>4
<1> QED  BY <1>6, <1>7, <1>8, <1>9 DEF S

LEMMA StepIn ==
  ASSUME WellFormed(net), NEW k \in 1 .. Len(net.transitions)
  PROVE  net.transitions[k] \in Steps(net)
BY DEF WellFormed, Steps, Range

LEMMA StepIndexed ==
  ASSUME WellFormed(net), NEW t \in Steps(net)
  PROVE  \E k \in 1 .. Len(net.transitions) : t = net.transitions[k]
BY DEF WellFormed, Steps, Range

-----------------------------------------------------------------------------
(* The loop of structural_coverability().                                  *)
LEMMA InitialInv ==
  ASSUME OnboardInit
  PROVE  Inv
<1>1. NetOK /\ Begin(net)
  <2>1. CASE wf \in Workflows /\ Begin(Generated(wf))
    BY <2>1, GeneratedShape DEF Begin, NetOK
  <2>2. CASE wf = NoWorkflow /\ Init
    BY <2>2, NetsAssumption, NoWorkflowAssumption DEF Init, Begin, NetOK
  <2> QED  BY <2>1, <2>2 DEF OnboardInit
<1>2. Len(net.transitions) \in Nat
  BY <1>1 DEF NetOK, WellFormed
<1>3. \A m \in InitialTokens(net) : m.place \in Ids(net) /\ m.vars = {}
  BY DEF InitialTokens, Ids, Range
<1>6. << >> \in Firings(net)
  BY DEF Firings
<1>4. TypeOK
  <2>1. at \in 1 .. (Len(net.transitions) + 1) /\ phase \in {"scan", "report", "play"} /\ marking = InitialTokens(net)
    BY <1>1, <1>2 DEF Begin
  <2>2. changed \in BOOLEAN
    BY <1>1 DEF Begin
  <2>3. live \subseteq Names(net) /\ covered \subseteq Marked(net) \cup Produced(net) /\ fired \in Firings(net)
    BY <1>1, <1>6 DEF Begin
  <2> QED  BY <1>3, <2>1, <2>2, <2>3 DEF TypeOK
<1>5. LoopOK
  BY <1>1 DEF Begin, LoopOK, Closed
<1> QED  BY <1>1, <1>4, <1>5 DEF Inv, Begin, Diagnosed, GameStarts, NoFalseAlarm, TokensFull

LEMMA ExamineInv ==
  ASSUME Inv, Examine, UNCHANGED wf
  PROVE  Inv'
<1> DEFINE t == net.transitions[at]
<1>0. Len(net.transitions) \in Nat
  BY DEF Inv, NetOK, WellFormed
<1>1. /\ at \in 1 .. Len(net.transitions) /\ Len(net.transitions) \in Nat /\ at' = at + 1
      /\ UNCHANGED <<net, phase, errors, warnings, marking, fired, wf>> /\ phase = "scan"
  <2>1. at \in 1 .. (Len(net.transitions) + 1)
    BY DEF Inv, TypeOK
  <2>2. /\ phase = "scan" /\ at <= Len(net.transitions) /\ at' = at + 1
        /\ UNCHANGED <<net, phase, errors, warnings, marking, fired, wf>>
    BY DEF Examine
  <2> QED  BY <1>0, <2>1, <2>2
<1>2. t \in Steps(net) /\ t.id \in Names(net)
  BY <1>1, StepIn DEF Inv, NetOK, Names
<1>3. \/ /\ Range(t.consumes) \subseteq covered
         /\ live' = live \cup {t.id} /\ covered' = covered \cup Range(t.produces)
         /\ changed' = (changed \/ live' # live \/ covered' # covered)
      \/ ~ Range(t.consumes) \subseteq covered /\ UNCHANGED <<live, covered, changed>>
  BY DEF Examine, Enables
<1> HIDE DEF t
<1>4. covered \subseteq covered' /\ live \subseteq live'
  BY <1>3
<1>5. TypeOK'
  <2>1. Range(t.produces) \subseteq Produced(net)
    BY <1>2 DEF Produced
  <2>2. changed' \in BOOLEAN
    BY <1>3 DEF Inv, TypeOK
  <2>3. live' \subseteq Names(net) /\ covered' \subseteq Marked(net) \cup Produced(net)
    BY <1>2, <1>3, <2>1 DEF Inv, TypeOK
  <2>4. at' \in 1 .. (Len(net.transitions) + 1) /\ phase' \in {"scan", "report", "play"}
    BY <1>1
  <2>5. fired \in Firings(net)
    BY DEF Inv, TypeOK
  <2>6. \A m \in marking : m.place \in Ids(net) /\ m.vars \subseteq PlaceVars(net, m.place)
    BY DEF Inv, TypeOK
  <2> QED  BY <1>1, <2>2, <2>3, <2>4, <2>5, <2>6 DEF TypeOK
<1>6. ASSUME NEW places \in SUBSET (Marked(net) \cup Produced(net)), Closed(places)
      PROVE  covered' \subseteq places
  BY <1>2, <1>3, <1>6 DEF Inv, LoopOK, Closed
<1>7. ASSUME ~ changed', NEW k \in 1 .. (at' - 1)
      PROVE  Done(net.transitions[k])'
  <2>1. ~ changed /\ live' = live /\ covered' = covered
    BY <1>3, <1>7 DEF Inv, TypeOK
  <2>2. CASE k = at
    BY <1>1, <1>3, <2>1, <2>2 DEF Done, t
  <2>3. CASE k # at
    <3>1. k \in 1 .. (at - 1)
      BY <1>1, <2>3
    <3> QED  BY <1>1, <2>1, <3>1 DEF Inv, LoopOK, Done
  <2> QED  BY <2>2, <2>3
<1>8. \A x \in live' : \E u \in Steps(net) : u.id = x /\ Range(u.consumes) \subseteq covered'
  BY <1>2, <1>3, <1>4 DEF Inv, LoopOK
<1>9. LoopOK'
  BY <1>1, <1>4, <1>6, <1>7, <1>8 DEF Inv, LoopOK, Closed
<1> QED  BY <1>1, <1>5, <1>9 DEF Inv, NetOK, Diagnosed, GameStarts, NoFalseAlarm, TokensFull

LEMMA PassInv ==
  ASSUME Inv, Pass, UNCHANGED wf
  PROVE  Inv'
<1>0. Len(net.transitions) \in Nat /\ at \in 1 .. (Len(net.transitions) + 1) /\ changed \in BOOLEAN
  BY DEF Inv, NetOK, WellFormed, TypeOK
<1>1. /\ phase = "scan" /\ at = Len(net.transitions) + 1 /\ Len(net.transitions) \in Nat
      /\ UNCHANGED <<net, live, covered, errors, warnings, marking, fired, wf>>
      /\ \/ changed /\ at' = 1 /\ changed' = FALSE /\ phase' = "scan"
         \/ ~ changed /\ phase' = "report" /\ UNCHANGED <<at, changed>>
  BY <1>0 DEF Pass
<1>2. ASSUME ~ changed, NEW t \in Steps(net)
      PROVE  Done(t)
  <2>1. PICK k \in 1 .. Len(net.transitions) : t = net.transitions[k]
    BY StepIndexed DEF Inv, NetOK
  <2> QED  BY <1>1, <1>2, <2>1 DEF Inv, LoopOK
<1>3. TypeOK'
  <2>1. phase' \in {"scan", "report", "play"} /\ at' \in 1 .. (Len(net.transitions) + 1)
    BY <1>1, <1>0
  <2>5. changed' \in BOOLEAN
    BY <1>1, <1>0
  <2>2. live \subseteq Names(net) /\ covered \subseteq Marked(net) \cup Produced(net)
    BY DEF Inv, TypeOK
  <2>3. fired \in Firings(net)
    BY DEF Inv, TypeOK
  <2>4. \A m \in marking : m.place \in Ids(net) /\ m.vars \subseteq PlaceVars(net, m.place)
    BY DEF Inv, TypeOK
  <2> QED  BY <1>1, <2>1, <2>2, <2>3, <2>4, <2>5 DEF TypeOK
<1>4. LoopOK'
  BY <1>1, <1>2 DEF Inv, LoopOK, Closed, Done
<1> QED  BY <1>1, <1>3, <1>4 DEF Inv, NetOK, Diagnosed, GameStarts, NoFalseAlarm, TokensFull

-----------------------------------------------------------------------------
(* What the absence of a diagnostic says.                                  *)
LEMMA Declared ==
  ASSUME Diagnosed, phase = "play", \A x \in errors : x[1] # "W003"
  PROVE  \A t \in Steps(net) : Range(t.consumes) \cup Range(t.produces) \subseteq Ids(net)
<1> SUFFICES ASSUME NEW t \in Steps(net), NEW p \in Range(t.consumes) \cup Range(t.produces), p \notin Ids(net)
             PROVE  FALSE
  OBVIOUS
<1>1. p \in (Consumed(net) \cup Produced(net)) \ Ids(net)
  BY DEF Consumed, Produced
<1>2. <<"W003", p>> \in Says("W003", (Consumed(net) \cup Produced(net)) \ Ids(net))
  BY <1>1 DEF Says
<1>3. <<"W003", p>> \in Structure(net)
  BY <1>2 DEF Structure
<1>4. <<"W003", p>> \in errors
  BY <1>3 DEF Diagnosed
<1> QED  BY <1>4

LEMMA Sound ==
  ASSUME Diagnosed, phase = "play", IsSound
  PROVE  /\ Twice(net.places) = {}
         /\ Twice([i \in DOMAIN net.transitions |-> net.transitions[i].id]) = {}
         /\ \A x \in errors : x[1] # "W003"
         /\ \A t \in Steps(net) : t.refs \subseteq Available(net, t)
         /\ \A t \in Steps(net) : \A p \in Range(t.produces) : PlaceVars(net, p) \subseteq Available(net, t)
<1>1. Structure(net) = {} /\ Bindings(net) = {} /\ errors = {}
  BY DEF Diagnosed, IsSound
<1>2. Says("W001", Twice(net.places)) = {} /\ Says("W002", Twice([i \in DOMAIN net.transitions |-> net.transitions[i].id])) = {}
  BY <1>1 DEF Structure
<1>3. Twice(net.places) = {} /\ Twice([i \in DOMAIN net.transitions |-> net.transitions[i].id]) = {}
  BY <1>2 DEF Says
<1>4. {t.id : t \in {u \in Steps(net) : ~ u.refs \subseteq Available(net, u)}} = {}
  BY <1>1 DEF Bindings, Says
<1>5. {t.id : t \in {u \in Steps(net) : \E p \in Range(u.produces) : ~ PlaceVars(net, p) \subseteq Available(net, u)}} = {}
  BY <1>1 DEF Bindings, Says
<1> QED  BY <1>1, <1>3, <1>4, <1>5

(* With every place declared, a choice takes a token from each input place. *)
LEMMA Taken ==
  ASSUME NEW t, Range(t.consumes) \subseteq Ids(net), NEW c \in Choices(t)
  PROVE  /\ DOMAIN c = DOMAIN t.consumes
         /\ \A s \in DOMAIN t.consumes : c[s] \in marking /\ c[s].place = t.consumes[s]
BY DEF Choices, Slots, Range

-----------------------------------------------------------------------------
(* The token game.                                                         *)
LEMMA ReportInv ==
  ASSUME Inv, Report, UNCHANGED wf
  PROVE  Inv'
<1>1. /\ phase = "report" /\ phase' = "play"
      /\ UNCHANGED <<net, wf, at, changed, live, covered, marking, fired>>
      /\ marking = InitialTokens(net) /\ fired = <<>>
  BY DEF Inv, GameStarts, Report
<1>2. Diagnosed'
  BY <1>1 DEF Report, Diagnosed, Structure, Reach, RelationsOf, Bindings, Invariants
<1>3. TypeOK'
  BY <1>1 DEF Inv, TypeOK
<1>4. LoopOK'
  BY <1>1 DEF Inv, LoopOK, Closed, Done
<1>5. ASSUME NEW m \in marking
      PROVE  \E i \in DOMAIN net.places : m.place = net.places[i] /\ m.vars = {} /\ net.tokens[i] > 0
  <2>1. PICK i \in DOMAIN net.places : \E n \in 1 .. net.tokens[i] :
          m = [place |-> net.places[i], born |-> <<0, i, n>>, vars |-> {}]
    BY <1>1 DEF InitialTokens
  <2>2. net.tokens[i] \in Nat
    BY DEF Inv, NetOK, WellFormed
  <2> QED  BY <2>1, <2>2
<1>6. NoFalseAlarm'
  <2>1. \A m \in marking : m.place \in covered
    BY <1>5 DEF Inv, LoopOK, Marked
  <2> QED  BY <1>1, <2>1 DEF NoFalseAlarm
<1>7. TokensFull'
  <2> SUFFICES ASSUME IsSound', StartsBare, NEW m \in marking
               PROVE  m.vars = PlaceVars(net, m.place)
    BY <1>1 DEF TokensFull, StartsBare, PlaceVars, Ids
  <2>1. PICK i \in DOMAIN net.places : m.place = net.places[i] /\ m.vars = {} /\ net.tokens[i] > 0
    BY <1>5
  <2>2. net.places \in Seq(Range(net.places)) /\ DOMAIN net.places = 1 .. Len(net.places) /\ Len(net.places) \in Nat
    BY DEF Inv, NetOK, WellFormed
  <2>3. Structure(net) = {}
    BY DEF Report, IsSound
  <2>4. Twice(net.places) = {}
    BY <2>3 DEF Structure, Says
  <2>5. \A j, k \in DOMAIN net.places : net.places[j] = net.places[k] => j = k
    <3>1. \A j \in DOMAIN net.places : \A k \in 1 .. (j - 1) : net.places[j] # net.places[k]
      BY <2>4 DEF Twice
    <3> QED  BY <2>2, <3>1
  <2>6. (CHOOSE j \in DOMAIN net.places : /\ net.places[j] = net.places[i]
                                        /\ \A k \in DOMAIN net.places : net.places[k] = net.places[i] => k <= j) = i
    BY <2>2, <2>5
  <2>7. net.places[i] \in Ids(net)
    BY DEF Ids, Range
  <2>8. PlaceVars(net, net.places[i]) = net.carries[i]
    BY <2>6, <2>7 DEF PlaceVars
  <2> QED  BY <2>1, <2>8 DEF StartsBare
<1> QED  BY <1>1, <1>2, <1>3, <1>4, <1>6, <1>7 DEF Inv, NetOK, GameStarts

LEMMA PlayInv ==
  ASSUME Inv, Play, UNCHANGED wf
  PROVE  Inv'
<1>0. PICK t \in Steps(net) : \E c \in Choices(t) : Fire(t, c)
  BY DEF Play
<1>1. PICK c \in Choices(t) : Fire(t, c)
  BY <1>0
<1>2. phase = "play" /\ UNCHANGED <<net, phase, at, changed, live, covered, errors, warnings, wf>>
  BY DEF Play
<1>3. /\ \A m \in marking' : m \in marking \/ m \in Made(t, c)
      /\ fired' = Append(fired, t.id)
  BY <1>1 DEF Fire
<1>4. ASSUME NEW m \in Made(t, c)
      PROVE  /\ m.place \in Ids(net) /\ m.place \in Range(t.produces)
             /\ m.vars = PlaceVars(net, m.place) \cap Bound(t, c)
  BY DEF Made, Slots, Range
<1>5. TypeOK'
  <2>1. fired \in Seq(Names(net)) /\ t.id \in Names(net)
    BY DEF Inv, TypeOK, Firings, Names
  <2>2. fired' \in Firings(net)
    BY <1>3, <2>1 DEF Firings
  <2> QED  BY <1>2, <1>3, <1>4, <2>2 DEF Inv, TypeOK, PlaceVars, Ids
<1>6. LoopOK' /\ Diagnosed'
  <2>1. LoopOK'
    BY <1>2 DEF Inv, LoopOK, Closed, Done
  <2>2. Diagnosed'
    BY <1>2 DEF Inv, Diagnosed, Reach
  <2> QED  BY <2>1, <2>2
<1>7. ASSUME \A x \in errors : x[1] # "W003"
      PROVE  /\ t.id \in live /\ Range(t.produces) \subseteq covered
             /\ DOMAIN c = DOMAIN t.consumes
             /\ \A s \in DOMAIN t.consumes : c[s] \in marking /\ c[s].place = t.consumes[s]
  <2>1. Range(t.consumes) \cup Range(t.produces) \subseteq Ids(net)
    BY <1>2, <1>7, Declared DEF Inv
  <2>2. DOMAIN c = DOMAIN t.consumes /\ \A s \in DOMAIN t.consumes : c[s] \in marking /\ c[s].place = t.consumes[s]
    BY <2>1, Taken
  <2>3. Range(t.consumes) \subseteq covered
    BY <1>2, <1>7, <2>2 DEF Inv, NoFalseAlarm, Range
  <2> QED  BY <1>2, <2>2, <2>3 DEF Inv, LoopOK, Done
<1>8. NoFalseAlarm'
  <2> SUFFICES ASSUME \A x \in errors : x[1] # "W003"
               PROVE  (\A i \in DOMAIN fired' : fired'[i] \in live) /\ \A m \in marking' : m.place \in covered
    BY <1>2 DEF NoFalseAlarm
  <2>1. (\A i \in DOMAIN fired : fired[i] \in live) /\ \A m \in marking : m.place \in covered
    BY <1>2 DEF Inv, NoFalseAlarm
  <2>2. fired \in Seq(Names(net))
    BY DEF Inv, TypeOK, Firings
  <2>3. \A i \in DOMAIN fired' : fired'[i] \in live
    BY <1>3, <1>7, <2>1, <2>2
  <2> QED  BY <1>3, <1>4, <1>7, <2>1, <2>3
<1>9. TokensFull'
  <2> SUFFICES ASSUME IsSound, StartsBare, NEW m \in Made(t, c)
               PROVE  m.vars = PlaceVars(net, m.place)
    BY <1>2, <1>3 DEF Inv, TokensFull, IsSound, StartsBare, PlaceVars, Ids
  <2>1. \A x \in errors : x[1] # "W003"
    BY DEF IsSound
  <2>2. \A n \in marking : n.vars = PlaceVars(net, n.place)
    BY <1>2 DEF Inv, TokensFull
  <2>3. Bound(t, c) = Available(net, t)
    BY <1>7, <2>1, <2>2 DEF Bound, Available, Range
  <2>4. PlaceVars(net, m.place) \subseteq Available(net, t)
    BY <1>2, <1>4, Sound DEF Inv
  <2> QED  BY <1>4, <2>3, <2>4
<1> QED  BY <1>2, <1>5, <1>6, <1>8, <1>9 DEF Inv, NetOK, GameStarts

LEMMA StepInv ==
  ASSUME Inv, [Next /\ UNCHANGED wf]_<<vars, wf>>
  PROVE  Inv'
<1>1. CASE Next /\ UNCHANGED wf
  BY <1>1, ExamineInv, PassInv, ReportInv, PlayInv DEF Next
<1>2. CASE UNCHANGED <<vars, wf>>
  <2>1. TypeOK'
    BY <1>2 DEF vars, Inv, TypeOK
  <2>2. LoopOK'
    BY <1>2 DEF vars, Inv, LoopOK, Closed, Done
  <2>3. Diagnosed' /\ GameStarts' /\ NoFalseAlarm' /\ TokensFull'
    BY <1>2 DEF vars, Inv, Diagnosed, Reach, GameStarts, NoFalseAlarm, TokensFull, IsSound, StartsBare
  <2> QED  BY <1>2, <2>1, <2>2, <2>3 DEF vars, Inv, NetOK
<1> QED  BY <1>1, <1>2

LEMMA Invariant == OnboardSpec => []Inv
<1>1. OnboardInit => Inv
  BY InitialInv
<1>2. Inv /\ [Next /\ UNCHANGED wf]_<<vars, wf>> => Inv'
  BY StepInv
<1> QED  BY <1>1, <1>2, PTL DEF OnboardSpec

(* The loop's counters and sets stay within the specification.             *)
THEOREM TypeCorrect == OnboardSpec => []TypeOK
<1>1. Inv => TypeOK
  BY DEF Inv
<1> QED  BY <1>1, Invariant, PTL

(* structural_coverability() computes the least closed set of places and   *)
(* the transitions it enables, for every specification.                    *)
THEOREM CoverageIsExact == OnboardSpec => []CoverageExact
<1>1. ASSUME Inv, phase # "scan"
      PROVE  CoverageExact
  <2>1. \A t \in Steps(net) : Done(t)
    BY <1>1 DEF Inv, LoopOK
  <2>2. Closed(covered)
    BY <1>1, <2>1 DEF Inv, LoopOK, Closed, Done
  <2>3. live = {t.id : t \in {u \in Steps(net) : Range(u.consumes) \subseteq covered}}
    BY <1>1, <2>1 DEF Inv, LoopOK, Done
  <2> QED  BY <1>1, <2>2, <2>3 DEF Inv, LoopOK, CoverageExact
<1>2. Inv => CoverageExact
  BY <1>1 DEF CoverageExact
<1> QED  BY <1>2, Invariant, PTL

(* No transition that fires is called dead and no place that is marked is  *)
(* called unreachable.                                                     *)
THEOREM AlarmsAreTrue == OnboardSpec => []NoFalseAlarm
<1>1. Inv => NoFalseAlarm
  BY DEF Inv
<1> QED  BY <1>1, Invariant, PTL

(* A transition of a sound specification has its variables when it fires.   *)
THEOREM BindingsAreGuaranteed == OnboardSpec => []BindingsGuaranteed
<1>1. ASSUME Inv, phase = "play", IsSound, StartsBare, NEW t \in Steps(net), NEW c \in Choices(t)
      PROVE  t.refs \subseteq Bound(t, c)
  <2>1. /\ \A x \in errors : x[1] # "W003"
        /\ t.refs \subseteq Available(net, t)
    BY <1>1, Sound DEF Inv
  <2>2. Range(t.consumes) \subseteq Ids(net)
    BY <1>1, <2>1, Declared DEF Inv
  <2>3. DOMAIN c = DOMAIN t.consumes /\ \A s \in DOMAIN t.consumes : c[s] \in marking /\ c[s].place = t.consumes[s]
    BY <2>2, Taken
  <2>4. \A m \in marking : m.vars = PlaceVars(net, m.place)
    BY <1>1 DEF Inv, TokensFull
  <2>5. Bound(t, c) = Available(net, t)
    BY <2>3, <2>4 DEF Bound, Available, Range
  <2> QED  BY <2>1, <2>5
<1>2. Inv => BindingsGuaranteed
  BY <1>1 DEF BindingsGuaranteed, StartsBare
<1> QED  BY <1>2, Invariant, PTL

-----------------------------------------------------------------------------
(* The runs of a generated net.                                            *)
LEMMA Apart == \A x : Start # <<"p", x>>
<1>1. \A x : <<"p", x>>[1] = "p"
  OBVIOUS
<1>2. Start[1] = "start"
  BY DEF Start
<1> QED  BY <1>1, <1>2

LEMMA NoJobYet ==
  ASSUME Inv, Report, UNCHANGED wf
  PROVE  JobsOK'
<1> SUFFICES ASSUME Models'  PROVE JobsOK'
  BY DEF JobsOK
<1>1. UNCHANGED <<net, wf, marking, fired>> /\ marking = InitialTokens(net) /\ fired = <<>>
  BY DEF Inv, GameStarts, Report
<1>2. wf \in Workflows /\ net = Generated(wf)
  BY <1>1 DEF Models, Inv, NetOK
<1>3. net.places[1] = Start /\ \A i \in DOMAIN net.places : net.tokens[i] = IF i = 1 THEN 1 ELSE 0
  BY <1>2, GeneratedShape
<1>4. ASSUME NEW m \in marking
      PROVE  m = [place |-> Start, born |-> <<0, 1, 1>>, vars |-> {}]
  <2>1. PICK i \in DOMAIN net.places : \E n \in 1 .. net.tokens[i] :
          m = [place |-> net.places[i], born |-> <<0, i, n>>, vars |-> {}]
    BY <1>1 DEF InitialTokens
  <2>2. i = 1 /\ net.tokens[i] = 1
    BY <1>3, <2>1
  <2> QED  BY <1>3, <2>1, <2>2
<1>5. Behind' /\ Single'
  <2>1. \A m \in marking' : m.place = Start
    BY <1>1, <1>4
  <2>2. \A m, n \in marking' : m = n
    BY <1>1, <1>4
  <2> QED  BY <2>1, <2>2 DEF Behind, Single
<1>6. DOMAIN fired' = {}
  BY <1>1
<1>7. Placed'
  <2>1. net.tokens[1] = 1 /\ 1 \in DOMAIN net.places
    <3>1. wf.jobs \in Seq(Range(wf.jobs))
      BY <1>2, WorkflowsAssumption
    <3>2. DOMAIN net.places = 1 .. (Len(wf.jobs) + 1)
      BY <1>2, GeneratedShape
    <3>3. 1 \in DOMAIN net.places
      BY <3>1, <3>2
    <3> QED  BY <1>3, <3>3
  <2>2. [place |-> net.places[1], born |-> <<0, 1, 1>>, vars |-> {}] \in InitialTokens(net)
    <3>1. 1 \in 1 .. net.tokens[1]
      BY <2>1
    <3> DEFINE born(i) == {[place |-> net.places[i], born |-> <<0, i, n>>, vars |-> {}] : n \in 1 .. net.tokens[i]}
    <3>2. [place |-> net.places[1], born |-> <<0, 1, 1>>, vars |-> {}] \in born(1)
      BY <3>1
    <3>3. born(1) \in {born(i) : i \in DOMAIN net.places}
      BY <2>1
    <3>4. InitialTokens(net) = UNION {born(i) : i \in DOMAIN net.places}
      BY DEF InitialTokens
    <3> HIDE DEF born
    <3> QED  BY <3>2, <3>3, <3>4
  <2>3. \E m \in marking' : m.place = Start
    BY <1>1, <1>3, <2>2
  <2> QED  BY <1>6, <2>3 DEF Placed
<1> QED  BY <1>5, <1>6, <1>7 DEF JobsOK, Once

LEMMA JobRuns ==
  ASSUME Inv, JobsOK, Play, UNCHANGED wf
  PROVE  JobsOK'
<1> SUFFICES ASSUME Models'  PROVE JobsOK'
  BY DEF JobsOK
<1>0. Models /\ phase = "play" /\ UNCHANGED <<net, wf>> /\ Behind /\ Single /\ Placed /\ Once
      /\ \A k \in DOMAIN fired : \E i \in DOMAIN wf.jobs : Ran(k, wf.jobs[i])
  BY DEF Play, Models, IsSound, JobsOK
<1>1. wf \in Workflows /\ net = Generated(wf) /\ IsSound
  BY <1>0 DEF Models, Inv, NetOK
<1>2. PICK t \in Steps(net) : \E c \in Choices(t) : Fire(t, c)
  BY DEF Play
<1>3. PICK c \in Choices(t) : Fire(t, c)
  BY <1>2
<1>4. /\ DOMAIN net.transitions = 1 .. Len(wf.jobs) /\ DOMAIN wf.jobs = 1 .. Len(wf.jobs)
      /\ \A i \in DOMAIN wf.jobs : net.transitions[i] = TransitionOf(wf, wf.jobs[i])
  <2>1. DOMAIN wf.jobs = 1 .. Len(wf.jobs)
    BY <1>1, WorkflowsAssumption
  <2> QED  BY <1>1, <2>1, GeneratedShape
<1>5. PICK i \in DOMAIN wf.jobs : t = TransitionOf(wf, wf.jobs[i])
  BY <1>4 DEF Steps, Range
<1> DEFINE j == wf.jobs[i]
           q == PlaceOf(j)
<1>6. t.id = Slug[j] /\ t.consumes = Consumes(wf, j) /\ t.produces = <<q>>
  BY <1>5 DEF TransitionOf
<1>7. \A x \in errors : x[1] # "W003"
  BY <1>1 DEF IsSound
<1>8. Range(t.consumes) \subseteq Ids(net)
  BY <1>0, <1>7, Declared DEF Inv
<1>9. /\ DOMAIN c = DOMAIN Consumes(wf, j)
      /\ \A s \in DOMAIN Consumes(wf, j) : c[s] \in marking /\ c[s].place = Consumes(wf, j)[s]
  BY <1>6, <1>8, Taken
<1>10. wf.needs[j] \in Seq(Range(wf.needs[j]))
  BY <1>1, WorkflowsAssumption
<1>11. DOMAIN Consumes(wf, j) # {}
  BY <1>10 DEF Consumes
<1>12. \A p \in Range(Consumes(wf, j)) : \E m \in marking : m \in Range(c) /\ m.place = p
  BY <1>9 DEF Range
<1>13. fired \in Seq(Names(net)) /\ fired' = Append(fired, Slug[j]) /\ Slug[j] \in Names(net)
  BY <1>3, <1>6 DEF Fire, Inv, TypeOK, Firings, Names
<1>14. /\ DOMAIN fired = 1 .. Len(fired) /\ Len(fired) \in Nat /\ DOMAIN fired' = 1 .. (Len(fired) + 1)
       /\ \A k \in DOMAIN fired : fired'[k] = fired[k]
       /\ fired'[Len(fired) + 1] = Slug[j]
  BY <1>13
<1>15. \A k \in DOMAIN fired : fired[k] # Slug[j]
  <2> SUFFICES ASSUME NEW k \in DOMAIN fired, fired[k] = Slug[j]  PROVE FALSE
    OBVIOUS
  <2>1. PICK h \in DOMAIN wf.jobs : Ran(k, wf.jobs[h])
    BY <1>0
  <2>2. Twice([g \in DOMAIN net.transitions |-> net.transitions[g].id]) = {}
    BY <1>0, <1>1, Sound DEF Inv
  <2>3. \A g \in DOMAIN net.transitions : \A f \in 1 .. (g - 1) : f \in DOMAIN net.transitions =>
          net.transitions[g].id # net.transitions[f].id
    BY <2>2 DEF Twice
  <2>4. net.transitions[h].id = Slug[wf.jobs[h]] /\ net.transitions[i].id = Slug[j]
    <3>1. \A x : TransitionOf(wf, x).id = Slug[x]
      BY DEF TransitionOf
    <3> QED  BY <1>4, <3>1
  <2>5. Slug[wf.jobs[h]] = Slug[j]
    BY <2>1 DEF Ran
  <2>6. h = i
    <3>1. Len(wf.jobs) \in Nat
      BY <1>1, WorkflowsAssumption
    <3> HIDE DEF j
    <3> QED  BY <1>4, <2>3, <2>4, <2>5, <3>1
  <2>7. PICK s \in DOMAIN Consumes(wf, j) : TRUE
    BY <1>11
  <2> QED  BY <1>9, <2>1, <2>6, <2>7 DEF Ran, Range
<1>16. \A n \in NeedsOf(j) : \E l \in DOMAIN fired : fired[l] = n
  <2> SUFFICES ASSUME NEW n \in Range(wf.needs[j])  PROVE \E l \in DOMAIN fired : fired[l] = Slug[n]
    BY DEF NeedsOf
  <2>1. PICK s \in DOMAIN wf.needs[j] : n = wf.needs[j][s]
    BY DEF Range
  <2>2. wf.needs[j] # <<>>
    BY <1>10, <2>1
  <2>3. s \in DOMAIN Consumes(wf, j) /\ Consumes(wf, j)[s] = <<"p", Slug[n]>>
    BY <2>1, <2>2 DEF Consumes, PlaceOf
  <2>4. c[s] \in marking /\ c[s].place = <<"p", Slug[n]>> /\ c[s].place # Start
    BY <1>9, <2>3, Apart
  <2>5. PICK k \in DOMAIN fired : c[s].place = <<"p", fired[k]>>
    BY <1>0, <2>4 DEF Behind
  <2> QED  BY <2>4, <2>5
<1> HIDE DEF j
<1>17. q = <<"p", Slug[j]>> /\ q # Start
  BY Apart DEF PlaceOf
<1> HIDE DEF q
<1>18. marking' = (marking \ Range(c)) \cup Made(t, c)
  BY <1>3 DEF Fire
<1>19. \A m \in Made(t, c) : m.place = q
  BY <1>6 DEF Made, Slots
<1>20. \A m, n \in Made(t, c) : m = n
  <2>1. \A r, s \in Slots(t.produces) : r = s
    BY <1>6 DEF Slots
  <2> QED  BY <2>1 DEF Made
<1>21. \A m \in marking : m.place # q
  BY <1>0, <1>15, <1>17 DEF Behind
<1>22. Behind'
  <2>1. ASSUME NEW m \in marking  PROVE m.place = Start \/ \E k \in DOMAIN fired' : m.place = <<"p", fired'[k]>>
    BY <1>0, <1>14 DEF Behind
  <2>2. ASSUME NEW m \in Made(t, c)  PROVE \E k \in DOMAIN fired' : m.place = <<"p", fired'[k]>>
    BY <1>14, <1>17, <1>19
  <2> QED  BY <1>18, <2>1, <2>2 DEF Behind
<1>23. Single'
  BY <1>0, <1>18, <1>19, <1>20, <1>21 DEF Single
<1>24. Once'
  BY <1>0, <1>14, <1>15 DEF Once
<1>25. ASSUME NEW k \in DOMAIN fired
       PROVE  \E h \in DOMAIN wf.jobs : Ran(k, wf.jobs[h])'
  <2>1. PICK h \in DOMAIN wf.jobs : Ran(k, wf.jobs[h])
    BY <1>0
  <2> DEFINE y == wf.jobs[h]
  <2>2. wf.needs[y] \in Seq(Range(wf.needs[y]))
    BY <1>1, WorkflowsAssumption
  <2>3. ASSUME q \in Range(Consumes(wf, y))  PROVE FALSE
    <3>1. PICK s \in DOMAIN wf.needs[y] : q = PlaceOf(wf.needs[y][s])
      <4>1. PICK s \in DOMAIN Consumes(wf, y) : q = Consumes(wf, y)[s]
        BY <2>3 DEF Range
      <4>2. CASE wf.needs[y] = <<>>
        BY <1>17, <4>1, <4>2 DEF Consumes
      <4>3. CASE wf.needs[y] # <<>>
        BY <4>1, <4>3 DEF Consumes
      <4> QED  BY <4>2, <4>3
    <3>2. Slug[wf.needs[y][s]] \in NeedsOf(y)
      BY DEF NeedsOf, Range
    <3>3. Slug[wf.needs[y][s]] = Slug[j]
      BY <1>17, <3>1 DEF PlaceOf
    <3>4. PICK l \in 1 .. (k - 1) : fired[l] = Slug[j]
      BY <2>1, <3>2, <3>3 DEF Ran
    <3> QED  BY <1>14, <1>15, <3>4
  <2>4. \A m \in marking' : m.place \notin Range(Consumes(wf, y))
    BY <1>18, <1>19, <2>1, <2>3 DEF Ran
  <2>5. \A l \in 1 .. (k - 1) : fired'[l] = fired[l]
    BY <1>14
  <2>6. \A n \in NeedsOf(y) : \E l \in 1 .. (k - 1) : fired'[l] = n
    BY <2>1, <2>5 DEF Ran
  <2>7. NeedsOf(y)' = NeedsOf(y) /\ Consumes(wf, y)' = Consumes(wf, y) /\ y' = y
    BY <1>0 DEF NeedsOf, Consumes
  <2>8. fired'[k] = Slug[y]
    BY <1>14, <2>1 DEF Ran
  <2>9. Ran(k, y)'
    BY <2>4, <2>6, <2>7, <2>8 DEF Ran
  <2> QED  BY <1>0, <2>9
<1>26. ASSUME NEW k, k = Len(fired) + 1
       PROVE  Ran(k, j)'
  <2>1. q \notin Range(Consumes(wf, j))
    BY <1>12, <1>21
  <2>2. ASSUME NEW m \in marking'  PROVE m.place \notin Range(Consumes(wf, j))
    BY <1>0, <1>12, <1>18, <1>19, <2>1 DEF Single
  <2>3. \A n \in NeedsOf(j) : \E l \in 1 .. (k - 1) : fired'[l] = n
    BY <1>14, <1>16, <1>26
  <2>4. NeedsOf(j)' = NeedsOf(j) /\ Consumes(wf, j)' = Consumes(wf, j) /\ j' = j
    BY <1>0 DEF NeedsOf, Consumes, j
  <2>5. fired'[k] = Slug[j]
    BY <1>14, <1>26
  <2> QED  BY <2>2, <2>3, <2>4, <2>5 DEF Ran
<1>27. \A k \in DOMAIN fired' : \E h \in DOMAIN wf.jobs : Ran(k, wf.jobs[h])'
  <2> SUFFICES ASSUME NEW k \in DOMAIN fired'  PROVE \E h \in DOMAIN wf.jobs : Ran(k, wf.jobs[h])'
    OBVIOUS
  <2>1. k \in DOMAIN fired \/ k = Len(fired) + 1
    BY <1>14
  <2>2. CASE k = Len(fired) + 1
    BY <1>0, <1>26, <2>2 DEF j
  <2> QED  BY <1>25, <2>1, <2>2
<1>28. Placed'
  <2>1. Range(fired') = Range(fired) \cup {Slug[j]}
    BY <1>14 DEF Range
  <2>2. ASSUME NEW p, Spent(p)
        PROVE  Spent(p)'
    BY <1>0, <2>1, <2>2 DEF Spent, Consumes
  <2>3. ASSUME NEW p \in Range(Consumes(wf, j))
        PROVE  Spent(p)'
    BY <1>0, <2>1 DEF Spent, Consumes, j
  <2>4. ASSUME NEW m \in marking
        PROVE  m \in marking' \/ Spent(m.place)'
    <3>1. CASE m \in Range(c)
      <4>1. m.place \in Range(Consumes(wf, j))
        BY <1>9, <3>1 DEF Range
      <4> QED  BY <2>3, <4>1
    <3>2. CASE m \notin Range(c)
      BY <1>18, <3>2
    <3> QED  BY <3>1, <3>2
  <2>5. ASSUME NEW p \in {Start} \cup {<<"p", fired[k]>> : k \in DOMAIN fired}
        PROVE  (\E m \in marking' : m.place = p) \/ Spent(p)'
    BY <1>0, <2>2, <2>4 DEF Placed
  <2>6. \E m \in marking' : m.place = q
    <3>1. q \in Ids(net)
      <4>1. Range(t.produces) \subseteq Ids(net)
        BY <1>0, <1>7, Declared DEF Inv
      <4> QED  BY <1>6, <4>1 DEF Range
    <3>2. 1 \in Slots(t.produces) /\ t.produces[1] = q
      BY <1>6, <3>1 DEF Slots
    <3>3. \E m \in Made(t, c) : m.place = q
      <4> DEFINE made(s) == [place |-> t.produces[s], born |-> <<Len(fired) + 1, s, 1>>,
                             vars |-> PlaceVars(net, t.produces[s]) \cap Bound(t, c)]
      <4>1. made(1) \in Made(t, c)
        BY <3>2 DEF Made
      <4> QED  BY <3>2, <4>1
    <3> QED  BY <1>18, <3>3
  <2>7. {Start} \cup {<<"p", fired'[k]>> : k \in DOMAIN fired'} =
          {Start} \cup {<<"p", fired[k]>> : k \in DOMAIN fired} \cup {q}
    <3>1. ASSUME NEW k \in DOMAIN fired'
          PROVE  (k \in DOMAIN fired /\ fired'[k] = fired[k]) \/ fired'[k] = Slug[j]
      BY <1>14
    <3>2. DOMAIN fired \subseteq DOMAIN fired' /\ Len(fired) + 1 \in DOMAIN fired'
      BY <1>14
    <3> QED  BY <1>14, <1>17, <3>1, <3>2
  <2> QED  BY <2>5, <2>6, <2>7 DEF Placed
<1> QED  BY <1>22, <1>23, <1>24, <1>27, <1>28 DEF JobsOK

(* A job that is ready finds a token behind each job it needs.             *)
LEMMA ReadyRuns ==
  ASSUME Inv, JobsOK, Models, NEW i \in DOMAIN wf.jobs,
         NeedsOf(wf.jobs[i]) \subseteq Range(fired), Unshared(wf.jobs[i])
  PROVE  Choices(TransitionOf(wf, wf.jobs[i])) # {}
<1> DEFINE j == wf.jobs[i]
           t == TransitionOf(wf, j)
<1>1. t.consumes = Consumes(wf, j)
  BY DEF TransitionOf
<1>2. wf.needs[j] \in Seq(Range(wf.needs[j]))
  BY WorkflowsAssumption DEF Models
<1>3. ASSUME NEW s \in DOMAIN Consumes(wf, j)
      PROVE  Consumes(wf, j)[s] \in {Start} \cup {<<"p", fired[k]>> : k \in DOMAIN fired}
  <2>1. CASE wf.needs[j] = <<>>
    BY <1>3, <2>1 DEF Consumes
  <2>2. CASE wf.needs[j] # <<>>
    <3>1. s \in DOMAIN wf.needs[j] /\ Consumes(wf, j)[s] = <<"p", Slug[wf.needs[j][s]]>>
      BY <1>3, <2>2 DEF Consumes, PlaceOf
    <3>2. Slug[wf.needs[j][s]] \in Range(fired)
      BY <3>1 DEF NeedsOf, Range
    <3> QED  BY <3>1, <3>2 DEF Range
  <2> QED  BY <2>1, <2>2
<1>4. ASSUME NEW s \in DOMAIN Consumes(wf, j)
      PROVE  \E m \in marking : m.place = Consumes(wf, j)[s]
  <2>1. ~ Spent(Consumes(wf, j)[s])
    BY DEF Spent, Unshared, Shares, Range
  <2> QED  BY <1>3, <2>1 DEF JobsOK, Placed
<1> DEFINE c == [s \in Slots(t.consumes) |-> CHOOSE m \in marking : m.place = Consumes(wf, j)[s]]
<1>5. Slots(t.consumes) \subseteq DOMAIN Consumes(wf, j)
  BY <1>1 DEF Slots
<1> HIDE DEF t, j
<1>6. ASSUME NEW s \in Slots(t.consumes)
      PROVE  c[s] \in marking /\ c[s].place = Consumes(wf, j)[s]
  BY <1>4, <1>5
<1>7. \A r, s \in Slots(t.consumes) : c[r] = c[s] => r = s
  BY <1>5, <1>6 DEF Unshared, j
<1>8. c \in [Slots(t.consumes) -> marking]
  BY <1>6
<1> HIDE DEF c
<1>9. c \in Choices(t)
  BY <1>1, <1>6, <1>7, <1>8 DEF Choices
<1> QED  BY <1>9 DEF t, j

(* A job of a sound generated net runs once, after the jobs it needs, and  *)
(* is not held up by anything but a token another job took.                *)
THEOREM JobsRunInOrder == OnboardSpec => []JobsFollowNeeds
<1>1. OnboardInit => JobsOK
  BY DEF OnboardInit, Init, Begin, JobsOK, Models
<1>2. ASSUME Inv, JobsOK, [Next /\ UNCHANGED wf]_<<vars, wf>>
      PROVE  JobsOK'
  <2>1. CASE Examine /\ UNCHANGED wf
    BY <2>1 DEF Examine, JobsOK, Models
  <2>2. CASE Pass /\ UNCHANGED wf
    BY <2>2 DEF Pass, JobsOK, Models
  <2>3. CASE UNCHANGED <<vars, wf>>
    <3>1. Models' = Models /\ Behind' = Behind /\ Single' = Single /\ Placed' = Placed /\ Once' = Once
      BY <2>3 DEF vars, Models, IsSound, Behind, Single, Placed, Spent, Consumes, Once
    <3>2. ASSUME NEW k, NEW i  PROVE Ran(k, wf.jobs[i])' = Ran(k, wf.jobs[i])
      BY <2>3 DEF vars, Ran, NeedsOf, Consumes
    <3> QED  BY <1>2, <2>3, <3>1, <3>2 DEF vars, JobsOK
  <2> QED  BY <1>2, <2>1, <2>2, <2>3, NoJobYet, JobRuns DEF Next
<1>3. Inv /\ JobsOK => JobsFollowNeeds
  BY ReadyRuns DEF JobsOK, JobsFollowNeeds, Ran, Once
<1> QED  BY <1>1, <1>2, <1>3, Invariant, PTL DEF OnboardSpec
=============================================================================
