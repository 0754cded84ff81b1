--------------------------- MODULE RegistryProofs ---------------------------
(***************************************************************************)
(* Proofs about the registry, for any number of requests, names and        *)
(* specifications and any cap.                                             *)
(***************************************************************************)
EXTENDS Registry, FiniteSetTheorems, WellFoundedInduction, TLAPS

(* A map other than the default was read from an entry, and entries stay.  *)
MapsHeld == \A r \in Requests : usedMap[r] # DefaultMap => asks[r].spec \in DOMAIN specs

(* Only onboarding requests wait to write, and a handler that has not yet  *)
(* read its map has chosen nothing.                                        *)
Queuers ==
  /\ \A r \in waiting : asks[r].kind = "onboard"
  /\ \A r \in Requests : pc[r] = "arrived" => chosen[r] = Undecided

Inv ==
  /\ asks \in Loads
  /\ TypeOK
  /\ DOMAIN chosen = Requests /\ DOMAIN answer = Requests
  /\ WithinCap
  /\ MapsHeld
  /\ OwnMapOwnModel
  /\ Queuers

-----------------------------------------------------------------------------
(* The comparison of scores in post_live finds a best one: a finite set    *)
(* has an element whose value none exceeds.                                *)
LEMMA Highest ==
  ASSUME NEW S, IsFiniteSet(S), S # {}, NEW f \in [S -> Int]
  PROVE  \E n \in S : \A m \in S : f[m] <= f[n]
<1> DEFINE Above(n) == {m \in S : f[m] > f[n]}
           T == {Above(n) : n \in S}
<1>1. T \subseteq FiniteSubsetsOf(S) /\ T # {}
  <2>1. \A n \in S : Above(n) \subseteq S /\ IsFiniteSet(Above(n))
    BY FS_Subset
  <2>2. T \subseteq FiniteSubsetsOf(S)
    <3> HIDE DEF Above
    <3> QED  BY <2>1 DEF FiniteSubsetsOf
  <2>3. PICK n \in S : TRUE
    OBVIOUS
  <2>4. Above(n) \in T
    OBVIOUS
  <2> QED  BY <2>2, <2>4
<1>2. IsWellFoundedOn(StrictSubsetOrdering(S), FiniteSubsetsOf(S))
  BY FS_StrictSubsetOrderingWellFounded
<1>3. PICK U \in T : \A V \in T : <<V, U>> \notin StrictSubsetOrdering(S)
  <2> HIDE DEF T
  <2> QED  BY <1>1, <1>2, WFMin
<1>4. PICK n \in S : U = Above(n)
  BY <1>3
<1>5. SUFFICES ASSUME NEW m \in S, f[m] > f[n]
               PROVE  FALSE
  BY <1>4
<1>6. Above(m) \subseteq Above(n)
  BY <1>5
<1>7. m \in Above(n) /\ m \notin Above(m)
  BY <1>5
<1>8. <<Above(m), Above(n)>> \in StrictSubsetOrdering(S)
  BY <1>6, <1>7 DEF StrictSubsetOrdering
<1> QED  BY <1>3, <1>4, <1>8

(* What a registration does to the map: one entry more, or one replaced.   *)
LEMMA Registered ==
  ASSUME Inv, NEW r \in Requests, Insert(r)
  PROVE  /\ DOMAIN specs' = DOMAIN specs \cup {asks[r].name}
         /\ \A n \in DOMAIN specs' : specs'[n] \in [net : Workflows, map : Workflows \cup {DefaultMap}]
         /\ DOMAIN specs' \subseteq Names
<1>1. pc[r] = "queued" /\ asks[r].kind = "onboard"
  BY DEF Insert, Inv, TypeOK, Queuers
<1>2. asks[r].name \in Names /\ asks[r].workflow \in Workflows
  BY <1>1, LoadsAssumption DEF Inv
<1>3. specs' = [n \in DOMAIN specs \cup {asks[r].name} |->
                  IF n = asks[r].name THEN Entry(r) ELSE specs[n]]
  BY DEF Insert
<1>4. Entry(r) \in [net : Workflows, map : Workflows \cup {DefaultMap}]
  BY <1>2 DEF Entry
<1> QED  BY <1>2, <1>3, <1>4 DEF Inv, TypeOK

LEMMA Capped ==
  ASSUME Inv, NEW r \in Requests, Insert(r)
  PROVE  WithinCap'
<1>1. IsFiniteSet(DOMAIN specs)
  BY LoadedAssumption, FS_Subset DEF Inv, TypeOK
<1>2. DOMAIN specs' = DOMAIN specs \cup {asks[r].name}
  BY Registered
<1>3. ~ (Cardinality(DOMAIN specs) >= Cap /\ asks[r].name \notin DOMAIN specs)
  BY DEF Insert, Full
<1>4. CASE asks[r].name \in DOMAIN specs
  <2>1. DOMAIN specs' = DOMAIN specs
    BY <1>2, <1>4
  <2> QED  BY <2>1 DEF Inv, WithinCap
<1>5. CASE asks[r].name \notin DOMAIN specs
  <2>1. Cardinality(DOMAIN specs') = Cardinality(DOMAIN specs) + 1
    BY <1>1, <1>2, <1>5, FS_AddElement
  <2>2. Cardinality(DOMAIN specs) \in Nat /\ Cap \in Nat
    BY <1>1, FS_CardinalityType, LoadedAssumption
  <2> QED  BY <1>3, <1>5, <2>1, <2>2 DEF WithinCap
<1> QED  BY <1>4, <1>5

(* A step that leaves the map of specifications and what the requests ask  *)
(* alone preserves the cap.                                                *)
LEMMA Unchanged ==
  ASSUME Inv, UNCHANGED <<asks, specs>>
  PROVE  asks' \in Loads /\ WithinCap'
BY DEF Inv, WithinCap

(* The initial map is the one read at startup.                             *)
LEMMA Initially == ASSUME Init PROVE Inv
<1>1. DOMAIN specs = DOMAIN Loaded
  BY DEF Init
<1>2. TypeOK
  BY <1>1, LoadedAssumption DEF Init, TypeOK
<1>3. WithinCap /\ MapsHeld /\ OwnMapOwnModel /\ Queuers
  BY <1>1 DEF Init, WithinCap, MapsHeld, OwnMapOwnModel, Queuers
<1> QED  BY <1>2, <1>3 DEF Init, Inv

LEMMA OnboardSteps ==
  ASSUME Inv, NEW r \in Requests, Refuse(r) \/ NotSound(r) \/ Queue(r) \/ RegistryFull(r) \/ Insert(r)
  PROVE  Inv'
<1>1. CASE Refuse(r)
  BY <1>1, Unchanged DEF Inv, TypeOK, Refuse, Answer, MapsHeld, OwnMapOwnModel, Queuers
<1>2. CASE NotSound(r)
  BY <1>2, Unchanged DEF Inv, TypeOK, NotSound, Answer, MapsHeld, OwnMapOwnModel, Queuers
<1>3. CASE Queue(r)
  BY <1>3, Unchanged DEF Inv, TypeOK, Queue, Acceptable, MapsHeld, OwnMapOwnModel, Queuers
<1>4. CASE RegistryFull(r)
  BY <1>4, Unchanged DEF Inv, TypeOK, RegistryFull, Answer, MapsHeld, OwnMapOwnModel, Queuers
<1>5. CASE Insert(r)
  <2>1. TypeOK'
    BY <1>5, Registered DEF Inv, TypeOK, Insert, Answer
  <2>2. WithinCap'
    BY <1>5, Capped
  <2>3. MapsHeld' /\ OwnMapOwnModel' /\ Queuers'
    BY <1>5, Registered DEF Inv, TypeOK, Insert, Answer, MapsHeld, OwnMapOwnModel, Queuers
  <2> QED  BY <1>5, <2>1, <2>2, <2>3 DEF Inv, Insert, Answer
<1> QED  BY <1>1, <1>2, <1>3, <1>4, <1>5

LEMMA LiveSteps ==
  ASSUME Inv, NEW r \in Requests,
         ReadMap(r) \/ Invalid(r) \/ Unverifiable(r) \/ Choose(r) \/ Judge(r) \/ Panic(r)
  PROVE  Inv'
<1>1. CASE ReadMap(r)
  <2>1. asks[r].spec \in DOMAIN specs => specs[asks[r].spec].map \in Workflows \cup {DefaultMap}
    BY DEF Inv, TypeOK
  <2>2. TypeOK'
    BY <1>1, <2>1 DEF Inv, TypeOK, ReadMap, Named
  <2>3. MapsHeld'
    BY <1>1 DEF Inv, TypeOK, ReadMap, Named, MapsHeld
  <2>4. chosen[r] = Undecided
    BY <1>1 DEF Inv, ReadMap, Queuers
  <2>5. OwnMapOwnModel' /\ Queuers'
    BY <1>1, <2>4 DEF Inv, TypeOK, ReadMap, OwnMapOwnModel, Queuers
  <2> QED  BY <1>1, <2>2, <2>3, <2>5, Unchanged DEF Inv, ReadMap
<1>2. CASE Invalid(r)
  BY <1>2, Unchanged DEF Inv, TypeOK, Invalid, Answer, MapsHeld, OwnMapOwnModel, Queuers
<1>3. CASE Unverifiable(r)
  BY <1>3, Unchanged DEF Inv, TypeOK, Unverifiable, Answer, MapsHeld, OwnMapOwnModel, Queuers
<1>4. CASE Choose(r)
  <2>1. PICK n \in Candidates(r) :
          chosen' = [chosen EXCEPT ![r] = [name |-> n, net |-> specs[n].net, map |-> specs[n].map]]
    BY <1>4 DEF Choose
  <2>2. usedMap[r] # DefaultMap => n = asks[r].spec
    BY <2>1 DEF Inv, MapsHeld, Candidates, Named
  <2>3. OwnMapOwnModel'
    BY <1>4, <2>1, <2>2 DEF Inv, Choose, OwnMapOwnModel
  <2>4. TypeOK' /\ MapsHeld' /\ Queuers'
    BY <1>4, <2>1 DEF Inv, TypeOK, Choose, MapsHeld, Queuers
  <2> QED  BY <1>4, <2>1, <2>3, <2>4, Unchanged DEF Inv, Choose
<1>5. CASE Judge(r)
  BY <1>5, Unchanged DEF Inv, TypeOK, Judge, Answer, MapsHeld, OwnMapOwnModel, Queuers
<1>6. CASE Panic(r)
  BY <1>6, Unchanged DEF Inv, TypeOK, Panic, Answer, MapsHeld, OwnMapOwnModel, Queuers
<1> QED  BY <1>1, <1>2, <1>3, <1>4, <1>5, <1>6

LEMMA Stuttering == ASSUME Inv, UNCHANGED vars PROVE Inv'
BY DEF Inv, vars, TypeOK, WithinCap, MapsHeld, OwnMapOwnModel, Queuers

(* Inv is an invariant of the registry.                                    *)
THEOREM Invariance == Spec => []Inv
<1>1. Init => Inv
  BY Initially
<1>2. Inv /\ [Next]_vars => Inv'
  BY OnboardSteps, LiveSteps, Stuttering DEF Next, Handle
<1> QED  BY <1>1, <1>2, PTL DEF Spec

-----------------------------------------------------------------------------
(* The guards of the lock are held exactly by the handlers inside them.    *)
THEOREM TypeCorrect == Spec => []TypeOK
<1>1. Inv => TypeOK
  BY DEF Inv
<1> QED  BY <1>1, Invariance, PTL

(* The registry never outgrows its cap.                                    *)
THEOREM CapHolds == Spec => []WithinCap
<1>1. Inv => WithinCap
  BY DEF Inv
<1> QED  BY <1>1, Invariance, PTL

(* A run normalised with a repository's own map is judged by the model     *)
(* under that repository's name, although the lock is released between.    *)
THEOREM OwnModelJudges == Spec => []OwnMapOwnModel
<1>1. Inv => OwnMapOwnModel
  BY DEF Inv
<1> QED  BY <1>1, Invariance, PTL

(* The branch of post_live for an empty registry is unreachable.           *)
THEOREM AlwaysAModel == Spec => []NeverUnavailable
<1>1. Inv => NeverUnavailable
  <2> SUFFICES ASSUME Inv, NEW r \in Requests
               PROVE  Candidates(r) # {}
    BY DEF NeverUnavailable
  <2>1. DOMAIN specs # {} /\ Covering(r) \subseteq DOMAIN specs
    BY LoadedAssumption DEF Inv, TypeOK, Covering
  <2>2. CASE Covering(r) # {}
    <3> DEFINE score == [n \in Covering(r) |-> MatchScore(r, n)]
    <3>1. IsFiniteSet(Covering(r))
      BY <2>1, LoadedAssumption, FS_Subset DEF Inv, TypeOK
    <3>2. \A n \in Covering(r) : MatchScore(r, n) \in Int
      <4> SUFFICES ASSUME NEW n \in Covering(r)
                   PROVE  MatchScore(r, n) \in Int
        OBVIOUS
      <4>1. IsFiniteSet(Declares[specs[n].net])
        BY <2>1, LoadedAssumption DEF Inv, TypeOK
      <4>2. Covered(r, n) \subseteq Declares[specs[n].net]
        BY DEF Covered
      <4>3. Cardinality(Declares[specs[n].net]) \in Nat /\ Cardinality(Covered(r, n)) \in Nat
        BY <4>1, <4>2, FS_Subset, FS_CardinalityType
      <4> QED  BY <4>3 DEF MatchScore
    <3>3. score \in [Covering(r) -> Int]
      BY <3>2
    <3>4. PICK n \in Covering(r) : \A m \in Covering(r) : score[m] <= score[n]
      <4> HIDE DEF score
      <4> QED  BY <2>2, <3>1, <3>3, Highest
    <3> QED  BY <2>2, <3>4 DEF Candidates
  <2>3. CASE Covering(r) = {}
    BY <2>1, <2>3 DEF Candidates
  <2> QED  BY <2>2, <2>3
<1> QED  BY <1>1, Invariance, PTL
=============================================================================
