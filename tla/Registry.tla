------------------------------ MODULE Registry ------------------------------
(***************************************************************************)
(* The service's registry of specifications (crates/api/src/main.rs) under *)
(* concurrent requests: POST /api/onboard adds the specification generated *)
(* from a workflow file, POST /api/live judges a run by one of them.       *)
(*                                                                         *)
(* Handlers run on threads of their own and meet only at the RwLock around *)
(* the map `specs'.  What happens under the write lock is one action; the  *)
(* read lock of a judgement is held over the whole search.                 *)
(***************************************************************************)
EXTENDS Integers, FiniteSets

CONSTANTS
  Requests,          \* the requests the service receives
  Loads,             \* request -> what it asks: the loads tried
  Names,             \* names a specification may have
  BadNames,          \* those that are empty or longer than 200 characters
  Workflows,         \* workflow files, standing for the specification of each
  Unsound,           \* those whose specification the linter rejects
  Declares,          \* workflow -> the transitions of its specification
  JobsMap,           \* workflow or DefaultMap -> job -> step
  DefaultMap,        \* state.map
  Release,           \* the name "release"
  Loaded,            \* name -> workflow, read at startup
  Cap,               \* 256 in the code
  NoName, Nobody

(* What a request asks is [kind |-> "onboard", fault, name, workflow] or   *)
(* [kind |-> "live", fault, spec, jobs] with spec a name or NoName.  Its    *)
(* fault is "none", "malformed" (it does not parse) or, for a live request, *)
(* "clashing" (its jobs carry one id).                                      *)
ASSUME LoadsAssumption ==
  \A load \in Loads : \A r \in Requests :
    \/ /\ load[r].kind = "onboard"
       /\ load[r].name \in Names /\ load[r].workflow \in Workflows
    \/ /\ load[r].kind = "live"
       /\ load[r].spec \in Names \cup {NoName}

(* main() exits when no sound specification was found.                     *)
ASSUME LoadedAssumption ==
  /\ IsFiniteSet(Names) /\ Cap \in Nat
  /\ DOMAIN Loaded # {} /\ DOMAIN Loaded \subseteq Names
  /\ \A n \in DOMAIN Loaded : Loaded[n] \in Workflows
  /\ \A w \in Workflows : IsFiniteSet(Declares[w])
  /\ DefaultMap \notin Workflows /\ NoName \notin Names /\ Nobody \notin Names

VARIABLES
  asks,              \* request -> what it asks
  specs,             \* name -> [net, map], the registry
  readers, waiting,  \* the requests that hold the read lock, or wait to write
  pc,                \* request -> where its handler stands
  usedMap,           \* live request -> the map its run was normalised with
  chosen,            \* live request -> the name and net it is judged by
  answer             \* request -> what the caller was told

vars == <<asks, specs, readers, waiting, pc, usedMap, chosen, answer>>

Undecided == [name |-> Nobody, net |-> Nobody, map |-> Nobody]

Init ==
  /\ asks \in Loads
  /\ specs = [n \in DOMAIN Loaded |-> [net |-> Loaded[n], map |-> DefaultMap]]
  /\ readers = {} /\ waiting = {}
  /\ pc = [r \in Requests |-> "arrived"]
  /\ usedMap = [r \in Requests |-> DefaultMap]
  /\ chosen = [r \in Requests |-> Undecided]
  /\ answer = [r \in Requests |-> "none"]

(* A reader waits while a writer does: the strictest policy of the RwLock. *)
MayRead  == waiting = {}
MayWrite == readers = {}

Answer(r, a) ==
  /\ answer' = [answer EXCEPT ![r] = a]
  /\ pc' = [pc EXCEPT ![r] = "done"]

-----------------------------------------------------------------------------
(* post_onboard                                                            *)

Refuse(r) ==
  /\ pc[r] = "arrived"
  /\ asks[r].fault = "malformed" \/ (asks[r].kind = "onboard" /\ asks[r].name \in BadNames)
  /\ Answer(r, "bad_request")
  /\ UNCHANGED <<asks, specs, readers, waiting, usedMap, chosen>>

Acceptable(r) ==
  asks[r].kind = "onboard" /\ asks[r].fault = "none" /\ asks[r].name \notin BadNames

NotSound(r) ==
  /\ pc[r] = "arrived" /\ Acceptable(r)
  /\ asks[r].workflow \in Unsound
  /\ Answer(r, "unsound")
  /\ UNCHANGED <<asks, specs, readers, waiting, usedMap, chosen>>

Queue(r) ==
  /\ pc[r] = "arrived" /\ Acceptable(r)
  /\ asks[r].workflow \notin Unsound
  /\ waiting' = waiting \cup {r}
  /\ pc' = [pc EXCEPT ![r] = "queued"]
  /\ UNCHANGED <<asks, specs, readers, usedMap, chosen, answer>>

(* Mistake the runs must notice: off by one in the cap. *)
FullOneLate(name) == Cardinality(DOMAIN specs) > Cap /\ name \notin DOMAIN specs

Full(name) == Cardinality(DOMAIN specs) >= Cap /\ name \notin DOMAIN specs

RegistryFull(r) ==
  /\ pc[r] = "queued" /\ MayWrite
  /\ Full(asks[r].name)
  /\ waiting' = waiting \ {r}
  /\ Answer(r, "full")
  /\ UNCHANGED <<asks, specs, readers, usedMap, chosen>>

Entry(r) == [net |-> asks[r].workflow, map |-> asks[r].workflow]

(* Mistake the runs must notice: the new entry takes the place of others. *)
InsertEvicting(r) ==
  /\ pc[r] = "queued" /\ MayWrite
  /\ specs' = [n \in {asks[r].name} |-> Entry(r)]
  /\ waiting' = waiting \ {r}
  /\ Answer(r, "registered")
  /\ UNCHANGED <<asks, readers, usedMap, chosen>>

(* HashMap::insert: an entry of that name is replaced.                     *)
Insert(r) ==
  /\ pc[r] = "queued" /\ MayWrite
  /\ ~ Full(asks[r].name)
  /\ specs' = [n \in DOMAIN specs \cup {asks[r].name} |->
                 IF n = asks[r].name THEN Entry(r) ELSE specs[n]]
  /\ waiting' = waiting \ {r}
  /\ Answer(r, "registered")
  /\ UNCHANGED <<asks, readers, usedMap, chosen>>

-----------------------------------------------------------------------------
(* post_live                                                               *)

Named(r) == asks[r].spec \in DOMAIN specs

(* Mistake the runs must notice: the first guard outlives the look-up. *)
ReadMapHolding(r) ==
  /\ pc[r] = "arrived" /\ asks[r].kind = "live" /\ asks[r].fault # "malformed"
  /\ asks[r].spec # NoName => MayRead
  /\ usedMap' = [usedMap EXCEPT ![r] = IF Named(r) THEN specs[asks[r].spec].map ELSE DefaultMap]
  /\ readers' = readers \cup {r}
  /\ pc' = [pc EXCEPT ![r] = "mapped"]
  /\ UNCHANGED <<asks, specs, waiting, chosen, answer>>

(* The first read, when the caller names a specification: the guard is     *)
(* dropped as soon as the map is cloned.                                   *)
ReadMap(r) ==
  /\ pc[r] = "arrived" /\ asks[r].kind = "live" /\ asks[r].fault # "malformed"
  /\ asks[r].spec # NoName => MayRead
  /\ usedMap' = [usedMap EXCEPT ![r] = IF Named(r) THEN specs[asks[r].spec].map ELSE DefaultMap]
  /\ pc' = [pc EXCEPT ![r] = "mapped"]
  /\ UNCHANGED <<asks, specs, readers, waiting, chosen, answer>>

(* The steps of the normalised run.                                        *)
Steps(r) ==
  LET m == JobsMap[usedMap[r]]
  IN  {m[j] : j \in asks[r].jobs \cap DOMAIN m}

(* validate() refuses two records of one id; jobs of one step are one.     *)
Clash(r) == asks[r].fault = "clashing" /\ Cardinality(Steps(r)) > 1

Invalid(r) ==
  /\ pc[r] = "mapped" /\ Clash(r)
  /\ Answer(r, "bad_request")
  /\ UNCHANGED <<asks, specs, readers, waiting, usedMap, chosen>>

Unverifiable(r) ==
  /\ pc[r] = "mapped" /\ ~ Clash(r)
  /\ Steps(r) = {}
  /\ Answer(r, "unverifiable")
  /\ UNCHANGED <<asks, specs, readers, waiting, usedMap, chosen>>

Covered(r, n) == Steps(r) \cap Declares[specs[n].net]

MatchScore(r, n) ==
  10 * Cardinality(Covered(r, n))
    - (Cardinality(Declares[specs[n].net]) - Cardinality(Covered(r, n)))

Covering(r) == {n \in DOMAIN specs : Covered(r, n) # {}}

(* Mistake the runs must notice: no fallback when nothing covers a step. *)
CandidatesCovering(r) ==
  IF Named(r) THEN {asks[r].spec}
  ELSE {n \in Covering(r) : \A m \in Covering(r) : MatchScore(r, m) <= MatchScore(r, n)}

(* The specification a run is judged by.  Ties fall to the order of the    *)
(* HashMap, which is any.                                                  *)
Candidates(r) ==
  IF Named(r) THEN {asks[r].spec}
  ELSE IF Covering(r) # {}
  THEN {n \in Covering(r) : \A m \in Covering(r) : MatchScore(r, m) <= MatchScore(r, n)}
  ELSE IF Release \in DOMAIN specs THEN {Release}
  ELSE DOMAIN specs

(* The second read: the guard is held until the answer is ready.           *)
Choose(r) ==
  /\ pc[r] = "mapped" /\ ~ Clash(r)
  /\ Steps(r) # {}
  /\ MayRead
  /\ \E n \in Candidates(r) :
       chosen' = [chosen EXCEPT ![r] = [name |-> n, net |-> specs[n].net, map |-> specs[n].map]]
  /\ readers' = readers \cup {r}
  /\ pc' = [pc EXCEPT ![r] = "judging"]
  /\ UNCHANGED <<asks, specs, waiting, usedMap, answer>>

Judge(r) ==
  /\ pc[r] = "judging"
  /\ readers' = readers \ {r}
  /\ Answer(r, "verdict")
  /\ UNCHANGED <<asks, specs, waiting, usedMap, chosen>>

(* Mistake the runs must notice: the guard of a panicking handler leaks. *)
PanicHolding(r) ==
  /\ pc[r] = "judging"
  /\ Answer(r, "error")
  /\ UNCHANGED <<asks, specs, readers, waiting, usedMap, chosen>>

(* CatchPanicLayer answers for a handler that panics; unwinding drops the  *)
(* read guard, and a read guard does not poison the lock.                  *)
Panic(r) ==
  /\ pc[r] = "judging"
  /\ readers' = readers \ {r}
  /\ Answer(r, "error")
  /\ UNCHANGED <<asks, specs, waiting, usedMap, chosen>>

-----------------------------------------------------------------------------
Handle(r) ==
  \/ Refuse(r) \/ NotSound(r) \/ Queue(r) \/ RegistryFull(r) \/ Insert(r)
  \/ ReadMap(r) \/ Invalid(r) \/ Unverifiable(r) \/ Choose(r)
  \/ Judge(r) \/ Panic(r)

Next == \E r \in Requests : Handle(r)

Spec == Init /\ [][Next]_vars

(* Every handler has a thread that runs it, and the lock is handed on.     *)
FairSpec == Spec /\ \A r \in Requests : WF_vars(Handle(r))

-----------------------------------------------------------------------------
(* The guards are held exactly where the handlers stand inside them, and   *)
(* the registry never loses a key.                                         *)
TypeOK ==
  /\ DOMAIN Loaded \subseteq DOMAIN specs /\ DOMAIN specs \subseteq Names
  /\ \A n \in DOMAIN specs : specs[n] \in [net : Workflows, map : Workflows \cup {DefaultMap}]
  /\ pc \in [Requests -> {"arrived", "queued", "mapped", "judging", "done"}]
  /\ usedMap \in [Requests -> Workflows \cup {DefaultMap}]
  /\ readers = {r \in Requests : pc[r] = "judging"}
  /\ waiting = {r \in Requests : pc[r] = "queued"}

(* "the registry is capped rather than allowed to grow without bound": it  *)
(* never outgrows the cap unless startup already loaded more.              *)
WithinCap ==
  Cardinality(DOMAIN specs) <= Cap \/ DOMAIN specs = DOMAIN Loaded

(* The branch post_live calls unreachable is: whatever was onboarded since *)
(* the run was normalised, there is a model to judge it by, so no caller   *)
(* is told that no workflow model is loaded.                               *)
NeverUnavailable == \A r \in Requests : pc[r] = "mapped" => Candidates(r) # {}

(* A run normalised with the map of an onboarded repository is judged by   *)
(* the model under that repository's name, whatever is onboarded between   *)
(* the two reads.                                                          *)
OwnMapOwnModel ==
  \A r \in Requests :
    usedMap[r] # DefaultMap /\ chosen[r] # Undecided => chosen[r].name = asks[r].spec

(* Every request is answered: no handler waits for a lock for ever.        *)
Answered == \A r \in Requests : <>(pc[r] = "done")

(* "If the caller named an onboarded spec, normalize with that repo's own  *)
(* map": the map a run was normalised with is the one of the specification *)
(* that then judges it.                                                    *)
MapOfModel ==
  \A r \in Requests :
    chosen[r] # Undecided /\ chosen[r].name = asks[r].spec => usedMap[r] = chosen[r].map
=============================================================================
