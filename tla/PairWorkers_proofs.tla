------------------------ MODULE PairWorkers_proofs ------------------------
(***************************************************************************)
(* The registry of routes, for any requests, routes, pairs, budgets and    *)
(* costs: its types, that the entry a task holds is open, that a route is  *)
(* loaded once, that evictions go by the last use, and that every entry    *)
(* keeps to RouteLife.                                                     *)
(***************************************************************************)
EXTENDS PairWorkers, FiniteSetTheorems, WellFoundedInduction, TLAPS

USE DEF map, registry, routes, requests, stores

\* A task that loads owns the lock until the budget is enforced, and the lock
\* is in its loading phase exactly while the task's entry is not there yet.
Locked ==
    /\ \A t \in Tasks : pc[t] = "loading" <=> lock = t
    /\ phase = "load" <=> lock \in Tasks /\ life[lock] = "absent"

\* Who has an Arc: a task that uses the route, and one that has loaded it.
Uses(t) == \/ pc[t] \in {"holding", "waiting", "answered"}
           \/ pc[t] = "loading" /\ life[t] # "absent"
Arcs ==
    \A t \in Tasks :
        /\ arc[t] # None <=> Uses(t)
        /\ arc[t] # None => life[arc[t]] = "open"
        /\ tries[t] = 0

\* The map has open entries only, an entry comes to be by its task's load, and
\* a task waits for the entry that its job is with.
Entries ==
    \A i \in Tasks :
        /\ i \in entries => life[i] = "open"
        /\ pc[i] \in {"idle", "installing", "wanting"} => life[i] = "absent"
        /\ life[i] = "absent" => jobs[i] = {}
        /\ \A t \in jobs[i] : pc[t] = "gone" \/ (pc[t] = "waiting" /\ arc[t] = i)

\* While a route is being loaded, the map has no entry of it.
LoadsAlone == \A t \in Tasks : Loading(t) => \A i \in entries : Route(i) # Route(t)

\* The entries of the map are in the order of their last use.
Ranked ==
    /\ \A i \in entries : <<i, i>> \notin older
    /\ \A i, k \in entries : i # k => <<i, k>> \in older \/ <<k, i>> \in older
    /\ \A i, j, k \in entries : <<i, j>> \in older /\ <<j, k>> \in older => <<i, k>> \in older

Inv == TypeOK /\ Locked /\ Arcs /\ Entries /\ LoadsAlone /\ Ranked

LEMMA InitInv == Init => Inv
  BY PairWorkersAssumption
     DEF Init, Inv, PairWorkersAssumption, TypeOK, Locked, Arcs, Uses, Entries, LoadsAlone, Ranked,
         Loading, Phases, PCs, Ended, Keeper
-----------------------------------------------------------------------------
(* What the operators return *)

LEMMA Tails ==
    ASSUME NEW r
    PROVE  /\ Legs(r) # <<>> /\ Tail(Legs(r)) # <<>> /\ Tail(Tail(Legs(r))) = <<>>
           /\ Tail(<<r>>) = <<>>
  BY DEF Legs

LEMMA Plans ==
    ASSUME NEW r, NEW allow
    PROVE  Plan(r, allow) \in {"none", "direct", "pivot"}
  BY DEF Plan

LEMMA MaxOfTwo ==
    ASSUME NEW a \in Nat, NEW b \in Nat
    PROVE  Max({a, b}) \in Nat
<1>1. \E x \in {a, b} : \A y \in {a, b} : x >= y
  <2>1. CASE a >= b
    BY <2>1
  <2>2. CASE b >= a
    BY <2>2
  <2> QED BY <2>1, <2>2
<1> QED BY <1>1 DEF Max

LEMMA StampedType ==
    ASSUME TypeOK, NEW i \in Tasks, NEW S \in SUBSET Tasks, i \in S
    PROVE  Stamped(i, S) \subseteq S \X S
  BY DEF Stamped

LEMMA KeepTypes ==
    ASSUME TypeOK, NEW S, Keep(S)
    PROVE  /\ entries' \subseteq entries /\ older' \subseteq entries' \X entries'
           /\ stale' \subseteq entries'
  BY DEF TypeOK, Keep

\* ensure_loaded finds the route, has no plan for it, or starts to load it.
EnsureFound(t, i) ==
    /\ Route(i) = Route(t) /\ Goto(t, "wanting", "holding")
    /\ arc' = [arc EXCEPT ![t] = i] /\ UNCHANGED <<lock, phase, via>>
EnsureNoPlan(t) == Goto(t, "wanting", "failed") /\ UNCHANGED <<lock, phase, via, arc>>
EnsureLoads(t) ==
    /\ Goto(t, "wanting", "loading") /\ lock' = t /\ phase' = "load"
    /\ \A i \in entries : Route(i) # Route(t)
    /\ UNCHANGED arc

LEMMA EnsureCases ==
    ASSUME NEW t \in Tasks, EnsureLoaded(t)
    PROVE  /\ lock = None
           /\ (\E i \in entries : EnsureFound(t, i)) \/ EnsureNoPlan(t) \/ EnsureLoads(t)
           /\ UNCHANGED <<map, limit, victims, stale, life, jobs, cost, tries, todo, stores>>
  BY DEF EnsureLoaded, EnsureFound, EnsureNoPlan, EnsureLoads

\* Whoever gives the lock back, only it changes its step.
LEMMA UnlockTypes ==
    ASSUME TypeOK, Unlock
    PROVE  /\ lock' = None /\ phase' = "none" /\ victims' = {} /\ limit' = 0
           /\ pc' \in [Tasks -> PCs]
           /\ \A t \in Tasks : pc'[t] # pc[t] => lock = t /\ pc'[t] = "holding"
  BY DEF TypeOK, Unlock, PCs
-----------------------------------------------------------------------------
(* The types *)

LEMMA RequestTypes ==
    ASSUME Inv, NEW t \in Tasks,
           Start(t) \/ InstallLeg(t) \/ InstallFails(t) \/ EnsureLoaded(t)
    PROVE  TypeOK'
<1> USE DEF Inv, TypeOK, PCs, Ended
<1>1. CASE Start(t)
  <2>1. /\ pc' \in [Tasks -> PCs] /\ DOMAIN todo' = Tasks
        /\ UNCHANGED <<registry, routes, arc, tries, stores>>
    BY <1>1 DEF Start
  <2>2. /\ todo'[t] \in {<<>>, <<Route(t)>>, Legs(Route(t))}
        /\ pc'[t] = "installing" => todo'[t] # <<>>
    BY <1>1, Tails DEF Start
  <2>3. \A u \in Tasks \ {t} : todo'[u] = todo[u] /\ pc'[u] = pc[u]
    BY <1>1 DEF Start
  <2> QED BY <2>1, <2>2, <2>3
<1>2. CASE InstallLeg(t)
  <2>1. todo[t] # <<>> /\ Tail(todo[t]) \in {<<>>, Tail(Legs(Route(t)))}
    BY <1>2, Tails DEF InstallLeg
  <2>2. /\ todo' = [todo EXCEPT ![t] = Tail(@)]
        /\ pc' = IF Tail(todo[t]) = <<>> THEN [pc EXCEPT ![t] = "wanting"] ELSE pc
        /\ installed' \subseteq Pairs
        /\ UNCHANGED <<registry, routes, arc, tries, removing>>
    BY <1>2 DEF InstallLeg
  <2> QED BY <2>1, <2>2
<1>3. CASE InstallFails(t)
  BY <1>3 DEF InstallFails, Goto
<1>4. CASE EnsureLoaded(t)
  <2>1. pc' \in [Tasks -> PCs] /\ \A u \in Tasks : pc'[u] = "installing" => pc[u] = "installing"
    BY <1>4 DEF EnsureLoaded, Goto
  <2>2. arc' \in [Tasks -> Tasks \cup {None}]
    <3>1. arc' = arc \/ \E i \in entries : arc' = [arc EXCEPT ![t] = i]
      BY <1>4, EnsureCases DEF EnsureFound, EnsureNoPlan, EnsureLoads
    <3>2. entries \subseteq Tasks /\ arc \in [Tasks -> Tasks \cup {None}]
      OBVIOUS
    <3> QED BY <3>1, <3>2
  <2>4. via' \in [Tasks -> {"none", "direct", "pivot"}]
    <3> DEFINE plan == Plan(Route(t), Call[t].allow_pivot)
    <3>1. plan \in {"none", "direct", "pivot"}
      BY Plans
    <3>2. via' = via \/ via' = [via EXCEPT ![t] = plan]
      BY <1>4 DEF EnsureLoaded
    <3> HIDE DEF plan
    <3> QED BY <3>1, <3>2
  <2>3. /\ lock' \in Tasks \cup {Keeper, None} /\ phase' \in Phases
        /\ lock' = None <=> phase' = "none"
    BY <1>4, PairWorkersAssumption DEF EnsureLoaded, Phases, PairWorkersAssumption
  <2> QED BY <1>4, <2>1, <2>2, <2>3, <2>4 DEF EnsureLoaded
<1> QED BY <1>1, <1>2, <1>3, <1>4

LEMMA LoadTypes ==
    ASSUME Inv, NEW t \in Tasks, LoadDone(t) \/ LoadFails(t) \/ Abandon(t)
    PROVE  TypeOK'
<1> USE DEF Inv, TypeOK, PCs, Ended
<1>1. CASE LoadDone(t)
  <2>1. lock = t
    BY <1>1 DEF LoadDone, Loading, Locked
  <2>2. \A mb \in Measured, k \in {1, 2} : Max({mb, ESTIMATED_MODEL_MB * k}) \in Nat
    <3>1. \A mb \in Measured, k \in {1, 2} : mb \in Nat /\ ESTIMATED_MODEL_MB * k \in Nat
      BY PairWorkersAssumption DEF PairWorkersAssumption
    <3> QED BY <3>1, MaxOfTwo
  <2>3. cost' \in [Tasks -> Nat]
    <3>1. PICK mb \in Measured : cost' = [cost EXCEPT ![t] =
              Max({mb, ESTIMATED_MODEL_MB * (IF via[t] = "pivot" THEN 2 ELSE 1)})]
      BY <1>1 DEF LoadDone
    <3> QED BY <2>2, <3>1
  <2>4. /\ entries' \subseteq Tasks /\ older' \subseteq entries' \X entries'
        /\ stale' \subseteq entries'
    <3> DEFINE others == {i \in entries : Route(i) # Route(t)}
    <3>1. entries' = others \cup {t} /\ older' = Stamped(t, others) /\ stale' = stale \cap others
      BY <1>1 DEF LoadDone
    <3> QED BY <3>1 DEF Stamped
  <2>5. limit' \in Nat /\ phase' = "check" /\ lock' = t
    BY <1>1, <2>1, PairWorkersAssumption DEF LoadDone, PairWorkersAssumption
  <2>6. t # None
    BY PairWorkersAssumption DEF PairWorkersAssumption
  <2> QED BY <1>1, <2>3, <2>4, <2>5, <2>6 DEF LoadDone, Phases
<1>2. CASE LoadFails(t)
  BY <1>2 DEF LoadFails, Goto, Phases
<1>3. CASE Abandon(t)
  BY <1>3 DEF Abandon, Phases
<1> QED BY <1>1, <1>2, <1>3

LEMMA UseTypes ==
    ASSUME Inv, NEW t \in Tasks, Submit(t) \/ Prepared(t) \/ AnswerJob(t) \/ Return(t)
    PROVE  TypeOK'
<1> USE DEF Inv, TypeOK, PCs, Ended
<1>1. CASE Submit(t)
  <2>1. arc[t] \in Tasks /\ life[arc[t]] = "open"
    BY <1>1 DEF Submit, Arcs, Uses
  <2>2. older' \subseteq entries \X entries
    BY <1>1, <2>1 DEF Submit, Stamped
  <2>3. /\ jobs' = [jobs EXCEPT ![arc[t]] = @ \cup {t}] /\ pc' = [pc EXCEPT ![t] = "waiting"]
        /\ stale' = stale \ {arc[t]}
        /\ UNCHANGED <<lock, phase, entries, limit, victims, life, via, cost, todo, stores, arc,
                       tries>>
    BY <1>1, <2>1 DEF Submit
  <2>4. jobs' \in [Tasks -> SUBSET Tasks]
    BY <2>1, <2>3
  <2> QED BY <2>2, <2>3, <2>4
<1>2. CASE Prepared(t) \/ Return(t)
  BY <1>2 DEF Prepared, Return, Goto
<1>3. CASE AnswerJob(t)
  BY <1>3 DEF AnswerJob
<1> QED BY <1>1, <1>2, <1>3

LEMMA EntryTypes ==
    ASSUME Inv, NEW i \in Tasks, Close(i) \/ Unload(i) \/ Age(i)
    PROVE  TypeOK'
  BY DEF Inv, TypeOK, Close, Unload, Age

LEMMA EvictionTypes ==
    ASSUME Inv, CheckBudget \/ Evict \/ SweepExcess
    PROVE  TypeOK'
<1> USE DEF Inv, TypeOK
<1>0. lock # None
  BY DEF CheckBudget, Evict, SweepExcess
<1>1. CASE CheckBudget
  <2>1. CASE Unlock
    BY <1>1, <2>1, UnlockTypes DEF CheckBudget, Phases
  <2>2. CASE ~Unlock
    BY <1>0, <1>1, <2>2 DEF CheckBudget, Phases, Unpinned
  <2> QED BY <2>1, <2>2
<1>2. CASE Evict
  <2>1. /\ entries' \subseteq entries /\ older' \subseteq entries' \X entries'
        /\ stale' \subseteq entries'
    BY <1>2, KeepTypes DEF Evict
  <2>2. CASE Unlock
    BY <1>2, <2>1, <2>2, UnlockTypes DEF Evict, Phases
  <2>3. CASE ~Unlock
    BY <1>0, <1>2, <2>1, <2>3 DEF Evict, Phases
  <2> QED BY <2>2, <2>3
<1>3. CASE SweepExcess
  BY <1>0, <1>3 DEF SweepExcess, Phases, Unpinned
<1> QED BY <1>1, <1>2, <1>3

LEMMA KeeperTypes ==
    ASSUME Inv, Sweep \/ MemoryPressure \/ EnforceBudget
    PROVE  TypeOK'
<1> USE DEF Inv, TypeOK
<1>1. PICK next \in {"expired", "capacity", "check"} : KeeperTakes(next)
  BY DEF Sweep, MemoryPressure, EnforceBudget
<1>2. limit' \in Nat /\ victims' \subseteq Tasks
  BY PairWorkersAssumption
     DEF Sweep, MemoryPressure, EnforceBudget, Unpinned, PairWorkersAssumption
<1>3. Keeper # None
  BY PairWorkersAssumption DEF PairWorkersAssumption
<1> QED BY <1>1, <1>2, <1>3 DEF KeeperTakes, Phases

LEMMA StoreTypes ==
    ASSUME Inv, \/ \E p \in Removable : UnloadPair(p)
                \/ DeleteFiles
                \/ \E p \in Pairs : InstallPair(p)
    PROVE  TypeOK'
<1> USE DEF Inv, TypeOK
<1>1. ASSUME NEW p \in Removable, UnloadPair(p)
      PROVE  TypeOK'
  <2>1. /\ entries' \subseteq entries /\ older' \subseteq entries' \X entries'
        /\ stale' \subseteq entries'
    BY <1>1, KeepTypes DEF UnloadPair
  <2> QED BY <1>1, <2>1, PairWorkersAssumption DEF UnloadPair, PairWorkersAssumption
<1>2. CASE DeleteFiles
  BY <1>2 DEF DeleteFiles
<1>3. ASSUME NEW p \in Pairs, InstallPair(p)
      PROVE  TypeOK'
  BY <1>3 DEF InstallPair
<1> QED BY <1>1, <1>2, <1>3
-----------------------------------------------------------------------------
(* The lock, the Arcs and the map *)

LEMMA EnsureKeeps ==
    ASSUME Inv, NEW t \in Tasks, EnsureLoaded(t)
    PROVE  Locked' /\ Arcs' /\ Entries' /\ LoadsAlone'
<1> USE DEF Inv, TypeOK
<1>0. /\ lock = None /\ phase = "none" /\ None \notin Tasks /\ pc[t] = "wanting"
      /\ life[t] = "absent" /\ arc[t] = None /\ UNCHANGED <<entries, life, jobs, tries>>
  BY EnsureCases, PairWorkersAssumption
     DEF EnsureLoaded, Locked, Arcs, Uses, Entries, PairWorkersAssumption
<1>1. ASSUME NEW i \in entries, EnsureFound(t, i)
      PROVE  Locked' /\ Arcs' /\ Entries' /\ LoadsAlone'
  BY <1>0, <1>1 DEF EnsureFound, Goto, Locked, Arcs, Uses, Entries, LoadsAlone, Loading
<1>2. CASE EnsureNoPlan(t)
  BY <1>0, <1>2 DEF EnsureNoPlan, Goto, Locked, Arcs, Uses, Entries, LoadsAlone, Loading
<1>3. CASE EnsureLoads(t)
  BY <1>0, <1>3 DEF EnsureLoads, Goto, Locked, Arcs, Uses, Entries, LoadsAlone, Loading
<1> QED BY <1>1, <1>2, <1>3, EnsureCases

LEMMA LoadDoneKeeps ==
    ASSUME Inv, NEW t \in Tasks, LoadDone(t)
    PROVE  Locked' /\ Arcs' /\ Entries' /\ LoadsAlone'
<1> USE DEF Inv, TypeOK
<1>1. /\ lock = t /\ lock' = t /\ phase' = "check" /\ pc[t] = "loading" /\ t # None
      /\ life' = [life EXCEPT ![t] = "open"] /\ arc' = [arc EXCEPT ![t] = t]
      /\ entries' \subseteq entries \cup {t} /\ UNCHANGED <<jobs, pc, tries>>
  BY PairWorkersAssumption DEF LoadDone, Loading, Locked, PairWorkersAssumption
<1>2. Locked'
  BY <1>1 DEF Locked
<1>3. Arcs'
  BY <1>1 DEF Arcs, Uses
<1>4. Entries'
  BY <1>1 DEF Entries
<1>5. LoadsAlone'
  BY <1>1 DEF Locked, LoadsAlone, Loading
<1> QED BY <1>2, <1>3, <1>4, <1>5

LEMMA EndsKeep ==
    ASSUME Inv, NEW t \in Tasks,
           Start(t) \/ InstallLeg(t) \/ InstallFails(t) \/ LoadFails(t) \/ Abandon(t)
    PROVE  Locked' /\ Arcs' /\ Entries' /\ LoadsAlone'
<1> USE DEF Inv, TypeOK
<1>1. CASE Start(t) \/ InstallLeg(t) \/ InstallFails(t)
  <2>1. /\ pc[t] \in {"idle", "installing"}
        /\ pc' = pc \/ \E to \in {"wanting", "installing", "failed"} : pc' = [pc EXCEPT ![t] = to]
        /\ UNCHANGED <<lock, phase, life, entries, jobs, arc, tries>>
    BY <1>1 DEF Start, InstallLeg, InstallFails, Goto
  <2>2. pc' \in [Tasks -> PCs] /\ \A u \in Tasks \ {t} : pc'[u] = pc[u]
    BY <2>1 DEF PCs, Ended
  <2>3. pc'[t] = pc[t] \/ pc'[t] \in {"wanting", "installing", "failed"}
    BY <2>1
  <2>4. Locked' /\ LoadsAlone'
    BY <2>1, <2>2, <2>3 DEF Locked, LoadsAlone, Loading
  <2>5. Arcs'
    BY <2>1, <2>2, <2>3 DEF Arcs, Uses
  <2>6. Entries'
    BY <2>1, <2>2, <2>3 DEF Entries
  <2> QED BY <2>4, <2>5, <2>6
<1>2. CASE LoadFails(t)
  <2>1. lock = t /\ lock' = None /\ None \notin Tasks
    BY <1>2, PairWorkersAssumption DEF LoadFails, Loading, Locked, PairWorkersAssumption
  <2> QED BY <1>2, <2>1
          DEF LoadFails, Goto, Locked, Arcs, Uses, Entries, LoadsAlone, Loading
<1>3. CASE Abandon(t)
  <2>1. /\ pc' = [pc EXCEPT ![t] = "gone"] /\ arc' = [arc EXCEPT ![t] = None]
        /\ UNCHANGED <<life, entries, jobs, tries>> /\ None \notin Tasks
    BY <1>3, PairWorkersAssumption DEF Abandon, PairWorkersAssumption
  <2>2. Locked'
    BY <1>3, <2>1 DEF Abandon, Locked, Loading
  <2>3. Arcs'
    BY <2>1 DEF Arcs, Uses
  <2>4. Entries'
    BY <1>3, <2>1 DEF Abandon, Entries, Loading
  <2>5. LoadsAlone'
    BY <2>1 DEF LoadsAlone, Loading
  <2> QED BY <2>2, <2>3, <2>4, <2>5
<1> QED BY <1>1, <1>2, <1>3

LEMMA UseKeeps ==
    ASSUME Inv, NEW t \in Tasks, Submit(t) \/ Prepared(t) \/ AnswerJob(t) \/ Return(t)
    PROVE  Locked' /\ Arcs' /\ Entries' /\ LoadsAlone'
<1> USE DEF Inv, TypeOK
<1>1. CASE Submit(t)
  <2>1. /\ arc[t] \in Tasks /\ life[arc[t]] = "open" /\ pc[t] = "holding"
        /\ jobs' = [jobs EXCEPT ![arc[t]] = @ \cup {t}] /\ pc' = [pc EXCEPT ![t] = "waiting"]
        /\ UNCHANGED <<lock, phase, entries, life, arc, tries>>
    BY <1>1 DEF Submit, Arcs, Uses
  <2>2. Locked' /\ Arcs' /\ LoadsAlone'
    BY <2>1 DEF Locked, Arcs, Uses, LoadsAlone, Loading
  <2>3. Entries'
    BY <2>1 DEF Entries
  <2> QED BY <2>2, <2>3
<1>2. CASE Prepared(t) \/ Return(t)
  <2>1. /\ pc[t] \in {"holding", "answered"} /\ pc' = [pc EXCEPT ![t] = "done"]
        /\ arc' = [arc EXCEPT ![t] = None]
        /\ UNCHANGED <<lock, phase, entries, life, jobs, tries>>
    BY <1>2 DEF Prepared, Return, Goto
  <2> QED BY <2>1 DEF Locked, Arcs, Uses, Entries, LoadsAlone, Loading
<1>3. CASE AnswerJob(t)
  <2>1. PICK u \in jobs[t] : /\ jobs' = [jobs EXCEPT ![t] = @ \ {u}]
                             /\ pc' = IF pc[u] = "waiting" THEN [pc EXCEPT ![u] = "answered"]
                                                           ELSE pc
    BY <1>3 DEF AnswerJob
  <2>2. u \in Tasks /\ UNCHANGED <<lock, phase, entries, life, arc, tries>>
    BY <1>3 DEF AnswerJob
  <2>3. Locked' /\ Arcs' /\ LoadsAlone'
    BY <2>1, <2>2 DEF Locked, Arcs, Uses, LoadsAlone, Loading
  <2>4. Entries'
    BY <2>1, <2>2 DEF Entries
  <2> QED BY <2>3, <2>4
<1> QED BY <1>1, <1>2, <1>3

LEMMA EntryKeeps ==
    ASSUME Inv, NEW i \in Tasks, Close(i) \/ Unload(i) \/ Age(i)
    PROVE  Locked' /\ Arcs' /\ Entries' /\ LoadsAlone'
<1> USE DEF Inv, TypeOK
<1>1. CASE Close(i)
  BY <1>1 DEF Close, Holders, Locked, Arcs, Uses, Entries, LoadsAlone, Loading
<1>2. CASE Unload(i)
  BY <1>2 DEF Unload, Locked, Arcs, Uses, Entries, LoadsAlone, Loading
<1>3. CASE Age(i)
  BY <1>3 DEF Age, Locked, Arcs, Uses, Entries, LoadsAlone, Loading
<1> QED BY <1>1, <1>2, <1>3

\* The lock's owner only removes entries, and goes on with its own.
LEMMA EvictionKeeps ==
    ASSUME Inv, CheckBudget \/ Evict \/ SweepExcess
    PROVE  Locked' /\ Arcs' /\ Entries' /\ LoadsAlone'
<1> USE DEF Inv, TypeOK
<1>1. /\ phase \in {"check", "evict", "expired", "excess", "capacity"}
      /\ entries' \subseteq entries /\ UNCHANGED <<life, jobs, arc, tries>>
  BY DEF CheckBudget, Evict, SweepExcess, Keep
<1>2. None \notin Tasks
  BY PairWorkersAssumption DEF PairWorkersAssumption
<1>3. CASE Unlock
  BY <1>1, <1>2, <1>3 DEF Unlock, Locked, Arcs, Uses, Entries, LoadsAlone, Loading
<1>4. CASE ~Unlock
  <2>1. phase' # "load" /\ UNCHANGED <<lock, pc>>
    BY <1>4 DEF CheckBudget, Evict, SweepExcess
  <2> QED BY <1>1, <2>1 DEF Locked, Arcs, Uses, Entries, LoadsAlone, Loading
<1> QED BY <1>3, <1>4

LEMMA KeeperKeeps ==
    ASSUME Inv, Sweep \/ MemoryPressure \/ EnforceBudget
    PROVE  Locked' /\ Arcs' /\ Entries' /\ LoadsAlone'
<1> USE DEF Inv, TypeOK
<1>1. /\ lock = None /\ lock' = Keeper /\ phase' # "load"
      /\ UNCHANGED <<entries, life, jobs, pc, arc, tries>>
  BY DEF Sweep, MemoryPressure, EnforceBudget, KeeperTakes
<1>2. Keeper \notin Tasks /\ None \notin Tasks
  BY PairWorkersAssumption DEF PairWorkersAssumption
<1> QED BY <1>1, <1>2 DEF Locked, Arcs, Uses, Entries, LoadsAlone, Loading

LEMMA StoreKeeps ==
    ASSUME Inv, \/ \E p \in Removable : UnloadPair(p)
                \/ DeleteFiles
                \/ \E p \in Pairs : InstallPair(p)
    PROVE  Locked' /\ Arcs' /\ Entries' /\ LoadsAlone'
<1>1. entries' \subseteq entries /\ UNCHANGED <<lock, phase, routes, requests>>
  BY DEF UnloadPair, DeleteFiles, InstallPair, Keep
<1> QED BY <1>1 DEF Inv, Locked, Arcs, Uses, Entries, LoadsAlone, Loading

-----------------------------------------------------------------------------
(* The order of last use *)

LEMMA KeepRanks ==
    ASSUME TypeOK, Ranked, NEW S, Keep(S)
    PROVE  Ranked'
<1>1. entries' = entries \cap S /\ older' = older \cap (S \X S)
  BY DEF Keep
<1>2. \A i, k \in entries' : <<i, k>> \in older' <=> <<i, k>> \in older
  BY <1>1
<1> QED BY <1>1, <1>2 DEF Ranked

\* Whoever is stamped comes last, and the others stay as they were.
LEMMA StampRanks ==
    ASSUME Ranked, NEW i \in Tasks, NEW S, S \ {i} \subseteq entries,
           entries' = S \cup {i}, older' = Stamped(i, S)
    PROVE  Ranked'
<1>1. \A j, k \in entries' :
         <<j, k>> \in older' <=> j # i /\ (k = i \/ <<j, k>> \in older)
  <2> SUFFICES ASSUME NEW j \in entries', NEW k \in entries'
               PROVE  <<j, k>> \in older' <=> j # i /\ (k = i \/ <<j, k>> \in older)
    OBVIOUS
  <2> DEFINE others == S \ {i}
  <2>1. older' = (older \cap (others \X others)) \cup (others \X {i})
    BY DEF Stamped
  <2>2. (j \in others <=> j # i) /\ (k \in others <=> k # i)
    OBVIOUS
  <2>3. <<j, k>> \in older'
          <=> (<<j, k>> \in older /\ j \in others /\ k \in others) \/ (j \in others /\ k = i)
    <3> HIDE DEF others
    <3> QED BY <2>1
  <2> QED BY <2>2, <2>3
<1>2. \A j \in entries' : j # i => j \in entries
  OBVIOUS
<1> QED BY <1>1, <1>2 DEF Ranked

LEMMA RankedStep == Inv /\ [Next]_vars => Ranked'
<1> SUFFICES ASSUME Inv, [Next]_vars PROVE Ranked'
  OBVIOUS
<1> USE DEF Inv
<1>1. CASE UNCHANGED <<entries, older>>
  BY <1>1 DEF Ranked
<1>2. ASSUME NEW t \in Tasks, LoadDone(t) PROVE Ranked'
  <2>1. entries' = {i \in entries : Route(i) # Route(t)} \cup {t}
        /\ older' = Stamped(t, {i \in entries : Route(i) # Route(t)})
    BY <1>2 DEF LoadDone
  <2> QED BY <2>1, StampRanks
<1>3. ASSUME NEW t \in Tasks, Submit(t) PROVE Ranked'
  <2>1. CASE arc[t] \in entries /\ older' = Stamped(arc[t], entries)
    <3>1. arc[t] \in Tasks /\ entries' = entries \cup {arc[t]}
      BY <1>3, <2>1 DEF Submit, TypeOK
    <3> QED BY <2>1, <3>1, StampRanks
  <2>2. CASE older' = older
    BY <1>1, <1>3, <2>2 DEF Submit
  <2> QED BY <1>3, <2>1, <2>2 DEF Submit
<1>4. CASE Evict \/ \E p \in Removable : UnloadPair(p)
  BY <1>4, KeepRanks DEF Evict, UnloadPair
<1>5. ASSUME NEW t \in Tasks,
             \/ Start(t) \/ InstallLeg(t) \/ InstallFails(t) \/ EnsureLoaded(t)
             \/ LoadFails(t) \/ Abandon(t) \/ Prepared(t) \/ AnswerJob(t) \/ Return(t)
             \/ Close(t) \/ Unload(t) \/ Age(t)
      PROVE  UNCHANGED <<entries, older>>
  BY <1>5 DEF Start, InstallLeg, InstallFails, EnsureLoaded, LoadFails, Abandon, Prepared,
     AnswerJob, Return, Close, Unload, Age
<1>6. CASE \/ CheckBudget \/ Sweep \/ SweepExcess \/ MemoryPressure \/ EnforceBudget
           \/ DeleteFiles \/ (\E p \in Pairs : InstallPair(p)) \/ UNCHANGED vars
  <2>1. UNCHANGED <<entries, older>>
    BY <1>6 DEF CheckBudget, Sweep, SweepExcess, MemoryPressure, EnforceBudget, KeeperTakes,
       DeleteFiles, InstallPair, vars
  <2> QED BY <1>1, <2>1
<1> QED BY <1>1, <1>2, <1>3, <1>4, <1>5, <1>6 DEF Next

\* Among some of the map's entries one was used before all the others: none
\* has fewer that were used before it.
LEMMA LeastExists ==
    ASSUME TypeOK, Ranked, NEW S \in SUBSET entries, S # {}
    PROVE  \E i \in S : \A k \in S \ {i} : <<i, k>> \in older
<1> DEFINE earlier(i) == {k \in S : <<k, i>> \in older}
           counts     == {Cardinality(earlier(i)) : i \in S}
<1>1. \A i \in S : IsFiniteSet(earlier(i)) /\ Cardinality(earlier(i)) \in Nat
  <2>1. \A i \in S : earlier(i) \in SUBSET Tasks
    BY DEF TypeOK
  <2> HIDE DEF earlier
  <2>2. ASSUME NEW i \in S PROVE IsFiniteSet(earlier(i)) /\ Cardinality(earlier(i)) \in Nat
    BY <2>1, FS_Subset, FS_CardinalityType, PairWorkersAssumption DEF PairWorkersAssumption
  <2> QED BY <2>2
<1>2. PICK n \in counts : \A m \in counts : ~(m < n)
  <2>1. counts \subseteq Nat /\ counts # {}
    BY <1>1
  <2>2. \E n \in counts : \A m \in counts : <<m, n>> \notin OpToRel(<, Nat)
    <3> HIDE DEF counts
    <3> QED BY <2>1, NatLessThanWellFounded, WFMin
  <2> HIDE DEF counts
  <2> QED BY <2>1, <2>2 DEF OpToRel
<1>3. PICK i \in S : n = Cardinality(earlier(i))
  OBVIOUS
<1>4. ASSUME NEW k \in S, <<k, i>> \in older PROVE FALSE
  <2>1. earlier(k) \subseteq earlier(i) /\ k \in earlier(i) /\ k \notin earlier(k)
    BY <1>4 DEF Ranked
  <2> HIDE DEF earlier
  <2>2. Cardinality(earlier(k)) <= Cardinality(earlier(i))
        /\ Cardinality(earlier(k)) # Cardinality(earlier(i))
    BY <1>1, <2>1, FS_Subset
  <2> QED BY <1>1, <1>2, <1>3, <2>2
<1> QED BY <1>4 DEF Ranked

LEMMA NextInv == Inv /\ [Next]_vars => Inv'
<1> SUFFICES ASSUME Inv, [Next]_vars PROVE Inv'
  OBVIOUS
<1>0. Ranked'
  BY RankedStep
<1>1. CASE UNCHANGED vars
  BY <1>0, <1>1 DEF vars, Inv, TypeOK, Locked, Arcs, Uses, Entries, LoadsAlone, Loading
<1>2. ASSUME NEW t \in Tasks, EnsureLoaded(t)
      PROVE  Inv'
  BY <1>0, <1>2, EnsureKeeps, RequestTypes DEF Inv
<1>3. ASSUME NEW t \in Tasks, LoadDone(t)
      PROVE  Inv'
  BY <1>0, <1>3, LoadDoneKeeps, LoadTypes DEF Inv
<1>4. ASSUME NEW t \in Tasks,
             Start(t) \/ InstallLeg(t) \/ InstallFails(t) \/ LoadFails(t) \/ Abandon(t)
      PROVE  Inv'
  BY <1>0, <1>4, EndsKeep, RequestTypes, LoadTypes DEF Inv
<1>5. ASSUME NEW t \in Tasks, Submit(t) \/ Prepared(t) \/ AnswerJob(t) \/ Return(t)
      PROVE  Inv'
  BY <1>0, <1>5, UseKeeps, UseTypes DEF Inv
<1>6. ASSUME NEW t \in Tasks, Close(t) \/ Unload(t) \/ Age(t)
      PROVE  Inv'
  BY <1>0, <1>6, EntryKeeps, EntryTypes DEF Inv
<1>7. CASE CheckBudget \/ Evict \/ SweepExcess
  BY <1>0, <1>7, EvictionKeeps, EvictionTypes DEF Inv
<1>8. CASE Sweep \/ MemoryPressure \/ EnforceBudget
  BY <1>0, <1>8, KeeperKeeps, KeeperTypes DEF Inv
<1>9. CASE \/ \E p \in Removable : UnloadPair(p)
           \/ DeleteFiles
           \/ \E p \in Pairs : InstallPair(p)
  BY <1>0, <1>9, StoreKeeps, StoreTypes DEF Inv
<1> QED BY <1>1, <1>2, <1>3, <1>4, <1>5, <1>6, <1>7, <1>8, <1>9 DEF Next

LEMMA InvAlways == Spec => []Inv
  BY InitInv, NextInv, PTL DEF Spec

\* Every variable of the registry has its type: what a PreparePair still has to
\* install is its pair or the legs of its route, and the lock has an owner
\* exactly while a load or an eviction loop runs.
THEOREM TypeCorrect == Spec => []TypeOK
  BY InvAlways, PTL DEF Inv

\* No request that ended, failed, or was dropped in the middle of a load keeps
\* the map's lock: a task has it from the start of its load until its budget is
\* enforced, and otherwise it is the keeper's or free.
THEOREM LockFollowsLoads == Spec => [](\A t \in Tasks : lock = t <=> pc[t] = "loading")
<1>1. Inv => \A t \in Tasks : lock = t <=> pc[t] = "loading"
  BY DEF Inv, Locked
<1> QED BY <1>1, InvAlways, PTL

\* No eviction, sweep, memory pressure or RemovePair closes an entry that a task
\* holds, whichever step of the task it comes between: run_translation's second
\* try (workers.rs:92) is never needed.
THEOREM HeldStaysOpen == Spec => []HeldIsOpen
<1>1. Inv => HeldIsOpen
  BY DEF Inv, Arcs, HeldIsOpen
<1> QED BY <1>1, InvAlways, PTL

\* The lock is held from the look at the map until the entry is in it, so no
\* load replaces an entry of its route.
THEOREM LoadsAreSingle == Spec => LoadsOnce
<1>1. ASSUME Inv, [Next]_vars, NEW i \in entries, NEW k \in entries' \ entries
      PROVE  Route(i) # Route(k)
  <2>1. PICK t \in Tasks : LoadDone(t)
    <3>1. \A t \in Tasks : EnsureLoaded(t) => entries' = entries
      BY DEF EnsureLoaded
    <3>2. \A t \in Tasks :
            Start(t) \/ InstallLeg(t) \/ InstallFails(t) \/ LoadFails(t) \/ Abandon(t)
              \/ Submit(t) \/ Prepared(t) \/ AnswerJob(t) \/ Return(t)
              \/ Close(t) \/ Unload(t) \/ Age(t) => entries' = entries
      BY DEF Start, InstallLeg, InstallFails, LoadFails, Abandon, Submit, Prepared, AnswerJob,
             Return, Close, Unload, Age
    <3>3. CheckBudget \/ Evict \/ SweepExcess \/ Sweep \/ MemoryPressure \/ EnforceBudget
            => entries' \subseteq entries
      BY DEF CheckBudget, Evict, SweepExcess, Sweep, MemoryPressure, EnforceBudget, KeeperTakes,
             Keep
    <3>4. (\/ \E p \in Removable : UnloadPair(p)
           \/ DeleteFiles
           \/ \E p \in Pairs : InstallPair(p)) => entries' \subseteq entries
      BY DEF UnloadPair, DeleteFiles, InstallPair, Keep
    <3> QED BY <1>1, <3>1, <3>2, <3>3, <3>4 DEF Next, vars
  <2>2. k = t /\ Loading(t)
    BY <1>1, <2>1 DEF LoadDone
  <2> QED BY <1>1, <2>2 DEF Inv, LoadsAlone
<1>2. Inv /\ [Next]_vars
        => [\A i \in entries : \A k \in entries' \ entries : Route(i) # Route(k)]_vars
  BY <1>1
<1> QED BY <1>2, InvAlways, PTL DEF Spec, LoadsOnce
\* Whatever is idle has a least recently used entry among it: the budget loop
\* never looks for one in vain.
THEOREM LeastRecentExists == Spec => [](Unpinned # {} => \E i \in Unpinned : LeastRecent(i))
<1>1. ASSUME Inv, Unpinned # {} PROVE \E i \in Unpinned : LeastRecent(i)
  <2>1. PICK i \in Unpinned : \A k \in Unpinned \ {i} : <<i, k>> \in older
    BY <1>1, LeastExists DEF Inv, Unpinned
  <2> QED BY <2>1 DEF LeastRecent, Newer
<1> QED BY <1>1, InvAlways, PTL

\* The budget loop and the sweeper evict in the order of last use, and a sweep
\* leaves no more idle entries than keep_warm: the first of those it leaves has
\* all the others among the fewer than keep_warm entries used after it.
THEOREM EvictionsFollowUse == Spec => EvictsLeastRecent
<1> USE DEF Inv
<1>1. ASSUME Inv, CheckBudget, NEW i \in victims', NEW k \in Unpinned \ victims'
      PROVE  <<i, k>> \in older
  <2>1. i \in Unpinned /\ LeastRecent(i) /\ victims' = {i}
    BY <1>1 DEF CheckBudget, Unlock
  <2> QED BY <1>1, <2>1 DEF LeastRecent, Newer
<1>2. ASSUME Inv PROVE \A i : IsFiniteSet(Newer(i)) /\ Cardinality(Newer(i)) \in Nat
  <2>1. ASSUME NEW i PROVE IsFiniteSet(Newer(i))
    BY <1>2, FS_Subset, PairWorkersAssumption
       DEF TypeOK, Newer, Unpinned, PairWorkersAssumption
  <2> QED BY <2>1, FS_CardinalityType
<1>3. ASSUME Inv, SweepExcess, NEW i \in victims', NEW k \in Unpinned \ victims'
      PROVE  <<i, k>> \in older
  <2>1. /\ i \in Unpinned /\ Cardinality(Newer(i)) >= KEEP_WARM
        /\ k \in Unpinned /\ ~(Cardinality(Newer(k)) >= KEEP_WARM) /\ KEEP_WARM \in Nat
    BY <1>3, PairWorkersAssumption DEF SweepExcess, PairWorkersAssumption
  <2>2. CASE <<k, i>> \in older
    <3>1. Newer(i) \subseteq Newer(k)
      BY <1>3, <2>1, <2>2 DEF Ranked, Newer, Unpinned
    <3>2. Cardinality(Newer(i)) <= Cardinality(Newer(k))
      BY <1>2, <1>3, <3>1, FS_Subset
    <3> QED BY <1>2, <1>3, <2>1, <3>2
  <2> QED BY <1>3, <2>1, <2>2 DEF Ranked, Unpinned
<1>4. ASSUME Inv, SweepExcess PROVE Cardinality(Unpinned \ victims') <= KEEP_WARM
  <2> DEFINE warm == Unpinned \ victims'
  <2>1. KEEP_WARM \in Nat /\ warm \subseteq Unpinned /\ warm \in SUBSET entries
        /\ \A i \in warm : ~(Cardinality(Newer(i)) >= KEEP_WARM)
    BY <1>4, PairWorkersAssumption DEF SweepExcess, Unpinned, PairWorkersAssumption
  <2> HIDE DEF warm
  <2> SUFFICES Cardinality(warm) <= KEEP_WARM
    BY DEF warm
  <2>2. CASE warm = {}
    <3>1. Cardinality(warm) = 0
      BY <2>2, FS_EmptySet
    <3> QED BY <2>1, <3>1
  <2>3. CASE warm # {}
    <3>1. PICK i \in warm : \A k \in warm \ {i} : <<i, k>> \in older
      BY <1>4, <2>1, <2>3, LeastExists
    <3>2. warm \subseteq Newer(i) \cup {i}
      BY <2>1, <3>1 DEF Newer
    <3>0. IsFiniteSet(Newer(i)) /\ Cardinality(Newer(i)) \in Nat
      BY <1>2, <1>4
    <3>3. IsFiniteSet(Newer(i) \cup {i})
          /\ (\/ Cardinality(Newer(i) \cup {i}) = Cardinality(Newer(i))
              \/ Cardinality(Newer(i) \cup {i}) = Cardinality(Newer(i)) + 1)
      BY <3>0, FS_AddElement, Zenon
    <3>4. IsFiniteSet(warm) /\ Cardinality(warm) <= Cardinality(Newer(i) \cup {i})
      BY <3>2, <3>3, FS_Subset
    <3>5. Cardinality(warm) \in Nat /\ Cardinality(Newer(i) \cup {i}) \in Nat
      BY <3>3, <3>4, FS_CardinalityType
    <3> QED BY <2>1, <3>0, <3>3, <3>4, <3>5
  <2> QED BY <2>2, <2>3
<1>5. Inv /\ [Next]_vars
        => [/\ CheckBudget \/ SweepExcess =>
                  \A i \in victims' : \A k \in Unpinned \ victims' : <<i, k>> \in older
            /\ SweepExcess => Cardinality(Unpinned \ victims') <= KEEP_WARM]_vars
  BY <1>1, <1>3, <1>4
<1> QED BY <1>5, InvAlways, PTL DEF Spec, EvictsLeastRecent
-----------------------------------------------------------------------------
(* Every entry keeps to RouteLife: each step is one, or none, of entry k's *)

LifeStep(k) == [Life(k)!Next]_(Life(k)!vars)

LEMMA LifeInit == Init => \A k \in Tasks : Life(k)!Init
  BY PairWorkersAssumption DEF Init, Life!Init, Holders, PairWorkersAssumption

\* A step that leaves the lives, the jobs and the Arcs alone can only unmap.
LEMMA LifeUnmap ==
    ASSUME NEW k \in Tasks, entries' \subseteq entries, UNCHANGED <<life, jobs, arc>>
    PROVE  LifeStep(k)
  BY DEF LifeStep, Life!Next, Life!Unmap, Life!vars, Holders

\* A task that lets go of what it holds, if it holds anything.
LEMMA LifeLetGo ==
    ASSUME TypeOK, NEW k \in Tasks, NEW t \in Tasks, arc' = [arc EXCEPT ![t] = None],
           UNCHANGED <<life, jobs, entries>>
    PROVE  LifeStep(k)
<1>0. None # k
  BY PairWorkersAssumption DEF PairWorkersAssumption
<1>1. Holders(k)' = Holders(k) \ {t}
  BY <1>0 DEF Holders, TypeOK
<1>2. CASE t \in Holders(k)
  BY <1>1, <1>2 DEF LifeStep, Life!Next, Life!LetGo
<1>3. CASE t \notin Holders(k)
  BY <1>1, <1>3 DEF LifeStep, Life!vars
<1> QED BY <1>2, <1>3

LEMMA LifeEnsure ==
    ASSUME Inv, NEW k \in Tasks, NEW t \in Tasks, EnsureLoaded(t)
    PROVE  LifeStep(k)
<1>1. UNCHANGED <<life, jobs, entries>>
  BY EnsureCases
<1>2. CASE UNCHANGED arc
  BY <1>1, <1>2, LifeUnmap
<1>3. ASSUME NEW i \in entries, EnsureFound(t, i)
      PROVE  LifeStep(k)
  <2>1. arc[t] = None /\ None # k /\ arc' = [arc EXCEPT ![t] = i]
    BY <1>3, PairWorkersAssumption
       DEF Inv, Arcs, Uses, EnsureFound, Goto, PairWorkersAssumption
  <2>2. t \notin Holders(k) /\ Holders(k)' = IF k = i THEN Holders(k) \cup {t} ELSE Holders(k)
    BY <2>1 DEF Inv, TypeOK, Holders
  <2>3. CASE k = i
    BY <1>1, <2>2, <2>3 DEF LifeStep, Life!Next, Life!Acquire
  <2>4. CASE k # i
    BY <1>1, <2>2, <2>4 DEF LifeStep, Life!vars
  <2> QED BY <2>3, <2>4
<1> QED BY <1>2, <1>3, EnsureCases DEF EnsureNoPlan, EnsureLoads

\* LoadsAlone: the insertion leaves every other entry where it is.
LEMMA LifeLoadDone ==
    ASSUME Inv, NEW k \in Tasks, NEW t \in Tasks, LoadDone(t)
    PROVE  LifeStep(k)
<1>1. /\ life[t] = "absent" /\ arc[t] = None /\ None # k /\ UNCHANGED jobs
      /\ life' = [life EXCEPT ![t] = "open"] /\ arc' = [arc EXCEPT ![t] = t]
  BY PairWorkersAssumption
     DEF Inv, Arcs, Uses, LoadDone, Loading, PairWorkersAssumption
<1>2. entries' = entries \cup {t}
  BY DEF Inv, LoadsAlone, LoadDone
<1>3. CASE k = t
  <2>1. Holders(t) = {} /\ Holders(t)' = {t}
    <3>1. \A u \in Tasks : arc[u] # t
      BY <1>1, PairWorkersAssumption DEF Inv, TypeOK, Arcs, PairWorkersAssumption
    <3> QED BY <1>1, <3>1 DEF Inv, TypeOK, Holders
  <2> QED BY <1>1, <1>2, <1>3, <2>1 DEF Inv, TypeOK, LifeStep, Life!Next, Life!Load
<1>4. CASE k # t
  <2>1. Holders(k)' = Holders(k)
    BY <1>1, <1>4 DEF Inv, TypeOK, Holders
  <2> QED BY <1>1, <1>2, <1>4, <2>1 DEF Inv, TypeOK, LifeStep, Life!vars
<1> QED BY <1>3, <1>4

LEMMA LifeSubmit ==
    ASSUME Inv, NEW k \in Tasks, NEW t \in Tasks, Submit(t)
    PROVE  LifeStep(k)
<1>1. /\ arc[t] \in Tasks /\ life[arc[t]] = "open" /\ t \notin jobs[arc[t]]
      /\ jobs' = [jobs EXCEPT ![arc[t]] = @ \cup {t}] /\ UNCHANGED <<life, entries, arc>>
  BY DEF Submit, Inv, TypeOK, Arcs, Uses, Entries
<1>2. CASE k = arc[t]
  BY <1>1, <1>2 DEF Inv, TypeOK, Holders, LifeStep, Life!Next, Life!Accept
<1>3. CASE k # arc[t]
  BY <1>1, <1>3 DEF Inv, TypeOK, Holders, LifeStep, Life!vars
<1> QED BY <1>2, <1>3

LEMMA LifeAnswer ==
    ASSUME Inv, NEW k \in Tasks, NEW i \in Tasks, AnswerJob(i)
    PROVE  LifeStep(k)
<1>1. /\ life[i] # "unloaded" /\ UNCHANGED <<life, entries, arc>>
      /\ \E t \in jobs[i] : jobs' = [jobs EXCEPT ![i] = @ \ {t}]
  BY DEF AnswerJob
<1>2. CASE k = i
  BY <1>1, <1>2 DEF Inv, TypeOK, Holders, LifeStep, Life!Next, Life!Complete
<1>3. CASE k # i
  BY <1>1, <1>3 DEF Inv, TypeOK, Holders, LifeStep, Life!vars
<1> QED BY <1>2, <1>3

LEMMA LifeEnds ==
    ASSUME Inv, NEW k \in Tasks, NEW i \in Tasks, Close(i) \/ Unload(i)
    PROVE  LifeStep(k)
<1>1. CASE k = i
  BY <1>1 DEF Close, Unload, Inv, TypeOK, Holders, LifeStep, Life!Next, Life!Close, Life!Unload
<1>2. CASE k # i
  BY <1>2 DEF Close, Unload, Inv, TypeOK, Holders, LifeStep, Life!vars
<1> QED BY <1>1, <1>2

\* The registry gives every route what RouteScheduler implements: an entry gets
\* work only while it is open and from a task that holds it, closes only when it
\* is out of the map and nobody holds it, and unloads without jobs.
THEOREM EntriesKeepContract == Spec => EntriesImplementLife
<1>1. ASSUME Inv, [Next]_vars, NEW k \in Tasks
      PROVE  LifeStep(k)
  <2> USE DEF Inv
  <2>1. ASSUME NEW t \in Tasks,
               Start(t) \/ InstallLeg(t) \/ InstallFails(t) \/ LoadFails(t) \/ Age(t)
        PROVE  LifeStep(k)
    BY <2>1, LifeUnmap DEF Start, InstallLeg, InstallFails, LoadFails, Age
  <2>2. ASSUME NEW t \in Tasks, Abandon(t) \/ Prepared(t) \/ Return(t)
        PROVE  LifeStep(k)
    <3>1. arc' = [arc EXCEPT ![t] = None] /\ UNCHANGED <<life, jobs, entries>>
      BY <2>2 DEF Abandon, Prepared, Return
    <3> QED BY <1>1, <3>1, LifeLetGo
  <2>3. CASE CheckBudget \/ Evict \/ SweepExcess \/ Sweep \/ MemoryPressure \/ EnforceBudget
    BY <2>3, LifeUnmap DEF CheckBudget, Evict, SweepExcess, Sweep, MemoryPressure, EnforceBudget,
       KeeperTakes, Keep
  <2>4. CASE \/ \E p \in Removable : UnloadPair(p)
             \/ DeleteFiles
             \/ \E p \in Pairs : InstallPair(p)
    BY <2>4, LifeUnmap DEF UnloadPair, DeleteFiles, InstallPair, Keep
  <2>5. CASE UNCHANGED vars
    BY <2>5, LifeUnmap DEF vars
  <2> QED
    BY <1>1, <2>1, <2>2, <2>3, <2>4, <2>5, LifeEnsure, LifeLoadDone, LifeSubmit, LifeAnswer,
       LifeEnds DEF Next
<1>2. Inv /\ [Next]_vars => [\A i \in Tasks : [Life(i)!Next]_(Life(i)!vars)]_vars
  BY <1>1 DEF LifeStep
<1>3. Spec => \A i \in Tasks : Life(i)!Init
  BY LifeInit DEF Spec
<1> QED BY <1>2, <1>3, InvAlways, PTL DEF Spec, EntriesImplementLife
============================================================================
