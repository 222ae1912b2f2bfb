---------------------------- MODULE PairWorkers ----------------------------
(***************************************************************************)
(* The registry of loaded routes (PairWorkers, crates/dragomand/src/       *)
(* workers.rs) with what drives it in service.rs and lifecycle.rs: request *)
(* tasks that load and use routes, the sweeper, memory pressure, SetConfig *)
(* and RemovePair.                                                         *)
(*                                                                         *)
(* The map is behind an async mutex that ensure_loaded holds while models  *)
(* load.  Whether a route is pinned, and when it was last used, is outside *)
(* that mutex: jobs are submitted and finished at any time, also between   *)
(* an eviction's look at a route and its removal from the map.             *)
(* A loaded entry is named by the task that loaded it.  What the route's   *)
(* own scheduler does is RouteScheduler; here it is its contract RouteLife.*)
(***************************************************************************)
EXTENDS Integers, FiniteSets, SequencesExt

CONSTANTS Tasks,             \* the requests that need a route
          Call,              \* [Tasks -> calls]: what each one asks for
          Pairs,             \* <<source, target>>: models in the catalogue
          InitiallyInstalled,
          Removable,         \* pairs that RemovePair may be called for
          PIVOT_LANGUAGE,
          ESTIMATED_MODEL_MB,
          Measured,          \* what the resident set may grow by on a load
          Budgets,           \* the values SetConfig gives memory_budget_mb
          KEEP_WARM,
          None               \* no task, entry or pair

Keeper == "keeper"           \* the lock's owner that is not a request

ASSUME PairWorkersAssumption ==
    /\ IsFiniteSet(Tasks) /\ Keeper \notin Tasks
    /\ None \notin Tasks \cup Pairs \cup {Keeper}
    /\ \A t \in Tasks : /\ Call[t].kind \in {"translate", "prepare"}
                        /\ Call[t].allow_pivot \in BOOLEAN
    /\ InitiallyInstalled \subseteq Pairs /\ Removable \subseteq Pairs
    /\ ESTIMATED_MODEL_MB \in Nat /\ Measured \subseteq Nat
    /\ Budgets \subseteq Nat /\ KEEP_WARM \in Nat

VARIABLES
    (* the registry *)
    lock,       \* who holds PairWorkers.entries: a task, Keeper or None
    phase,      \* what its owner is doing
    entries,    \* the map: the entries in it
    older,      \* <<i, k>>: i's last_used is before k's, both in the map
    limit,      \* the budget the owner is enforcing
    victims,    \* entries found evictable and about to be removed
    stale,      \* entries of the map idle for keep_warm_seconds
    (* the entries *)
    life,       \* [Tasks -> "absent", "open", "closed", "unloaded"]
    jobs,       \* [Tasks -> SUBSET Tasks]: what pins the entry
    via,        \* [Tasks -> "none", "direct", "pivot"]
    cost,       \* [Tasks -> cost_mb]
    (* the requests *)
    pc,
    arc,        \* the entry whose Arc a task holds, or None
    tries,      \* submissions that were refused
    todo,       \* what a PreparePair still has to install
    (* the stores *)
    installed,  \* pairs that resolve() finds
    removing    \* the pair RemovePair has unloaded and not yet deleted

map      == <<entries, older>>
registry == <<lock, phase, map, limit, victims, stale>>
routes   == <<life, jobs, via, cost>>
requests == <<pc, arc, tries, todo>>
stores   == <<installed, removing>>
vars     == <<registry, routes, requests, stores>>

Phases   == {"none", "load", "check", "evict", "expired", "excess", "capacity"}
Ended    == {"done", "failed", "gone"}
PCs      == {"idle", "installing", "wanting", "loading", "holding", "waiting",
             "answered"} \cup Ended

Route(t)   == Call[t].route
Legs(r)    == <<<<r[1], PIVOT_LANGUAGE>>, <<PIVOT_LANGUAGE, r[2]>>>>
CanPivot(r, allow) == allow /\ PIVOT_LANGUAGE \notin {r[1], r[2]}
Pinned(i)  == jobs[i] # {}
Unpinned   == {i \in entries : ~Pinned(i)}
Total      == MapThenSumSet(LAMBDA i : cost[i], entries)
Holders(i) == {t \in Tasks : arc[t] = i}

Init ==
    /\ lock = None /\ phase = "none" /\ entries = {} /\ older = {} /\ limit = 0
    /\ victims = {} /\ stale = {}
    /\ life = [i \in Tasks |-> "absent"] /\ jobs = [i \in Tasks |-> {}]
    /\ via = [i \in Tasks |-> "none"] /\ cost = [i \in Tasks |-> 0]
    /\ pc = [t \in Tasks |-> "idle"] /\ arc = [t \in Tasks |-> None]
    /\ tries = [t \in Tasks |-> 0] /\ todo = [t \in Tasks |-> <<>>]
    /\ installed = InitiallyInstalled /\ removing = None

Goto(t, from, to) == pc[t] = from /\ pc' = [pc EXCEPT ![t] = to]

\* Of the map's entries, only those in set stay.
Keep(set) ==
    /\ entries' = entries \cap set /\ stale' = stale \cap set
    /\ older' = older \cap (set \X set)

\* The order once i has the latest last_used of the set.
Stamped(i, set) ==
    LET others == set \ {i} IN (older \cap (others \X others)) \cup (others \X {i})
-----------------------------------------------------------------------------
(* Requests, up to the route *)

\* plan_route: the direct model if there is one, else both legs if pivoting is
\* allowed and makes sense.
Plan(r, allow) ==
    CASE r \in installed -> "direct"
      [] r \notin installed /\ CanPivot(r, allow) /\ ToSet(Legs(r)) \subseteq installed
           -> "pivot"
      [] OTHER -> "none"

\* Translate fails fast when there is no plan; PreparePair lists what it has
\* to install then, and fails when the daemon may not use the network.
Start(t) ==
    LET plan == Plan(Route(t), Call[t].allow_pivot)
        prepare == Call[t].kind = "prepare" IN
    /\ pc[t] = "idle"
    /\ \E network \in BOOLEAN :
          LET installs == plan = "none" /\ prepare /\ network IN
          /\ pc' = [pc EXCEPT ![t] = CASE plan # "none" -> "wanting"
                                       [] installs -> "installing"
                                       [] OTHER -> "failed"]
          /\ todo' = [todo EXCEPT ![t] =
                 CASE ~installs -> <<>>
                   [] installs /\ CanPivot(Route(t), Call[t].allow_pivot) -> Legs(Route(t))
                   [] OTHER -> <<Route(t)>>]
    /\ UNCHANGED <<registry, routes, arc, tries, stores>>

\* PreparePair installs the next pair unless it is there by now.
InstallLeg(t) ==
    LET next == Head(todo[t]) IN
    /\ pc[t] = "installing"
    /\ next \in Pairs /\ installed' = installed \cup {next}
    /\ todo' = [todo EXCEPT ![t] = Tail(@)]
    /\ pc' = IF Tail(todo[t]) = <<>> THEN [pc EXCEPT ![t] = "wanting"] ELSE pc
    /\ UNCHANGED <<registry, routes, arc, tries, removing>>

\* The catalogue has no such pair, or the download fails.
InstallFails(t) ==
    /\ Goto(t, "installing", "failed") /\ Head(todo[t]) \notin installed
    /\ todo' = [todo EXCEPT ![t] = <<>>]
    /\ UNCHANGED <<registry, routes, arc, tries, stores>>

EnsureUnlocked(t) ==
    /\ pc[t] = "wanting" /\ lock = None
    /\ \/ \E i \in entries :
              /\ Route(i) = Route(t)
              /\ arc' = [arc EXCEPT ![t] = i] /\ Goto(t, "wanting", "holding")
              /\ UNCHANGED <<lock, phase, via>>
       \/ LET plan == Plan(Route(t), Call[t].allow_pivot) IN
              /\ \A i \in entries : Route(i) # Route(t)
              /\ pc' = [pc EXCEPT ![t] = IF plan = "none" THEN "failed" ELSE "loading"]
              /\ via' = [via EXCEPT ![t] = plan]
              /\ UNCHANGED <<lock, phase, arc>>
    /\ UNCHANGED <<map, limit, victims, stale, life, jobs, cost, tries, todo, stores>>

\* ensure_loaded, up to the load: takes the map's lock and returns the entry
\* that is there, whatever it is; without one it plans the route and starts to
\* load it, with the lock held.
EnsureLoaded(t) ==
    /\ pc[t] = "wanting" /\ lock = None
    /\ \/ \E i \in entries :
              /\ Route(i) = Route(t)
              /\ arc' = [arc EXCEPT ![t] = i] /\ Goto(t, "wanting", "holding")
              /\ UNCHANGED <<lock, phase, via>>
       \/ LET plan == Plan(Route(t), Call[t].allow_pivot) IN
              /\ \A i \in entries : Route(i) # Route(t)
              /\ IF plan = "none"
                 THEN Goto(t, "wanting", "failed") /\ UNCHANGED <<lock, phase, via>>
                 ELSE /\ Goto(t, "wanting", "loading")
                      /\ lock' = t /\ phase' = "load" /\ via' = [via EXCEPT ![t] = plan]
              /\ UNCHANGED arc
    /\ UNCHANGED <<map, limit, victims, stale, life, jobs, cost, tries, todo, stores>>

Loading(t) == pc[t] = "loading" /\ life[t] = "absent"

\* The models are in memory: the entry goes into the map, the budget read
\* before the lock was asked for is enforced next.
LoadDone(t) ==
    /\ Loading(t)
    /\ life' = [life EXCEPT ![t] = "open"]
    /\ \E mb \in Measured : cost' = [cost EXCEPT ![t] =
            Max({mb, ESTIMATED_MODEL_MB * (IF via[t] = "pivot" THEN 2 ELSE 1)})]
    /\ arc' = [arc EXCEPT ![t] = t]
    /\ LET others == {i \in entries : Route(i) # Route(t)}
       IN  /\ entries' = others \cup {t} /\ older' = Stamped(t, others)
           /\ stale' = stale \cap others
    /\ phase' = "check" /\ limit' \in Budgets
    /\ UNCHANGED <<lock, victims, jobs, via, pc, tries, todo, stores>>

\* The files are gone or bad, or the engine rejects them.
LoadFails(t) ==
    /\ Loading(t) /\ Goto(t, "loading", "failed")
    /\ lock' = None /\ phase' = "none" /\ via' = [via EXCEPT ![t] = "none"]
    /\ UNCHANGED <<map, limit, victims, stale, life, jobs, cost, arc, tries, todo, stores>>

\* The request is cancelled: select! drops the task at its await and with it
\* the Arc, the lock guard and the worker that was loading.
Abandon(t) ==
    /\ pc[t] \in {"installing", "wanting", "waiting"} \/ Loading(t)
    /\ pc' = [pc EXCEPT ![t] = "gone"]
    /\ arc' = [arc EXCEPT ![t] = None] /\ todo' = [todo EXCEPT ![t] = <<>>]
    /\ IF lock = t
       THEN lock' = None /\ phase' = "none" /\ via' = [via EXCEPT ![t] = "none"]
       ELSE UNCHANGED <<lock, phase, via>>
    /\ UNCHANGED <<map, limit, victims, stale, life, jobs, cost, tries, stores>>
-----------------------------------------------------------------------------
(* Requests, with the route *)

\* run_translation submits its job, which stamps last_used.  A closed entry
\* would refuse it; the task lets go of it and loads the route once more.
Submit(t) ==
    /\ pc[t] = "holding" /\ Call[t].kind = "translate"
    /\ IF life[arc[t]] = "open"
       THEN /\ jobs' = [jobs EXCEPT ![arc[t]] = @ \cup {t}]
            /\ pc' = [pc EXCEPT ![t] = "waiting"]
            /\ older' = IF arc[t] \in entries THEN Stamped(arc[t], entries) ELSE older
            /\ stale' = stale \ {arc[t]}
            /\ UNCHANGED <<arc, tries>>
       ELSE /\ tries' = [tries EXCEPT ![t] = @ + 1]
            /\ pc' = [pc EXCEPT ![t] = IF tries'[t] = 2 THEN "failed" ELSE "wanting"]
            /\ arc' = [arc EXCEPT ![t] = None]
            /\ UNCHANGED <<jobs, older, stale>>
    /\ UNCHANGED <<lock, phase, entries, limit, victims, life, via, cost, todo, stores>>

\* PreparePair reports the route and lets go of it.
Prepared(t) ==
    /\ Call[t].kind = "prepare" /\ Goto(t, "holding", "done")
    /\ arc' = [arc EXCEPT ![t] = None]
    /\ UNCHANGED <<registry, routes, tries, todo, stores>>

\* The entry's scheduler finishes a job (whose task may be gone).
AnswerJob(i) ==
    /\ life[i] \in {"open", "closed"}
    /\ \E t \in jobs[i] :
          /\ jobs' = [jobs EXCEPT ![i] = @ \ {t}]
          /\ pc' = IF pc[t] = "waiting" THEN [pc EXCEPT ![t] = "answered"] ELSE pc
    /\ UNCHANGED <<registry, life, via, cost, arc, tries, todo, stores>>

Return(t) ==
    /\ Goto(t, "answered", "done")
    /\ arc' = [arc EXCEPT ![t] = None]
    /\ UNCHANGED <<registry, routes, tries, todo, stores>>

CloseUnmapped(i) ==
    /\ life[i] = "open" /\ i \notin entries
    /\ life' = [life EXCEPT ![i] = "closed"]
    /\ UNCHANGED <<registry, jobs, via, cost, requests, stores>>

\* Drop for PairEntry, when the last Arc goes.
Close(i) ==
    /\ life[i] = "open" /\ i \notin entries /\ Holders(i) = {}
    /\ life' = [life EXCEPT ![i] = "closed"]
    /\ UNCHANGED <<registry, jobs, via, cost, requests, stores>>

\* The scheduler has served what was queued; the worker is dropped.
Unload(i) ==
    /\ life[i] = "closed" /\ jobs[i] = {}
    /\ life' = [life EXCEPT ![i] = "unloaded"]
    /\ UNCHANGED <<registry, jobs, via, cost, requests, stores>>
-----------------------------------------------------------------------------
(* Evictions *)

\* Who holds the lock gives it back; a task goes on with its entry.
Unlock ==
    /\ lock' = None /\ phase' = "none" /\ victims' = {} /\ limit' = 0
    /\ pc' = IF lock \in Tasks THEN [pc EXCEPT ![lock] = "holding"] ELSE pc

Before(i)      == {k \in Unpinned : <<k, i>> \in older}
Newer(i)       == {k \in Unpinned : <<i, k>> \in older}
LeastRecent(i) == Unpinned = Newer(i) \cup {i}

\* evict_over_budget, the loop's head: the least recently used unpinned entry
\* goes while the map costs more than the budget.  (Here, in Sweep and in
\* SweepExcess one step reads the pins and stamps of all entries; the code
\* reads them entry by entry, while tasks may submit.)
CheckBudget ==
    /\ phase = "check"
    /\ IF Total <= limit \/ Unpinned = {}
       THEN Unlock
       ELSE /\ \E i \in Unpinned : LeastRecent(i) /\ victims' = {i}
            /\ phase' = "evict" /\ UNCHANGED <<lock, limit, pc>>
    /\ UNCHANGED <<map, stale, routes, arc, tries, todo, stores>>

EvictNothing ==
    /\ phase \in {"evict", "expired", "capacity"}
    /\ IF phase = "capacity" THEN Unlock
       ELSE /\ phase' = (IF phase = "evict" THEN "check" ELSE "excess")
            /\ victims' = {} /\ UNCHANGED <<lock, limit, pc>>
    /\ UNCHANGED <<map, stale, routes, arc, tries, todo, stores>>

\* entries.remove: by now a victim may have work again.
Evict ==
    /\ phase \in {"evict", "expired", "capacity"}
    /\ Keep(Tasks \ victims)
    /\ IF phase = "capacity" THEN Unlock
       ELSE /\ phase' = (IF phase = "evict" THEN "check" ELSE "excess")
            /\ victims' = {} /\ UNCHANGED <<lock, limit, pc>>
    /\ UNCHANGED <<routes, arc, tries, todo, stores>>

\* The keeper takes the lock to do what next says.
KeeperTakes(next) ==
    /\ lock = None /\ lock' = Keeper /\ phase' = next
    /\ UNCHANGED <<map, stale, routes, requests, stores>>

SweepNothing ==
    /\ KeeperTakes("expired") /\ UNCHANGED limit
    /\ victims' = {}

\* sweep: first the unpinned entries that were idle for too long ...
Sweep ==
    /\ KeeperTakes("expired") /\ UNCHANGED limit
    /\ victims' = stale \cap Unpinned

\* ... then the least recently used of the unpinned entries beyond keep_warm.
SweepExcess ==
    /\ phase = "excess"
    /\ victims' = {i \in Unpinned : Cardinality(Newer(i)) >= KEEP_WARM}
    /\ phase' = "capacity"
    /\ UNCHANGED <<lock, map, limit, stale, routes, requests, stores>>

\* evict_unpinned, on memory pressure.
MemoryPressure ==
    /\ KeeperTakes("capacity") /\ UNCHANGED limit
    /\ victims' = Unpinned

\* SetConfig: enforce_budget with the new budget.
EnforceBudget ==
    /\ KeeperTakes("check") /\ limit' \in Budgets
    /\ UNCHANGED victims

\* RemovePair, first half: unload_pair drops every entry that uses the pair,
\* pinned or not, and every pivot that shares a language with it.
UnloadPair(p) ==
    LET touches(i) == \/ Route(i) = p
                      \/ via[i] = "pivot" /\ (Route(i)[1] = p[1] \/ Route(i)[2] = p[2]) IN
    /\ lock = None /\ removing = None /\ removing' = p
    /\ Keep({i \in Tasks : ~touches(i)})
    /\ UNCHANGED <<lock, phase, limit, victims, routes, requests, installed>>

\* RemovePair, second half: the user store's copies go.
DeleteFiles ==
    /\ removing # None /\ removing' = None
    /\ installed' = installed \ {removing}
    /\ UNCHANGED <<registry, routes, requests>>

\* InstallPair
InstallPair(p) ==
    /\ p \notin installed /\ installed' = installed \cup {p}
    /\ UNCHANGED <<registry, routes, requests, removing>>

\* keep_warm_seconds pass without a job for the entry.
Age(i) ==
    /\ i \in entries \ stale /\ stale' = stale \cup {i}
    /\ UNCHANGED <<lock, phase, map, limit, victims, routes, requests, stores>>
-----------------------------------------------------------------------------
Next ==
    \/ \E t \in Tasks :
          \/ Start(t) \/ InstallLeg(t) \/ InstallFails(t)
          \/ EnsureLoaded(t) \/ LoadDone(t) \/ LoadFails(t) \/ Abandon(t)
          \/ Submit(t) \/ Prepared(t) \/ AnswerJob(t) \/ Return(t)
          \/ Close(t) \/ Unload(t) \/ Age(t)
    \/ CheckBudget \/ Evict \/ Sweep \/ SweepExcess \/ MemoryPressure \/ EnforceBudget
    \/ \E p \in Removable : UnloadPair(p)
    \/ DeleteFiles
    \/ \E p \in Pairs : InstallPair(p)

\* Whoever waits for the tokio mutex gets it in turn: its queue is first come,
\* first served, so EnsureLoaded and Sweep, which are enabled only while the
\* lock is free, are strongly fair.  Loads, installations and jobs end; the
\* sweeper's timer fires for ever and idle entries grow stale.  No request, no
\* pressure and no configuration change ever has to come.
Fairness ==
    /\ \A t \in Tasks : /\ SF_vars(EnsureLoaded(t))
                        /\ WF_vars(LoadDone(t) \/ LoadFails(t))
                        /\ WF_vars(InstallLeg(t) \/ InstallFails(t))
                        /\ WF_vars(Submit(t) \/ Prepared(t) \/ Return(t))
                        /\ WF_vars(AnswerJob(t))
                        /\ WF_vars(Close(t) \/ Unload(t))
                        /\ WF_vars(Age(t))
    /\ WF_vars(CheckBudget \/ Evict \/ SweepExcess)
    /\ SF_vars(Sweep)

Spec == Init /\ [][Next]_vars /\ Fairness
-----------------------------------------------------------------------------
(* Properties *)

TypeOK ==
    /\ lock \in Tasks \cup {Keeper, None} /\ phase \in Phases
    /\ lock = None <=> phase = "none"
    /\ entries \subseteq Tasks /\ older \subseteq entries \X entries
    /\ limit \in Nat /\ victims \subseteq Tasks /\ stale \subseteq entries
    /\ life \in [Tasks -> {"absent", "open", "closed", "unloaded"}]
    /\ jobs \in [Tasks -> SUBSET Tasks]
    /\ via \in [Tasks -> {"none", "direct", "pivot"}] /\ cost \in [Tasks -> Nat]
    /\ pc \in [Tasks -> PCs] /\ arc \in [Tasks -> Tasks \cup {None}]
    /\ tries \in [Tasks -> 0..2]
    /\ DOMAIN todo = Tasks
    /\ \A t \in Tasks :
          /\ todo[t] \in {<<>>, <<Route(t)>>, Legs(Route(t)), Tail(Legs(Route(t)))}
          /\ pc[t] = "installing" => todo[t] # <<>>
    /\ installed \subseteq Pairs /\ removing \in Pairs \cup {None}

\* The entry a task holds is open, whatever was evicted, swept or removed
\* since it got it: "the route was unloaded under the caller" (workers.rs:92)
\* never happens, and run_translation never has to try again.
HeldIsOpen == \A t \in Tasks : arc[t] # None => life[arc[t]] = "open" /\ tries[t] = 0

\* A route is loaded once, however many requests want it at the same time: an
\* insertion never pushes another entry of the route out of the map.
LoadsOnce ==
    [][\A i \in entries : \A k \in entries' \ entries :
           Route(i) # Route(k)]_vars

\* What the budget loop and the sweeper choose to evict was used before every
\* entry they leave that was idle at that look, whatever jobs, loads and
\* removals stamped between their looks; and of the idle ones a sweep leaves
\* no more than keep_warm.
EvictsLeastRecent ==
    [][/\ CheckBudget \/ SweepExcess =>
             \A i \in victims' : \A k \in Unpinned \ victims' : <<i, k>> \in older
       /\ SweepExcess => Cardinality(Unpinned \ victims') <= KEEP_WARM]_vars

\* Every request ends (there are finitely many): the lock around the map is
\* always given back, by loads that fail or are abandoned and by every eviction
\* loop, and every job is answered wherever its entry went.
EveryTaskEnds == <>[](\A t \in Tasks : pc[t] \in {"idle"} \cup Ended)

\* When requests stop coming, the map gets empty for good and every model leaves
\* memory, in spite of aborted loads, evictions and removals in between; the
\* daemon's idle exit waits for that (lifecycle.rs:51-53).
IdleUnloads ==
    <>[](entries = {} /\ \A i \in Tasks : life[i] \in {"absent", "unloaded"})

\* Every entry keeps to the contract that its scheduler implements: each step
\* of the registry is a step, or none, of every entry's RouteLife.
Life(i) == INSTANCE RouteLife WITH
    mapped <- i \in entries, holders <- Holders(i), jobs <- jobs[i],
    life <- life[i]
EntriesImplementLife ==
    /\ \A i \in Tasks : Life(i)!Init
    /\ [][\A i \in Tasks : [Life(i)!Next]_(Life(i)!vars)]_vars
============================================================================
