----------------------------- MODULE RouteLife -----------------------------
(***************************************************************************)
(* The contract between one loaded route (RouteScheduler) and the registry *)
(* that loads and evicts routes (PairWorkers), crates/dragomand/src/       *)
(* workers.rs: when work is accepted, and when the models may go.  Both    *)
(* modules are shown to implement it, so what the registry assumes of a    *)
(* route is what the scheduler provides, and the other way round.          *)
(***************************************************************************)
CONSTANTS Tasks     \* the request tasks, each with one job at a time

VARIABLES mapped,   \* the registry's map holds an Arc of the entry
          holders,  \* the tasks that hold an Arc of it
          jobs,     \* accepted and not finished: what pins the route
          life      \* "absent", "open", "closed", "unloaded"

vars == <<mapped, holders, jobs, life>>

Init == /\ life \in {"absent", "open"} /\ mapped = (life = "open")
        /\ holders = {} /\ jobs = {}

\* The models are in memory, and the loading task holds the entry.
Load(t) ==
    /\ life = "absent" /\ life' = "open"
    /\ mapped' = TRUE /\ holders' = {t} /\ UNCHANGED jobs

Acquire(t) ==
    /\ mapped /\ t \notin holders /\ holders' = holders \cup {t}
    /\ UNCHANGED <<mapped, jobs, life>>

\* Only an open queue takes a job, and only from a task that holds the entry.
Accept(t) ==
    /\ life = "open" /\ t \in holders \ jobs /\ jobs' = jobs \cup {t}
    /\ UNCHANGED <<mapped, holders, life>>

Complete(t) ==
    /\ life # "unloaded" /\ t \in jobs /\ jobs' = jobs \ {t}
    /\ UNCHANGED <<mapped, holders, life>>

LetGo(t) ==
    /\ t \in holders /\ holders' = holders \ {t}
    /\ UNCHANGED <<mapped, jobs, life>>

\* Out of the map for good: a reloaded route is a new entry.
Unmap ==
    /\ mapped /\ mapped' = FALSE /\ UNCHANGED <<holders, jobs, life>>

\* The last Arc is gone ...
Close ==
    /\ life = "open" /\ ~mapped /\ holders = {}
    /\ life' = "closed" /\ UNCHANGED <<mapped, holders, jobs>>

\* ... and the models leave memory once no job is left.
Unload ==
    /\ life = "closed" /\ jobs = {}
    /\ life' = "unloaded" /\ UNCHANGED <<mapped, holders, jobs>>

Next == \/ \E t \in Tasks : \/ Load(t) \/ Acquire(t) \/ Accept(t)
                            \/ Complete(t) \/ LetGo(t)
        \/ Unmap \/ Close \/ Unload

Spec == Init /\ [][Next]_vars /\ WF_vars(Close) /\ WF_vars(Unload)
=============================================================================
