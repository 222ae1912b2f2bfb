-------------------------- MODULE RouteScheduler --------------------------
(***************************************************************************)
(* One loaded route of the daemon: the queue that request tasks submit to  *)
(* (PairEntry::submit), the scheduler task that serves it (run_scheduler), *)
(* the engine thread behind it (dragoman_engine::Worker) and the end of    *)
(* the route (Drop for PairEntry, Drop for Worker).                        *)
(*                                                                         *)
(* A job is one call of run_translation (service.rs).  Each critical       *)
(* section of the queue's mutex is one action; what a thread does between  *)
(* two of them that another thread can observe is an action of its own.    *)
(***************************************************************************)
EXTENDS Integers, Sequences, FiniteSets

CONSTANTS Jobs,         \* the jobs of this route (finite)
          Priority,     \* [Jobs -> {"interactive", "batch"}]
          Segments,     \* [Jobs -> Nat \ {0}]: how many segments a job has
          BATCH_CHUNK,  \* segments of a batch job translated at a time
          Flagged,      \* jobs whose submitter keeps and may raise the flag
          NoJob         \* no job in the scheduler's hands

ASSUME RouteAssumption ==
    /\ IsFiniteSet(Jobs)
    /\ Priority \in [Jobs -> {"interactive", "batch"}]
    /\ Segments \in [Jobs -> Nat \ {0}]
    /\ BATCH_CHUNK \in Nat \ {0}
    /\ Flagged \subseteq Jobs
    /\ NoJob \notin Jobs

VARIABLES
    (* PairQueue *)
    interactive, batch,  \* the two deques, Seq(Jobs)
    closed,              \* QueueInner::closed
    active,              \* jobs accepted and not yet finished
    permit,              \* the one permit of tokio::sync::Notify
    (* PairEntry *)
    mapped,              \* PairWorkers.entries still holds an Arc of it
    entry,               \* "alive", "closing" (inside drop), "dropped"
    (* request tasks, one per job *)
    caller,              \* where run_translation stands for the job
    cancelled,           \* the job's flag
    answer,              \* what the reply channel was given
    (* run_scheduler *)
    sched,               \* its program counter
    job,                 \* the popped job, or NoJob
    result,              \* what the engine, or the flag, says of job
    sent,                \* segments of job the engine was given
    remaining, done,     \* segments of each job still to do, and done
    (* Worker *)
    engine,              \* "idle", "busy", "exited"
    (* history *)
    overtaken            \* batch segments started while the job was queued

queueVars  == <<interactive, batch, closed, active, permit>>
entryVars  == <<mapped, entry>>
callerVars == <<caller, cancelled>>
schedVars  == <<sched, job, result, sent, remaining, done>>
vars == <<queueVars, entryVars, callerVars, answer, schedVars, engine, overtaken>>

CallerStates == {"idle", "holding", "pushed", "waiting", "done", "gone", "refused"}
SchedStates  == {"pop", "wait", "picked", "sent", "got", "finish", "reply",
                 "drain", "shutdown", "ended"}
Results      == {"none", "ok", "error", "cancelled"}

Elems(s)    == {s[i] : i \in DOMAIN s}
LesserOf(a, b) == IF a < b THEN a ELSE b

\* The tasks that keep an Arc of the entry: from ensure_loaded's return to the
\* answer, or until the task is dropped.
Holders == {j \in Jobs : caller[j] \in {"holding", "pushed", "waiting"}}

Init ==
    /\ interactive = <<>> /\ batch = <<>>
    /\ closed = FALSE /\ active = 0 /\ permit = FALSE
    /\ mapped = TRUE /\ entry = "alive"
    /\ caller = [j \in Jobs |-> "idle"]
    /\ cancelled = [j \in Jobs |-> FALSE]
    /\ answer = [j \in Jobs |-> "none"]
    /\ sched = "pop" /\ job = NoJob /\ result = "none" /\ sent = 0
    /\ remaining = Segments /\ done = [j \in Jobs |-> 0]
    /\ engine = "idle"
    /\ overtaken = [j \in Jobs |-> 0]
-----------------------------------------------------------------------------
(* Request tasks *)

\* ensure_loaded finds the route in the map and clones its Arc.
Acquire(j) ==
    /\ caller[j] = "idle" /\ mapped
    /\ caller' = [caller EXCEPT ![j] = "holding"]
    /\ UNCHANGED <<queueVars, entryVars, cancelled, answer, schedVars, engine, overtaken>>

\* Variants of definitions below carry the name of the slip they make.
SubmitUncounted(j) ==
    /\ caller[j] = "holding"
    /\ caller' = [caller EXCEPT ![j] = "pushed"]
    /\ IF Priority[j] = "interactive"
       THEN interactive' = Append(interactive, j) /\ UNCHANGED batch
       ELSE batch' = Append(batch, j) /\ UNCHANGED interactive
    /\ UNCHANGED <<closed, active, permit, entryVars, cancelled, answer,
                   schedVars, engine, overtaken>>

\* submit, inside the queue's lock: refused when the queue is closed, else
\* counted and pushed at the back of its class.
Submit(j) ==
    /\ caller[j] = "holding"
    /\ IF closed
       THEN /\ caller' = [caller EXCEPT ![j] = "refused"]
            /\ UNCHANGED <<interactive, batch, active>>
       ELSE /\ caller' = [caller EXCEPT ![j] = "pushed"]
            /\ active' = active + 1
            /\ IF Priority[j] = "interactive"
               THEN interactive' = Append(interactive, j) /\ UNCHANGED batch
               ELSE batch' = Append(batch, j) /\ UNCHANGED interactive
    /\ UNCHANGED <<closed, permit, entryVars, cancelled, answer, schedVars, engine, overtaken>>

NotifyNobody(j) ==
    /\ caller[j] = "pushed"
    /\ caller' = [caller EXCEPT ![j] = "waiting"]
    /\ UNCHANGED <<queueVars, entryVars, cancelled, answer, schedVars, engine, overtaken>>

\* submit, after the lock: notify_one leaves at most one permit behind.
Notify(j) ==
    /\ caller[j] = "pushed"
    /\ caller' = [caller EXCEPT ![j] = "waiting"]
    /\ permit' = TRUE
    /\ UNCHANGED <<interactive, batch, closed, active, entryVars, cancelled, answer,
                   schedVars, engine, overtaken>>

\* run_translation receives the outcome and lets go of the entry.
Receive(j) ==
    /\ caller[j] = "waiting" /\ answer[j] # "none"
    /\ caller' = [caller EXCEPT ![j] = "done"]
    /\ UNCHANGED <<queueVars, entryVars, cancelled, answer, schedVars, engine, overtaken>>

\* The request is cancelled or its client vanishes: spawn_request's select!
\* drops the waiting task, its receiver and its Arc.  The job stays queued.
Abandon(j) ==
    /\ caller[j] = "waiting"
    /\ caller' = [caller EXCEPT ![j] = "gone"]
    /\ UNCHANGED <<queueVars, entryVars, cancelled, answer, schedVars, engine, overtaken>>

\* A submitter that kept the flag raises it (later, nobody would look at it).
RaiseFlag(j) ==
    /\ j \in Flagged /\ ~cancelled[j] /\ answer[j] = "none"
    /\ caller[j] \in {"pushed", "waiting", "gone"}
    /\ cancelled' = [cancelled EXCEPT ![j] = TRUE]
    /\ UNCHANGED <<queueVars, entryVars, caller, answer, schedVars, engine, overtaken>>
-----------------------------------------------------------------------------
(* The end of the entry *)

\* Eviction or unload_pair takes the route out of the map (PairWorkers).
Unmap ==
    /\ mapped /\ mapped' = FALSE
    /\ UNCHANGED <<queueVars, entry, callerVars, answer, schedVars, engine, overtaken>>

CloseWhenUnmapped ==
    /\ entry = "alive" /\ ~mapped
    /\ closed' = TRUE /\ entry' = "closing"
    /\ UNCHANGED <<interactive, batch, active, permit, mapped, callerVars, answer,
                   schedVars, engine, overtaken>>

\* Whoever lets go of the last Arc runs Drop for PairEntry: it closes the
\* queue under the lock ...
CloseQueue ==
    /\ entry = "alive" /\ ~mapped /\ Holders = {}
    /\ closed' = TRUE /\ entry' = "closing"
    /\ UNCHANGED <<interactive, batch, active, permit, mapped, callerVars, answer,
                   schedVars, engine, overtaken>>

\* ... and then wakes the scheduler.
DropNotify ==
    /\ entry = "closing" /\ entry' = "dropped"
    /\ permit' = TRUE
    /\ UNCHANGED <<interactive, batch, closed, active, mapped, callerVars, answer,
                   schedVars, engine, overtaken>>
-----------------------------------------------------------------------------
(* run_scheduler *)

\* Under the lock: the oldest interactive job, else the oldest batch job, else
\* leave the loop when the queue is closed, else go and wait.
Pop ==
    /\ sched = "pop"
    /\ \/ /\ interactive # <<>>
          /\ job' = Head(interactive) /\ interactive' = Tail(interactive) /\ sched' = "picked"
          /\ UNCHANGED batch
       \/ /\ interactive = <<>> /\ batch # <<>>
          /\ job' = Head(batch) /\ batch' = Tail(batch) /\ sched' = "picked"
          /\ UNCHANGED interactive
       \/ /\ interactive = <<>> /\ batch = <<>>
          /\ sched' = IF closed THEN "drain" ELSE "wait"
          /\ UNCHANGED <<interactive, batch, job>>
    /\ UNCHANGED <<closed, active, permit, entryVars, callerVars, answer, result,
                   sent, remaining, done, engine, overtaken>>

\* notified().await takes the permit.
AwaitNotify ==
    /\ sched = "wait" /\ permit
    /\ permit' = FALSE /\ sched' = "pop"
    /\ UNCHANGED <<interactive, batch, closed, active, entryVars, callerVars, answer,
                   job, result, sent, remaining, done, engine, overtaken>>

WholeJob(j) == remaining[j]

\* How much of a job goes to the engine at once: all of an interactive job,
\* at most BATCH_CHUNK segments of a batch job.
Chunk(j) == IF Priority[j] = "interactive" THEN remaining[j]
            ELSE LesserOf(remaining[j], BATCH_CHUNK)

\* A job whose flag is up is finished without the engine; otherwise the next
\* chunk is sent to the engine thread.  A thread that is gone refuses it.
StartJob ==
    /\ sched = "picked"
    /\ IF cancelled[job]
       THEN /\ sched' = "finish" /\ result' = "cancelled"
            /\ UNCHANGED <<sent, remaining, engine, overtaken>>
       ELSE /\ sent' = Chunk(job)
            /\ remaining' = [remaining EXCEPT ![job] = @ - Chunk(job)]
            /\ overtaken' = [j \in Jobs |->
                   CASE j = job -> 0
                     [] j # job /\ Priority[job] = "batch" /\ j \in Elems(interactive)
                          -> overtaken[j] + Chunk(job)
                     [] OTHER -> overtaken[j]]
            /\ IF engine = "exited"
               THEN /\ sched' = "got" /\ result' = "error" /\ UNCHANGED engine
               ELSE /\ sched' = "sent" /\ engine' = "busy" /\ UNCHANGED result
    /\ UNCHANGED <<queueVars, entryVars, callerVars, answer, job, done>>

\* The engine thread translates the chunk, fails on it, or dies of it (its
\* reply sender is dropped, which translate reports as WorkerGone).
EngineReply ==
    /\ sched = "sent" /\ engine = "busy"
    /\ \E r \in {"ok", "error"} : \E state \in {"idle", "exited"} :
          /\ state = "exited" => r = "error"
          /\ result' = r /\ engine' = state
    /\ sched' = "got"
    /\ UNCHANGED <<queueVars, entryVars, callerVars, answer, job, sent, remaining, done, overtaken>>

CollectForget ==
    /\ sched = "got"
    /\ IF result = "ok" /\ remaining[job] # 0
       THEN sched' = "pop" /\ job' = NoJob /\ result' = "none"
       ELSE sched' = "finish" /\ UNCHANGED <<job, result>>
    /\ sent' = 0
    /\ UNCHANGED <<queueVars, entryVars, callerVars, answer, remaining, done, engine, overtaken>>

CollectAnyway ==
    /\ sched = "got"
    /\ IF remaining[job] # 0
       THEN /\ batch' = <<job>> \o batch /\ sched' = "pop"
            /\ job' = NoJob /\ result' = "none"
       ELSE /\ sched' = "finish" /\ UNCHANGED <<batch, job, result>>
    /\ done' = [done EXCEPT ![job] = IF result = "ok" THEN @ + sent ELSE @] /\ sent' = 0
    /\ UNCHANGED <<interactive, closed, active, permit, entryVars, callerVars, answer,
                   remaining, engine, overtaken>>

CollectToBack ==
    /\ sched = "got"
    /\ IF result = "ok" /\ remaining[job] # 0
       THEN /\ batch' = Append(batch, job) /\ sched' = "pop"
            /\ job' = NoJob /\ result' = "none"
       ELSE /\ sched' = "finish" /\ UNCHANGED <<batch, job, result>>
    /\ done' = [done EXCEPT ![job] = IF result = "ok" THEN @ + sent ELSE @] /\ sent' = 0
    /\ UNCHANGED <<interactive, closed, active, permit, entryVars, callerVars, answer,
                   remaining, engine, overtaken>>

\* A translated chunk is added to the job's results; an unfinished job goes
\* back to the front of the batch deque.  An error finishes the job.
Collect ==
    /\ sched = "got"
    /\ IF result = "ok" /\ remaining[job] # 0
       THEN /\ batch' = <<job>> \o batch /\ sched' = "pop"
            /\ job' = NoJob /\ result' = "none"
       ELSE /\ sched' = "finish" /\ UNCHANGED <<batch, job, result>>
    /\ done' = [done EXCEPT ![job] = IF result = "ok" THEN @ + sent ELSE @] /\ sent' = 0
    /\ UNCHANGED <<interactive, closed, active, permit, entryVars, callerVars, answer,
                   remaining, engine, overtaken>>

\* finish, first half: the job no longer pins the route.
Unpin ==
    /\ sched = "finish"
    /\ active' = active - 1 /\ sched' = "reply"
    /\ UNCHANGED <<interactive, batch, closed, permit, entryVars, callerVars, answer,
                   job, result, sent, remaining, done, engine, overtaken>>

\* finish, second half: the reply channel gets the outcome.
Reply ==
    /\ sched = "reply"
    /\ answer' = [answer EXCEPT ![job] = result]
    /\ sched' = "pop" /\ job' = NoJob /\ result' = "none"
    /\ UNCHANGED <<queueVars, entryVars, callerVars, sent, remaining, done, engine, overtaken>>

\* After the loop: whatever is left in the deques is answered.
Drain ==
    /\ sched = "drain" /\ sched' = "shutdown"
    /\ active' = active - Len(interactive) - Len(batch)
    /\ answer' = [j \in Jobs |-> IF j \in Elems(interactive) \cup Elems(batch)
                                 THEN "cancelled" ELSE answer[j]]
    /\ interactive' = <<>> /\ batch' = <<>>
    /\ UNCHANGED <<closed, permit, entryVars, callerVars, job, result, sent, remaining,
                   done, engine, overtaken>>

\* The task ends; the worker goes to the blocking pool to be dropped there.
Shutdown ==
    /\ sched = "shutdown" /\ sched' = "ended"
    /\ UNCHANGED <<queueVars, entryVars, callerVars, answer, job, result, sent,
                   remaining, done, engine, overtaken>>

\* Drop for Worker closes the job channel, at which the engine thread ends and
\* unloads the models, and joins the thread.
DropWorker ==
    /\ sched = "ended" /\ engine # "exited" /\ engine' = "exited"
    /\ UNCHANGED <<queueVars, entryVars, callerVars, answer, schedVars, overtaken>>
-----------------------------------------------------------------------------
CallerStep(j) == Submit(j) \/ Notify(j) \/ Receive(j)
EntryStep     == CloseQueue \/ DropNotify
SchedStep     == \/ Pop \/ AwaitNotify \/ StartJob \/ Collect \/ Unpin \/ Reply
                 \/ Drain \/ Shutdown \/ DropWorker

\* Nothing is left to do: the route is unloaded and no task waits for it.
Finished == /\ sched = "ended" /\ engine = "exited" /\ Holders = {}
            /\ UNCHANGED vars

Next ==
    \/ \E j \in Jobs : Acquire(j) \/ Submit(j) \/ Notify(j) \/ Receive(j)
                       \/ Abandon(j) \/ RaiseFlag(j)
    \/ Unmap \/ CloseQueue \/ DropNotify
    \/ Pop \/ AwaitNotify \/ StartJob \/ EngineReply \/ Collect
    \/ Unpin \/ Reply \/ Drain \/ Shutdown \/ DropWorker
    \/ Finished

\* A task or thread that can run is run (tokio's executor, the OS), and the
\* engine returns from every call.  No request has to come, to be abandoned
\* or to raise its flag, and no route has to be taken out of the map.
Fairness == /\ \A j \in Jobs : WF_vars(CallerStep(j))
            /\ WF_vars(EntryStep)
            /\ WF_vars(SchedStep)
            /\ WF_vars(EngineReply)

Spec == Init /\ [][Next]_vars /\ Fairness
-----------------------------------------------------------------------------
(* Properties *)

TypeOK ==
    /\ interactive \in Seq(Jobs) /\ batch \in Seq(Jobs)
    /\ closed \in BOOLEAN /\ active \in Nat /\ permit \in BOOLEAN
    /\ mapped \in BOOLEAN /\ entry \in {"alive", "closing", "dropped"}
    /\ caller \in [Jobs -> CallerStates]
    /\ cancelled \in [Jobs -> BOOLEAN]
    /\ answer \in [Jobs -> Results]
    /\ sched \in SchedStates /\ job \in Jobs \cup {NoJob} /\ result \in Results
    /\ sent \in Nat /\ remaining \in [Jobs -> Nat] /\ done \in [Jobs -> Nat]
    /\ engine \in {"idle", "busy", "exited"}
    /\ overtaken \in [Jobs -> Nat]

Accepted(j) == caller[j] \in {"pushed", "waiting", "done", "gone"}

\* Jobs that finish has not unpinned yet.
Unfinished == {j \in Jobs : Accepted(j) /\ answer[j] = "none"
                            /\ ~(sched = "reply" /\ job = j)}

\* The pin count is the number of jobs accepted and not finished, whatever the
\* threads are doing ("Jobs accepted and not yet finally answered; > 0 pins the
\* route", workers.rs:68): evictions that trust it never unload work.
ActiveCounts == active = Cardinality(Unfinished)

\* No accepted job is lost: until it is answered it is in exactly one place,
\* one of the deques or the scheduler's hands (push_back, pop_front and
\* push_front of workers.rs pair up on every path).
NoJobLost ==
    \A j \in Jobs : Accepted(j) /\ answer[j] = "none" <=>
        \/ j \in Elems(interactive) \cup Elems(batch)
        \/ job = j

\* A translation that is answered "ok" has every segment of the job: no chunk
\* is dropped or done twice over the job's trips through the batch deque.
OkIsComplete ==
    \A j \in Jobs : answer[j] = "ok" => done[j] = Segments[j] /\ remaining[j] = 0

\* "Interactive jobs go before batch jobs, and batch jobs are processed in
\* chunks so interactive requests can slip in between" (workers.rs:9-10): from
\* the moment submit has queued it, an interactive job sees at most BATCH_CHUNK
\* further batch segments start before it is started itself.
InteractiveDelay == \A j \in Jobs : overtaken[j] <= BATCH_CHUNK

\* Once the queue is closed nobody can submit any more: the refusal in submit
\* and the leftovers after the scheduler's loop are unreachable, because a
\* submitter holds the Arc whose last drop closes the queue.
ClosedIsFinal ==
    /\ \A j \in Jobs : caller[j] # "refused"
    /\ sched \in {"drain", "shutdown", "ended"} => interactive = <<>> /\ batch = <<>>

\* Every accepted job is answered: no wake-up is lost between submit, the
\* scheduler's check of the deques and its notified().await, and no requeued
\* chunk is forgotten (there are finitely many jobs).
AcceptedAnswered == <>[](\A j \in Jobs : Accepted(j) => answer[j] # "none")

\* The route implements JobService: a job in the scheduler's hands is still
\* the oldest of its class.
InHand(c) == IF job # NoJob /\ Priority[job] = c THEN <<job>> ELSE <<>>
Waiting == [c \in {"interactive", "batch"} |->
               InHand(c) \o (IF c = "interactive" THEN interactive ELSE batch)]
Service == INSTANCE JobService WITH waiting <- Waiting
ImplementsService == Service!Spec

\* The route keeps its side of the contract with the registry (RouteLife): it
\* is closed only when nobody can reach it any more, and the models leave
\* memory only when the last accepted job is finished - and then they do.
Unloaded == sched = "ended" /\ engine = "exited"
Stage    == CASE Unloaded -> "unloaded"
              [] ~Unloaded /\ closed -> "closed"
              [] ~Unloaded /\ ~closed -> "open"
Life == INSTANCE RouteLife WITH
    Tasks <- Jobs, holders <- Holders, jobs <- Unfinished, life <- Stage
ImplementsLife == Life!Spec
============================================================================
