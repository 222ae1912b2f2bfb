----------------------- MODULE RouteScheduler_proofs -----------------------
(***************************************************************************)
(* Proofs about RouteScheduler, for any set of jobs, any chunk size and    *)
(* any number of segments.  The inductive invariant comes in two layers:   *)
(* Inv1 says where every job is and what the scheduler holds, Inv2 counts  *)
(* the jobs and the segments that overtook them.  The last two parts show  *)
(* that every step is a step, or none, of the two abstract modules that    *)
(* RouteScheduler implements: RouteLife, the contract with the registry,   *)
(* and JobService, what the callers are promised.  That the abstract steps *)
(* are taken in the end (their fairness) is left to the run `route'.       *)
(***************************************************************************)
EXTENDS RouteScheduler, FiniteSetTheorems, TLAPS

-----------------------------------------------------------------------------
(* Sequences without repetitions, and their elements *)

Distinct(s) == \A m, n \in DOMAIN s : s[m] = s[n] => m = n

\* An appended element is the only new one.
LEMMA ElemsAppend ==
    ASSUME NEW S, NEW s \in Seq(S), NEW x \in S
    PROVE  /\ Append(s, x) \in Seq(S)
           /\ Elems(Append(s, x)) = Elems(s) \cup {x}
<1> DEFINE t == Append(s, x)
<1>1. t \in Seq(S) /\ Len(t) = Len(s) + 1
  OBVIOUS
<1>2. \A n \in 1..Len(t) : t[n] = IF n = Len(t) THEN x ELSE s[n]
  OBVIOUS
<1>3. ASSUME NEW y \in Elems(s) PROVE y \in Elems(t)
  <2>1. PICK n \in 1..Len(s) : y = s[n]
    BY DEF Elems
  <2>2. n \in 1..Len(t) /\ t[n] = y
    BY <2>1, <1>1, <1>2
  <2> QED BY <2>2, <1>1 DEF Elems
<1>4. x \in Elems(t)
  BY <1>1, <1>2 DEF Elems
<1>5. ASSUME NEW y \in Elems(t) PROVE y \in Elems(s) \cup {x}
  BY <1>1, <1>2 DEF Elems
<1> QED BY <1>1, <1>3, <1>4, <1>5

\* A new element may be appended to a sequence without repetitions.
LEMMA DistinctAppend ==
    ASSUME NEW S, NEW s \in Seq(S), NEW x \in S, Distinct(s), x \notin Elems(s)
    PROVE  Distinct(Append(s, x))
<1> DEFINE t == Append(s, x)
<1>1. t \in Seq(S) /\ Len(t) = Len(s) + 1
  OBVIOUS
<1>2. \A n \in 1..Len(t) : t[n] = IF n = Len(t) THEN x ELSE s[n]
  OBVIOUS
<1>3. \A n \in 1..Len(s) : s[n] # x
  BY DEF Elems
<1> QED BY <1>1, <1>2, <1>3 DEF Distinct

\* The same at the front, where run_scheduler puts an unfinished job.
LEMMA ElemsPrepend ==
    ASSUME NEW S, NEW s \in Seq(S), NEW x \in S
    PROVE  /\ <<x>> \o s \in Seq(S)
           /\ Elems(<<x>> \o s) = Elems(s) \cup {x}
<1> DEFINE t == <<x>> \o s
<1>1. t \in Seq(S) /\ Len(t) = Len(s) + 1
  OBVIOUS
<1>2. \A n \in 1..Len(t) : t[n] = IF n = 1 THEN x ELSE s[n - 1]
  OBVIOUS
<1> HIDE DEF t
<1>3. ASSUME NEW y \in Elems(s) PROVE y \in Elems(t)
  <2>1. PICK n \in 1..Len(s) : y = s[n]
    BY DEF Elems
  <2>2. n + 1 \in 1..Len(t) /\ t[n + 1] = y
    BY <2>1, <1>1, <1>2
  <2> QED BY <2>2, <1>1 DEF Elems
<1>4. x \in Elems(t)
  BY <1>1, <1>2 DEF Elems
<1>5. ASSUME NEW y \in Elems(t) PROVE y \in Elems(s) \cup {x}
  BY <1>1, <1>2 DEF Elems
<1>6. Elems(t) = Elems(s) \cup {x}
  BY <1>3, <1>4, <1>5
<1> QED BY <1>1, <1>6 DEF t

\* An element that is new may go to the front of a sequence without repetitions.
LEMMA DistinctPrepend ==
    ASSUME NEW S, NEW s \in Seq(S), NEW x \in S, Distinct(s), x \notin Elems(s)
    PROVE  Distinct(<<x>> \o s)
<1> DEFINE t == <<x>> \o s
<1>1. t \in Seq(S) /\ Len(t) = Len(s) + 1
  OBVIOUS
<1>2. \A n \in 1..Len(t) : t[n] = IF n = 1 THEN x ELSE s[n - 1]
  OBVIOUS
<1>3. \A n \in 1..Len(s) : s[n] # x
  BY DEF Elems
<1> QED BY <1>1, <1>2, <1>3 DEF Distinct

\* Popping takes exactly the head out of a sequence without repetitions.
LEMMA PopFront ==
    ASSUME NEW S, NEW s \in Seq(S), s # <<>>
    PROVE  /\ Head(s) \in S /\ Tail(s) \in Seq(S)
           /\ Elems(s) = Elems(Tail(s)) \cup {Head(s)}
           /\ Distinct(s) => Distinct(Tail(s)) /\ Head(s) \notin Elems(Tail(s))
<1>1. Len(s) > 0 /\ Len(Tail(s)) = Len(s) - 1 /\ Tail(s) \in Seq(S)
  OBVIOUS
<1>2. \A n \in 1..Len(Tail(s)) : Tail(s)[n] = s[n + 1]
  OBVIOUS
<1>3. Head(s) = s[1] /\ Head(s) \in S
  BY <1>1
<1> DEFINE t == Tail(s)
<1>4. t \in Seq(S) /\ Len(t) = Len(s) - 1 /\ \A n \in 1..Len(t) : t[n] = s[n + 1]
  BY <1>1, <1>2
<1> HIDE DEF t
<1>5. Elems(s) = Elems(t) \cup {s[1]}
  <2>1. ASSUME NEW y \in Elems(s), y # s[1] PROVE y \in Elems(t)
    <3>1. PICK n \in 1..Len(s) : y = s[n]
      BY DEF Elems
    <3>2. n - 1 \in 1..Len(t) /\ t[n - 1] = y
      BY <2>1, <3>1, <1>4
    <3> QED BY <3>2, <1>4 DEF Elems
  <2>2. ASSUME NEW y \in Elems(t) PROVE y \in Elems(s)
    BY <1>1, <1>4 DEF Elems
  <2>3. s[1] \in Elems(s)
    BY <1>1 DEF Elems
  <2> QED BY <2>1, <2>2, <2>3
<1>6. ASSUME Distinct(s) PROVE Distinct(t) /\ s[1] \notin Elems(t)
  <2>1. ASSUME NEW m \in 1..Len(t), NEW n \in 1..Len(t), t[m] = t[n] PROVE m = n
    <3>1. m + 1 \in 1..Len(s) /\ n + 1 \in 1..Len(s) /\ s[m + 1] = s[n + 1]
      BY <2>1, <1>4
    <3>2. m + 1 = n + 1
      BY <3>1, <1>6 DEF Distinct
    <3> QED BY <3>2
  <2>2. ASSUME NEW n \in 1..Len(t) PROVE t[n] # s[1]
    <3>1. n + 1 \in 1..Len(s) /\ t[n] = s[n + 1] /\ 1 \in 1..Len(s) /\ n + 1 # 1
      BY <1>1, <1>4
    <3> QED BY <3>1, <1>6 DEF Distinct
  <2>3. Distinct(t)
    BY <2>1, <1>4 DEF Distinct
  <2>4. s[1] \notin Elems(t)
    BY <2>2, <1>4 DEF Elems
  <2> QED BY <2>3, <2>4
<1> QED BY <1>1, <1>3, <1>5, <1>6 DEF t

\* Elements come from the set the sequence is over; only <<>> has none.
LEMMA ElemsType ==
    ASSUME NEW S, NEW s \in Seq(S)
    PROVE  Elems(s) \subseteq S /\ (Elems(s) = {} <=> s = <<>>)
BY DEF Elems
-----------------------------------------------------------------------------
(* The first layer: where every job is *)

Busy == {"picked", "sent", "got", "finish", "reply"}

\* TypeOK but for the sign of active; and no segment is added to a job.
Types ==
    /\ interactive \in Seq(Jobs) /\ batch \in Seq(Jobs)
    /\ closed \in BOOLEAN /\ active \in Int /\ permit \in BOOLEAN
    /\ mapped \in BOOLEAN /\ entry \in {"alive", "closing", "dropped"}
    /\ caller \in [Jobs -> CallerStates]
    /\ cancelled \in [Jobs -> BOOLEAN]
    /\ answer \in [Jobs -> Results]
    /\ sched \in SchedStates /\ job \in Jobs \cup {NoJob} /\ result \in Results
    /\ sent \in Nat /\ remaining \in [Jobs -> Nat] /\ done \in [Jobs -> Nat]
    /\ engine \in {"idle", "busy", "exited"}
    /\ overtaken \in [Jobs -> Nat]
    /\ \A j \in Jobs : remaining[j] <= Segments[j]

\* The scheduler has a job exactly from its pop to its reply, an outcome from
\* the engine's reply on; an interactive job is never sent in part.
Handed ==
    /\ job # NoJob <=> sched \in Busy
    /\ sched \in {"got", "finish", "reply"} => result # "none"
    /\ sched \in {"sent", "got"} /\ Priority[job] = "interactive" => remaining[job] = 0

\* No job is in two places, and each deque holds the jobs of its class.
Placed ==
    /\ Distinct(interactive) /\ Distinct(batch)
    /\ \A j \in Elems(interactive) : Priority[j] = "interactive"
    /\ \A j \in Elems(batch) : Priority[j] = "batch"
    /\ job \notin Elems(interactive) \cup Elems(batch)

\* Only accepted jobs are answered.
AnsweredAccepted == \A j \in Jobs : answer[j] # "none" => Accepted(j)

\* A closed queue is out of reach, and the scheduler leaves its loop only when
\* the queue is closed and empty.
Shut ==
    /\ closed <=> entry # "alive"
    /\ closed => ~mapped /\ Holders = {}
    /\ sched \in {"drain", "shutdown", "ended"} => closed

Inv1 == Types /\ Handed /\ Placed /\ NoJobLost /\ AnsweredAccepted /\ Shut /\ ClosedIsFinal

\* What the scheduler sends is between nothing and all that remains.
LEMMA ChunkBound ==
    ASSUME Types, NEW j \in Jobs
    PROVE  /\ Chunk(j) \in Nat /\ remaining[j] - Chunk(j) \in Nat
           /\ Priority[j] = "batch" => Chunk(j) <= BATCH_CHUNK
           /\ Priority[j] = "interactive" => Chunk(j) = remaining[j]
BY RouteAssumption DEF Types, Chunk, LesserOf

\* Every step keeps the types.
LEMMA TypesStep ==
    ASSUME Types, Handed, [Next]_vars PROVE Types'
<1> USE RouteAssumption DEF queueVars, entryVars, callerVars, schedVars
<1>1. ASSUME NEW j \in Jobs, Acquire(j) PROVE Types'
  <2>1. caller' \in [Jobs -> CallerStates]
    BY <1>1 DEF Acquire, Types, CallerStates
  <2>2. UNCHANGED <<queueVars, entryVars, cancelled, answer, schedVars, engine, overtaken>>
    BY <1>1 DEF Acquire
  <2> QED BY <2>1, <2>2 DEF Types
<1>2. ASSUME NEW j \in Jobs, Submit(j) PROVE Types'
  <2>1. /\ Append(interactive, j) \in Seq(Jobs) /\ Append(batch, j) \in Seq(Jobs)
        /\ active + 1 \in Int
    BY <1>2 DEF Types
  <2>2. /\ interactive' \in Seq(Jobs) /\ batch' \in Seq(Jobs) /\ active' \in Int
        /\ caller' \in [Jobs -> CallerStates]
    BY <1>2, <2>1 DEF Submit, Types, CallerStates, SchedStates, Results, Busy
  <2>3. UNCHANGED <<closed, permit, entryVars, cancelled, answer, schedVars, engine, overtaken>>
    BY <1>2 DEF Submit
  <2> QED BY <2>2, <2>3 DEF Types
<1>3. ASSUME NEW j \in Jobs, Notify(j) PROVE Types'
  <2>1. caller' \in [Jobs -> CallerStates] /\ permit' \in BOOLEAN
    BY <1>3 DEF Notify, Types, CallerStates
  <2>2. UNCHANGED <<interactive, batch, closed, active, entryVars, cancelled, answer,
                schedVars, engine, overtaken>>
    BY <1>3 DEF Notify
  <2> QED BY <2>1, <2>2 DEF Types
<1>4. ASSUME NEW j \in Jobs, Receive(j) PROVE Types'
  <2>1. caller' \in [Jobs -> CallerStates]
    BY <1>4 DEF Receive, Types, CallerStates
  <2>2. UNCHANGED <<queueVars, entryVars, cancelled, answer, schedVars, engine, overtaken>>
    BY <1>4 DEF Receive
  <2> QED BY <2>1, <2>2 DEF Types
<1>5. ASSUME NEW j \in Jobs, Abandon(j) PROVE Types'
  <2>1. caller' \in [Jobs -> CallerStates]
    BY <1>5 DEF Abandon, Types, CallerStates
  <2>2. UNCHANGED <<queueVars, entryVars, cancelled, answer, schedVars, engine, overtaken>>
    BY <1>5 DEF Abandon
  <2> QED BY <2>1, <2>2 DEF Types
<1>6. ASSUME NEW j \in Jobs, RaiseFlag(j) PROVE Types'
  <2>1. cancelled' \in [Jobs -> BOOLEAN]
    BY <1>6 DEF RaiseFlag, Types
  <2>2. UNCHANGED <<queueVars, entryVars, caller, answer, schedVars, engine, overtaken>>
    BY <1>6 DEF RaiseFlag
  <2> QED BY <2>1, <2>2 DEF Types
<1>7. ASSUME Unmap PROVE Types'
  <2>1. mapped' \in BOOLEAN
    BY <1>7 DEF Unmap, Types
  <2>2. UNCHANGED <<queueVars, entry, callerVars, answer, schedVars, engine, overtaken>>
    BY <1>7 DEF Unmap
  <2> QED BY <2>1, <2>2 DEF Types
<1>8. ASSUME CloseQueue PROVE Types'
  <2>1. closed' \in BOOLEAN /\ entry' \in {"alive", "closing", "dropped"}
    BY <1>8 DEF CloseQueue, Types
  <2>2. UNCHANGED <<interactive, batch, active, permit, mapped, callerVars, answer,
                schedVars, engine, overtaken>>
    BY <1>8 DEF CloseQueue
  <2> QED BY <2>1, <2>2 DEF Types
<1>9. ASSUME DropNotify PROVE Types'
  <2>1. permit' \in BOOLEAN /\ entry' \in {"alive", "closing", "dropped"}
    BY <1>9 DEF DropNotify, Types
  <2>2. UNCHANGED <<interactive, batch, closed, active, mapped, callerVars, answer,
                schedVars, engine, overtaken>>
    BY <1>9 DEF DropNotify
  <2> QED BY <2>1, <2>2 DEF Types
<1>10. ASSUME Pop PROVE Types'
  <2>1. /\ interactive # <<>> => Head(interactive) \in Jobs /\ Tail(interactive) \in Seq(Jobs)
        /\ batch # <<>> => Head(batch) \in Jobs /\ Tail(batch) \in Seq(Jobs)
    BY PopFront DEF Types
  <2>2. /\ interactive' \in Seq(Jobs) /\ batch' \in Seq(Jobs) /\ job' \in Jobs \cup {NoJob}
        /\ sched' \in SchedStates
    BY <1>10, <2>1 DEF Pop, Types, CallerStates, SchedStates, Results, Busy
  <2> QED BY <1>10, <2>2 DEF Pop, Types, CallerStates, SchedStates, Results, Busy
<1>11. ASSUME AwaitNotify PROVE Types'
  <2>1. permit' \in BOOLEAN /\ sched' \in SchedStates
    BY <1>11 DEF AwaitNotify, Types, SchedStates
  <2>2. UNCHANGED <<interactive, batch, closed, active, entryVars, callerVars, answer,
                job, result, sent, remaining, done, engine, overtaken>>
    BY <1>11 DEF AwaitNotify
  <2> QED BY <2>1, <2>2 DEF Types
<1>12. ASSUME StartJob PROVE Types'
  <2>1. job \in Jobs
    BY <1>12 DEF StartJob, Handed, Types, CallerStates, SchedStates, Results, Busy
  <2>2. Chunk(job) \in Nat /\ remaining[job] - Chunk(job) \in Nat
    BY <2>1, ChunkBound
  <2>3. /\ remaining' \in [Jobs -> Nat] /\ overtaken' \in [Jobs -> Nat]
        /\ \A j \in Jobs : remaining'[j] <= Segments[j]
    <3>1. CASE cancelled[job]
      BY <1>12, <3>1 DEF StartJob, Types
    <3>2. CASE ~cancelled[job]
      <4>1. remaining' = [remaining EXCEPT ![job] = @ - Chunk(job)]
        BY <1>12, <3>2 DEF StartJob
      <4>2. remaining' \in [Jobs -> Nat] /\ \A j \in Jobs : remaining'[j] <= remaining[j]
        BY <4>1, <2>1, <2>2 DEF Types
      <4>3. overtaken' = [j \in Jobs |->
                   CASE j = job -> 0
                     [] j # job /\ Priority[job] = "batch" /\ j \in Elems(interactive)
                          -> overtaken[j] + Chunk(job)
                     [] OTHER -> overtaken[j]]
        BY <1>12, <3>2 DEF StartJob
      <4>4. \A j \in Jobs : overtaken[j] \in Nat /\ overtaken[j] + Chunk(job) \in Nat
        BY <2>2 DEF Types
      <4>5. overtaken' \in [Jobs -> Nat]
        BY <4>3, <4>4
      <4> QED BY <4>2, <4>5, \A j \in Jobs : Segments[j] \in Nat DEF Types
    <3> QED BY <3>1, <3>2
  <2>4. /\ sched' \in SchedStates /\ result' \in Results /\ engine' \in {"idle", "busy", "exited"}
    BY <1>12 DEF StartJob, Types, CallerStates, SchedStates, Results, Busy
  <2>5. sent' \in Nat
    BY <1>12, <2>2 DEF StartJob, Types
  <2> QED BY <1>12, <2>3, <2>4, <2>5 DEF StartJob, Types
<1>13. ASSUME EngineReply PROVE Types'
  BY <1>13 DEF EngineReply, Types, CallerStates, SchedStates, Results, Busy, Handed
<1>14. ASSUME Collect PROVE Types'
  <2>1. job \in Jobs
    BY <1>14 DEF Collect, Handed, Types, CallerStates, SchedStates, Results, Busy
  <2>2. <<job>> \o batch \in Seq(Jobs)
    BY <2>1, ElemsPrepend DEF Types
  <2>3. done[job] + sent \in Nat
    BY <2>1 DEF Types
  <2>4. batch' \in Seq(Jobs) /\ done' \in [Jobs -> Nat] /\ sent' \in Nat
    BY <1>14, <2>1, <2>2, <2>3 DEF Collect, Types
  <2>5. sched' \in SchedStates /\ job' \in Jobs \cup {NoJob} /\ result' \in Results
    BY <1>14 DEF Collect, Types, CallerStates, SchedStates, Results, Busy
  <2> QED BY <1>14, <2>4, <2>5 DEF Collect, Types
<1>15. ASSUME Unpin PROVE Types'
  BY <1>15 DEF Unpin, Types, CallerStates, SchedStates, Results, Busy, Handed
<1>16. ASSUME Reply PROVE Types'
  BY <1>16 DEF Reply, Types, CallerStates, SchedStates, Results, Busy, Handed
<1>17. ASSUME Drain PROVE Types'
  BY <1>17 DEF Drain, Types, CallerStates, SchedStates, Results, Busy
<1>18. ASSUME Shutdown PROVE Types'
  BY <1>18 DEF Shutdown, Types, CallerStates, SchedStates, Results, Busy
<1>19. ASSUME DropWorker PROVE Types'
  BY <1>19 DEF DropWorker, Types, CallerStates, SchedStates, Results, Busy
<1>20. ASSUME UNCHANGED vars PROVE Types'
  BY <1>20 DEF vars, Types, CallerStates, SchedStates, Results, Busy
<1> QED BY <1>1, <1>2, <1>3, <1>4, <1>5, <1>6, <1>7, <1>8, <1>9, <1>10,
           <1>11, <1>12, <1>13, <1>14, <1>15, <1>16, <1>17, <1>18, <1>19, <1>20
       DEF Next, Finished

\* Every step keeps the scheduler's job and its program counter together.
LEMMA HandedStep ==
    ASSUME Types, Handed, [Next]_vars PROVE Handed'
<1> USE RouteAssumption DEF queueVars, entryVars, callerVars, schedVars
<1>1. ASSUME NEW j \in Jobs, Acquire(j) PROVE Handed'
  BY <1>1 DEF Acquire, Handed, Types, Busy
<1>2. ASSUME NEW j \in Jobs, Submit(j) PROVE Handed'
  BY <1>2 DEF Submit, Handed, Types, Busy
<1>3. ASSUME NEW j \in Jobs, Notify(j) PROVE Handed'
  BY <1>3 DEF Notify, Handed, Types, Busy
<1>4. ASSUME NEW j \in Jobs, Receive(j) PROVE Handed'
  BY <1>4 DEF Receive, Handed, Types, Busy
<1>5. ASSUME NEW j \in Jobs, Abandon(j) PROVE Handed'
  BY <1>5 DEF Abandon, Handed, Types, Busy
<1>6. ASSUME NEW j \in Jobs, RaiseFlag(j) PROVE Handed'
  BY <1>6 DEF RaiseFlag, Handed, Types, Busy
<1>7. ASSUME Unmap PROVE Handed'
  BY <1>7 DEF Unmap, Handed, Types, Busy
<1>8. ASSUME CloseQueue PROVE Handed'
  BY <1>8 DEF CloseQueue, Handed, Types, Busy
<1>9. ASSUME DropNotify PROVE Handed'
  BY <1>9 DEF DropNotify, Handed, Types, Busy
<1>10. ASSUME Pop PROVE Handed'
  <2>1. job = NoJob /\ NoJob \notin Jobs
    BY <1>10 DEF Pop, Handed, Busy
  <2>2. /\ interactive # <<>> => Head(interactive) \in Jobs
        /\ batch # <<>> => Head(batch) \in Jobs
    BY PopFront DEF Types
  <2>3. \/ sched' = "picked" /\ job' # NoJob
        \/ sched' \in {"drain", "wait"} /\ job' = NoJob
    BY <1>10, <2>1, <2>2 DEF Pop
  <2> QED BY <2>3 DEF Handed, Busy
<1>11. ASSUME AwaitNotify PROVE Handed'
  BY <1>11 DEF AwaitNotify, Handed, Types, Busy
<1>12. ASSUME StartJob PROVE Handed'
  <2>1. job \in Jobs
    BY <1>12 DEF StartJob, Handed, Types, Busy
  <2>2. Chunk(job) \in Nat /\ (Priority[job] = "interactive" => Chunk(job) = remaining[job])
    BY <2>1, ChunkBound
  <2>3. CASE cancelled[job]
    BY <1>12, <2>3 DEF StartJob, Handed, Busy
  <2>4. CASE ~cancelled[job]
    <3>1. remaining' = [remaining EXCEPT ![job] = @ - Chunk(job)]
      BY <1>12, <2>4 DEF StartJob
    <3>2. Priority[job] = "interactive" => remaining'[job] = 0
      BY <2>1, <2>2, <3>1 DEF Types
    <3> QED BY <1>12, <2>4, <3>2 DEF StartJob, Handed, Busy
  <2> QED BY <2>3, <2>4
<1>13. ASSUME EngineReply PROVE Handed'
  BY <1>13 DEF EngineReply, Handed, Types, Busy
<1>14. ASSUME Collect PROVE Handed'
  BY <1>14 DEF Collect, Handed, Types, Busy
<1>15. ASSUME Unpin PROVE Handed'
  BY <1>15 DEF Unpin, Handed, Types, Busy
<1>16. ASSUME Reply PROVE Handed'
  BY <1>16 DEF Reply, Handed, Types, Busy
<1>17. ASSUME Drain PROVE Handed'
  BY <1>17 DEF Drain, Handed, Types, Busy
<1>18. ASSUME Shutdown PROVE Handed'
  BY <1>18 DEF Shutdown, Handed, Types, Busy
<1>19. ASSUME DropWorker PROVE Handed'
  BY <1>19 DEF DropWorker, Handed, Types, Busy
<1>20. ASSUME UNCHANGED vars PROVE Handed'
  BY <1>20 DEF vars, Handed, Types, Busy
<1> QED BY <1>1, <1>2, <1>3, <1>4, <1>5, <1>6, <1>7, <1>8, <1>9, <1>10,
           <1>11, <1>12, <1>13, <1>14, <1>15, <1>16, <1>17, <1>18, <1>19, <1>20
       DEF Next, Finished

\* No step puts a job in two places or in the wrong deque.
LEMMA PlacedStep ==
    ASSUME Types, Handed, Placed, NoJobLost, [Next]_vars PROVE Placed'
<1> USE RouteAssumption DEF queueVars, entryVars, callerVars, schedVars
<1>1. ASSUME NEW j \in Jobs, Acquire(j) PROVE Placed'
  BY <1>1 DEF Acquire, Placed
<1>2. ASSUME NEW j \in Jobs, Submit(j) PROVE Placed'
  <2>1. j \notin Elems(interactive) \cup Elems(batch) /\ job # j
    BY <1>2 DEF Submit, NoJobLost, Accepted, Types, CallerStates
  <2>2. /\ Elems(Append(interactive, j)) = Elems(interactive) \cup {j}
        /\ Elems(Append(batch, j)) = Elems(batch) \cup {j}
        /\ Distinct(Append(interactive, j)) /\ Distinct(Append(batch, j))
    BY <2>1, ElemsAppend, DistinctAppend DEF Types, Placed
  <2>3. \/ interactive' = interactive /\ batch' = batch
        \/ /\ Priority[j] = "interactive"
           /\ interactive' = Append(interactive, j) /\ batch' = batch
        \/ /\ Priority[j] = "batch"
           /\ interactive' = interactive /\ batch' = Append(batch, j)
    BY <1>2 DEF Submit
  <2>4. job' = job
    BY <1>2 DEF Submit
  <2> QED BY <2>1, <2>2, <2>3, <2>4 DEF Placed
<1>3. ASSUME NEW j \in Jobs, Notify(j) PROVE Placed'
  BY <1>3 DEF Notify, Placed
<1>4. ASSUME NEW j \in Jobs, Receive(j) PROVE Placed'
  BY <1>4 DEF Receive, Placed
<1>5. ASSUME NEW j \in Jobs, Abandon(j) PROVE Placed'
  BY <1>5 DEF Abandon, Placed
<1>6. ASSUME NEW j \in Jobs, RaiseFlag(j) PROVE Placed'
  BY <1>6 DEF RaiseFlag, Placed
<1>7. ASSUME Unmap PROVE Placed'
  BY <1>7 DEF Unmap, Placed
<1>8. ASSUME CloseQueue PROVE Placed'
  BY <1>8 DEF CloseQueue, Placed
<1>9. ASSUME DropNotify PROVE Placed'
  BY <1>9 DEF DropNotify, Placed
<1>10. ASSUME Pop PROVE Placed'
  <2>1. job = NoJob
    BY <1>10 DEF Pop, Handed, Busy
  <2>2. NoJob \notin Elems(interactive) \cup Elems(batch)
    BY ElemsType DEF Types
  <2>3. CASE interactive # <<>> /\ job' = Head(interactive) /\ interactive' = Tail(interactive)
             /\ batch' = batch
    <3>1. /\ Elems(interactive) = Elems(interactive') \cup {job'}
          /\ Distinct(interactive') /\ job' \notin Elems(interactive')
      BY <2>3, PopFront DEF Types, Placed
    <3>2. Priority[job'] = "interactive"
      BY <3>1 DEF Placed
    <3> QED BY <2>3, <3>1, <3>2 DEF Placed
  <2>4. CASE batch # <<>> /\ job' = Head(batch) /\ batch' = Tail(batch)
             /\ interactive' = interactive
    <3>1. /\ Elems(batch) = Elems(batch') \cup {job'}
          /\ Distinct(batch') /\ job' \notin Elems(batch')
      BY <2>4, PopFront DEF Types, Placed
    <3>2. Priority[job'] = "batch"
      BY <3>1 DEF Placed
    <3> QED BY <2>4, <3>1, <3>2 DEF Placed
  <2>5. CASE UNCHANGED <<interactive, batch, job>>
    BY <2>5 DEF Placed
  <2> QED BY <1>10, <2>3, <2>4, <2>5 DEF Pop
<1>11. ASSUME AwaitNotify PROVE Placed'
  BY <1>11 DEF AwaitNotify, Placed
<1>12. ASSUME StartJob PROVE Placed'
  BY <1>12 DEF StartJob, Placed
<1>13. ASSUME EngineReply PROVE Placed'
  BY <1>13 DEF EngineReply, Placed
<1>14. ASSUME Collect PROVE Placed'
  <2>1. job \in Jobs /\ NoJob \notin Jobs
    BY <1>14 DEF Collect, Handed, Types, Busy
  <2>2. CASE result = "ok" /\ remaining[job] # 0
    <3>1. Priority[job] = "batch"
      BY <1>14, <2>1, <2>2 DEF Collect, Handed
    <3>2. /\ interactive' = interactive /\ batch' = <<job>> \o batch /\ job' = NoJob
      BY <1>14, <2>2 DEF Collect
    <3>3. /\ Elems(batch') = Elems(batch) \cup {job} /\ Distinct(batch')
      BY <2>1, <3>2, ElemsPrepend, DistinctPrepend DEF Types, Placed
    <3>4. NoJob \notin Elems(interactive) \cup Elems(batch)
      BY ElemsType DEF Types
    <3> QED BY <2>1, <3>1, <3>2, <3>3, <3>4 DEF Placed
  <2>3. CASE ~(result = "ok" /\ remaining[job] # 0)
    BY <1>14, <2>3 DEF Collect, Placed
  <2> QED BY <2>2, <2>3
<1>15. ASSUME Unpin PROVE Placed'
  BY <1>15 DEF Unpin, Placed
<1>16. ASSUME Reply PROVE Placed'
  <2>1. NoJob \notin Elems(interactive) \cup Elems(batch)
    BY ElemsType DEF Types
  <2> QED BY <1>16, <2>1 DEF Reply, Placed
<1>17. ASSUME Drain PROVE Placed'
  <2>1. interactive' = <<>> /\ batch' = <<>> /\ job' = job
    BY <1>17 DEF Drain
  <2>2. Elems(interactive') = {} /\ Elems(batch') = {}
    BY <2>1 DEF Elems
  <2>3. Distinct(interactive') /\ Distinct(batch')
    BY <2>1 DEF Distinct
  <2> QED BY <2>2, <2>3 DEF Placed
<1>18. ASSUME Shutdown PROVE Placed'
  BY <1>18 DEF Shutdown, Placed
<1>19. ASSUME DropWorker PROVE Placed'
  BY <1>19 DEF DropWorker, Placed
<1>20. ASSUME UNCHANGED vars PROVE Placed'
  BY <1>20 DEF vars, Placed
<1> QED BY <1>1, <1>2, <1>3, <1>4, <1>5, <1>6, <1>7, <1>8, <1>9, <1>10,
           <1>11, <1>12, <1>13, <1>14, <1>15, <1>16, <1>17, <1>18, <1>19, <1>20
       DEF Next, Finished

\* No step loses an accepted job or answers one that was never accepted.
LEMMA LostStep ==
    ASSUME Types, Handed, Placed, NoJobLost, AnsweredAccepted, Shut, ClosedIsFinal, [Next]_vars
    PROVE  NoJobLost' /\ AnsweredAccepted'
<1> USE RouteAssumption DEF queueVars, entryVars, callerVars, schedVars
<1>1. ASSUME NEW j \in Jobs, Acquire(j) PROVE NoJobLost' /\ AnsweredAccepted'
  BY <1>1 DEF Acquire, NoJobLost, AnsweredAccepted, Accepted, Types
<1>2. ASSUME NEW j \in Jobs, Submit(j) PROVE NoJobLost' /\ AnsweredAccepted'
  <2>1. ASSUME closed PROVE FALSE
    BY <1>2, <2>1 DEF Submit, Shut, Holders
  <2>2. /\ caller' = [caller EXCEPT ![j] = "pushed"] /\ answer' = answer /\ job' = job
        /\ caller[j] = "holding" /\ answer[j] = "none"
    BY <1>2, <2>1 DEF Submit, AnsweredAccepted, Accepted
  <2>3. Elems(interactive') \cup Elems(batch') = Elems(interactive) \cup Elems(batch) \cup {j}
    <3>1. /\ Elems(Append(interactive, j)) = Elems(interactive) \cup {j}
          /\ Elems(Append(batch, j)) = Elems(batch) \cup {j}
      BY ElemsAppend DEF Types
    <3>2. \/ interactive' = Append(interactive, j) /\ batch' = batch
          \/ interactive' = interactive /\ batch' = Append(batch, j)
      BY <1>2, <2>1 DEF Submit
    <3> QED BY <3>1, <3>2
  <2> QED BY <2>2, <2>3 DEF NoJobLost, AnsweredAccepted, Accepted, Types
<1>3. ASSUME NEW j \in Jobs, Notify(j) PROVE NoJobLost' /\ AnsweredAccepted'
  BY <1>3 DEF Notify, NoJobLost, AnsweredAccepted, Accepted, Types
<1>4. ASSUME NEW j \in Jobs, Receive(j) PROVE NoJobLost' /\ AnsweredAccepted'
  BY <1>4 DEF Receive, NoJobLost, AnsweredAccepted, Accepted, Types
<1>5. ASSUME NEW j \in Jobs, Abandon(j) PROVE NoJobLost' /\ AnsweredAccepted'
  BY <1>5 DEF Abandon, NoJobLost, AnsweredAccepted, Accepted, Types
<1>6. ASSUME NEW j \in Jobs, RaiseFlag(j) PROVE NoJobLost' /\ AnsweredAccepted'
  BY <1>6 DEF RaiseFlag, NoJobLost, AnsweredAccepted, Accepted
<1>7. ASSUME Unmap PROVE NoJobLost' /\ AnsweredAccepted'
  BY <1>7 DEF Unmap, NoJobLost, AnsweredAccepted, Accepted
<1>8. ASSUME CloseQueue PROVE NoJobLost' /\ AnsweredAccepted'
  BY <1>8 DEF CloseQueue, NoJobLost, AnsweredAccepted, Accepted
<1>9. ASSUME DropNotify PROVE NoJobLost' /\ AnsweredAccepted'
  BY <1>9 DEF DropNotify, NoJobLost, AnsweredAccepted, Accepted
<1>10. ASSUME Pop PROVE NoJobLost' /\ AnsweredAccepted'
  <2>1. job = NoJob /\ NoJob \notin Jobs
    BY <1>10 DEF Pop, Handed, Busy
  <2>2. UNCHANGED <<caller, answer>>
    BY <1>10 DEF Pop
  <2>3. \A j \in Jobs : j \in Elems(interactive') \cup Elems(batch') \/ job' = j
                      <=> j \in Elems(interactive) \cup Elems(batch)
    <3>1. CASE interactive # <<>> /\ job' = Head(interactive) /\ interactive' = Tail(interactive)
               /\ batch' = batch
      <4>1. Elems(interactive) = Elems(interactive') \cup {job'}
        BY <3>1, PopFront DEF Types
      <4> QED BY <3>1, <4>1
    <3>2. CASE batch # <<>> /\ job' = Head(batch) /\ batch' = Tail(batch)
               /\ interactive' = interactive
      <4>1. Elems(batch) = Elems(batch') \cup {job'}
        BY <3>2, PopFront DEF Types
      <4> QED BY <3>2, <4>1
    <3>3. CASE UNCHANGED <<interactive, batch, job>>
      BY <3>3, <2>1
    <3> QED BY <1>10, <3>1, <3>2, <3>3 DEF Pop
  <2> QED BY <2>1, <2>2, <2>3 DEF NoJobLost, AnsweredAccepted, Accepted
<1>11. ASSUME AwaitNotify PROVE NoJobLost' /\ AnsweredAccepted'
  BY <1>11 DEF AwaitNotify, NoJobLost, AnsweredAccepted, Accepted
<1>12. ASSUME StartJob PROVE NoJobLost' /\ AnsweredAccepted'
  BY <1>12 DEF StartJob, NoJobLost, AnsweredAccepted, Accepted
<1>13. ASSUME EngineReply PROVE NoJobLost' /\ AnsweredAccepted'
  BY <1>13 DEF EngineReply, NoJobLost, AnsweredAccepted, Accepted
<1>14. ASSUME Collect PROVE NoJobLost' /\ AnsweredAccepted'
  <2>1. job \in Jobs /\ NoJob \notin Jobs
    BY <1>14 DEF Collect, Handed, Types, Busy
  <2>2. \A j \in Jobs : j \in Elems(interactive') \cup Elems(batch') \/ job' = j
                      <=> j \in Elems(interactive) \cup Elems(batch) \/ job = j
    <3>1. CASE batch' = <<job>> \o batch /\ job' = NoJob
      <4>1. Elems(batch') = Elems(batch) \cup {job}
        BY <2>1, <3>1, ElemsPrepend DEF Types
      <4> QED BY <1>14, <2>1, <3>1, <4>1 DEF Collect
    <3>2. CASE UNCHANGED <<batch, job>>
      BY <1>14, <3>2 DEF Collect
    <3> QED BY <1>14, <3>1, <3>2 DEF Collect
  <2>3. UNCHANGED <<caller, answer>>
    BY <1>14 DEF Collect
  <2> QED BY <2>2, <2>3 DEF NoJobLost, AnsweredAccepted, Accepted
<1>15. ASSUME Unpin PROVE NoJobLost' /\ AnsweredAccepted'
  BY <1>15 DEF Unpin, NoJobLost, AnsweredAccepted, Accepted
<1>16. ASSUME Reply PROVE NoJobLost' /\ AnsweredAccepted'
  <2>1. /\ job \in Jobs /\ NoJob \notin Jobs /\ result # "none"
        /\ job \notin Elems(interactive) \cup Elems(batch)
    BY <1>16 DEF Reply, Handed, Types, Busy, Placed
  <2>2. /\ answer' = [answer EXCEPT ![job] = result] /\ job' = NoJob
        /\ UNCHANGED <<interactive, batch, caller>>
    BY <1>16 DEF Reply
  <2>3. answer[job] = "none" => Accepted(job)
    BY <2>1 DEF NoJobLost
  <2>4. Accepted(job)
    BY <2>1, <2>3 DEF AnsweredAccepted
  <2> QED BY <2>1, <2>2, <2>4 DEF NoJobLost, AnsweredAccepted, Accepted, Types
<1>17. ASSUME Drain PROVE NoJobLost' /\ AnsweredAccepted'
  <2>1. interactive = <<>> /\ batch = <<>>
    BY <1>17 DEF Drain, ClosedIsFinal
  <2>2. Elems(interactive) = {} /\ Elems(batch) = {}
    BY <2>1 DEF Elems
  <2>3. answer' = [j \in Jobs |-> answer[j]]
    BY <1>17, <2>2 DEF Drain
  <2>4. answer' = answer /\ UNCHANGED <<interactive, batch, caller, job>>
    BY <1>17, <2>1, <2>3 DEF Drain, Types
  <2> QED BY <2>4 DEF NoJobLost, AnsweredAccepted, Accepted
<1>18. ASSUME Shutdown PROVE NoJobLost' /\ AnsweredAccepted'
  BY <1>18 DEF Shutdown, NoJobLost, AnsweredAccepted, Accepted
<1>19. ASSUME DropWorker PROVE NoJobLost' /\ AnsweredAccepted'
  BY <1>19 DEF DropWorker, NoJobLost, AnsweredAccepted, Accepted
<1>20. ASSUME UNCHANGED vars PROVE NoJobLost' /\ AnsweredAccepted'
  BY <1>20 DEF vars, NoJobLost, AnsweredAccepted, Accepted
<1> QED BY <1>1, <1>2, <1>3, <1>4, <1>5, <1>6, <1>7, <1>8, <1>9, <1>10,
           <1>11, <1>12, <1>13, <1>14, <1>15, <1>16, <1>17, <1>18, <1>19, <1>20
       DEF Next, Finished

\* A closed queue stays out of reach and the deques stay empty once the loop is left.
LEMMA ShutStep ==
    ASSUME Types, Shut, ClosedIsFinal, [Next]_vars PROVE Shut' /\ ClosedIsFinal'
<1> USE RouteAssumption DEF queueVars, entryVars, callerVars, schedVars
<1>1. ASSUME NEW j \in Jobs, Acquire(j) PROVE Shut' /\ ClosedIsFinal'
  BY <1>1 DEF Acquire, Shut, ClosedIsFinal, Holders, Types
<1>2. ASSUME NEW j \in Jobs, Submit(j) PROVE Shut' /\ ClosedIsFinal'
  <2>1. ASSUME closed PROVE FALSE
    BY <1>2, <2>1 DEF Submit, Shut, Holders
  <2>2. caller' = [caller EXCEPT ![j] = "pushed"] /\ UNCHANGED <<closed, entry, sched>>
    BY <1>2, <2>1 DEF Submit
  <2> QED BY <2>1, <2>2 DEF Shut, ClosedIsFinal, Types
<1>3. ASSUME NEW j \in Jobs, Notify(j) PROVE Shut' /\ ClosedIsFinal'
  BY <1>3 DEF Notify, Shut, ClosedIsFinal, Holders, Types
<1>4. ASSUME NEW j \in Jobs, Receive(j) PROVE Shut' /\ ClosedIsFinal'
  BY <1>4 DEF Receive, Shut, ClosedIsFinal, Holders, Types
<1>5. ASSUME NEW j \in Jobs, Abandon(j) PROVE Shut' /\ ClosedIsFinal'
  BY <1>5 DEF Abandon, Shut, ClosedIsFinal, Holders, Types
<1>6. ASSUME NEW j \in Jobs, RaiseFlag(j) PROVE Shut' /\ ClosedIsFinal'
  BY <1>6 DEF RaiseFlag, Shut, ClosedIsFinal, Holders, Types
<1>7. ASSUME Unmap PROVE Shut' /\ ClosedIsFinal'
  BY <1>7 DEF Unmap, Shut, ClosedIsFinal, Holders, Types
<1>8. ASSUME CloseQueue PROVE Shut' /\ ClosedIsFinal'
  BY <1>8 DEF CloseQueue, Shut, ClosedIsFinal, Holders, Types
<1>9. ASSUME DropNotify PROVE Shut' /\ ClosedIsFinal'
  BY <1>9 DEF DropNotify, Shut, ClosedIsFinal, Holders, Types
<1>10. ASSUME Pop PROVE Shut' /\ ClosedIsFinal'
  <2>1. UNCHANGED <<closed, entryVars, callerVars>>
    BY <1>10 DEF Pop
  <2>2. Holders' = Holders
    BY <2>1 DEF Holders
  <2>3. \/ sched' \in {"picked", "wait"}
        \/ sched' = "drain" /\ closed /\ interactive' = <<>> /\ batch' = <<>>
    BY <1>10 DEF Pop
  <2> QED BY <2>1, <2>2, <2>3 DEF Shut, ClosedIsFinal
<1>11. ASSUME AwaitNotify PROVE Shut' /\ ClosedIsFinal'
  BY <1>11 DEF AwaitNotify, Shut, ClosedIsFinal, Holders, Types
<1>12. ASSUME StartJob PROVE Shut' /\ ClosedIsFinal'
  BY <1>12 DEF StartJob, Shut, ClosedIsFinal, Holders, Types
<1>13. ASSUME EngineReply PROVE Shut' /\ ClosedIsFinal'
  BY <1>13 DEF EngineReply, Shut, ClosedIsFinal, Holders, Types
<1>14. ASSUME Collect PROVE Shut' /\ ClosedIsFinal'
  BY <1>14 DEF Collect, Shut, ClosedIsFinal, Holders, Types
<1>15. ASSUME Unpin PROVE Shut' /\ ClosedIsFinal'
  BY <1>15 DEF Unpin, Shut, ClosedIsFinal, Holders, Types
<1>16. ASSUME Reply PROVE Shut' /\ ClosedIsFinal'
  BY <1>16 DEF Reply, Shut, ClosedIsFinal, Holders, Types
<1>17. ASSUME Drain PROVE Shut' /\ ClosedIsFinal'
  BY <1>17 DEF Drain, Shut, ClosedIsFinal, Holders, Types
<1>18. ASSUME Shutdown PROVE Shut' /\ ClosedIsFinal'
  BY <1>18 DEF Shutdown, Shut, ClosedIsFinal, Holders, Types
<1>19. ASSUME DropWorker PROVE Shut' /\ ClosedIsFinal'
  BY <1>19 DEF DropWorker, Shut, ClosedIsFinal, Holders, Types
<1>20. ASSUME UNCHANGED vars PROVE Shut' /\ ClosedIsFinal'
  BY <1>20 DEF vars, Shut, ClosedIsFinal, Holders, Types
<1> QED BY <1>1, <1>2, <1>3, <1>4, <1>5, <1>6, <1>7, <1>8, <1>9, <1>10,
           <1>11, <1>12, <1>13, <1>14, <1>15, <1>16, <1>17, <1>18, <1>19, <1>20
       DEF Next, Finished

\* The first layer holds of every behaviour.
LEMMA Layer1 == Spec => []Inv1
<1>1. Init => Inv1
  <2> SUFFICES ASSUME Init PROVE Inv1
    OBVIOUS
  <2>1. Elems(interactive) = {} /\ Elems(batch) = {} /\ Distinct(interactive) /\ Distinct(batch)
    BY DEF Init, Elems, Distinct
  <2>2. Types
    <3>1. Segments \in [Jobs -> Nat] /\ \A j \in Jobs : Segments[j] <= Segments[j]
      BY RouteAssumption
    <3>2. <<>> \in Seq(Jobs)
      OBVIOUS
    <3>3. remaining \in [Jobs -> Nat] /\ \A j \in Jobs : remaining[j] <= Segments[j]
      BY <3>1 DEF Init
    <3>4. /\ caller \in [Jobs -> CallerStates] /\ answer \in [Jobs -> Results]
          /\ cancelled \in [Jobs -> BOOLEAN] /\ done \in [Jobs -> Nat]
          /\ overtaken \in [Jobs -> Nat]
      BY DEF Init, CallerStates, Results
    <3>5. interactive \in Seq(Jobs) /\ batch \in Seq(Jobs)
      BY <3>2 DEF Init
    <3>6. closed \in BOOLEAN /\ permit \in BOOLEAN /\ mapped \in BOOLEAN
      BY Zenon DEF Init
    <3>7. active \in Int /\ sent \in Nat /\ entry \in {"alive", "closing", "dropped"}
      BY DEF Init
    <3>8. /\ sched \in SchedStates /\ job \in Jobs \cup {NoJob} /\ result \in Results
          /\ engine \in {"idle", "busy", "exited"}
      BY DEF Init, SchedStates, Results
    <3> QED BY <3>3, <3>4, <3>5, <3>6, <3>7, <3>8 DEF Types
  <2>3. Handed /\ Placed /\ NoJobLost /\ AnsweredAccepted
    BY <2>1, RouteAssumption DEF Init, Handed, Busy, Placed, NoJobLost, AnsweredAccepted, Accepted
  <2>4. Shut /\ ClosedIsFinal
    BY DEF Init, Shut, ClosedIsFinal
  <2> QED BY <2>2, <2>3, <2>4 DEF Inv1
<1>2. Inv1 /\ [Next]_vars => Inv1'
  BY TypesStep, HandedStep, PlacedStep, LostStep, ShutStep DEF Inv1
<1> QED BY <1>1, <1>2, PTL DEF Spec

\* Jobs are neither lost nor in two places: NoJobLost, for any set of jobs.
THEOREM NoJobIsLost == Spec => []NoJobLost
BY Layer1, PTL DEF Inv1

\* submit's refusal and the leftovers after run_scheduler's loop are
\* unreachable: ClosedIsFinal, for any set of jobs.
THEOREM ClosedQueueIsFinal == Spec => []ClosedIsFinal
BY Layer1, PTL DEF Inv1
-----------------------------------------------------------------------------
(* The second layer: the pin count *)

\* The count of a set that loses or gains an element.
LEMMA CountChange ==
    ASSUME NEW S, IsFiniteSet(S), NEW x
    PROVE  /\ x \notin S => Cardinality(S \cup {x}) = Cardinality(S) + 1
           /\ x \in S => Cardinality(S \ {x}) = Cardinality(S) - 1
           /\ Cardinality(S) \in Nat
BY FS_AddElement, FS_RemoveElement, FS_CardinalityType

LEMMA UnfinishedFinite == IsFiniteSet(Unfinished)
BY RouteAssumption, FS_Subset DEF Unfinished

\* The pin count follows the unfinished jobs through every step.
LEMMA CountStep ==
    ASSUME Inv1, Inv1', ActiveCounts, [Next]_vars PROVE ActiveCounts'
<1> USE RouteAssumption DEF Inv1, queueVars, entryVars, callerVars, schedVars
<1>1. ASSUME NEW j \in Jobs, Acquire(j) PROVE ActiveCounts'
  <2>1. Unfinished' = Unfinished
    BY <1>1 DEF Acquire, Unfinished, Accepted, Types, Handed, Busy, AnsweredAccepted
  <2> QED BY <1>1, <2>1 DEF Acquire, ActiveCounts
<1>2. ASSUME NEW j \in Jobs, Submit(j) PROVE ActiveCounts'
  <2>1. ASSUME closed PROVE FALSE
    BY <1>2, <2>1 DEF Submit, Shut, Holders
  <2>2. /\ caller' = [caller EXCEPT ![j] = "pushed"] /\ UNCHANGED <<answer, sched, job>>
        /\ caller[j] = "holding" /\ answer[j] = "none" /\ active' = active + 1
    BY <1>2, <2>1 DEF Submit, AnsweredAccepted, Accepted
  <2>3. job # j
    BY <2>2 DEF NoJobLost, Accepted
  <2>4. ~Accepted(j) /\ Accepted(j)'
    BY <2>2 DEF Accepted, Types
  <2>5. ASSUME NEW i \in Jobs, i # j PROVE Accepted(i)' <=> Accepted(i)
    BY <2>2, <2>5 DEF Accepted, Types
  <2>6. Unfinished' = Unfinished \cup {j} /\ j \notin Unfinished
    BY <2>2, <2>3, <2>4, <2>5 DEF Unfinished
  <2> QED BY <2>2, <2>6, UnfinishedFinite, CountChange DEF ActiveCounts
<1>3. ASSUME NEW j \in Jobs, Notify(j) PROVE ActiveCounts'
  <2>1. Unfinished' = Unfinished
    BY <1>3 DEF Notify, Unfinished, Accepted, Types, Handed, Busy, AnsweredAccepted
  <2> QED BY <1>3, <2>1 DEF Notify, ActiveCounts
<1>4. ASSUME NEW j \in Jobs, Receive(j) PROVE ActiveCounts'
  <2>1. Unfinished' = Unfinished
    BY <1>4 DEF Receive, Unfinished, Accepted, Types, Handed, Busy, AnsweredAccepted
  <2> QED BY <1>4, <2>1 DEF Receive, ActiveCounts
<1>5. ASSUME NEW j \in Jobs, Abandon(j) PROVE ActiveCounts'
  <2>1. Unfinished' = Unfinished
    BY <1>5 DEF Abandon, Unfinished, Accepted, Types, Handed, Busy, AnsweredAccepted
  <2> QED BY <1>5, <2>1 DEF Abandon, ActiveCounts
<1>6. ASSUME NEW j \in Jobs, RaiseFlag(j) PROVE ActiveCounts'
  <2>1. Unfinished' = Unfinished
    BY <1>6 DEF RaiseFlag, Unfinished, Accepted, Types, Handed, Busy, AnsweredAccepted
  <2> QED BY <1>6, <2>1 DEF RaiseFlag, ActiveCounts
<1>7. ASSUME Unmap PROVE ActiveCounts'
  <2>1. Unfinished' = Unfinished
    BY <1>7 DEF Unmap, Unfinished, Accepted, Types, Handed, Busy, AnsweredAccepted
  <2> QED BY <1>7, <2>1 DEF Unmap, ActiveCounts
<1>8. ASSUME CloseQueue PROVE ActiveCounts'
  <2>1. Unfinished' = Unfinished
    BY <1>8 DEF CloseQueue, Unfinished, Accepted, Types, Handed, Busy, AnsweredAccepted
  <2> QED BY <1>8, <2>1 DEF CloseQueue, ActiveCounts
<1>9. ASSUME DropNotify PROVE ActiveCounts'
  <2>1. Unfinished' = Unfinished
    BY <1>9 DEF DropNotify, Unfinished, Accepted, Types, Handed, Busy, AnsweredAccepted
  <2> QED BY <1>9, <2>1 DEF DropNotify, ActiveCounts
<1>10. ASSUME Pop PROVE ActiveCounts'
  <2>1. sched # "reply" /\ sched' # "reply" /\ UNCHANGED <<caller, answer, active>>
    BY <1>10 DEF Pop
  <2>2. Unfinished' = Unfinished
    BY <2>1 DEF Unfinished, Accepted
  <2> QED BY <2>1, <2>2 DEF ActiveCounts
<1>11. ASSUME AwaitNotify PROVE ActiveCounts'
  <2>1. sched # "reply" /\ sched' # "reply" /\ UNCHANGED <<caller, answer, active>>
    BY <1>11 DEF AwaitNotify
  <2>2. Unfinished' = Unfinished
    BY <2>1 DEF Unfinished, Accepted
  <2> QED BY <2>1, <2>2 DEF ActiveCounts
<1>12. ASSUME StartJob PROVE ActiveCounts'
  <2>1. sched # "reply" /\ sched' # "reply" /\ UNCHANGED <<caller, answer, active>>
    BY <1>12 DEF StartJob
  <2>2. Unfinished' = Unfinished
    BY <2>1 DEF Unfinished, Accepted
  <2> QED BY <2>1, <2>2 DEF ActiveCounts
<1>13. ASSUME EngineReply PROVE ActiveCounts'
  <2>1. sched # "reply" /\ sched' # "reply" /\ UNCHANGED <<caller, answer, active>>
    BY <1>13 DEF EngineReply
  <2>2. Unfinished' = Unfinished
    BY <2>1 DEF Unfinished, Accepted
  <2> QED BY <2>1, <2>2 DEF ActiveCounts
<1>14. ASSUME Collect PROVE ActiveCounts'
  <2>1. sched # "reply" /\ sched' # "reply" /\ UNCHANGED <<caller, answer, active>>
    BY <1>14 DEF Collect
  <2>2. Unfinished' = Unfinished
    BY <2>1 DEF Unfinished, Accepted
  <2> QED BY <2>1, <2>2 DEF ActiveCounts
<1>15. ASSUME Unpin PROVE ActiveCounts'
  <2>1. /\ job \in Jobs /\ answer[job] = "none" /\ Accepted(job)
    BY <1>15 DEF Unpin, Handed, Busy, Types, NoJobLost
  <2>2. Unfinished' = Unfinished \ {job} /\ job \in Unfinished
    BY <1>15, <2>1 DEF Unpin, Unfinished, Accepted
  <2>3. active' = active - 1
    BY <1>15 DEF Unpin
  <2> QED BY <2>2, <2>3, UnfinishedFinite, CountChange DEF ActiveCounts
<1>16. ASSUME Reply PROVE ActiveCounts'
  <2>1. /\ job \in Jobs /\ NoJob \notin Jobs /\ result # "none"
    BY <1>16 DEF Reply, Handed, Types, Busy
  <2>2. /\ answer' = [answer EXCEPT ![job] = result] /\ sched' = "pop" /\ sched = "reply"
        /\ UNCHANGED <<caller, active>>
    BY <1>16 DEF Reply
  <2>3. Unfinished' = Unfinished
    BY <2>1, <2>2 DEF Unfinished, Accepted, Types
  <2> QED BY <2>2, <2>3 DEF ActiveCounts
<1>17. ASSUME Drain PROVE ActiveCounts'
  <2>1. interactive = <<>> /\ batch = <<>>
    BY <1>17 DEF Drain, ClosedIsFinal
  <2>2. Elems(interactive) = {} /\ Elems(batch) = {} /\ Len(interactive) = 0 /\ Len(batch) = 0
    BY <2>1 DEF Elems
  <2>3. answer' = [j \in Jobs |-> answer[j]]
    BY <1>17, <2>2 DEF Drain
  <2>4. answer' = answer /\ active' = active /\ sched' # "reply" /\ sched # "reply"
        /\ UNCHANGED <<caller, job>>
    BY <1>17, <2>2, <2>3 DEF Drain, Types
  <2>5. Unfinished' = Unfinished
    BY <2>4 DEF Unfinished, Accepted
  <2> QED BY <2>4, <2>5 DEF ActiveCounts
<1>18. ASSUME Shutdown PROVE ActiveCounts'
  <2>1. sched # "reply" /\ sched' # "reply" /\ UNCHANGED <<caller, answer, active>>
    BY <1>18 DEF Shutdown
  <2>2. Unfinished' = Unfinished
    BY <2>1 DEF Unfinished, Accepted
  <2> QED BY <2>1, <2>2 DEF ActiveCounts
<1>19. ASSUME DropWorker PROVE ActiveCounts'
  <2>1. sched # "reply" /\ sched' # "reply" /\ UNCHANGED <<caller, answer, active>>
    BY <1>19 DEF DropWorker
  <2>2. Unfinished' = Unfinished
    BY <2>1 DEF Unfinished, Accepted
  <2> QED BY <2>1, <2>2 DEF ActiveCounts
<1>20. ASSUME UNCHANGED vars PROVE ActiveCounts'
  BY <1>20 DEF vars, ActiveCounts, Unfinished, Accepted
<1> QED BY <1>1, <1>2, <1>3, <1>4, <1>5, <1>6, <1>7, <1>8, <1>9, <1>10,
           <1>11, <1>12, <1>13, <1>14, <1>15, <1>16, <1>17, <1>18, <1>19, <1>20
       DEF Next, Finished

\* The pin count is exact whatever the threads do: ActiveCounts, for any set of
\* jobs.
THEOREM PinCountIsExact == Spec => []ActiveCounts
<1>1. Init => ActiveCounts
  <2> SUFFICES ASSUME Init PROVE ActiveCounts
    OBVIOUS
  <2>1. Unfinished = {}
    BY DEF Init, Unfinished, Accepted
  <2> QED BY <2>1, FS_EmptySet DEF Init, ActiveCounts
<1>2. Inv1 /\ Inv1' /\ ActiveCounts /\ [Next]_vars => ActiveCounts'
  BY CountStep
<1> QED BY <1>1, <1>2, Layer1, PTL DEF Spec

\* Type correctness; that active never goes below zero needs the exact count.
THEOREM TypeCorrect == Spec => []TypeOK
<1>1. Inv1 /\ ActiveCounts => TypeOK
  <2> SUFFICES ASSUME Inv1, ActiveCounts PROVE TypeOK
    OBVIOUS
  <2>1. active \in Nat
    BY UnfinishedFinite, FS_CardinalityType DEF ActiveCounts
  <2> QED BY <2>1 DEF Inv1, Types, TypeOK
<1> QED BY <1>1, Layer1, PinCountIsExact, PTL
-----------------------------------------------------------------------------
(* The second layer: who overtakes whom *)

\* Nothing has overtaken a job that was not submitted yet.
Untouched == \A j \in Jobs : caller[j] \in {"idle", "holding"} => overtaken[j] = 0

\* A batch job is picked only while no interactive job is queued; those that
\* come before its chunk starts have not been overtaken yet.
Turn == sched = "picked" /\ Priority[job] = "batch" =>
            \A j \in Elems(interactive) : overtaken[j] = 0

Inv2 == InteractiveDelay /\ Untouched /\ Turn

\* No step lets more batch segments overtake an interactive job than one chunk has.
LEMMA OvertakeStep ==
    ASSUME Inv1, Inv2, [Next]_vars PROVE Inv2'
<1> USE RouteAssumption DEF Inv1, queueVars, entryVars, callerVars, schedVars
<1>1. ASSUME NEW j \in Jobs, Acquire(j) PROVE Inv2'
  BY <1>1 DEF Acquire, Inv2, InteractiveDelay, Untouched, Turn, Types
<1>2. ASSUME NEW j \in Jobs, Submit(j) PROVE Inv2'
  <2>1. ASSUME closed PROVE FALSE
    BY <1>2, <2>1 DEF Submit, Shut, Holders
  <2>2. /\ caller' = [caller EXCEPT ![j] = "pushed"] /\ overtaken[j] = 0
        /\ UNCHANGED <<sched, job, overtaken>>
    BY <1>2, <2>1 DEF Submit, Inv2, Untouched
  <2>3. Elems(interactive') \subseteq Elems(interactive) \cup {j}
    <3>1. Elems(Append(interactive, j)) = Elems(interactive) \cup {j}
      BY ElemsAppend DEF Types
    <3>2. interactive' = Append(interactive, j) \/ interactive' = interactive
      BY <1>2, <2>1 DEF Submit
    <3> QED BY <3>1, <3>2
  <2> QED BY <2>2, <2>3 DEF Inv2, InteractiveDelay, Untouched, Turn, Types
<1>3. ASSUME NEW j \in Jobs, Notify(j) PROVE Inv2'
  BY <1>3 DEF Notify, Inv2, InteractiveDelay, Untouched, Turn, Types
<1>4. ASSUME NEW j \in Jobs, Receive(j) PROVE Inv2'
  BY <1>4 DEF Receive, Inv2, InteractiveDelay, Untouched, Turn, Types
<1>5. ASSUME NEW j \in Jobs, Abandon(j) PROVE Inv2'
  BY <1>5 DEF Abandon, Inv2, InteractiveDelay, Untouched, Turn, Types
<1>6. ASSUME NEW j \in Jobs, RaiseFlag(j) PROVE Inv2'
  BY <1>6 DEF RaiseFlag, Inv2, InteractiveDelay, Untouched, Turn
<1>7. ASSUME Unmap PROVE Inv2'
  BY <1>7 DEF Unmap, Inv2, InteractiveDelay, Untouched, Turn
<1>8. ASSUME CloseQueue PROVE Inv2'
  BY <1>8 DEF CloseQueue, Inv2, InteractiveDelay, Untouched, Turn
<1>9. ASSUME DropNotify PROVE Inv2'
  BY <1>9 DEF DropNotify, Inv2, InteractiveDelay, Untouched, Turn
<1>10. ASSUME Pop PROVE Inv2'
  <2>1. UNCHANGED <<caller, overtaken>>
    BY <1>10 DEF Pop
  <2>2. Turn'
    <3>1. CASE interactive # <<>>
      <4>1. job' = Head(interactive)
        BY <1>10, <3>1 DEF Pop
      <4>2. Priority[job'] = "interactive"
        BY <3>1, <4>1, PopFront DEF Types, Placed
      <4> QED BY <4>2 DEF Turn
    <3>2. CASE interactive = <<>>
      <4>1. interactive' = <<>>
        BY <1>10, <3>2 DEF Pop
      <4> QED BY <4>1 DEF Turn, Elems
    <3> QED BY <3>1, <3>2
  <2> QED BY <2>1, <2>2 DEF Inv2, InteractiveDelay, Untouched
<1>11. ASSUME AwaitNotify PROVE Inv2'
  <2>1. sched' # "picked" /\ UNCHANGED <<caller, overtaken>>
    BY <1>11 DEF AwaitNotify
  <2> QED BY <2>1 DEF Inv2, InteractiveDelay, Untouched, Turn
<1>12. ASSUME StartJob PROVE Inv2'
  <2>1. job \in Jobs /\ sched' # "picked" /\ UNCHANGED caller
    BY <1>12 DEF StartJob, Handed, Types, Busy
  <2>2. CASE cancelled[job]
    BY <1>12, <2>1, <2>2 DEF StartJob, Inv2, InteractiveDelay, Untouched, Turn
  <2>3. CASE ~cancelled[job]
    <3>1. Chunk(job) \in Nat /\ (Priority[job] = "batch" => Chunk(job) <= BATCH_CHUNK)
      BY <2>1, ChunkBound
    <3>2. overtaken' = [j \in Jobs |->
                 CASE j = job -> 0
                   [] j # job /\ Priority[job] = "batch" /\ j \in Elems(interactive)
                        -> overtaken[j] + Chunk(job)
                   [] OTHER -> overtaken[j]]
      BY <1>12, <2>3 DEF StartJob
    <3>3. sched = "picked"
      BY <1>12 DEF StartJob
    <3>4. ASSUME NEW j \in Jobs
          PROVE  /\ overtaken'[j] <= BATCH_CHUNK
                 /\ caller[j] \in {"idle", "holding"} => overtaken'[j] = 0
      <4>1. CASE j = job
        BY <4>1, <3>2
      <4>2. CASE j # job /\ Priority[job] = "batch" /\ j \in Elems(interactive)
        <5>1. overtaken[j] = 0
          BY <4>2, <3>3 DEF Inv2, Turn
        <5>2. overtaken'[j] = Chunk(job)
          BY <4>2, <3>1, <3>2, <5>1
        <5>3. caller[j] \notin {"idle", "holding"}
          BY <4>2 DEF NoJobLost, Accepted
        <5> QED BY <4>2, <5>2, <5>3, <3>1
      <4>3. CASE j # job /\ ~(Priority[job] = "batch" /\ j \in Elems(interactive))
        <5>1. overtaken'[j] = overtaken[j]
          BY <4>3, <3>2
        <5> QED BY <5>1 DEF Inv2, InteractiveDelay, Untouched
      <4> QED BY <4>1, <4>2, <4>3
    <3> QED BY <2>1, <3>4 DEF Inv2, InteractiveDelay, Untouched, Turn
  <2> QED BY <2>2, <2>3
<1>13. ASSUME EngineReply PROVE Inv2'
  <2>1. sched' # "picked" /\ UNCHANGED <<caller, overtaken>>
    BY <1>13 DEF EngineReply
  <2> QED BY <2>1 DEF Inv2, InteractiveDelay, Untouched, Turn
<1>14. ASSUME Collect PROVE Inv2'
  <2>1. sched' # "picked" /\ UNCHANGED <<caller, overtaken>>
    BY <1>14 DEF Collect
  <2> QED BY <2>1 DEF Inv2, InteractiveDelay, Untouched, Turn
<1>15. ASSUME Unpin PROVE Inv2'
  <2>1. sched' # "picked" /\ UNCHANGED <<caller, overtaken>>
    BY <1>15 DEF Unpin
  <2> QED BY <2>1 DEF Inv2, InteractiveDelay, Untouched, Turn
<1>16. ASSUME Reply PROVE Inv2'
  <2>1. sched' # "picked" /\ UNCHANGED <<caller, overtaken>>
    BY <1>16 DEF Reply
  <2> QED BY <2>1 DEF Inv2, InteractiveDelay, Untouched, Turn
<1>17. ASSUME Drain PROVE Inv2'
  <2>1. sched' # "picked" /\ UNCHANGED <<caller, overtaken>>
    BY <1>17 DEF Drain
  <2> QED BY <2>1 DEF Inv2, InteractiveDelay, Untouched, Turn
<1>18. ASSUME Shutdown PROVE Inv2'
  <2>1. sched' # "picked" /\ UNCHANGED <<caller, overtaken>>
    BY <1>18 DEF Shutdown
  <2> QED BY <2>1 DEF Inv2, InteractiveDelay, Untouched, Turn
<1>19. ASSUME DropWorker PROVE Inv2'
  <2>1. sched' # "picked" /\ UNCHANGED <<caller, overtaken>>
    BY <1>19 DEF DropWorker
  <2> QED BY <2>1 DEF Inv2, InteractiveDelay, Untouched, Turn
<1>20. ASSUME UNCHANGED vars PROVE Inv2'
  BY <1>20 DEF vars, Inv2, InteractiveDelay, Untouched, Turn
<1> QED BY <1>1, <1>2, <1>3, <1>4, <1>5, <1>6, <1>7, <1>8, <1>9, <1>10,
           <1>11, <1>12, <1>13, <1>14, <1>15, <1>16, <1>17, <1>18, <1>19, <1>20
       DEF Next, Finished

\* An interactive job is overtaken by at most one chunk of one batch job,
\* however many jobs there are: InteractiveDelay.
THEOREM InteractiveDelayBounded == Spec => []InteractiveDelay
<1>1. Init => Inv2
  BY RouteAssumption DEF Init, Inv2, InteractiveDelay, Untouched, Turn
<1>2. Inv1 /\ Inv2 /\ [Next]_vars => Inv2'
  BY OvertakeStep
<1>3. Inv2 => InteractiveDelay
  BY DEF Inv2
<1> QED BY <1>1, <1>2, <1>3, Layer1, PTL DEF Spec
-----------------------------------------------------------------------------
(* The second layer: no chunk is dropped or done twice *)

\* What is done, sent and still to do adds up to the job, until it ends in an
\* error; a job that ends well has nothing left.
Whole ==
    /\ \A j \in Jobs :
          answer[j] = "none" /\ ~(job = j /\ sched \in {"sent", "got", "finish", "reply"})
              => done[j] + remaining[j] = Segments[j]
    /\ sched \in {"sent", "got"} => done[job] + sent + remaining[job] = Segments[job]
    /\ sched \in {"finish", "reply"} /\ result = "ok"
          => done[job] = Segments[job] /\ remaining[job] = 0

Inv3 == Whole /\ OkIsComplete

\* Every step keeps the sum.
LEMMA WholeStep ==
    ASSUME Inv1, Inv3, [Next]_vars PROVE Inv3'
<1> USE RouteAssumption DEF Inv1, Inv3, queueVars, entryVars, callerVars, schedVars
<1>1. ASSUME UNCHANGED <<answer, sched, job, result, sent, remaining, done>> PROVE Inv3'
  BY <1>1 DEF Whole, OkIsComplete
<1>2. ASSUME NEW j \in Jobs, Acquire(j) \/ Submit(j) \/ Notify(j) \/ Receive(j)
             \/ Abandon(j) \/ RaiseFlag(j)
      PROVE  Inv3'
  BY <1>1, <1>2 DEF Acquire, Submit, Notify, Receive, Abandon, RaiseFlag
<1>3. ASSUME Unmap \/ CloseQueue \/ DropNotify \/ DropWorker \/ UNCHANGED vars PROVE Inv3'
  BY <1>1, <1>3 DEF Unmap, CloseQueue, DropNotify, DropWorker, vars
<1>4. ASSUME Pop PROVE Inv3'
  <2>1. /\ sched' \notin {"sent", "got", "finish", "reply"} /\ sched = "pop"
        /\ UNCHANGED <<answer, sent, remaining, done>>
    BY <1>4 DEF Pop
  <2> QED BY <2>1 DEF Whole, OkIsComplete
<1>5. ASSUME AwaitNotify PROVE Inv3'
  BY <1>5 DEF AwaitNotify, Whole, OkIsComplete
<1>6. ASSUME StartJob PROVE Inv3'
  <2>1. job \in Jobs /\ answer[job] = "none" /\ sched = "picked" /\ UNCHANGED <<answer, job, done>>
    BY <1>6 DEF StartJob, Handed, Busy, Types, NoJobLost
  <2>2. CASE cancelled[job]
    <3>1. sched' = "finish" /\ result' = "cancelled" /\ UNCHANGED remaining
      BY <1>6, <2>2 DEF StartJob
    <3> QED BY <2>1, <3>1 DEF Whole, OkIsComplete
  <2>3. CASE ~cancelled[job]
    <3>1. /\ sent' = Chunk(job) /\ sched' \in {"sent", "got"}
          /\ remaining' = [remaining EXCEPT ![job] = @ - Chunk(job)]
      BY <1>6, <2>3 DEF StartJob
    <3>2. Chunk(job) \in Nat /\ remaining[job] \in Nat /\ done[job] \in Nat
      BY <2>1, ChunkBound DEF Types
    <3>3. done[job] + remaining[job] = Segments[job]
      BY <2>1 DEF Whole
    <3>4. /\ remaining'[job] = remaining[job] - Chunk(job)
          /\ \A j \in Jobs : j # job => remaining'[j] = remaining[j]
      BY <2>1, <3>1 DEF Types
    <3>5. done'[job] + sent' + remaining'[job] = Segments[job]
      BY <2>1, <3>1, <3>2, <3>3, <3>4
    <3>6. Whole'
      BY <2>1, <3>1, <3>4, <3>5 DEF Whole
    <3>7. OkIsComplete'
      BY <2>1, <3>4 DEF OkIsComplete
    <3> QED BY <3>6, <3>7
  <2> QED BY <2>2, <2>3
<1>7. ASSUME EngineReply PROVE Inv3'
  <2>1. sched = "sent" /\ sched' = "got" /\ UNCHANGED <<answer, job, sent, remaining, done>>
    BY <1>7 DEF EngineReply
  <2> QED BY <2>1 DEF Whole, OkIsComplete
<1>8. ASSUME Collect PROVE Inv3'
  <2>1. /\ job \in Jobs /\ answer[job] = "none" /\ sched = "got" /\ UNCHANGED <<answer, remaining>>
        /\ done' = [done EXCEPT ![job] = IF result = "ok" THEN @ + sent ELSE @]
    BY <1>8 DEF Collect, Handed, Busy, Types, NoJobLost
  <2>2. /\ done[job] + sent + remaining[job] = Segments[job]
        /\ sent \in Nat /\ done[job] \in Nat /\ remaining[job] \in Nat
    BY <2>1 DEF Whole, Types
  <2>3. /\ result = "ok" => done'[job] + remaining'[job] = Segments[job]
        /\ \A j \in Jobs : j # job => done'[j] = done[j]
    BY <2>1, <2>2 DEF Types
  <2>4. CASE result = "ok" /\ remaining[job] # 0
    <3>1. sched' = "pop"
      BY <1>8, <2>4 DEF Collect
    <3> QED BY <2>1, <2>3, <2>4, <3>1 DEF Whole, OkIsComplete
  <2>5. CASE ~(result = "ok" /\ remaining[job] # 0)
    <3>1. sched' = "finish" /\ UNCHANGED <<job, result>>
      BY <1>8, <2>5 DEF Collect
    <3>2. result = "ok" => done'[job] = Segments[job] /\ remaining'[job] = 0
      BY <2>1, <2>2, <2>3, <2>5
    <3> QED BY <2>1, <2>3, <3>1, <3>2 DEF Whole, OkIsComplete
  <2> QED BY <2>4, <2>5
<1>9. ASSUME Unpin PROVE Inv3'
  BY <1>9 DEF Unpin, Whole, OkIsComplete
<1>10. ASSUME Reply PROVE Inv3'
  <2>1. /\ job \in Jobs /\ result # "none" /\ sched = "reply" /\ sched' = "pop"
        /\ answer' = [answer EXCEPT ![job] = result] /\ UNCHANGED <<remaining, done>>
    BY <1>10 DEF Reply, Handed, Busy, Types
  <2>2. answer'[job] = result /\ \A j \in Jobs : j # job => answer'[j] = answer[j]
    BY <2>1 DEF Types
  <2> QED BY <2>1, <2>2 DEF Whole, OkIsComplete
<1>11. ASSUME Drain PROVE Inv3'
  <2>1. /\ sched' = "shutdown" /\ sched = "drain" /\ UNCHANGED <<remaining, done>>
        /\ \A j \in Jobs : answer'[j] \in {answer[j], "cancelled"}
    BY <1>11 DEF Drain
  <2> QED BY <2>1 DEF Whole, OkIsComplete
<1>12. ASSUME Shutdown PROVE Inv3'
  BY <1>12 DEF Shutdown, Whole, OkIsComplete
<1> QED BY <1>2, <1>3, <1>4, <1>5, <1>6, <1>7, <1>8, <1>9, <1>10, <1>11, <1>12 DEF Next, Finished

\* A translation that is answered "ok" is whole, however many chunks it took:
\* OkIsComplete, for any set of jobs.
THEOREM OkAnswersAreComplete == Spec => []OkIsComplete
<1>1. Init => Inv3
  <2> SUFFICES ASSUME Init PROVE Inv3
    OBVIOUS
  <2>1. /\ remaining = Segments /\ \A j \in Jobs : done[j] = 0 /\ answer[j] = "none"
        /\ sched = "pop"
    BY DEF Init
  <2>2. \A j \in Jobs : Segments[j] \in Nat
    BY RouteAssumption
  <2> QED BY <2>1, <2>2 DEF Inv3, Whole, OkIsComplete
<1>2. Inv1 /\ Inv3 /\ [Next]_vars => Inv3'
  BY WholeStep
<1>3. Inv3 => OkIsComplete
  BY DEF Inv3
<1> QED BY <1>1, <1>2, <1>3, Layer1, PTL DEF Spec
-----------------------------------------------------------------------------
(* The refinements: both rest on Inv1, on where each job is and on a closed *)
(* queue being out of reach.                                                *)

USE DEF queueVars, entryVars, callerVars, schedVars

\* What Inv1 says of the job in hand and of a task that still holds its route.
LEMMA InHandFacts ==
    ASSUME Inv1, sched \in Busy
    PROVE  job \in Jobs /\ Accepted(job) /\ answer[job] = "none"
BY RouteAssumption DEF Inv1, Types, Handed, NoJobLost

LEMMA HoldingFacts ==
    ASSUME Inv1, NEW j \in Jobs, caller[j] = "holding"
    PROVE  /\ ~closed /\ answer[j] = "none" /\ job # j
           /\ j \notin Elems(interactive) \cup Elems(batch)
BY DEF Inv1, Shut, Holders, AnsweredAccepted, NoJobLost, Accepted
-----------------------------------------------------------------------------
(* RouteLife *)

LEMMA LifeInit == Init => Life!Init
BY DEF Init, Life!Init, Holders, Unfinished, Accepted, Stage, Unloaded

\* The callers' steps.
LEMMA LifeCaller ==
    ASSUME Inv1, NEW j \in Jobs,
           Acquire(j) \/ Submit(j) \/ Notify(j) \/ Receive(j) \/ Abandon(j) \/ RaiseFlag(j)
    PROVE  [Life!Next]_(Life!vars)
<1> USE DEF Inv1, Types, CallerStates
<1>1. CASE Acquire(j)
  <2>1. Holders' = Holders \cup {j} /\ j \notin Holders /\ Unfinished' = Unfinished
    BY <1>1 DEF Acquire, Holders, Unfinished, Accepted
  <2>2. Stage' = Stage
    BY <1>1 DEF Acquire, Stage, Unloaded
  <2> QED BY <1>1, <2>1, <2>2 DEF Acquire, Life!Next, Life!Acquire
<1>2. CASE Submit(j)
  <2>1. ~closed /\ answer[j] = "none" /\ job # j
    BY <1>2, HoldingFacts DEF Submit
  <2>2. caller' = [caller EXCEPT ![j] = "pushed"]
    BY <1>2, <2>1 DEF Submit
  <2>3. Holders' = Holders /\ j \in Holders
    BY <1>2, <2>2 DEF Submit, Holders
  <2>4. Unfinished' = Unfinished \cup {j} /\ j \notin Unfinished
    BY <1>2, <2>1, <2>2 DEF Submit, Unfinished, Accepted
  <2>5. Stage = "open" /\ Stage' = Stage
    BY <1>2, <2>1 DEF Submit, Stage, Unloaded, Shut
  <2> QED BY <1>2, <2>3, <2>4, <2>5 DEF Submit, Life!Next, Life!Accept
<1>3. CASE Notify(j) \/ RaiseFlag(j)
  <2>1. Holders' = Holders /\ Unfinished' = Unfinished
    BY <1>3 DEF Notify, RaiseFlag, Holders, Unfinished, Accepted
  <2>2. Stage' = Stage
    BY <1>3 DEF Notify, RaiseFlag, Stage, Unloaded
  <2> QED BY <1>3, <2>1, <2>2 DEF Notify, RaiseFlag, Life!vars
<1>4. CASE Receive(j) \/ Abandon(j)
  <2>1. Holders' = Holders \ {j} /\ j \in Holders /\ Unfinished' = Unfinished
    BY <1>4 DEF Receive, Abandon, Holders, Unfinished, Accepted
  <2>2. Stage' = Stage
    BY <1>4 DEF Receive, Abandon, Stage, Unloaded
  <2> QED BY <1>4, <2>1, <2>2 DEF Receive, Abandon, Life!Next, Life!LetGo
<1> QED BY <1>1, <1>2, <1>3, <1>4

\* The entry's end: out of the map, then closed by the last to let go.
LEMMA LifeEntry ==
    ASSUME Inv1, Unmap \/ CloseQueue \/ DropNotify
    PROVE  [Life!Next]_(Life!vars)
<1>1. Holders' = Holders /\ Unfinished' = Unfinished
  BY DEF Unmap, CloseQueue, DropNotify, Holders, Unfinished, Accepted
<1>2. CASE Unmap
  <2>1. Stage' = Stage
    BY <1>2 DEF Unmap, Stage, Unloaded
  <2> QED BY <1>1, <1>2, <2>1 DEF Unmap, Life!Next, Life!Unmap
<1>3. CASE CloseQueue
  <2>1. Stage = "open" /\ Stage' = "closed"
    BY <1>3 DEF CloseQueue, Stage, Unloaded, Inv1, Shut
  <2> QED BY <1>1, <1>3, <2>1 DEF CloseQueue, Life!Next, Life!Close
<1>4. CASE DropNotify
  <2>1. Stage' = Stage
    BY <1>4 DEF DropNotify, Stage, Unloaded
  <2> QED BY <1>1, <1>4, <2>1 DEF DropNotify, Life!vars
<1> QED BY <1>2, <1>3, <1>4

\* A job stops pinning the route in Unpin, before it is answered.
LEMMA LifeJob ==
    ASSUME Inv1,
           \/ Pop \/ AwaitNotify \/ StartJob \/ EngineReply \/ Collect \/ Unpin \/ Reply \/ Drain
    PROVE  [Life!Next]_(Life!vars)
<1>1. Holders' = Holders /\ mapped' = mapped
  BY DEF Pop, AwaitNotify, StartJob, EngineReply, Collect, Unpin, Reply, Drain, Holders
<1>2. ~Unloaded /\ ~Unloaded' /\ closed' = closed
  BY DEF Pop, AwaitNotify, StartJob, EngineReply, Collect, Unpin, Reply, Drain, Unloaded
<1>3. Stage' = Stage
  BY <1>2 DEF Stage
<1>4. CASE Pop \/ AwaitNotify \/ StartJob \/ EngineReply \/ Collect
  <2>1. sched # "reply" /\ sched' # "reply"
    BY <1>4 DEF Pop, AwaitNotify, StartJob, EngineReply, Collect
  <2>2. UNCHANGED <<caller, answer>>
    BY <1>4 DEF Pop, AwaitNotify, StartJob, EngineReply, Collect
  <2>3. Unfinished' = Unfinished
    BY <2>1, <2>2 DEF Unfinished, Accepted
  <2> QED BY <1>1, <1>3, <2>3 DEF Life!vars
<1>5. CASE Unpin
  <2>1. job \in Jobs /\ Accepted(job) /\ answer[job] = "none"
    BY <1>5, InHandFacts DEF Unpin, Busy
  <2>2. job \in Unfinished /\ Unfinished' = Unfinished \ {job}
    BY <1>5, <2>1 DEF Unpin, Unfinished, Accepted
  <2>3. Stage # "unloaded"
    BY <1>2 DEF Stage
  <2> QED BY <1>1, <1>3, <2>1, <2>2, <2>3 DEF Life!Next, Life!Complete
<1>6. CASE Reply
  <2>1. job \in Jobs /\ result # "none"
    BY <1>6, InHandFacts DEF Reply, Busy, Inv1, Handed
  <2>2. /\ answer' = [answer EXCEPT ![job] = result] /\ caller' = caller
        /\ sched = "reply" /\ sched' = "pop"
    BY <1>6 DEF Reply
  <2>3. Unfinished' = Unfinished
    BY <2>1, <2>2 DEF Unfinished, Accepted, Inv1, Types
  <2> QED BY <1>1, <1>3, <2>3 DEF Life!vars
<1>7. CASE Drain
  <2>1. Elems(interactive) \cup Elems(batch) = {}
    BY <1>7, ElemsType DEF Drain, Inv1, Types, ClosedIsFinal
  <2>2. answer' = answer /\ caller' = caller /\ sched # "reply" /\ sched' # "reply"
    BY <1>7, <2>1 DEF Drain, Inv1, Types
  <2>3. Unfinished' = Unfinished
    BY <2>2 DEF Unfinished, Accepted
  <2> QED BY <1>1, <1>3, <2>3 DEF Life!vars
<1> QED BY <1>4, <1>5, <1>6, <1>7

\* The models go last: the queue is closed, and no accepted job is left.
LEMMA LifeUnload ==
    ASSUME Inv1, Shutdown \/ DropWorker
    PROVE  [Life!Next]_(Life!vars)
<1>1. Holders' = Holders /\ mapped' = mapped /\ closed' = closed /\ closed
  BY DEF Shutdown, DropWorker, Holders, Inv1, Shut
<1>2. Unfinished = {}
  <2>1. Elems(interactive) = {} /\ Elems(batch) = {} /\ job = NoJob
    BY ElemsType DEF Shutdown, DropWorker, Inv1, Types, ClosedIsFinal, Handed, Busy
  <2> QED BY <2>1, RouteAssumption DEF Unfinished, Inv1, NoJobLost
<1>3. Unfinished' = Unfinished
  BY DEF Shutdown, DropWorker, Unfinished, Accepted
<1>4. Stage = "closed"
  BY <1>1 DEF Shutdown, DropWorker, Stage, Unloaded
<1>5. CASE Unloaded'
  <2>1. Stage' = "unloaded"
    BY <1>5 DEF Stage
  <2> QED BY <1>1, <1>2, <1>3, <1>4, <2>1 DEF Life!Next, Life!Unload
<1>6. CASE ~Unloaded'
  <2>1. Stage' = Stage
    BY <1>1, <1>4, <1>6 DEF Stage
  <2> QED BY <1>1, <1>3, <2>1 DEF Life!vars
<1> QED BY <1>5, <1>6

\* The scheduler keeps the contract with the registry: work is accepted from
\* holders and into an open queue only, the queue is closed once nobody can
\* reach it, and the models leave memory when no accepted job is left.
THEOREM SchedulerKeepsContract == Spec => Life!Init /\ [][Life!Next]_(Life!vars)
<1>1. Inv1 /\ [Next]_vars => [Life!Next]_(Life!vars)
  <2> SUFFICES ASSUME Inv1, [Next]_vars PROVE [Life!Next]_(Life!vars)
    OBVIOUS
  <2>1. CASE UNCHANGED vars
    BY <2>1 DEF vars, Life!vars, Holders, Unfinished, Accepted, Stage, Unloaded
  <2>2. CASE Next
    BY <2>1, <2>2, LifeCaller, LifeEntry, LifeJob, LifeUnload DEF Next, Finished
  <2> QED BY <2>1, <2>2
<1> QED BY LifeInit, <1>1, Layer1, PTL DEF Spec
-----------------------------------------------------------------------------
(* JobService *)

Deque(c) == IF c = "interactive" THEN interactive ELSE batch

LEMMA WaitingShape ==
    /\ DOMAIN Waiting = Service!Classes
    /\ Waiting["interactive"] = InHand("interactive") \o interactive
    /\ Waiting["batch"] = InHand("batch") \o batch
    /\ \A c \in Service!Classes : Waiting[c] = InHand(c) \o Deque(c)
BY DEF Waiting, Deque, Service!Classes

\* A job that is appended stays behind the one in hand; nothing else waits.
LEMMA HandThenAppend ==
    ASSUME NEW S, NEW s \in Seq(S), NEW x \in S, NEW y \in S
    PROVE  /\ <<y>> \o Append(s, x) = Append(<<y>> \o s, x)
           /\ \A i \in DOMAIN (<<y>> \o s) : (<<y>> \o s)[i] \in {y} \cup Elems(s)
<1>1. <<y>> \o Append(s, x) = Append(<<y>> \o s, x)
  OBVIOUS
<1>2. \A i \in DOMAIN (<<y>> \o s) : (<<y>> \o s)[i] \in {y} \cup Elems(s)
  BY DEF Elems
<1> QED BY <1>1, <1>2

\* The head of a deque is taken in hand, and leaves the class from there.
LEMMA Shuffles ==
    ASSUME NEW S, NEW s \in Seq(S), NEW x \in S
    PROVE  /\ <<>> \o s = s
           /\ Head(<<x>> \o s) = x /\ Tail(<<x>> \o s) = s /\ <<x>> \o s # <<>>
           /\ s # <<>> => <<Head(s)>> \o Tail(s) = s
<1>1. <<>> \o s = s
  OBVIOUS
<1>2. Head(<<x>> \o s) = x /\ Tail(<<x>> \o s) = s /\ <<x>> \o s # <<>>
  OBVIOUS
<1>3. s # <<>> => <<Head(s)>> \o Tail(s) = s
  OBVIOUS
<1> QED BY <1>1, <1>2, <1>3

LEMMA ServiceInit == Init => Service!Init
<1> SUFFICES ASSUME Init PROVE Service!Init
  OBVIOUS
<1>1. \A c \in Service!Classes : InHand(c) \o Deque(c) = <<>>
  BY DEF Init, InHand, Deque
<1>2. Waiting = [c \in Service!Classes |-> <<>>]
  BY <1>1 DEF Waiting, Deque, Service!Classes
<1> QED BY <1>2 DEF Init, Service!Init

\* A job is taken in at the back of its class, or nothing changes.
LEMMA ServiceAccept ==
    ASSUME Inv1, NEW j \in Jobs, Submit(j)
    PROVE  Service!Accept(j)
<1>1. /\ ~closed /\ answer[j] = "none" /\ job # j
      /\ j \notin Elems(interactive) \cup Elems(batch)
  BY HoldingFacts DEF Submit
<1>2. interactive \in Seq(Jobs) /\ batch \in Seq(Jobs) /\ job \in Jobs \cup {NoJob}
      /\ Priority[j] \in Service!Classes
  BY RouteAssumption DEF Inv1, Types, Service!Classes
<1>3. \A c \in Service!Classes : InHand(c)' = InHand(c)
  BY DEF Submit, InHand
<1>4. \A c \in Service!Classes :
          Deque(c)' = IF c = Priority[j] THEN Append(Deque(c), j) ELSE Deque(c)
  BY <1>1, <1>2 DEF Submit, Deque, Service!Classes
<1>5. ASSUME NEW c \in Service!Classes
      PROVE  /\ InHand(c) \o Append(Deque(c), j) = Append(InHand(c) \o Deque(c), j)
             /\ \A i \in DOMAIN (InHand(c) \o Deque(c)) : (InHand(c) \o Deque(c))[i] # j
  <2>1. Deque(c) \in Seq(Jobs) /\ j \notin Elems(Deque(c))
    BY <1>1, <1>2 DEF Deque
  <2>2. CASE InHand(c) = <<>>
    <3>1. Append(Deque(c), j) \in Seq(Jobs)
      BY <2>1
    <3>2. <<>> \o Append(Deque(c), j) = Append(Deque(c), j) /\ <<>> \o Deque(c) = Deque(c)
      BY <2>1, <3>1, Shuffles
    <3> QED BY <2>1, <2>2, <3>2 DEF Elems
  <2>3. CASE InHand(c) = <<job>> /\ job \in Jobs
    <3> DEFINE s == Deque(c)
               t == InHand(c) \o s
    <3>1. InHand(c) \o Append(s, j) = Append(t, j)
      BY <2>1, <2>3, HandThenAppend
    <3>2. \A i \in DOMAIN t : t[i] \in {job} \cup Elems(s)
      BY <2>1, <2>3, HandThenAppend
    <3>3. j \notin {job} \cup Elems(s)
      BY <1>1, <2>1
    <3> HIDE DEF s, t
    <3>4. \A i \in DOMAIN t : t[i] # j
      BY <3>2, <3>3
    <3> QED BY <3>1, <3>4 DEF s, t
  <2> QED BY <1>2, <2>2, <2>3 DEF InHand
<1>6. Waiting' = [Waiting EXCEPT ![Priority[j]] = Append(@, j)]
  <2>1. \A c \in Service!Classes :
            Waiting'[c] = IF c = Priority[j] THEN Append(Waiting[c], j) ELSE Waiting[c]
    <3>1. \A c \in Service!Classes : Waiting'[c] = InHand(c)' \o Deque(c)'
      BY DEF Waiting, Deque, Service!Classes
    <3> QED BY <1>3, <1>4, <1>5, <3>1, WaitingShape
  <2>2. Waiting' = [c \in Service!Classes |-> Waiting'[c]]
        /\ Waiting = [c \in Service!Classes |-> Waiting[c]]
    BY DEF Waiting, Service!Classes
  <2> QED BY <1>2, <2>1, <2>2
<1> QED BY <1>1, <1>5, <1>6, WaitingShape DEF Submit, Service!Accept

\* The job in hand stays the oldest of its class from its pop to its answer,
\* also when it goes back to the front of its deque.
LEMMA ServiceHand ==
    ASSUME Inv1, Pop \/ Collect
    PROVE  UNCHANGED Service!vars
<1> USE DEF Inv1, Types
<1>1. answer' = answer
  BY DEF Pop, Collect
<1>2. ASSUME NEW c \in Service!Classes PROVE InHand(c)' \o Deque(c)' = InHand(c) \o Deque(c)
  <2>1. CASE Pop
    <3>1. job = NoJob
      BY <2>1 DEF Pop, Handed, Busy
    <3>2. CASE interactive # <<>> /\ sched' = "picked"
      <4>1. Head(interactive) \in Elems(interactive) /\ Head(interactive) \in Jobs
        BY <3>2, PopFront
      <4>2. job' = Head(interactive) /\ interactive' = Tail(interactive) /\ batch' = batch
        BY <2>1, <3>2 DEF Pop
      <4>3. Priority[job'] = "interactive" /\ job' # NoJob
        BY <4>1, <4>2, RouteAssumption DEF Placed
      <4>4. <<Head(interactive)>> \o Tail(interactive) = interactive
            /\ <<>> \o interactive = interactive
        BY <3>2, <4>1, Shuffles
      <4> QED BY <3>1, <4>2, <4>3, <4>4 DEF InHand, Deque, Service!Classes
    <3>3. CASE interactive = <<>> /\ batch # <<>> /\ sched' = "picked"
      <4>1. Head(batch) \in Elems(batch) /\ Head(batch) \in Jobs
        BY <3>3, PopFront
      <4>2. job' = Head(batch) /\ batch' = Tail(batch) /\ interactive' = interactive
        BY <2>1, <3>3 DEF Pop
      <4>3. Priority[job'] = "batch" /\ job' # NoJob
        BY <4>1, <4>2, RouteAssumption DEF Placed
      <4>4. <<Head(batch)>> \o Tail(batch) = batch /\ <<>> \o batch = batch
        BY <3>3, <4>1, Shuffles
      <4> QED BY <3>1, <4>2, <4>3, <4>4 DEF InHand, Deque, Service!Classes
    <3>4. CASE UNCHANGED <<interactive, batch, job>>
      BY <3>4 DEF InHand, Deque
    <3> QED BY <2>1, <3>2, <3>3, <3>4 DEF Pop
  <2>2. CASE Collect
    <3>1. job \in Jobs
      BY <2>2, InHandFacts DEF Collect, Busy
    <3>2. CASE result = "ok" /\ remaining[job] # 0
      <4>1. Priority[job] = "batch" /\ job # NoJob
        BY <2>2, <3>1, <3>2, RouteAssumption DEF Collect, Handed
      <4>2. batch' = <<job>> \o batch /\ job' = NoJob /\ interactive' = interactive
        BY <2>2, <3>2 DEF Collect
      <4>3. <<job>> \o batch \in Seq(Jobs)
        BY <3>1, ElemsPrepend
      <4>4. <<>> \o (<<job>> \o batch) = <<job>> \o batch
        BY <3>1, <4>3, Shuffles
      <4> QED BY <4>1, <4>2, <4>4 DEF InHand, Deque, Service!Classes
    <3>3. CASE ~(result = "ok" /\ remaining[job] # 0)
      BY <2>2, <3>3 DEF Collect, InHand, Deque
    <3> QED BY <3>2, <3>3
  <2> QED BY <2>1, <2>2
<1>3. Waiting' = Waiting
  BY <1>2 DEF Waiting, Deque, Service!Classes
<1> QED BY <1>1, <1>3 DEF Service!vars

\* The answer goes to the oldest of a class.
LEMMA ServiceAnswer ==
    ASSUME Inv1, Reply
    PROVE  Service!Answer(Priority[job])
<1>1. job \in Jobs /\ job # NoJob /\ Priority[job] \in Service!Classes
  BY InHandFacts, RouteAssumption DEF Reply, Busy, Service!Classes
<1>2. result \in Service!Outcomes
  BY DEF Reply, Inv1, Types, Handed, Results, Service!Outcomes
<1>3. \A c \in Service!Classes : Deque(c)' = Deque(c) /\ Deque(c) \in Seq(Jobs)
  BY DEF Reply, Deque, Inv1, Types
<1>4. \A c \in Service!Classes :
          InHand(c)' = <<>> /\ InHand(c) = IF c = Priority[job] THEN <<job>> ELSE <<>>
  BY <1>1 DEF Reply, InHand
<1>5. \A c \in Service!Classes : Waiting'[c] = InHand(c)' \o Deque(c)'
  BY DEF Waiting, Deque, Service!Classes
<1>6. Waiting[Priority[job]] = <<job>> \o Deque(Priority[job])
  BY <1>1, <1>4, WaitingShape
<1>7. /\ Waiting[Priority[job]] # <<>> /\ Head(Waiting[Priority[job]]) = job
      /\ Tail(Waiting[Priority[job]]) = Deque(Priority[job])
  BY <1>1, <1>3, <1>6, Shuffles
<1>8. Waiting' = [Waiting EXCEPT ![Priority[job]] = Tail(@)]
  <2>1. \A c \in Service!Classes : <<>> \o Deque(c) = Deque(c)
    BY <1>1, <1>3, Shuffles
  <2>2. \A c \in Service!Classes :
            Waiting'[c] = IF c = Priority[job] THEN Tail(Waiting[c]) ELSE Waiting[c]
    <3>1. ASSUME NEW c \in Service!Classes PROVE Waiting'[c] = Deque(c)
      BY <1>3, <1>4, <1>5, <2>1
    <3>2. ASSUME NEW c \in Service!Classes, c # Priority[job] PROVE Waiting[c] = Deque(c)
      BY <1>4, <2>1, <3>2, WaitingShape
    <3> QED BY <1>7, <3>1, <3>2
  <2>3. Waiting' = [c \in Service!Classes |-> Waiting'[c]]
        /\ Waiting = [c \in Service!Classes |-> Waiting[c]]
    BY DEF Waiting, Service!Classes
  <2> QED BY <1>1, <2>2, <2>3
<1> QED BY <1>1, <1>2, <1>7, <1>8 DEF Reply, Service!Answer

\* Every other step leaves the waiting jobs and the answers alone.
LEMMA ServiceRest ==
    ASSUME Inv1,
           \/ \E j \in Jobs : Acquire(j) \/ Notify(j) \/ Receive(j) \/ Abandon(j) \/ RaiseFlag(j)
           \/ Unmap \/ CloseQueue \/ DropNotify \/ AwaitNotify \/ StartJob \/ EngineReply
           \/ Unpin \/ Drain \/ Shutdown \/ DropWorker \/ UNCHANGED vars
    PROVE  UNCHANGED Service!vars
<1>1. UNCHANGED <<interactive, batch, job, answer>>
  <2>1. CASE Drain
    <3>1. interactive = <<>> /\ batch = <<>>
      BY <2>1 DEF Drain, Inv1, ClosedIsFinal
    <3>2. Elems(interactive) \cup Elems(batch) = {}
      BY <3>1, ElemsType DEF Inv1, Types
    <3> QED BY <2>1, <3>1, <3>2 DEF Drain, Inv1, Types
  <2> QED BY <2>1 DEF Acquire, Notify, Receive, Abandon, RaiseFlag, Unmap, CloseQueue,
              DropNotify, AwaitNotify, StartJob, EngineReply, Unpin, Shutdown, DropWorker, vars
<1> QED BY <1>1 DEF Service!vars, Waiting, InHand

\* The route takes jobs in and answers each of them once, and the jobs of one
\* class in the order in which they came, through pops, chunks, requeues,
\* failures of the engine, abandoned callers and the end of the route.
THEOREM SchedulerServesInOrder == Spec => Service!Init /\ [][Service!Next]_(Service!vars)
<1>1. Inv1 /\ [Next]_vars => [Service!Next]_(Service!vars)
  <2> SUFFICES ASSUME Inv1, [Next]_vars PROVE [Service!Next]_(Service!vars)
    OBVIOUS
  <2>1. ASSUME NEW j \in Jobs, Submit(j) PROVE Service!Next
    BY <2>1, ServiceAccept DEF Service!Next
  <2>2. ASSUME Reply PROVE Service!Next
    <3>1. Priority[job] \in Service!Classes
      BY <2>2, InHandFacts, RouteAssumption DEF Reply, Busy, Service!Classes
    <3> QED BY <2>2, <3>1, ServiceAnswer DEF Service!Next
  <2> QED BY <2>1, <2>2, ServiceHand, ServiceRest DEF Next, Finished
<1> QED BY ServiceInit, <1>1, Layer1, PTL DEF Spec
=============================================================================
