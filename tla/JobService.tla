---------------------------- MODULE JobService ----------------------------
(***************************************************************************)
(* What one loaded route promises the requests that submit to it           *)
(* (crates/dragomand/src/workers.rs): every accepted job is answered, once,*)
(* and the jobs of one priority class are answered in the order in which   *)
(* they were accepted.  Nothing is said of threads, wake-ups, chunks or of *)
(* the engine: RouteScheduler is shown to implement this module.           *)
(***************************************************************************)
EXTENDS Sequences

CONSTANTS Jobs,       \* the jobs that may ever be submitted
          Priority    \* [Jobs -> Classes]

Classes  == {"interactive", "batch"}
Outcomes == {"ok", "error", "cancelled"}

VARIABLES waiting,    \* [Classes -> Seq(Jobs)]: accepted, not yet answered
          answer      \* [Jobs -> Outcomes \cup {"none"}]

vars == <<waiting, answer>>

Init == /\ waiting = [c \in Classes |-> <<>>]
        /\ answer = [j \in Jobs |-> "none"]

\* The route takes responsibility for a job it does not have yet.
Accept(j) ==
    /\ answer[j] = "none"
    /\ \A c \in Classes : \A i \in DOMAIN waiting[c] : waiting[c][i] # j
    /\ waiting' = [waiting EXCEPT ![Priority[j]] = Append(@, j)]
    /\ UNCHANGED answer

\* The oldest job of a class gets its one answer.
Answer(c) ==
    /\ waiting[c] # <<>>
    /\ \E out \in Outcomes : answer' = [answer EXCEPT ![Head(waiting[c])] = out]
    /\ waiting' = [waiting EXCEPT ![c] = Tail(@)]

Next == \/ \E j \in Jobs : Accept(j)
        \/ \E c \in Classes : Answer(c)

\* As long as a job waits, some job is answered: a batch job may have to wait
\* for ever only if interactive jobs never stop arriving.
Spec == Init /\ [][Next]_vars /\ WF_vars(\E c \in Classes : Answer(c))
============================================================================
