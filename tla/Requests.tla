----------------------------- MODULE Requests -----------------------------
(***************************************************************************)
(* Request objects and per-client accounting                               *)
(* (crates/dragomand/src/requests.rs): what spawn_request, its work task,  *)
(* Request1.Cancel and the NameOwnerChanged watcher do to the manager's    *)
(* table, to the D-Bus object tree and to the cancel handles.              *)
(*                                                                         *)
(* A request is one call of a slow method with a handle_token.  zbus runs  *)
(* every method handler, and the watcher, as a task of its own, so their   *)
(* steps interleave; each action is what runs between two awaits or under  *)
(* one lock.  The work itself (a translation, an installation) only        *)
(* succeeds or fails here.                                                 *)
(***************************************************************************)
EXTENDS Integers, FiniteSets

CONSTANTS Requests,                \* slow method calls that may be made
          Clients, Tokens,         \* unique bus names, handle_tokens
          ValidTokens,             \* the tokens that valid_token accepts
          Leavers,                 \* clients that may leave the bus
          Assignments,             \* who makes each call, with which token
          MAX_REQUESTS_PER_CLIENT

ASSUME RequestsAssumption ==
    /\ IsFiniteSet(Requests)
    /\ Assignments \subseteq [Requests -> [client : Clients, token : Tokens]]
    /\ ValidTokens \subseteq Tokens /\ Leavers \subseteq Clients
    /\ MAX_REQUESTS_PER_CLIENT \in Nat \ {0}

VARIABLES
    path,        \* [Requests -> client and token], fixed: request_path()
    pc,          \* where each request stands
    registered,  \* the requests in RequestManager.clients
    objects,     \* the requests whose RequestObject the server exports
    flag,        \* CancelHandle::flag
    waiter,      \* how far the task's cancelled() future is
    notifying,   \* requests whose cancel() is between store and notify
    doomed,      \* taken out of the table by cancel_client, to be cancelled
    outcome,     \* what select! took: the work's result, or its cancellation
    response,    \* the Response signal on the request's path
    vanished,    \* clients that left the bus
    watched      \* clients whose disconnection the watcher has handled

manager == <<registered, doomed>>
handle  == <<flag, waiter, notifying>>
bus     == <<vanished, watched>>
task    == <<outcome, response>>
vars    == <<path, pc, manager, objects, handle, task, bus>>

States    == {"idle", "called", "registered", "duplicate", "refused", "failed",
            "running", "selected", "emitted", "removed", "finished"}
Outcomes  == {"none", "result", "dropped"}
Responses == {"none", "result", "error", "cancelled"}
Waiters   == {"unpolled", "checked", "armed", "woken"}

Client(r)   == path[r].client
SamePath(r) == {q \in Requests : path[q] = path[r]}
OfClient(c) == {r \in Requests : Client(r) = c}

Init ==
    /\ path \in Assignments
    /\ pc = [r \in Requests |-> "idle"]
    /\ registered = {} /\ objects = {} /\ doomed = {} /\ notifying = {}
    /\ flag = [r \in Requests |-> FALSE]
    /\ waiter = [r \in Requests |-> "unpolled"]
    /\ outcome = [r \in Requests |-> "none"]
    /\ response = [r \in Requests |-> "none"]
    /\ vanished = {} /\ watched = {}

Goto(r, from, to) == pc[r] = from /\ pc' = [pc EXCEPT ![r] = to]
-----------------------------------------------------------------------------
(* The method handler, up to the spawned task *)

\* The call reaches the daemon; its handler is scheduled as a task.
Call(r) ==
    /\ Goto(r, "idle", "called") /\ Client(r) \notin vanished
    /\ UNCHANGED <<path, manager, objects, handle, task, bus>>

Slots(c)     == registered \cap OfClient(c)
AtCapLate(c) == Cardinality(Slots(c)) > MAX_REQUESTS_PER_CLIENT
AtCap(c)     == Cardinality(Slots(c)) >= MAX_REQUESTS_PER_CLIENT

\* spawn_request: a bad token is refused; RequestManager::register answers
\* LimitExceeded at the cap and takes a slot below it.
Register(r) ==
    /\ pc[r] = "called"
    /\ IF path[r].token \notin ValidTokens \/ AtCap(Client(r))
       THEN pc' = [pc EXCEPT ![r] = "refused"] /\ UNCHANGED registered
       ELSE /\ pc' = [pc EXCEPT ![r] = "registered"]
            /\ registered' = registered \cup {r}
    /\ UNCHANGED <<path, doomed, objects, handle, task, bus>>

AddObjectAnyway(r) ==
    /\ Goto(r, "registered", "running")
    /\ objects' = objects \cup {r}
    /\ UNCHANGED <<path, manager, handle, task, bus>>

\* object_server().at, answered: it adds the object unless one stands at the
\* path.  On success the work task is spawned.
AddObject(r) ==
    /\ IF objects \cap SamePath(r) = {}
       THEN Goto(r, "registered", "running") /\ objects' = objects \cup {r}
       ELSE Goto(r, "registered", "duplicate") /\ UNCHANGED objects
    /\ UNCHANGED <<path, manager, handle, task, bus>>

\* It answers with an error (map_err(Error::ZBus)?): the handler returns, past
\* the release that a duplicate gets.
AddFails(r) ==
    /\ Goto(r, "registered", "failed")
    /\ UNCHANGED <<path, manager, objects, handle, task, bus>>

UnregisterAll(r) == registered' = registered \ OfClient(Client(r))

\* RequestManager::release keeps the entries of other paths only.
Unregister(r) == registered' = registered \ SamePath(r)

\* "a request with this token already exists"
RejectDuplicate(r) ==
    /\ Goto(r, "duplicate", "refused")
    /\ Unregister(r)
    /\ UNCHANGED <<path, doomed, objects, handle, task, bus>>
-----------------------------------------------------------------------------
(* The work task *)

\* The first poll of cancelled(): is_cancelled() ...
CheckFlag(r) ==
    /\ pc[r] = "running" /\ waiter[r] = "unpolled"
    /\ IF flag[r]
       THEN /\ pc' = [pc EXCEPT ![r] = "selected"]
            /\ outcome' = [outcome EXCEPT ![r] = "dropped"]
            /\ UNCHANGED waiter
       ELSE /\ waiter' = [waiter EXCEPT ![r] = "checked"]
            /\ UNCHANGED <<pc, outcome>>
    /\ UNCHANGED <<path, manager, objects, flag, notifying, response, bus>>

\* ... and then notified(), which hears of notify_waiters from here on.
Arm(r) ==
    /\ waiter[r] = "checked"
    /\ waiter' = [waiter EXCEPT ![r] = "armed"]
    /\ UNCHANGED <<path, pc, manager, objects, flag, notifying, task, bus>>

\* select! takes the work's result.  It polls its branches in random order,
\* but never between the two halves of cancelled(); the future it did not
\* take is dropped.
WorkDone(r) ==
    /\ Goto(r, "running", "selected") /\ waiter[r] # "checked"
    /\ outcome' = [outcome EXCEPT ![r] = "result"]
    /\ waiter' = [waiter EXCEPT ![r] = "unpolled"]
    /\ UNCHANGED <<path, manager, objects, flag, notifying, response, bus>>

\* select! is woken by the cancellation and drops the work.
WorkDropped(r) ==
    /\ Goto(r, "running", "selected") /\ waiter[r] = "woken"
    /\ outcome' = [outcome EXCEPT ![r] = "dropped"]
    /\ waiter' = [waiter EXCEPT ![r] = "unpolled"]
    /\ UNCHANGED <<path, manager, objects, flag, notifying, response, bus>>

RespondByOutcome(r) ==
    /\ Goto(r, "selected", "emitted")
    /\ response' = [response EXCEPT ![r] = IF outcome[r] = "result" THEN "result" ELSE "error"]
    /\ UNCHANGED <<path, manager, objects, handle, outcome, bus>>

\* The flag, read again, decides between CANCELLED and select!'s outcome (a
\* dropped work's outcome is an error); emit_response sends nothing when no
\* object stands at the path.
Respond(r) ==
    /\ Goto(r, "selected", "emitted")
    /\ IF objects \cap SamePath(r) = {} THEN UNCHANGED response
       ELSE response' = [response EXCEPT ![r] =
                CASE flag[r] -> "cancelled"
                  [] ~flag[r] /\ outcome[r] = "result" -> "result"
                  [] OTHER -> "error"]
    /\ UNCHANGED <<path, manager, objects, handle, outcome, bus>>

RemoveEveryObject(r) ==
    /\ Goto(r, "emitted", "removed")
    /\ objects' = objects \ OfClient(Client(r))
    /\ UNCHANGED <<path, manager, handle, task, bus>>

\* object_server().remove(path)
RemoveObject(r) ==
    /\ Goto(r, "emitted", "removed")
    /\ objects' = objects \ SamePath(r)
    /\ UNCHANGED <<path, manager, handle, task, bus>>

ReleaseNothing(r) ==
    /\ Goto(r, "removed", "finished")
    /\ UNCHANGED <<path, manager, objects, handle, task, bus>>

Release(r) ==
    /\ Goto(r, "removed", "finished")
    /\ Unregister(r)
    /\ UNCHANGED <<path, doomed, objects, handle, task, bus>>
-----------------------------------------------------------------------------
(* Cancellation *)

\* Request1.Cancel stores the flag ...
Cancel(r) ==
    /\ r \in objects
    /\ flag' = [flag EXCEPT ![r] = TRUE]
    /\ notifying' = notifying \cup {r}
    /\ UNCHANGED <<path, pc, manager, objects, waiter, task, bus>>

\* ... and wakes the waiters there are at that moment.
NotifyWaiters(r) ==
    /\ r \in notifying
    /\ notifying' = notifying \ {r}
    /\ waiter' = [waiter EXCEPT ![r] = IF @ = "armed" THEN "woken" ELSE @]
    /\ UNCHANGED <<path, pc, manager, objects, flag, task, bus>>

Vanish(c) ==
    /\ c \in Leavers \ vanished /\ vanished' = vanished \cup {c}
    /\ UNCHANGED <<path, pc, manager, objects, handle, task, watched>>

\* The watcher sees NameOwnerChanged without a new owner: cancel_client takes
\* the client out of the table under the lock ...
CancelClient(c) ==
    /\ c \in vanished \ watched /\ watched' = watched \cup {c}
    /\ registered' = registered \ OfClient(c)
    /\ doomed' = doomed \cup (registered \cap OfClient(c))
    /\ UNCHANGED <<path, pc, objects, handle, task, vanished>>

\* ... and then cancels its requests one by one.
CancelDoomed(r) ==
    /\ r \in doomed /\ doomed' = doomed \ {r}
    /\ flag' = [flag EXCEPT ![r] = TRUE]
    /\ notifying' = notifying \cup {r}
    /\ UNCHANGED <<path, pc, registered, objects, waiter, task, bus>>
-----------------------------------------------------------------------------
HandlerStep(r) == Register(r) \/ AddObject(r) \/ AddFails(r) \/ RejectDuplicate(r)
TaskStep(r)    == \/ CheckFlag(r) \/ Arm(r) \/ WorkDropped(r) \/ Respond(r)
                  \/ RemoveObject(r) \/ Release(r)
CancelStep(r)  == NotifyWaiters(r) \/ CancelDoomed(r)

\* Every call made is over and every notification handled.
Settled == /\ \A r \in Requests : pc[r] \in {"idle", "refused", "failed", "finished"}
           /\ doomed = {} /\ notifying = {} /\ vanished = watched
           /\ UNCHANGED vars

Next == \/ \E r \in Requests :
              \/ Call(r) \/ Register(r) \/ AddObject(r) \/ AddFails(r) \/ RejectDuplicate(r)
              \/ CheckFlag(r) \/ Arm(r) \/ WorkDone(r) \/ WorkDropped(r) \/ Respond(r)
              \/ RemoveObject(r) \/ Release(r)
              \/ Cancel(r) \/ NotifyWaiters(r) \/ CancelDoomed(r)
        \/ \E c \in Clients : Vanish(c) \/ CancelClient(c)
        \/ Settled

\* Tasks that can run are run (tokio's executor).  Nobody has to call, cancel
\* or vanish, and nothing is said of how long the work takes.
TaskFairness == /\ \A r \in Requests : /\ WF_vars(HandlerStep(r))
                                       /\ WF_vars(TaskStep(r))
                                       /\ WF_vars(CancelStep(r))
                /\ \A c \in Clients : WF_vars(CancelClient(c))

\* With work that always ends, by itself, some time.
Spec == Init /\ [][Next]_vars /\ TaskFairness /\ \A r \in Requests : WF_vars(WorkDone(r))

-----------------------------------------------------------------------------
(* Properties *)

TypeOK ==
    /\ path \in Assignments
    /\ pc \in [Requests -> States]
    /\ registered \subseteq Requests /\ objects \subseteq Requests
    /\ doomed \subseteq Requests /\ notifying \subseteq Requests
    /\ flag \in [Requests -> BOOLEAN] /\ waiter \in [Requests -> Waiters]
    /\ outcome \in [Requests -> Outcomes]
    /\ response \in [Requests -> Responses]
    /\ vanished \subseteq Clients /\ watched \subseteq vanished

Live(r)  == pc[r] \in {"running", "selected", "emitted"}
Fresh(r) == SamePath(r) = {r}

\* A path belongs to one request at a time, from its object's export to its
\* removal, whatever tokens a client reuses and however its calls overlap; so
\* the Response a client sees on a path answers the call it was told about.
PathExclusive ==
    \A r, q \in Requests : (Live(r) /\ Live(q) /\ path[r] = path[q]) => r = q

\* Work dropped by a cancellation is always reported as CANCELLED, never as
\* the EngineFailure that stands in for its result (requests.rs:192-196).
DroppedIsCancelled ==
    \A r \in Requests : outcome[r] = "dropped" /\ response[r] # "none" => response[r] = "cancelled"

\* A request whose token its client uses only once holds its slot for as long
\* as it lives, unless the client's disconnection took the slot away: no other
\* request's release, however it interleaves, unregisters it.
FreshHoldsSlot ==
    \A r \in Requests :
        Fresh(r) /\ (Live(r) \/ pc[r] \in {"registered", "removed"})
            => r \in registered \/ Client(r) \in watched

\* The cap holds for what runs, not only for the table: of a client that the
\* watcher has not handled, no more than the cap's requests with tokens of
\* their own are live at a time, whatever other requests' releases take out of
\* the table meanwhile.
CapHolds ==
    \A c \in Clients \ watched :
        Cardinality({r \in OfClient(c) : Fresh(r) /\ Live(r)}) <= MAX_REQUESTS_PER_CLIENT

\* What the table holds is still on its way to a release, so that the cap is
\* not eaten up and active_count can return to zero: only a call whose object
\* the server failed to export leaves its slot behind (requests.rs:171-175).
OnlyFailedExportLeaks ==
    \A r \in registered : \/ Live(r) \/ pc[r] \in {"registered", "duplicate", "removed"}
                          \/ pc[r] = "failed"

\* Every call is refused, or answered on its object and cleaned up, once its
\* work has ended; or it fails with its export.
EveryCallEnds ==
    \A r \in Requests :
        pc[r] = "called" ~> \/ pc[r] \in {"refused", "failed"}
                            \/ pc[r] = "finished" /\ response[r] # "none"

\* "a client's requests die with it" (requests.rs:13-14): once the watcher has
\* handled the disconnection, what still runs for the client is cancelled.
ClientsRequestsDie ==
    \A r \in objects : Client(r) \in watched => flag[r] \/ r \in doomed
============================================================================
