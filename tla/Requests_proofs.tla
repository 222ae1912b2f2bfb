--------------------------- MODULE Requests_proofs ---------------------------
(***************************************************************************)
(* Request objects, for any calls, clients, tokens and cap: the safety     *)
(* properties of Requests that the run `requests' checks on three calls.   *)
(*                                                                         *)
(* PathExclusive needs to know that a request is live exactly while its    *)
(* object is exported (Exported), and DroppedIsCancelled that whatever     *)
(* drops work has set the flag before (Flagged), which is never cleared.   *)
(* CapHolds compares what runs with the cap, where the code compares the   *)
(* table with it: the table never outgrows the cap (TableBounded), and     *)
(* what runs with a token of its own is in the table (FreshHoldsSlot).     *)
(***************************************************************************)
EXTENDS Requests, FiniteSetTheorems, TLAPS

Exported ==
    /\ \A r \in Requests : r \in objects <=> Live(r)
    /\ \A r, q \in objects : path[r] = path[q] => r = q

Flagged ==
    \A r \in Requests :
        /\ r \in notifying => flag[r]
        /\ waiter[r] = "woken" => flag[r]
        /\ outcome[r] = "dropped" => flag[r]
        /\ response[r] # "none" => pc[r] \in {"emitted", "removed", "finished"}

TableBounded == \A c \in Clients : Cardinality(Slots(c)) <= MAX_REQUESTS_PER_CLIENT

Inv == /\ TypeOK /\ Exported /\ Flagged
       /\ DroppedIsCancelled /\ FreshHoldsSlot /\ OnlyFailedExportLeaks /\ TableBounded

USE DEF manager, handle, bus, task

LEMMA InitInv == Init => Inv
<1> SUFFICES ASSUME Init PROVE Inv
  OBVIOUS
<1>1. TypeOK /\ Exported /\ Flagged /\ DroppedIsCancelled /\ FreshHoldsSlot /\ OnlyFailedExportLeaks
  BY RequestsAssumption
     DEF Init, RequestsAssumption, TypeOK, Exported, Flagged, DroppedIsCancelled,
         FreshHoldsSlot, OnlyFailedExportLeaks, Live, States, Outcomes, Responses, Waiters
<1>2. TableBounded
  <2>1. ASSUME NEW c \in Clients PROVE Slots(c) = {}
    BY DEF Init, Slots
  <2>2. Cardinality({}) = 0 /\ MAX_REQUESTS_PER_CLIENT >= 0
    BY FS_EmptySet, RequestsAssumption DEF RequestsAssumption
  <2> QED BY <2>1, <2>2 DEF TableBounded
<1> QED BY <1>1, <1>2 DEF Inv

LEMMA TypeStep == TypeOK /\ [Next]_vars => TypeOK'
<1> SUFFICES ASSUME TypeOK, [Next]_vars PROVE TypeOK'
  OBVIOUS
<1> USE DEF TypeOK, States
<1>1. ASSUME NEW r \in Requests,
             Call(r) \/ Register(r) \/ AddObject(r) \/ AddFails(r) \/ RejectDuplicate(r)
      PROVE  TypeOK'
  BY <1>1 DEF Call, Register, AddObject, AddFails, RejectDuplicate, Unregister, Goto
<1>2. ASSUME NEW r \in Requests, CheckFlag(r) \/ Arm(r) \/ WorkDone(r) \/ WorkDropped(r)
      PROVE  TypeOK'
  BY <1>2 DEF CheckFlag, Arm, WorkDone, WorkDropped, Goto, Outcomes, Waiters
<1>3. ASSUME NEW r \in Requests, Respond(r) PROVE TypeOK'
  <2>1. PICK answer \in Responses :
            response' = response \/ response' = [response EXCEPT ![r] = answer]
    BY <1>3 DEF Respond, Responses
  <2> QED BY <1>3, <2>1 DEF Respond, Goto
<1>4. ASSUME NEW r \in Requests, RemoveObject(r) \/ Release(r) PROVE TypeOK'
  BY <1>4 DEF RemoveObject, Release, Unregister, Goto
<1>5. ASSUME NEW r \in Requests, Cancel(r) \/ NotifyWaiters(r) \/ CancelDoomed(r)
      PROVE  TypeOK'
  BY <1>5 DEF Cancel, NotifyWaiters, CancelDoomed, Waiters
<1>6. ASSUME NEW c \in Clients, Vanish(c) \/ CancelClient(c) PROVE TypeOK'
  BY <1>6 DEF Vanish, CancelClient
<1>7. CASE Settled \/ UNCHANGED vars
  BY <1>7 DEF Settled, vars
<1> QED BY <1>1, <1>2, <1>3, <1>4, <1>5, <1>6, <1>7 DEF Next

\* A request's object stands from AddObject to RemoveObject, and alone at its
\* path: AddObject looks first.
LEMMA ExportedStep == TypeOK /\ Exported /\ [Next]_vars => Exported'
<1> SUFFICES ASSUME TypeOK, Exported, [Next]_vars PROVE Exported'
  OBVIOUS
<1> USE DEF TypeOK, Exported, Live, SamePath
<1>1. ASSUME NEW r \in Requests,
             Call(r) \/ Register(r) \/ RejectDuplicate(r) \/ Release(r)
      PROVE  Exported'
  BY <1>1 DEF Call, Register, RejectDuplicate, Release, Goto
<1>2. ASSUME NEW r \in Requests, AddObject(r) \/ AddFails(r) PROVE Exported'
  BY <1>2 DEF AddObject, AddFails, Goto
<1>3. ASSUME NEW r \in Requests,
             CheckFlag(r) \/ Arm(r) \/ WorkDone(r) \/ WorkDropped(r) \/ Respond(r)
      PROVE  Exported'
  BY <1>3 DEF CheckFlag, Arm, WorkDone, WorkDropped, Respond, Goto
<1>4. ASSUME NEW r \in Requests, RemoveObject(r) PROVE Exported'
  <2>1. r \in objects /\ objects' = objects \ {r}
    BY <1>4 DEF RemoveObject, Goto
  <2> QED BY <1>4, <2>1 DEF RemoveObject, Goto
<1>5. CASE \/ \E r \in Requests : Cancel(r) \/ NotifyWaiters(r) \/ CancelDoomed(r)
           \/ \E c \in Clients : Vanish(c) \/ CancelClient(c)
           \/ Settled \/ UNCHANGED vars
  BY <1>5 DEF Cancel, NotifyWaiters, CancelDoomed, Vanish, CancelClient, Settled, vars
<1> QED BY <1>1, <1>2, <1>3, <1>4, <1>5 DEF Next

\* What drops the work is a flag that is set, or a waiter woken after it was;
\* and the answer is given once, with the work over.
LEMMA FlaggedStep ==
    TypeOK /\ Flagged /\ DroppedIsCancelled /\ [Next]_vars
        => Flagged' /\ DroppedIsCancelled'
<1> SUFFICES ASSUME TypeOK, Flagged, DroppedIsCancelled, [Next]_vars
             PROVE  Flagged' /\ DroppedIsCancelled'
  OBVIOUS
<1> USE DEF TypeOK, Flagged, DroppedIsCancelled
<1>1. ASSUME NEW r \in Requests,
             \/ Call(r) \/ Register(r) \/ AddObject(r) \/ AddFails(r) \/ RejectDuplicate(r)
             \/ RemoveObject(r) \/ Release(r)
      PROVE  Flagged' /\ DroppedIsCancelled'
  BY <1>1 DEF Call, Register, AddObject, AddFails, RejectDuplicate, RemoveObject, Release, Goto
<1>2. ASSUME NEW r \in Requests, CheckFlag(r) \/ Arm(r) \/ WorkDone(r) \/ WorkDropped(r)
      PROVE  Flagged' /\ DroppedIsCancelled'
  BY <1>2 DEF CheckFlag, Arm, WorkDone, WorkDropped, Goto
<1>3. ASSUME NEW r \in Requests, Respond(r) PROVE Flagged' /\ DroppedIsCancelled'
  <2>1. flag[r] => response' = response \/ response' = [response EXCEPT ![r] = "cancelled"]
    BY <1>3 DEF Respond
  <2>2. \A q \in Requests \ {r} : response'[q] = response[q]
    BY <1>3 DEF Respond
  <2> QED BY <1>3, <2>1, <2>2 DEF Respond, Goto
<1>4. ASSUME NEW r \in Requests, Cancel(r) \/ NotifyWaiters(r) \/ CancelDoomed(r)
      PROVE  Flagged' /\ DroppedIsCancelled'
  BY <1>4 DEF Cancel, NotifyWaiters, CancelDoomed
<1>5. CASE (\E c \in Clients : Vanish(c) \/ CancelClient(c)) \/ Settled \/ UNCHANGED vars
  BY <1>5 DEF Vanish, CancelClient, Settled, vars
<1> QED BY <1>1, <1>2, <1>3, <1>4, <1>5 DEF Next

\* A slot is given up at a path that is one's own, or to the watcher.
LEMMA SlotStep ==
    TypeOK /\ FreshHoldsSlot /\ OnlyFailedExportLeaks /\ [Next]_vars
        => FreshHoldsSlot' /\ OnlyFailedExportLeaks'
<1> SUFFICES ASSUME TypeOK, FreshHoldsSlot, OnlyFailedExportLeaks, [Next]_vars
             PROVE  FreshHoldsSlot' /\ OnlyFailedExportLeaks'
  OBVIOUS
<1> USE DEF TypeOK, FreshHoldsSlot, OnlyFailedExportLeaks, Live, Fresh, SamePath, Client
<1>1. ASSUME NEW r \in Requests, Register(r) PROVE FreshHoldsSlot' /\ OnlyFailedExportLeaks'
  BY <1>1 DEF Register
<1>2. ASSUME NEW r \in Requests, RejectDuplicate(r) \/ Release(r)
      PROVE  FreshHoldsSlot' /\ OnlyFailedExportLeaks'
  <2>1. pc' = [pc EXCEPT ![r] = IF pc[r] = "duplicate" THEN "refused" ELSE "finished"]
    BY <1>2 DEF RejectDuplicate, Release, Goto
  <2>2. registered' = registered \ {q \in Requests : path[q] = path[r]} /\ r \notin registered'
    BY <1>2 DEF RejectDuplicate, Release, Unregister
  <2>3. path' = path /\ watched' = watched
    BY <1>2 DEF RejectDuplicate, Release
  <2> QED BY <2>1, <2>2, <2>3
<1>3. ASSUME NEW r \in Requests,
             \/ Call(r) \/ AddObject(r) \/ AddFails(r) \/ CheckFlag(r) \/ Arm(r) \/ WorkDone(r)
             \/ WorkDropped(r) \/ Respond(r) \/ RemoveObject(r)
      PROVE  FreshHoldsSlot' /\ OnlyFailedExportLeaks'
  BY <1>3 DEF Call, AddObject, AddFails, CheckFlag, Arm, WorkDone, WorkDropped, Respond,
              RemoveObject, Goto
<1>4. ASSUME NEW r \in Requests, Cancel(r) \/ NotifyWaiters(r) \/ CancelDoomed(r)
      PROVE  FreshHoldsSlot' /\ OnlyFailedExportLeaks'
  BY <1>4 DEF Cancel, NotifyWaiters, CancelDoomed
<1>5. ASSUME NEW c \in Clients, CancelClient(c) PROVE FreshHoldsSlot' /\ OnlyFailedExportLeaks'
  BY <1>5 DEF CancelClient, OfClient
<1>6. CASE (\E c \in Clients : Vanish(c)) \/ Settled \/ UNCHANGED vars
  BY <1>6 DEF Vanish, Settled, vars
<1> QED BY <1>1, <1>2, <1>3, <1>4, <1>5, <1>6 DEF Next

LEMMA SlotsAreFinite ==
    ASSUME TypeOK PROVE \A c : IsFiniteSet(Slots(c)) /\ Cardinality(Slots(c)) \in Nat
<1>1. ASSUME NEW c PROVE IsFiniteSet(Slots(c))
  BY FS_Subset, RequestsAssumption DEF TypeOK, Slots, OfClient, RequestsAssumption
<1> QED BY <1>1, FS_CardinalityType

\* The table grows in Register alone, by one, and below the cap.
LEMMA TableStep == TypeOK /\ TableBounded /\ [Next]_vars => TableBounded'
<1> SUFFICES ASSUME TypeOK, TableBounded, [Next]_vars, NEW c \in Clients
             PROVE  Cardinality(Slots(c)') <= MAX_REQUESTS_PER_CLIENT
  BY DEF TableBounded
<1>1. MAX_REQUESTS_PER_CLIENT \in Nat
  BY RequestsAssumption DEF RequestsAssumption
<1>2. /\ IsFiniteSet(Slots(c)) /\ Cardinality(Slots(c)) \in Nat
      /\ Cardinality(Slots(c)) <= MAX_REQUESTS_PER_CLIENT
  BY SlotsAreFinite DEF TableBounded
<1>3. CASE Slots(c)' \subseteq Slots(c)
  <2>1. IsFiniteSet(Slots(c)') /\ Cardinality(Slots(c)') <= Cardinality(Slots(c))
    BY <1>2, <1>3, FS_Subset
  <2>2. Cardinality(Slots(c)') \in Nat
    BY <2>1, FS_CardinalityType
  <2> QED BY <1>1, <1>2, <2>1, <2>2
<1>4. ASSUME NEW r \in Requests, Register(r) PROVE Cardinality(Slots(c)') <= MAX_REQUESTS_PER_CLIENT
  <2>1. path' = path
    BY <1>4 DEF Register
  <2>2. CASE registered' = registered
    BY <1>3, <2>1, <2>2 DEF Slots, OfClient, Client
  <2>3. CASE ~AtCap(Client(r)) /\ registered' = registered \cup {r} /\ Client(r) = c
    <3>1. Slots(c)' = Slots(c) \cup {r}
      BY <2>1, <2>3 DEF Slots, OfClient, Client
    <3>2. Cardinality(Slots(c)) < MAX_REQUESTS_PER_CLIENT
      BY <1>1, <1>2, <2>3 DEF AtCap
    <3>3. Cardinality(Slots(c) \cup {r}) <= Cardinality(Slots(c)) + 1
      BY <1>2, FS_AddElement
    <3>4. Cardinality(Slots(c) \cup {r}) \in Nat
      BY <1>2, FS_AddElement, FS_CardinalityType
    <3> QED BY <1>1, <1>2, <3>1, <3>2, <3>3, <3>4
  <2>4. CASE registered' = registered \cup {r} /\ Client(r) # c
    BY <1>3, <2>1, <2>4 DEF Slots, OfClient, Client
  <2> QED BY <1>4, <2>2, <2>3, <2>4 DEF Register
<1>5. ASSUME NEW r \in Requests,
             \/ Call(r) \/ AddObject(r) \/ AddFails(r) \/ RejectDuplicate(r)
             \/ CheckFlag(r) \/ Arm(r) \/ WorkDone(r) \/ WorkDropped(r) \/ Respond(r) \/ RemoveObject(r) \/ Release(r)
             \/ Cancel(r) \/ NotifyWaiters(r) \/ CancelDoomed(r)
      PROVE  Cardinality(Slots(c)') <= MAX_REQUESTS_PER_CLIENT
  <2>1. path' = path /\ registered' \subseteq registered
    BY <1>5 DEF Call, AddObject, AddFails, RejectDuplicate, CheckFlag, Arm, WorkDone,
                WorkDropped, Respond, RemoveObject, Release, Cancel, NotifyWaiters, CancelDoomed, Unregister
  <2> QED BY <1>3, <2>1 DEF Slots, OfClient, Client
<1>6. CASE (\E d \in Clients : Vanish(d) \/ CancelClient(d)) \/ Settled \/ UNCHANGED vars
  <2>1. path' = path /\ registered' \subseteq registered
    BY <1>6 DEF Vanish, CancelClient, Settled, vars
  <2> QED BY <1>3, <2>1 DEF Slots, OfClient, Client
<1> QED BY <1>4, <1>5, <1>6 DEF Next

LEMMA Invariant == Spec => []Inv
<1>1. Inv /\ [Next]_vars => Inv'
  BY TypeStep, ExportedStep, FlaggedStep, SlotStep, TableStep DEF Inv
<1> QED BY InitInv, <1>1, PTL DEF Spec

\* Table, object tree and cancel handles hold what they may hold.
THEOREM TypeCorrect == Spec => []TypeOK
<1>1. Inv => TypeOK
  BY DEF Inv
<1> QED BY <1>1, Invariant, PTL

\* However tokens are reused and calls overlap, one request at a time is live
\* at an object path.
THEOREM PathsAreExclusive == Spec => []PathExclusive
<1>1. Inv => PathExclusive
  BY DEF Inv, Exported, PathExclusive
<1> QED BY <1>1, Invariant, PTL

\* Work that a cancellation dropped is reported as CANCELLED.
THEOREM DroppedWorkIsCancelled == Spec => []DroppedIsCancelled
<1>1. Inv => DroppedIsCancelled
  BY DEF Inv
<1> QED BY <1>1, Invariant, PTL

\* A request with a token of its own keeps its slot to the end, unless its
\* client has left.
THEOREM FreshKeepsItsSlot == Spec => []FreshHoldsSlot
<1>1. Inv => FreshHoldsSlot
  BY DEF Inv
<1> QED BY <1>1, Invariant, PTL

\* No more of a client's requests with tokens of their own run than the cap.
THEOREM CapIsKept == Spec => []CapHolds
<1>1. Inv => CapHolds
  <2> SUFFICES ASSUME Inv, NEW c \in Clients \ watched
               PROVE  Cardinality({r \in OfClient(c) : Fresh(r) /\ Live(r)})
                          <= MAX_REQUESTS_PER_CLIENT
    BY DEF CapHolds
  <2> DEFINE running == {r \in OfClient(c) : Fresh(r) /\ Live(r)}
  <2>1. running \subseteq Slots(c)
    BY DEF Inv, FreshHoldsSlot, Slots, OfClient
  <2>2. /\ IsFiniteSet(Slots(c)) /\ Cardinality(Slots(c)) \in Nat
        /\ Cardinality(Slots(c)) <= MAX_REQUESTS_PER_CLIENT
    BY SlotsAreFinite DEF Inv, TableBounded
  <2>3. IsFiniteSet(running) /\ Cardinality(running) <= Cardinality(Slots(c))
    BY <2>1, <2>2, FS_Subset
  <2>4. Cardinality(running) \in Nat /\ MAX_REQUESTS_PER_CLIENT \in Nat
    BY <2>3, FS_CardinalityType, RequestsAssumption DEF RequestsAssumption
  <2> QED BY <2>2, <2>3, <2>4
<1> QED BY <1>1, Invariant, PTL

\* Every slot taken belongs to a request that is still to give it back, or to
\* a call whose object could not be exported, which never will.
THEOREM SlotsLeakByFailureOnly == Spec => []OnlyFailedExportLeaks
<1>1. Inv => OnlyFailedExportLeaks
  BY DEF Inv
<1> QED BY <1>1, Invariant, PTL
=============================================================================
