--------------------------- MODULE Session_proofs ---------------------------
(***************************************************************************)
(* That no client misses its Response, and the types of Session, for any   *)
(* number of clients, daemons and signals, with or without kills.          *)
(***************************************************************************)
EXTENDS Session, TLAPS

\* A client listens from before its call until it has its answer, or has
\* given up.
Listens ==
    \A c \in Clients :
        /\ pc[c] \in {"subscribed", "calling", "waiting"} => listening[c]
        /\ pc[c] = "subscribed" => request[c] = "none" /\ at[c] = 0

Inv == TypeOK /\ Listens /\ NothingMissed

USE DEF daemon, client, bus

LEMMA InitInv == Init => Inv
  BY SessionAssumption
     DEF Init, Inv, SessionAssumption, TypeOK, Listens, NothingMissed, Daemons, Steps, Methods, Requests

LEMMA ClientTypes ==
    ASSUME TypeOK, NEW c \in Clients, Client(c) \/ GiveUp(c)
    PROVE  TypeOK'
<1> USE SessionAssumption DEF SessionAssumption, TypeOK, Steps
<1>1. CASE Subscribe(c)
  BY <1>1 DEF Subscribe, Requests
<1>2. CASE Send(c)
  BY <1>2 DEF Send, Queue, Requests
<1>3. CASE Activate(c)
  <2>1. PICK d \in Daemons : /\ life[d] = "unborn" /\ Queue(c, d) /\ owner' = d
                             /\ life' = [life EXCEPT ![d] = "running"]
    BY <1>3 DEF Activate
  <2>2. /\ owner' \in Daemons /\ life'[owner'] = "running"
        /\ \A e \in Daemons : life'[e] = "running" => owner' = e
    BY <1>3, <2>1 DEF Activate, Daemons
  <2>3. life' \in [Daemons -> {"unborn", "running", "released", "gone"}]
    BY <2>1
  <2>4. /\ at' \in [Clients -> Daemons \cup {0}] /\ request' \in [Clients -> Requests]
        /\ pc' \in [Clients -> Steps]
    BY <2>1 DEF Queue, Requests
  <2>5. UNCHANGED <<watch, quiet, loaded, signals, installed, method, prepared, listening,
                    reply, response>>
    BY <1>3, <2>1 DEF Activate, Queue
  <2> QED BY <2>2, <2>3, <2>4, <2>5
<1>4. CASE LaunchFails(c)
  BY <1>4 DEF LaunchFails
<1>5. CASE TakePath(c)
  BY <1>5 DEF TakePath
<1>6. CASE TakeError(c) \/ TakeResponse(c) \/ GiveUp(c)
  <2>1. PICK m \in Methods : CallNext(c, m) \/ EndCommand(c)
    BY <1>6 DEF TakeError, TakeResponse, GiveUp, Methods
  <2>2. pc' \in [Clients -> Steps] /\ method' \in [Clients -> Methods]
    BY <2>1 DEF CallNext, EndCommand
  <2>3. prepared' = prepared \/ prepared' = [prepared EXCEPT ![c] = TRUE]
    BY <2>1 DEF CallNext, EndCommand
  <2>4. listening' = [listening EXCEPT ![c] = FALSE]
    BY <2>1 DEF CallNext, EndCommand
  <2>5. prepared' \in [Clients -> BOOLEAN] /\ listening' \in [Clients -> BOOLEAN]
    BY <2>3, <2>4
  <2>6. UNCHANGED <<owner, life, watch, quiet, loaded, signals, installed, at, request, reply, response>>
    BY <1>6 DEF TakeError, TakeResponse, GiveUp
  <2> QED BY <2>2, <2>5, <2>6
<1> QED BY <1>1, <1>2, <1>3, <1>4, <1>5, <1>6 DEF Client

LEMMA ServeTypes ==
    ASSUME TypeOK, NEW c \in Clients, Serve(c)
    PROVE  TypeOK'
<1> USE DEF TypeOK
<1>1. CASE Refuse(c) \/ Handle(c)
  <2>1. PICK to \in Requests : Enter(c, to)
    BY <1>1 DEF Refuse, Handle, Requests
  <2>2. quiet' \in [Daemons -> BOOLEAN]
    BY <2>1 DEF Enter, Touch
  <2>3. request' \in [Clients -> Requests]
    BY <2>1 DEF Enter
  <2>4. reply' \in [Clients -> {"none", "path", "NotInstalled", "error"}]
    BY <1>1 DEF Refuse, Handle
  <2> QED BY <2>1, <2>2, <2>3, <2>4 DEF Enter
<1>2. CASE HandlerReturns(c)
  BY <1>2 DEF HandlerReturns
<1>3. CASE Work(c)
  <2>1. loaded' \in [Daemons -> BOOLEAN]
    BY <1>3 DEF Work
  <2>2. installed' \in BOOLEAN
    BY <1>3 DEF Work
  <2>3. request' \in [Clients -> Requests]
    BY <1>3 DEF Work, Requests
  <2> QED BY <1>3, <2>1, <2>2, <2>3 DEF Work
<1>4. CASE Succeed(c) \/ Fail(c)
  BY <1>4 DEF Succeed, Fail, Respond, Requests
<1> QED BY <1>1, <1>2, <1>3, <1>4 DEF Serve

LEMMA DaemonTypes ==
    ASSUME TypeOK, NEW d \in Daemons,
           IdleExit(d) \/ Kill(d) \/ SimulatePressure(d) \/ Unload(d) \/ Elapse(d)
    PROVE  TypeOK'
<1> USE SessionAssumption DEF TypeOK, SessionAssumption
<1>1. CASE NoRequests(d) \/ IdleLongEnough(d)
  <2>1. watch' \in [Daemons -> {"sleeping", "counted", "idle"}]
    BY <1>1 DEF NoRequests, IdleLongEnough, Round
  <2> QED BY <1>1, <2>1 DEF NoRequests, IdleLongEnough, Round
<1>2. CASE ReleaseName(d)
  BY <1>2 DEF ReleaseName, Daemons
<1>3. CASE Exit(d) \/ Kill(d)
  <2>1. life' = [life EXCEPT ![d] = "gone"] /\ owner' = IF owner = d THEN 0 ELSE owner
    BY <1>3 DEF Exit, Kill, Vanish
  <2>2. /\ owner' \in Daemons \cup {0} /\ (owner' # 0 => life'[owner'] = "running")
        /\ \A e \in Daemons : life'[e] = "running" => owner' = e
        /\ life' \in [Daemons -> {"unborn", "running", "released", "gone"}]
    BY <2>1 DEF Daemons
  <2>3. request' \in [Clients -> Requests]
        /\ reply' \in [Clients -> {"none", "path", "NotInstalled", "error"}]
    BY <1>3 DEF Exit, Kill, Vanish, Requests
  <2>4. /\ watch' \in [Daemons -> {"sleeping", "counted", "idle"}]
        /\ quiet' \in [Daemons -> BOOLEAN] /\ loaded' \in [Daemons -> BOOLEAN]
    BY <1>3 DEF Exit, Kill, Vanish
  <2> QED BY <1>3, <2>2, <2>3, <2>4 DEF Exit, Kill, Vanish
<1>4. CASE SimulatePressure(d)
  <2>1. signals' \in 0 .. MaxSignals
    BY <1>4 DEF SimulatePressure
  <2>2. watch' \in [Daemons -> {"sleeping", "counted", "idle"}]
    BY <1>4 DEF SimulatePressure
  <2>3. loaded' \in [Daemons -> BOOLEAN]
    BY <1>4 DEF SimulatePressure
  <2> QED BY <1>4, <2>1, <2>2, <2>3 DEF SimulatePressure
<1>5. CASE Unload(d) \/ Elapse(d)
  BY <1>5 DEF Unload, Elapse
<1> QED BY <1>1, <1>2, <1>3, <1>4, <1>5 DEF IdleExit

LEMMA TypeStep == TypeOK /\ [Next]_vars => TypeOK'
<1> SUFFICES ASSUME TypeOK, [Next]_vars PROVE TypeOK'
  OBVIOUS
<1>1. CASE RemovePair \/ UNCHANGED vars
  BY <1>1 DEF RemovePair, vars, TypeOK
<1> QED BY <1>1, ClientTypes, ServeTypes, DaemonTypes DEF Next

\* Every call is made with the subscription in place, so that a Response,
\* whenever it is sent, finds its client listening.
LEMMA ListensStep ==
    TypeOK /\ Listens /\ NothingMissed /\ [Next]_vars => Listens' /\ NothingMissed'
<1> SUFFICES ASSUME TypeOK, Listens, NothingMissed, [Next]_vars
             PROVE  Listens' /\ NothingMissed'
  OBVIOUS
<1> USE DEF TypeOK, Listens, NothingMissed
<1>1. ASSUME NEW c \in Clients, Subscribe(c) \/ Send(c) \/ Activate(c) \/ LaunchFails(c)
      PROVE  Listens' /\ NothingMissed'
  BY <1>1 DEF Subscribe, Send, Activate, LaunchFails, Queue
<1>2. ASSUME NEW c \in Clients, TakePath(c) \/ TakeError(c) \/ TakeResponse(c) \/ GiveUp(c)
      PROVE  Listens' /\ NothingMissed'
  <2>1. CASE TakePath(c)
    BY <2>1 DEF TakePath
  <2>2. CASE TakeError(c) \/ TakeResponse(c) \/ GiveUp(c)
    <3>1. /\ pc' = [pc EXCEPT ![c] = "idle"] \/ pc' = [pc EXCEPT ![c] = "ended"]
          /\ listening' = [listening EXCEPT ![c] = FALSE]
          /\ UNCHANGED <<request, response, at>>
      BY <2>2 DEF TakeError, TakeResponse, GiveUp, CallNext, EndCommand
    <3> QED BY <3>1
  <2> QED BY <1>2, <2>1, <2>2
<1>3. ASSUME NEW c \in Clients, Refuse(c) \/ Handle(c) \/ HandlerReturns(c) \/ Work(c)
      PROVE  Listens' /\ NothingMissed'
  BY <1>3 DEF Refuse, Handle, Enter, HandlerReturns, Work
<1>4. ASSUME NEW c \in Clients, NEW code \in {"success", "failure"}, Respond(c, code),
             request[c] \in {"working", "worked"}
      PROVE  Listens' /\ NothingMissed'
  BY <1>4 DEF Respond
<1>5. ASSUME NEW d \in Daemons, Exit(d) \/ Kill(d) PROVE Listens' /\ NothingMissed'
  <2>1. \A c \in Clients : request'[c] \in {request[c], "lost"}
    BY <1>5 DEF Exit, Kill, Vanish
  <2>2. \A c \in Clients : at[c] = 0 => request'[c] = request[c]
    BY <1>5 DEF Exit, Kill, Vanish, Daemons
  <2> QED BY <1>5, <2>1, <2>2 DEF Exit, Kill, Vanish
<1>6. ASSUME NEW d \in Daemons,
             \/ NoRequests(d) \/ IdleLongEnough(d) \/ ReleaseName(d)
             \/ SimulatePressure(d) \/ Unload(d) \/ Elapse(d)
      PROVE  Listens' /\ NothingMissed'
  BY <1>6 DEF NoRequests, IdleLongEnough, Round, ReleaseName, SimulatePressure, Unload, Elapse
<1>7. CASE RemovePair \/ UNCHANGED vars
  BY <1>7 DEF RemovePair, vars
<1> QED BY <1>1, <1>2, <1>3, <1>4, <1>5, <1>6, <1>7
        DEF Next, Client, Serve, Succeed, Fail, IdleExit

LEMMA Invariant == Spec => []Inv
<1>1. Inv /\ [Next]_vars => Inv'
  BY TypeStep, ListensStep DEF Inv
<1> QED BY InitInv, <1>1, PTL DEF Spec

\* One daemon at a time has the name, and it is one that runs.
THEOREM TypeCorrect == Spec => []TypeOK
<1>1. Inv => TypeOK
  BY DEF Inv
<1> QED BY <1>1, Invariant, PTL

\* A Response reaches the client that waits for it, however early it is sent.
THEOREM NoResponseMissed == Spec => []NothingMissed
<1>1. Inv => NothingMissed
  BY DEF Inv
<1> QED BY <1>1, Invariant, PTL
=============================================================================
