------------------------------ MODULE Session ------------------------------
(***************************************************************************)
(* A session: clients (crates/dragoman-client, dragomanctl, the KRunner    *)
(* plugin and the GNOME search provider) calling a daemon that the bus     *)
(* starts for them and that leaves when it is idle (crates/dragomand/src/  *)
(* lifecycle.rs, lib.rs, main.rs).                                         *)
(*                                                                         *)
(* A command is a translation or an update check.  Each of its calls is a  *)
(* method call, answered with the request's path or an error, and a        *)
(* Response signal on that path; nothing orders the two.  dragomanctl      *)
(* answers NotInstalled with PreparePair and one more try; the search      *)
(* front ends do not, and give up after 15 seconds.  What Requests and     *)
(* PairWorkers do inside is one step here, or two.                         *)
(***************************************************************************)
EXTENDS Integers, FiniteSets

CONSTANTS Clients,
          Commands,    \* what they may set out to do, a set of functions
          MaxDaemons,  \* a bound: the daemons that the session starts
          MaxSignals,  \* a bound: the SIGUSR2s that somebody sends
          Killable     \* BOOLEAN: SIGTERM, SIGINT and crashes happen

SessionAssumption ==
    /\ Commands \subseteq [Clients -> {"translate", "search", "check"}]
    /\ MaxDaemons \in Nat \ {0} /\ MaxSignals \in Nat /\ Killable \in BOOLEAN

ASSUME SessionAssumption

Daemons == 1 .. MaxDaemons

VARIABLES
    owner,      \* the daemon that has the bus name, or 0
    life,       \* [Daemons -> "unborn", "running", "released" or "gone"]
    watch,      \* [Daemons -> how far wait_until_idle's round is]
    quiet,      \* [Daemons -> BOOLEAN]: no activity for idle_exit
    loaded,     \* [Daemons -> BOOLEAN]: PairWorkers has an entry
    installed,  \* the pair is in the store
    signals,    \* SIGUSR2s so far
    pc,         \* [Clients -> where the command stands]
    method,     \* [Clients -> what it calls, or called last; "search" is a
                \* front end's Translate]
    prepared,   \* [Clients -> BOOLEAN]: PreparePair has been tried
    listening,  \* [Clients -> BOOLEAN]: subscribed to Response
    at,         \* [Clients -> the daemon that got the call]
    request,    \* [Clients -> the call, and its request, in that daemon]
    reply,      \* [Clients -> the answer to the method call, once sent]
    response    \* [Clients -> the Response that reached the client]

daemon == <<owner, life, watch, quiet, loaded, signals>>
client == <<pc, method, prepared, listening>>
bus    == <<at, request, reply, response>>
vars   == <<daemon, installed, client, bus>>

Steps    == {"idle", "subscribed", "calling", "waiting", "ended"}
Methods  == {"translate", "search", "prepare", "check"}
Requests == {"none", "queued", "refused", "working", "worked", "over", "lost"}

Init ==
    /\ owner = 0 /\ life = [d \in Daemons |-> "unborn"]
    /\ watch = [d \in Daemons |-> "sleeping"] /\ quiet = [d \in Daemons |-> FALSE]
    /\ loaded = [d \in Daemons |-> FALSE] /\ signals = 0 /\ installed \in BOOLEAN
    /\ pc = [c \in Clients |-> "idle"] /\ method \in Commands
    /\ prepared = [c \in Clients |-> FALSE] /\ listening = [c \in Clients |-> FALSE]
    /\ at = [c \in Clients |-> 0] /\ request = [c \in Clients |-> "none"]
    /\ reply = [c \in Clients |-> "none"] /\ response = [c \in Clients |-> "none"]

Serving(d) == life[d] \in {"running", "released"}
Calls(d)   == {c \in Clients : at[c] = d}

\* RequestManager::active_count
Active(d) == {c \in Calls(d) : request[c] \in {"working", "worked"}}

\* (Mutant) a pin outlives its request.
PinnedForEver(d) == \E c \in Calls(d) : request[c] \in {"working", "over"} /\ method[c] # "check"

\* Entries of the registry that a request has pinned.
Pinned(d) == \E c \in Calls(d) : request[c] = "working" /\ method[c] # "check"
-----------------------------------------------------------------------------
(* call_with_request *)

\* (Mutant) the subscription is lazy: no match rule before the call.
SubscribeLazily(c) ==
    /\ pc[c] = "idle" /\ pc' = [pc EXCEPT ![c] = "subscribed"]
    /\ at' = [at EXCEPT ![c] = 0] /\ request' = [request EXCEPT ![c] = "none"]
    /\ reply' = [reply EXCEPT ![c] = "none"] /\ response' = [response EXCEPT ![c] = "none"]
    /\ UNCHANGED <<daemon, installed, method, prepared, listening>>

\* A new token, and a subscription to the path it gives.  The daemon answers
\* with that path: the branch for another one (lib.rs:196-203) is left out.
Subscribe(c) ==
    /\ pc[c] = "idle" /\ pc' = [pc EXCEPT ![c] = "subscribed"]
    /\ listening' = [listening EXCEPT ![c] = TRUE]
    /\ at' = [at EXCEPT ![c] = 0] /\ request' = [request EXCEPT ![c] = "none"]
    /\ reply' = [reply EXCEPT ![c] = "none"] /\ response' = [response EXCEPT ![c] = "none"]
    /\ UNCHANGED <<daemon, installed, method, prepared>>

Queue(c, d) ==
    /\ pc[c] = "subscribed" /\ pc' = [pc EXCEPT ![c] = "calling"]
    /\ at' = [at EXCEPT ![c] = d] /\ request' = [request EXCEPT ![c] = "queued"]
    /\ UNCHANGED <<installed, method, prepared, listening, reply, response>>

Send(c) == owner # 0 /\ Queue(c, owner) /\ UNCHANGED daemon

\* Nobody has the name: the bus starts a daemon, which serves its object
\* before it claims the name, and the call waits for that.
Activate(c) ==
    /\ owner = 0
    /\ \E d \in Daemons :
          /\ life[d] = "unborn" /\ \A e \in 1 .. d - 1 : life[e] # "unborn"
          /\ Queue(c, d)
          /\ owner' = d /\ life' = [life EXCEPT ![d] = "running"]
    /\ UNCHANGED <<watch, quiet, loaded, signals>>

\* The daemon cannot read its configuration, or reach the bus.
LaunchFails(c) ==
    /\ owner = 0 /\ pc[c] = "subscribed" /\ pc' = [pc EXCEPT ![c] = "calling"]
    /\ reply' = [reply EXCEPT ![c] = "error"]
    /\ UNCHANGED <<daemon, installed, method, prepared, listening, at, request, response>>

TakePath(c) ==
    /\ pc[c] = "calling" /\ reply[c] = "path" /\ pc' = [pc EXCEPT ![c] = "waiting"]
    /\ UNCHANGED <<daemon, installed, method, prepared, listening, bus>>

\* (Mutant) as often as it takes.
CallAgain(c, m) ==
    /\ pc' = [pc EXCEPT ![c] = "idle"] /\ method' = [method EXCEPT ![c] = m]
    /\ listening' = [listening EXCEPT ![c] = FALSE] /\ UNCHANGED prepared

\* dragomanctl translate: prepare, and then try once more.
CallNext(c, m) ==
    /\ pc' = [pc EXCEPT ![c] = "idle"] /\ method' = [method EXCEPT ![c] = m]
    /\ prepared' = [prepared EXCEPT ![c] = TRUE] /\ listening' = [listening EXCEPT ![c] = FALSE]

EndCommand(c) ==
    /\ pc' = [pc EXCEPT ![c] = "ended"] /\ listening' = [listening EXCEPT ![c] = FALSE]
    /\ UNCHANGED <<method, prepared>>

TakeError(c) ==
    /\ pc[c] = "calling" /\ reply[c] \in {"NotInstalled", "error"}
    /\ IF reply[c] = "NotInstalled" /\ method[c] = "translate" /\ ~prepared[c]
       THEN CallNext(c, "prepare") ELSE EndCommand(c)
    /\ UNCHANGED <<daemon, installed, bus>>

TakeResponse(c) ==
    /\ pc[c] = "waiting" /\ response[c] # "none"
    /\ IF method[c] = "prepare" /\ response[c] = "success"
       THEN CallNext(c, "translate") ELSE EndCommand(c)
    /\ UNCHANGED <<daemon, installed, bus>>

\* The timeout drops the wait; nobody cancels the request.
GiveUp(c) ==
    /\ method[c] = "search" /\ pc[c] \in {"calling", "waiting"} /\ EndCommand(c)
    /\ UNCHANGED <<daemon, installed, bus>>

Client(c) == \/ Subscribe(c) \/ Send(c) \/ Activate(c) \/ LaunchFails(c)
             \/ TakePath(c) \/ TakeError(c) \/ TakeResponse(c)
-----------------------------------------------------------------------------
(* The handler and the request's task *)

\* CheckForUpdates is the one method that is not activity.
Touch(c) == quiet' = [quiet EXCEPT ![at[c]] = @ /\ method[c] = "check"]

Enter(c, to) ==
    /\ request[c] = "queued" /\ Serving(at[c]) /\ Touch(c)
    /\ request' = [request EXCEPT ![c] = to]
    /\ UNCHANGED <<owner, life, watch, loaded, signals, installed, client, at, response>>

Translating(c) == method[c] \in {"translate", "search"}

\* plan_route fails fast; or the call has a bad argument, is one too many,
\* or has no network.
Refuse(c) ==
    /\ Enter(c, "refused")
    /\ reply' = [reply EXCEPT ![c] =
                   IF Translating(c) /\ ~installed THEN "NotInstalled" ELSE "error"]

\* register, the object, and the task; the method's return is still to come.
Handle(c) ==
    /\ Translating(c) => installed
    /\ Enter(c, "working") /\ UNCHANGED reply

HandlerReturns(c) ==
    /\ reply[c] = "none" /\ request[c] \in {"working", "worked", "over"}
    /\ Serving(at[c]) /\ reply' = [reply EXCEPT ![c] = "path"]
    /\ UNCHANGED <<daemon, installed, client, at, request, response>>

\* PreparePair installs and loads; Translate loads what is not loaded.
Work(c) ==
    /\ request[c] = "working" /\ Serving(at[c])
    /\ request' = [request EXCEPT ![c] = "worked"]
    /\ installed' = (installed \/ method[c] = "prepare")
    /\ loaded' = [loaded EXCEPT ![at[c]] = @ \/ method[c] # "check"]
    /\ UNCHANGED <<owner, life, watch, quiet, signals, client, at, reply, response>>

\* The bus hands the signal to whoever listens to the owner of the name;
\* then the request is released.
Respond(c, code) ==
    /\ life[at[c]] = "running" /\ request' = [request EXCEPT ![c] = "over"]
    /\ response' = [response EXCEPT ![c] = IF listening[c] THEN code ELSE @]
    /\ UNCHANGED <<daemon, installed, client, at, reply>>

Succeed(c) == request[c] = "worked" /\ Respond(c, "success")
Fail(c)    == request[c] = "working" /\ Respond(c, "failure")

Serve(c) == \/ Refuse(c) \/ Handle(c) \/ HandlerReturns(c)
            \/ Work(c) \/ Succeed(c) \/ Fail(c)
-----------------------------------------------------------------------------
(* wait_until_idle, and main's select! *)

Round(d, from, condition, to) ==
    /\ life[d] = "running" /\ watch[d] = from
    /\ watch' = [watch EXCEPT ![d] = IF condition THEN to ELSE "sleeping"]
    /\ UNCHANGED <<owner, life, quiet, loaded, signals, installed, client, bus>>

\* Three reads, one after the other; the second one awaits a lock, and the
\* third follows at once.
NoRequests(d) == Active(d) = {} /\ Round(d, "sleeping", TRUE, "counted")
IdleLongEnough(d) == Round(d, "counted", ~loaded[d] /\ quiet[d], "idle")

ReleaseName(d) ==
    /\ watch[d] = "idle" /\ life[d] = "running"
    /\ life' = [life EXCEPT ![d] = "released"]
    /\ owner' = IF owner = d THEN 0 ELSE owner
    /\ UNCHANGED <<watch, quiet, loaded, signals, installed, client, bus>>

\* The process ends.  The bus answers the method calls that it leaves
\* unanswered; nobody tells those who wait for a Response.
Vanish(d) ==
    /\ life' = [life EXCEPT ![d] = "gone"] /\ owner' = IF owner = d THEN 0 ELSE owner
    /\ request' = [c \in Clients |-> IF at[c] = d THEN "lost" ELSE request[c]]
    /\ reply' = [c \in Clients |-> IF at[c] = d /\ reply[c] = "none" THEN "error" ELSE reply[c]]
    /\ watch' = [watch EXCEPT ![d] = "sleeping"] /\ quiet' = [quiet EXCEPT ![d] = FALSE]
    /\ loaded' = [loaded EXCEPT ![d] = FALSE]
    /\ UNCHANGED <<signals, installed, client, at, response>>

Exit(d) == life[d] = "released" /\ Vanish(d)

\* SIGTERM, SIGINT or a crash
Kill(d) == Killable /\ life[d] = "running" /\ Vanish(d)

\* SIGUSR2: the select! drops wait_until_idle, which starts anew.  (While
\* that sleeps, Unload stands for it.)
SimulatePressure(d) ==
    /\ life[d] = "running" /\ watch[d] = "counted" /\ signals < MaxSignals
    /\ signals' = signals + 1 /\ watch' = [watch EXCEPT ![d] = "sleeping"]
    /\ loaded' = [loaded EXCEPT ![d] = @ /\ Pinned(d)]
    /\ UNCHANGED <<owner, life, quiet, installed, client, bus>>

\* The keep-warm sweeper, or memory pressure from the kernel.
Unload(d) ==
    /\ life[d] = "running" /\ loaded[d] /\ ~Pinned(d)
    /\ loaded' = [loaded EXCEPT ![d] = FALSE]
    /\ UNCHANGED <<owner, life, watch, quiet, signals, installed, client, bus>>

\* idle_exit goes by, which is long beside a round's reads.
Elapse(d) ==
    /\ life[d] = "running" /\ watch[d] = "sleeping" /\ ~quiet[d] /\ quiet' = [quiet EXCEPT ![d] = TRUE]
    /\ UNCHANGED <<owner, life, watch, loaded, signals, installed, client, bus>>

IdleExit(d) == \/ NoRequests(d) \/ IdleLongEnough(d)
               \/ ReleaseName(d) \/ Exit(d)

\* Somebody removes the pair.
RemovePair ==
    /\ installed /\ installed' = FALSE /\ UNCHANGED <<daemon, client, bus>>

Next ==
    \/ \E c \in Clients : Client(c) \/ GiveUp(c) \/ Serve(c)
    \/ \E d \in Daemons : \/ IdleExit(d) \/ Kill(d) \/ SimulatePressure(d)
                          \/ Unload(d) \/ Elapse(d)
    \/ RemovePair

\* Clients and daemons run; work ends; the sweeper comes round; time passes.
Fairness ==
    /\ \A c \in Clients : WF_vars(Client(c)) /\ WF_vars(Serve(c))
    /\ \A d \in Daemons : WF_vars(IdleExit(d)) /\ WF_vars(Unload(d)) /\ SF_vars(Elapse(d))

Spec == Init /\ [][Next]_vars /\ Fairness
-----------------------------------------------------------------------------
TypeOK ==
    /\ owner \in Daemons \cup {0} /\ (owner # 0 => life[owner] = "running")
    /\ \A d \in Daemons : life[d] = "running" => owner = d
    /\ life \in [Daemons -> {"unborn", "running", "released", "gone"}]
    /\ watch \in [Daemons -> {"sleeping", "counted", "idle"}]
    /\ quiet \in [Daemons -> BOOLEAN] /\ loaded \in [Daemons -> BOOLEAN]
    /\ installed \in BOOLEAN /\ signals \in 0 .. MaxSignals
    /\ pc \in [Clients -> Steps] /\ method \in [Clients -> Methods]
    /\ prepared \in [Clients -> BOOLEAN] /\ listening \in [Clients -> BOOLEAN]
    /\ at \in [Clients -> Daemons \cup {0}] /\ request \in [Clients -> Requests]
    /\ reply \in [Clients -> {"none", "path", "NotInstalled", "error"}]
    /\ response \in [Clients -> {"none", "success", "failure"}]

\* "Subscribes to a request's Response before invoking call" (client lib.rs:
\* 172-173): a Response that is sent before the method returns, or while the
\* client has not looked yet, still reaches the client that waits for it.
NothingMissed ==
    \A c \in Clients : pc[c] \in {"calling", "waiting"} /\ request[c] = "over"
                            => response[c] # "none"

\* The client was given a path, and the daemon behind it is no more.
Stranded(c) == pc[c] = "waiting" /\ request[c] = "lost" /\ response[c] = "none"

\* Every command ends, with its one repetition after PreparePair at most,
\* unless the daemon vanishes between the path and the Response: then the
\* client waits for ever.
CommandsEnd == <>(\A c \in Clients : pc[c] = "ended" \/ Stranded(c))

\* Without SIGTERM nobody is stranded: the daemon leaves when nothing is in
\* flight, and "the next call re-activates it" (lib.rs:70-72).
NoneStranded == \A c \in Clients : ~Stranded(c)

\* "A daemon that sits around consuming resources permanently is a design
\* failure" (lifecycle.rs:5-6): each one that was started goes away, with
\* clients that gave up, failed, or vanished, and with SIGUSR2s in between.
DaemonsLeave == <>[](\A d \in Daemons : life[d] \in {"unborn", "gone"})
============================================================================
