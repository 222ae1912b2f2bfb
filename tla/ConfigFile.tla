---------------------------- MODULE ConfigFile ----------------------------
(***************************************************************************)
(* The configuration (crates/dragomand/src/config.rs, and SetConfig in     *)
(* service.rs): the file, its copy in the daemon's memory, the provider's  *)
(* copy of allow_prerelease, and what ConfigChanged has announced.         *)
(*                                                                         *)
(* SetConfig calls are tasks of their own; nothing orders the steps of two *)
(* of them, and all of one daemon's saves go through one temporary file,   *)
(* .config.toml.<pid>.  The user may edit the file, and the daemon may be  *)
(* killed at any step and be started again.                                *)
(*                                                                         *)
(* A text is what it sets, name by name; comments and layout are left out. *)
(* A file that is missing reads like an empty one.                         *)
(***************************************************************************)
EXTENDS Integers

CONSTANTS Clients,  \* SetConfig callers, one call at a time each
          Changes,  \* what they ask for
          Edits     \* what the user's editor leaves in the file

Number(n) == <<"number", n>>
Bool(b)   == <<"bool", b>>
Unset     == <<"unset", 0>>

\* Every settable key with its type and, for numbers, the accepted range.
KEYS ==
    LET Ranged(lo, hi) == [kind |-> "number", min |-> lo, max |-> hi]
        Switch         == [kind |-> "bool", min |-> 0, max |-> 0]
    IN  [memory_budget_mb  |-> Ranged(64, 1048576),
         keep_warm         |-> Ranged(0, 16),
         keep_warm_seconds |-> Ranged(0, 86400),
         idle_exit_seconds |-> Ranged(5, 86400),
         network           |-> Switch,
         allow_prerelease  |-> Switch]

Keys   == DOMAIN KEYS
Names  == Keys \cup {"misspelt"}
Values == ({"number"} \X Nat) \cup ({"bool"} \X BOOLEAN)
Texts  == [Names -> Values \cup {Unset}]
Config == [Keys -> Values]

Empty  == [n \in Names |-> Unset]
Torn   == [n \in Names |-> <<"torn", 0>>]     \* not TOML
Absent == [n \in Names |-> <<"absent", 0>>]   \* of the temporary file

ConfigAssumption == Changes \subseteq Texts /\ Edits \subseteq Texts \cup {Torn}

ASSUME ConfigAssumption

VARIABLES
    file,      \* what config.toml holds
    temporary, \* what .config.toml.<pid> holds
    memory,    \* DaemonState::config
    flag,      \* RemoteSettingsProvider::allow_prerelease
    up,        \* the daemon runs
    pc,        \* where each SetConfig call stands
    asked,     \* its argument
    document,  \* the text it is to write
    handle,    \* the file its descriptor is open on, by present name
    snapshot,  \* the configuration it announces
    told,      \* the last ConfigChanged of this daemon
    edited,    \* keys the user edited since the daemon had their values
    before     \* file, memory and flag when the call came in

disk    == <<file, temporary, handle>>
daemon  == <<memory, flag, up, told>>
call    == <<asked, document, snapshot, before>>
vars    == <<disk, daemon, call, pc, edited>>

Steps == {"idle", "called", "read", "opened", "written", "failing", "saved",
          "applied", "flagged", "done", "failed"}

Default == [memory_budget_mb  |-> Number(512), keep_warm        |-> Number(2),
            keep_warm_seconds |-> Number(600), idle_exit_seconds |-> Number(60),
            network |-> Bool(TRUE), allow_prerelease |-> Bool(FALSE)]

\* Config::load: an unknown key, or a value of the wrong type, is an error.
Loadable(text) ==
    text # Torn /\ \A n \in Names : text[n] # Unset => n \in Keys /\ text[n][1] = KEYS[n].kind
Loaded(text) == [k \in Keys |-> IF text[k] = Unset THEN Default[k] ELSE text[k]]

\* Config::check
Accepted(change) ==
    \A n \in Names : change[n] # Unset =>
        /\ n \in Keys /\ change[n][1] = KEYS[n].kind
        /\ KEYS[n].kind = "number" => change[n][2] \in KEYS[n].min .. KEYS[n].max

\* Config::apply, and what save writes: the old text with the changed keys.
Applied(config, change) == [k \in Keys |-> IF change[k] = Unset THEN config[k] ELSE change[k]]
Updated(text, change)   == [n \in Names |-> IF change[n] = Unset THEN text[n] ELSE change[n]]

State == [file |-> file, memory |-> memory, flag |-> flag]

Init ==
    /\ file \in Edits \cup {Empty} /\ temporary = Absent
    /\ up = FALSE /\ memory = Default /\ flag = Default.allow_prerelease /\ told = Default
    /\ pc = [c \in Clients |-> "idle"]
    /\ asked = [c \in Clients |-> Empty] /\ document = [c \in Clients |-> Empty]
    /\ handle = [c \in Clients |-> "none"]
    /\ snapshot = [c \in Clients |-> Default]
    /\ before = [c \in Clients |-> State]
    /\ edited = {}

Goto(c, from, to) == pc[c] = from /\ pc' = [pc EXCEPT ![c] = to]
-----------------------------------------------------------------------------
(* SetConfig *)

Call(c, change) ==
    /\ up /\ Goto(c, "idle", "called")
    /\ asked' = [asked EXCEPT ![c] = change] /\ before' = [before EXCEPT ![c] = State]
    /\ UNCHANGED <<disk, daemon, document, snapshot, edited>>

Reject(c) ==
    /\ Goto(c, "called", "failed") /\ ~Accepted(asked[c])
    /\ UNCHANGED <<disk, daemon, call, edited>>

\* Memory first, the file afterwards.
ReadAndApply(c) ==
    /\ Goto(c, "called", "read") /\ Accepted(asked[c]) /\ file # Torn
    /\ document' = [document EXCEPT ![c] = Updated(file, asked[c])]
    /\ memory' = Applied(memory, asked[c])
    /\ UNCHANGED <<disk, flag, up, told, asked, snapshot, before, edited>>

\* Config::save reads the file as it is now, and edits that.
ReadFile(c) ==
    /\ Goto(c, "called", "read") /\ Accepted(asked[c]) /\ file # Torn
    /\ document' = [document EXCEPT ![c] = Updated(file, asked[c])]
    /\ UNCHANGED <<disk, daemon, asked, snapshot, before, edited>>

\* It cannot be read, it is not TOML, or the directory cannot be made.
ReadFails(c) ==
    /\ Goto(c, "called", "failed") /\ Accepted(asked[c])
    /\ UNCHANGED <<disk, daemon, call, edited>>

\* The file itself is opened, not a temporary one.
OpenInPlace(c) ==
    /\ Goto(c, "read", "opened")
    /\ file' = Empty /\ handle' = [handle EXCEPT ![c] = "config"]
    /\ UNCHANGED <<temporary, daemon, call, edited>>

\* fs::write, first half: create or truncate.
OpenTemporary(c) ==
    /\ Goto(c, "read", "opened")
    /\ temporary' = Empty /\ handle' = [handle EXCEPT ![c] = "temporary"]
    /\ UNCHANGED <<file, daemon, call, edited>>

OpenFails(c) ==
    /\ Goto(c, "read", "failing")
    /\ UNCHANGED <<disk, daemon, call, edited>>

\* Into the file the descriptor is open on, wherever that is named by now,
\* or nowhere any more.
Put(c, text) ==
    /\ file' = IF handle[c] = "config" THEN text ELSE file
    /\ temporary' = IF handle[c] = "temporary" THEN text ELSE temporary
    /\ handle' = [handle EXCEPT ![c] = "none"]

Behind(c) == CASE handle[c] = "config"    -> file
               [] handle[c] = "temporary" -> temporary
               [] OTHER                   -> Empty

\* Second half.  Over a longer text of another call, the rest of that stays.
WriteTemporary(c) ==
    /\ Goto(c, "opened", "written")
    /\ \/ Put(c, document[c])
       \/ Behind(c) # Empty /\ Put(c, Torn)
    /\ UNCHANGED <<daemon, call, edited>>

\* No space left: part of the text is there.
WriteFails(c) ==
    /\ Goto(c, "opened", "failing") /\ Put(c, Torn)
    /\ UNCHANGED <<daemon, call, edited>>

Rename(c) ==
    /\ Goto(c, "written", "saved") /\ temporary # Absent
    /\ file' = temporary /\ temporary' = Absent
    /\ handle' = [d \in Clients |-> CASE handle[d] = "temporary" -> "config"
                                      [] handle[d] = "config"    -> "lost"
                                      [] OTHER                   -> handle[d]]
    /\ UNCHANGED <<daemon, call, edited>>

RenameFails(c) ==
    /\ Goto(c, "written", "failing")
    /\ UNCHANGED <<disk, daemon, call, edited>>

RemoveTemporary(c) ==
    /\ Goto(c, "failing", "failed")
    /\ temporary' = Absent
    /\ handle' = [d \in Clients |-> IF handle[d] = "temporary" THEN "lost" ELSE handle[d]]
    /\ UNCHANGED <<file, daemon, call, edited>>

\* Under the write lock, which also gives the copy that is announced.
Apply(c) ==
    /\ Goto(c, "saved", "applied")
    /\ memory' = Applied(memory, asked[c])
    /\ snapshot' = [snapshot EXCEPT ![c] = memory']
    /\ edited' = edited \ {k \in Keys : asked[c][k] # Unset}
    /\ UNCHANGED <<disk, flag, up, told, asked, document, before>>

\* The provider keeps the switch it was started with.
KeepFlag(c) ==
    /\ Goto(c, "applied", "flagged") /\ UNCHANGED <<disk, daemon, call, edited>>

\* The lock is gone by now.
SetFlag(c) ==
    /\ Goto(c, "applied", "flagged")
    /\ flag' = snapshot[c].allow_prerelease
    /\ UNCHANGED <<disk, memory, up, told, call, edited>>

\* After enforce_budget, which awaits the registry's lock; then the answer.
Announce(c) ==
    /\ Goto(c, "flagged", "done")
    /\ told' = snapshot[c]
    /\ UNCHANGED <<disk, memory, flag, up, call, edited>>

Idle(c) ==
    /\ pc' = [pc EXCEPT ![c] = "idle"] /\ asked' = [asked EXCEPT ![c] = Empty]
    /\ document' = [document EXCEPT ![c] = Empty]
    /\ snapshot' = [snapshot EXCEPT ![c] = Default]

Answer(c) ==
    /\ pc[c] \in {"done", "failed"} /\ Idle(c)
    /\ UNCHANGED <<disk, daemon, before, edited>>

SetConfig(c) ==
    \/ Reject(c) \/ ReadFile(c) \/ ReadFails(c) \/ OpenTemporary(c) \/ OpenFails(c)
    \/ WriteTemporary(c) \/ WriteFails(c) \/ Rename(c) \/ RenameFails(c)
    \/ RemoveTemporary(c) \/ Apply(c) \/ SetFlag(c) \/ Announce(c) \/ Answer(c)
-----------------------------------------------------------------------------
(* The process, and the user *)

\* DaemonOptions::from_env and launch; a file that does not load is fatal.
\* A temporary file is left alone, unless its process id comes up again.
Start ==
    /\ ~up /\ Loadable(file)
    /\ up' = TRUE /\ memory' = Loaded(file) /\ told' = memory'
    /\ flag' = memory'.allow_prerelease /\ edited' = {}
    /\ temporary' \in {temporary, Absent}
    /\ UNCHANGED <<file, handle, call, pc>>

\* The process dies (SIGKILL, a crash, the idle exit) and the machine goes on:
\* nothing is synced, so what a power cut leaves of the file is not said here.
Stop ==
    /\ up /\ up' = FALSE
    /\ pc' = [c \in Clients |-> "idle"] /\ handle' = [c \in Clients |-> "none"]
    /\ asked' = [c \in Clients |-> Empty] /\ document' = asked'
    /\ snapshot' = [c \in Clients |-> Default]
    /\ UNCHANGED <<file, temporary, memory, flag, told, before, edited>>

\* Between saves: an editor and a save that overlap overwrite one another.
UserEdit(text) ==
    /\ \A c \in Clients : pc[c] = "idle"
    /\ file' = text /\ edited' = Keys
    /\ UNCHANGED <<temporary, handle, daemon, call, pc>>

Next == \/ \E c \in Clients : (\E change \in Changes : Call(c, change)) \/ SetConfig(c)
        \/ Start \/ Stop \/ (\E text \in Edits : UserEdit(text))

Spec == Init /\ [][Next]_vars
-----------------------------------------------------------------------------
TypeOK ==
    /\ file \in Texts \cup {Torn} /\ temporary \in Texts \cup {Torn, Absent}
    /\ memory \in Config /\ flag \in Values /\ up \in BOOLEAN /\ told \in Config
    /\ pc \in [Clients -> Steps] /\ edited \subseteq Keys
    /\ asked \in [Clients -> Texts] /\ document \in [Clients -> Texts]
    /\ handle \in [Clients -> {"none", "temporary", "config", "lost"}]
    /\ snapshot \in [Clients -> Config]
    /\ before \in [Clients -> [file : Texts \cup {Torn}, memory : Config, flag : Values]]

\* "Writes the changed keys into the file, keeping everything else in it and
\* replacing it atomically" (config.rs:223-224): whatever the user does not
\* write himself is the previous text with the changes of one call, however
\* that call, or the daemon, ends.
ReplacedAtomically ==
    [][\/ file' = file
       \/ \E text \in Edits : UserEdit(text)
       \/ \E c \in Clients : file' = Updated(file, asked[c])]_vars

\* SetConfig is all or nothing (service.rs:801-803): an error leaves file,
\* memory and provider as they were; success has changed the asked keys, and
\* no others, in the file, in memory and in what ConfigChanged announced.
AllOrNothing ==
    \A c \in Clients :
        /\ pc[c] = "failed" => State = before[c]
        /\ pc[c] = "done" =>
              /\ file = Updated(before[c].file, asked[c])
              /\ memory = Applied(before[c].memory, asked[c])
              /\ told = memory

\* Between calls the file, the daemon, its provider and the settings screens
\* that follow ConfigChanged agree on every key the user has not edited.
InStep ==
    up /\ (\A c \in Clients : pc[c] = "idle") =>
        /\ \A k \in Keys \ edited : memory[k] = Loaded(file)[k]
        /\ flag = memory.allow_prerelease /\ told = memory
=============================================================================
