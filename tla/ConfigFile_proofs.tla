------------------------- MODULE ConfigFile_proofs -------------------------
(***************************************************************************)
(* What SetConfig keeps when its calls come one at a time, for any         *)
(* changes, any edits of the user, and a daemon that is killed and started *)
(* at any step.  With two calls at once it does not hold, as the run       *)
(* config_clients shows; only the types do without OneClient.             *)
(*                                                                         *)
(* The inductive invariant IInv follows the one call through its steps:    *)
(* nothing has changed before the rename, the file is ahead of the memory  *)
(* after it, the memory ahead of the provider and of ConfigChanged after   *)
(* that; and the temporary file is the call's own.                         *)
(***************************************************************************)
EXTENDS ConfigFile, TLAPS

OneClient == \A c, d \in Clients : c = d

Domains ==
    /\ pc \in [Clients -> Steps]
    /\ DOMAIN asked = Clients /\ DOMAIN document = Clients /\ DOMAIN snapshot = Clients
    /\ DOMAIN before = Clients /\ DOMAIN handle = Clients

\* The configuration config says what the text sets, but for edited keys.
Agree(config, text) == \A k \in Keys \ edited : config[k] = Loaded(text)[k]

\* flag, told and memory, and the file, are one.
Settled == flag = memory.allow_prerelease /\ told = memory /\ Agree(memory, file)

\* A call that has not renamed its temporary file, or never will.
Early   == {"called", "read", "opened", "written", "failing", "failed"}
Renamed == {"saved", "applied", "flagged", "done"}

Temporary(c) ==
    /\ handle[c] = IF pc[c] = "opened" THEN "temporary" ELSE "none"
    /\ pc[c] = "opened" => temporary = Empty
    /\ pc[c] = "written" => temporary = document[c]
    /\ pc[c] \in {"read", "opened", "written"} => document[c] = Updated(file, asked[c])

Unchanged(c) == pc[c] \in Early => State = before[c] /\ Settled

Changed(c) ==
    /\ pc[c] \in Renamed => file = Updated(before[c].file, asked[c])
    /\ pc[c] = "saved" =>
          /\ memory = before[c].memory
          /\ flag = memory.allow_prerelease /\ told = memory
          /\ Agree(Applied(memory, asked[c]), file)
    /\ pc[c] \in {"applied", "flagged", "done"} =>
          /\ memory = Applied(before[c].memory, asked[c]) /\ snapshot[c] = memory
          /\ Agree(memory, file)
    /\ pc[c] \in {"flagged", "done"} => flag = memory.allow_prerelease
    /\ pc[c] = "done" => told = memory

IInv ==
    /\ Domains
    /\ \A c \in Clients : Temporary(c) /\ Unchanged(c) /\ Changed(c)
    /\ \A c \in Clients : pc[c] # "idle" => up
    /\ up /\ (\A c \in Clients : pc[c] = "idle") => Settled

USE DEF disk, daemon, call, OneClient

LEMMA InitIInv == ASSUME OneClient PROVE Init => IInv
  BY DEF Init, IInv, Domains, Temporary, Unchanged, Changed, Steps, Early, Renamed

\* The steps that leave file, memory, provider and announcement alone, and
\* only lead from one early step to another.
LEMMA EarlyKeeps ==
    ASSUME OneClient, IInv, NEW c \in Clients, NEW from \in Early \ {"failed"},
           NEW to \in Early, Goto(c, from, to),
           UNCHANGED <<file, daemon, asked, snapshot, before, edited>>,
           DOMAIN document' = Clients, DOMAIN handle' = Clients, Temporary(c)'
    PROVE  IInv'
<1>1. pc' = [d \in Clients |-> to] /\ pc[c] = from /\ \A d \in Clients : d = c
  BY DEF Goto, IInv, Domains
<1>2. State' = before'[c] /\ Settled'
  BY <1>1 DEF IInv, Unchanged, Settled, Agree, State
<1> QED BY <1>1, <1>2 DEF IInv, Domains, Unchanged, Changed, Steps, Early, Renamed

LEMMA SaveKeeps ==
    ASSUME OneClient, IInv, NEW c \in Clients,
           ReadFile(c) \/ ReadFails(c) \/ OpenTemporary(c) \/ OpenFails(c) \/ WriteTemporary(c)
             \/ WriteFails(c) \/ RenameFails(c) \/ RemoveTemporary(c) \/ Reject(c)
    PROVE  IInv'
<1> \A d \in Clients : d = c
  OBVIOUS
<1>1. CASE ReadFile(c)
  <2>1. Temporary(c)'
    BY <1>1 DEF ReadFile, Goto, IInv, Domains, Temporary
  <2> QED BY <1>1, <2>1, EarlyKeeps DEF ReadFile, IInv, Domains, Early
<1>2. CASE ReadFails(c) \/ Reject(c)
  <2>1. Temporary(c)'
    BY <1>2 DEF ReadFails, Reject, Goto, IInv, Domains, Temporary
  <2> QED BY <1>2, <2>1, EarlyKeeps DEF ReadFails, Reject, IInv, Domains, Early
<1>3. CASE OpenTemporary(c)
  <2>1. Temporary(c)'
    BY <1>3 DEF OpenTemporary, Goto, IInv, Domains, Temporary
  <2> QED BY <1>3, <2>1, EarlyKeeps DEF OpenTemporary, IInv, Domains, Early
<1>4. CASE OpenFails(c)
  <2>1. Temporary(c)'
    BY <1>4 DEF OpenFails, Goto, IInv, Domains, Temporary
  <2> QED BY <1>4, <2>1, EarlyKeeps DEF OpenFails, IInv, Domains, Early
<1>5. CASE WriteTemporary(c)
  <2>1. pc[c] = "opened" /\ handle[c] = "temporary" /\ Behind(c) = Empty
    BY <1>5 DEF WriteTemporary, Goto, IInv, Temporary, Behind
  <2>2. file' = file /\ temporary' = document[c] /\ handle' = [handle EXCEPT ![c] = "none"]
    BY <1>5, <2>1 DEF WriteTemporary, Put
  <2>3. Temporary(c)'
    BY <1>5, <2>1, <2>2 DEF WriteTemporary, Goto, IInv, Domains, Temporary
  <2> QED BY <1>5, <2>2, <2>3, EarlyKeeps DEF WriteTemporary, IInv, Domains, Early
<1>6. CASE WriteFails(c)
  <2>1. file' = file /\ handle' = [handle EXCEPT ![c] = "none"]
    BY <1>6 DEF WriteFails, Put, Goto, IInv, Temporary
  <2>2. Temporary(c)'
    BY <1>6, <2>1 DEF WriteFails, Goto, IInv, Domains, Temporary
  <2> QED BY <1>6, <2>1, <2>2, EarlyKeeps DEF WriteFails, IInv, Domains, Early
<1>7. CASE RenameFails(c)
  <2>1. Temporary(c)'
    BY <1>7 DEF RenameFails, Goto, IInv, Domains, Temporary
  <2> QED BY <1>7, <2>1, EarlyKeeps DEF RenameFails, IInv, Domains, Early
<1>8. CASE RemoveTemporary(c)
  <2>1. Temporary(c)'
    BY <1>8 DEF RemoveTemporary, Goto, IInv, Domains, Temporary
  <2> QED BY <1>8, <2>1, EarlyKeeps DEF RemoveTemporary, IInv, Domains, Early
<1> QED BY <1>1, <1>2, <1>3, <1>4, <1>5, <1>6, <1>7, <1>8

\* A text with a change applied says what a configuration that agreed with
\* the text says with the same change applied.
LEMMA UpdateAgrees ==
    ASSUME NEW config, NEW text, NEW change, Agree(config, text)
    PROVE  Agree(Applied(config, change), Updated(text, change))
<1> Keys \subseteq Names
  BY DEF Names
<1>1. ASSUME NEW k \in Keys \ edited
      PROVE  Applied(config, change)[k] = Loaded(Updated(text, change))[k]
  <2>1. CASE change[k] = Unset
    BY <2>1 DEF Agree, Applied, Updated, Loaded
  <2>2. CASE change[k] # Unset
    BY <2>2 DEF Agree, Applied, Updated, Loaded
  <2> QED BY <2>1, <2>2
<1> QED BY <1>1 DEF Agree

LEMMA CallKeeps ==
    ASSUME OneClient, IInv, NEW c \in Clients, NEW change, Call(c, change)
    PROVE  IInv'
<1>1. pc[c] = "idle" /\ pc' = [d \in Clients |-> "called"] /\ \A d \in Clients : d = c
  BY DEF Call, Goto, IInv, Domains
<1>2. State' = State /\ before'[c] = State /\ Settled /\ Settled'
  BY <1>1 DEF Call, IInv, Settled, Agree, State, Domains
<1> QED BY <1>1, <1>2 DEF Call, IInv, Domains, Temporary, Unchanged, Changed, Steps, Early, Renamed

LEMMA RenameKeeps ==
    ASSUME OneClient, IInv, NEW c \in Clients, Rename(c)
    PROVE  IInv'
<1>1. pc[c] = "written" /\ pc' = [d \in Clients |-> "saved"] /\ \A d \in Clients : d = c
  BY DEF Rename, Goto, IInv, Domains
<1>2. file' = Updated(file, asked[c]) /\ State = before[c] /\ Settled /\ handle[c] = "none"
  BY <1>1 DEF Rename, IInv, Temporary, Unchanged, Early
<1>3. handle'[c] = "none" /\ DOMAIN handle' = Clients
  BY <1>1, <1>2 DEF Rename
<1>4. file = before[c].file /\ memory = before[c].memory
  BY <1>2 DEF State
<1>5. Agree(Applied(memory, asked[c]), file')
  BY <1>2, UpdateAgrees DEF Settled
<1>6. Changed(c)'
  <2> Agree(Applied(memory, asked[c]), file)'
    BY <1>5 DEF Agree, Rename
  <2> QED BY <1>1, <1>2, <1>4 DEF Rename, Changed, Settled
<1> QED BY <1>1, <1>3, <1>6 DEF Rename, IInv, Domains, Temporary, Unchanged, Steps, Early

LEMMA ApplyKeeps ==
    ASSUME OneClient, IInv, NEW c \in Clients, Apply(c)
    PROVE  IInv'
<1>1. pc[c] = "saved" /\ pc' = [d \in Clients |-> "applied"] /\ \A d \in Clients : d = c
  BY DEF Apply, Goto, IInv, Domains
<1>2. /\ file = Updated(before[c].file, asked[c]) /\ memory = before[c].memory
      /\ Agree(Applied(memory, asked[c]), file)
  BY <1>1 DEF IInv, Changed, Renamed
<1>3. Agree(memory, file)'
  <2> SUFFICES ASSUME NEW k \in Keys, k \notin edited \/ asked[c][k] # Unset
               PROVE  memory'[k] = Loaded(file)[k]
    BY DEF Apply, Agree
  <2>1. CASE k \notin edited
    BY <2>1, <1>2 DEF Apply, Agree
  <2>2. CASE asked[c][k] # Unset
    BY <2>2, <1>2 DEF Apply, Applied, Updated, Loaded, Names
  <2> QED BY <2>1, <2>2
<1>4. snapshot'[c] = memory' /\ DOMAIN snapshot' = Clients
  BY DEF Apply, IInv, Domains
<1>5. Changed(c)'
  BY <1>1, <1>2, <1>3, <1>4 DEF Apply, Changed
<1> QED BY <1>1, <1>4, <1>5 DEF Apply, IInv, Domains, Temporary, Unchanged, Steps, Early

LEMMA TellKeeps ==
    ASSUME OneClient, IInv, NEW c \in Clients, SetFlag(c) \/ Announce(c) \/ Answer(c)
    PROVE  IInv'
<1> \A d \in Clients : d = c
  OBVIOUS
<1>1. CASE SetFlag(c) \/ Announce(c)
  <2>1. PICK to \in {"flagged", "done"} :
            /\ pc[c] = IF to = "done" THEN "flagged" ELSE "applied"
            /\ pc' = [d \in Clients |-> to]
    BY <1>1 DEF SetFlag, Announce, Goto, IInv, Domains
  <2>2. Agree(memory, file)'
    BY <1>1, <2>1 DEF SetFlag, Announce, IInv, Changed, Agree
  <2>3. Changed(c)'
    BY <1>1, <2>1, <2>2 DEF SetFlag, Announce, Goto, IInv, Changed, Renamed
  <2> QED BY <1>1, <2>1, <2>3
          DEF SetFlag, Announce, IInv, Domains, Temporary, Unchanged, Steps, Early
<1>2. CASE Answer(c)
  <2>1. Settled
    BY <1>2 DEF Answer, IInv, Unchanged, Changed, Settled, Early, Renamed
  <2>2. Settled'
    BY <1>2, <2>1 DEF Answer, Settled, Agree
  <2>3. pc' = [d \in Clients |-> "idle"]
    BY <1>2 DEF Answer, Idle, IInv, Domains
  <2> QED BY <1>2, <2>2, <2>3
          DEF Answer, Idle, IInv, Domains, Temporary, Unchanged, Changed, Steps, Early, Renamed
<1> QED BY <1>1, <1>2

LEMMA DaemonKeeps ==
    ASSUME IInv, Start \/ Stop \/ \E text \in Edits : UserEdit(text)
    PROVE  IInv'
<1>1. CASE Start
  <2>1. \A c \in Clients : pc[c] = "idle"
    BY <1>1 DEF Start, IInv
  <2>2. Settled'
    BY <1>1 DEF Start, Settled, Agree
  <2> QED BY <1>1, <2>1, <2>2
          DEF Start, IInv, Domains, Temporary, Unchanged, Changed, Early, Renamed
<1>2. CASE Stop
  BY <1>2 DEF Stop, IInv, Domains, Temporary, Unchanged, Changed, Steps, Early, Renamed
<1>3. CASE \E text \in Edits : UserEdit(text)
  <2>1. \A c \in Clients : pc[c] = "idle"
    BY <1>3 DEF UserEdit
  <2>2. Settled => Settled'
    BY <1>3 DEF UserEdit, Settled, Agree
  <2> QED BY <1>3, <2>1, <2>2
          DEF UserEdit, IInv, Domains, Temporary, Unchanged, Changed, Early, Renamed
<1> QED BY <1>1, <1>2, <1>3

LEMMA NextKeeps == ASSUME OneClient PROVE IInv /\ [Next]_vars => IInv'
<1> SUFFICES ASSUME IInv, [Next]_vars PROVE IInv'
  OBVIOUS
<1>1. CASE \E c \in Clients, change \in Changes : Call(c, change)
  BY <1>1, CallKeeps
<1>2. CASE \E c \in Clients : SetConfig(c)
  BY <1>2, SaveKeeps, RenameKeeps, ApplyKeeps, TellKeeps DEF SetConfig
<1>3. CASE Start \/ Stop \/ \E text \in Edits : UserEdit(text)
  BY <1>3, DaemonKeeps
<1>4. CASE UNCHANGED vars
  BY <1>4 DEF vars, IInv, Domains, Temporary, Unchanged, Changed, Settled, Agree, State
<1> QED BY <1>1, <1>2, <1>3, <1>4 DEF Next

LEMMA Invariant == ASSUME OneClient PROVE Spec => []IInv
  BY InitIInv, NextKeeps, PTL DEF Spec

\* A SetConfig that fails leaves file, memory and provider as they were; one
\* that succeeds has changed what was asked, and nothing else, in the file,
\* in memory and in what it announced.
THEOREM SettingIsAllOrNothing == ASSUME OneClient PROVE Spec => []AllOrNothing
<1>1. IInv => AllOrNothing
  BY DEF IInv, Unchanged, Changed, Early, Renamed, AllOrNothing
<1> QED BY <1>1, Invariant, PTL

\* Between calls the file, the daemon, its provider and whoever follows
\* ConfigChanged agree on every key the user has not edited.
THEOREM ConfigurationInStep == ASSUME OneClient PROVE Spec => []InStep
<1>1. IInv => InStep
  BY DEF IInv, Settled, Agree, InStep
<1> QED BY <1>1, Invariant, PTL

\* Whatever step fails, and wherever the daemon is killed: the file goes from
\* one whole text to the same text with one call's changes.
THEOREM FileIsReplaced == ASSUME OneClient PROVE Spec => ReplacedAtomically
<1> DEFINE Replaced == \/ file' = file
                       \/ \E text \in Edits : UserEdit(text)
                       \/ \E c \in Clients : file' = Updated(file, asked[c])
<1>1. IInv /\ [Next]_vars => [Replaced]_vars
  <2> SUFFICES ASSUME IInv, Next PROVE Replaced
    OBVIOUS
  <2>1. ASSUME NEW c \in Clients, SetConfig(c) PROVE Replaced
    <3>1. CASE Rename(c)
      BY <3>1 DEF Rename, Goto, IInv, Temporary
    <3>2. CASE WriteTemporary(c) \/ WriteFails(c)
      <4> handle[c] # "config"
        BY DEF IInv, Temporary
      <4> QED BY <3>2 DEF WriteTemporary, WriteFails, Put
    <3> QED BY <2>1, <3>1, <3>2 DEF SetConfig, Reject, ReadFile, ReadFails, OpenTemporary,
                OpenFails, RenameFails, RemoveTemporary, Apply, SetFlag, Announce, Answer
  <2> QED BY <2>1 DEF Next, Call, Start, Stop
<1> QED BY <1>1, Invariant, PTL DEF Spec, ReplacedAtomically
-----------------------------------------------------------------------------
(* Types, with any number of calls at once *)

LEMMA Defaults == Default \in Config /\ Default.allow_prerelease \in Values
<1>1. \A n \in Nat : Number(n) \in Values
  BY Zenon DEF Number, Values
<1>2. \A b \in BOOLEAN : Bool(b) \in Values
  BY Zenon DEF Bool, Values
<1>3. \A b \in {TRUE, FALSE} : b \in BOOLEAN
  OBVIOUS
<1>4. Keys = {"memory_budget_mb", "keep_warm", "keep_warm_seconds", "idle_exit_seconds",
              "network", "allow_prerelease"}
  BY DEF Keys, KEYS
<1>5. /\ Number(512) \in Values /\ Number(2) \in Values
      /\ Number(600) \in Values /\ Number(60) \in Values
  BY <1>1
<1>6. Bool(TRUE) \in Values /\ Bool(FALSE) \in Values
  BY <1>2, <1>3, Zenon
<1>7. PICK yes, no : yes = Bool(TRUE) /\ no = Bool(FALSE)
  OBVIOUS
<1>8. Default = [memory_budget_mb |-> Number(512), keep_warm |-> Number(2),
                 keep_warm_seconds |-> Number(600), idle_exit_seconds |-> Number(60),
                 network |-> yes, allow_prerelease |-> no]
  BY <1>7, Zenon DEF Default
<1>9. yes \in Values /\ no \in Values
  BY <1>6, <1>7
<1> QED BY <1>4, <1>5, <1>8, <1>9 DEF Config

LEMMA TextTypes ==
    /\ Empty \in Texts
    /\ \A text, change \in Texts : Updated(text, change) \in Texts
    /\ \A config \in Config, change \in Texts : Applied(config, change) \in Config
    /\ \A text \in Texts : Loaded(text) \in Config
    /\ \A config \in Config : config.allow_prerelease \in Values
<1> Keys \subseteq Names /\ "allow_prerelease" \in Keys
  BY DEF Names, Keys, KEYS
<1>1. Empty \in Texts
  BY DEF Empty, Texts
<1>2. ASSUME NEW text \in Texts, NEW change \in Texts PROVE Updated(text, change) \in Texts
  BY DEF Updated, Texts
<1>3. ASSUME NEW config \in Config, NEW change \in Texts PROVE Applied(config, change) \in Config
  BY DEF Applied, Texts, Config
<1>4. ASSUME NEW text \in Texts PROVE Loaded(text) \in Config
  BY Defaults DEF Loaded, Texts, Config
<1>5. ASSUME NEW config \in Config PROVE config.allow_prerelease \in Values
  BY DEF Config
<1> QED BY <1>1, <1>2, <1>3, <1>4, <1>5

\* Whatever happens, file, memory, provider and calls hold what they may hold.
THEOREM TypeCorrect == Spec => []TypeOK
<1> USE ConfigAssumption, TextTypes, Defaults DEF ConfigAssumption
<1>1. Init => TypeOK
  <2> SUFFICES ASSUME Init PROVE TypeOK
    OBVIOUS
  <2>1. file \in Texts \cup {Torn} /\ memory \in Config /\ flag \in Values
    BY DEF Init
  <2>2. State \in [file : Texts \cup {Torn}, memory : Config, flag : Values]
    BY <2>1 DEF State
  <2> QED BY <2>1, <2>2 DEF Init, TypeOK, Steps
<1>2. TypeOK /\ [Next]_vars => TypeOK'
  <2> SUFFICES ASSUME TypeOK, [Next]_vars PROVE TypeOK'
    OBVIOUS
  <2>1. ASSUME NEW c \in Clients, NEW change \in Changes, Call(c, change) PROVE TypeOK'
    <3>1. State \in [file : Texts \cup {Torn}, memory : Config, flag : Values]
      BY DEF TypeOK, State
    <3> QED BY <2>1, <3>1 DEF Call, Goto, TypeOK, Steps
  <2>2. ASSUME NEW c \in Clients,
               Reject(c) \/ ReadFails(c) \/ OpenFails(c) \/ RenameFails(c)
        PROVE  TypeOK'
    BY <2>2 DEF Reject, ReadFails, OpenFails, RenameFails, Goto, TypeOK, Steps
  <2>3. ASSUME NEW c \in Clients, ReadFile(c) PROVE TypeOK'
    <3>1. Updated(file, asked[c]) \in Texts
      BY <2>3 DEF ReadFile, TypeOK
    <3> QED BY <2>3, <3>1 DEF ReadFile, Goto, TypeOK, Steps
  <2>4. ASSUME NEW c \in Clients, OpenTemporary(c) PROVE TypeOK'
    BY <2>4 DEF OpenTemporary, Goto, TypeOK, Steps
  <2>5. ASSUME NEW c \in Clients, WriteTemporary(c) \/ WriteFails(c) PROVE TypeOK'
    <3>1. PICK text \in Texts \cup {Torn} : Put(c, text)
      BY <2>5 DEF WriteTemporary, WriteFails, TypeOK
    <3>2. file' \in Texts \cup {Torn} /\ temporary' \in Texts \cup {Torn, Absent}
      BY <3>1 DEF Put, TypeOK
    <3>3. handle' \in [Clients -> {"none", "temporary", "config", "lost"}]
      BY <3>1 DEF Put, TypeOK
    <3> QED BY <2>5, <3>2, <3>3 DEF WriteTemporary, WriteFails, Goto, TypeOK, Steps
  <2>6. ASSUME NEW c \in Clients, Rename(c) \/ RemoveTemporary(c) PROVE TypeOK'
    BY <2>6 DEF Rename, RemoveTemporary, Goto, TypeOK, Steps
  <2>7. ASSUME NEW c \in Clients, Apply(c) PROVE TypeOK'
    <3>1. memory' \in Config
      BY <2>7 DEF Apply, TypeOK
    <3> QED BY <2>7, <3>1 DEF Apply, Goto, TypeOK, Steps
  <2>8. ASSUME NEW c \in Clients, SetFlag(c) \/ Announce(c) PROVE TypeOK'
    <3>1. snapshot[c] \in Config /\ snapshot[c].allow_prerelease \in Values
      BY DEF TypeOK
    <3>2. flag' \in Values /\ told' \in Config
      BY <2>8, <3>1 DEF SetFlag, Announce, TypeOK
    <3> QED BY <2>8, <3>2 DEF SetFlag, Announce, Goto, TypeOK, Steps
  <2>9. ASSUME NEW c \in Clients, Answer(c) PROVE TypeOK'
    BY <2>9 DEF Answer, Idle, TypeOK, Steps
  <2>10. CASE Start
    <3>1. memory' \in Config /\ flag' \in Values
      BY <2>10 DEF Start, Loadable, TypeOK
    <3> QED BY <2>10, <3>1 DEF Start, TypeOK
  <2>11. CASE Stop
    BY <2>11 DEF Stop, TypeOK, Steps
  <2>12. CASE \E text \in Edits : UserEdit(text)
    BY <2>12 DEF UserEdit, TypeOK
  <2>13. CASE UNCHANGED vars
    BY <2>13 DEF vars, TypeOK
  <2> QED BY <2>1, <2>2, <2>3, <2>4, <2>5, <2>6, <2>7, <2>8, <2>9, <2>10, <2>11, <2>12, <2>13
          DEF Next, SetConfig
<1> QED BY <1>1, <1>2, PTL DEF Spec
============================================================================
