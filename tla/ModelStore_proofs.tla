------------------------- MODULE ModelStore_proofs -------------------------
(***************************************************************************)
(* Proofs about ModelStore, for any callers, processes, threads, versions  *)
(* and files.  OneWriter is inductive together with TypeOK; what the lock  *)
(* protects is told by Working: how far the directories of the one caller  *)
(* that is past the lock have got.                                         *)
(***************************************************************************)
EXTENDS ModelStore, FiniteSetTheorems, WellFoundedInduction, TLAPS

InstallLabels == {"check", "clean", "stage", "download", "manifest", "rename", "reply"}

\* A caller is in the half of the code that its operation belongs to.
CallFits ==
    \A c \in Callers :
        /\ pc[c] = "lock" => call[c] \in Install \cup Remove
        /\ pc[c] \in InstallLabels => call[c] \in Install
        /\ pc[c] \in {"scan", "remove"} => call[c] \in Remove

\* What the installing caller knows of its directories.
Installing(c) ==
    /\ pc[c] = "clean" => ~Usable(Version(c))
    /\ pc[c] \in {"stage", "download", "manifest", "rename"}
            => MANIFEST_FILE \notin files[Version(c)]
    /\ pc[c] = "manifest" => ModelFiles \subseteq staging[TmpDir(c)]
    /\ pc[c] = "rename" => staging[TmpDir(c)] = Items
    /\ pc[c] = "reply" => Usable(Version(c))

\* A remover still has every usable copy to remove.
RemovesAll(c) == pc[c] = "remove" => UserCopies \subseteq todo[c]

Working == \A c \in Callers : Installing(c) /\ RemovesAll(c)

Inv == TypeOK /\ OneWriter /\ CallFits /\ Working

USE DEF store, caller, bounds, vars

\* An installing caller works on a version of the store and its own directory.
LEMMA InstallFacts ==
    ASSUME CallFits, NEW c \in Callers, pc[c] \in InstallLabels
    PROVE  Version(c) \in Versions /\ TmpDir(c) \in Procs \X Versions
<1>1. call[c].version \in Supported
  BY DEF CallFits, Install
<1>2. ProcOf[c] \in Procs /\ Supported \subseteq Versions
  BY ModelStoreAssumption
<1> QED BY <1>1, <1>2 DEF Version, TmpDir

-----------------------------------------------------------------------------
(* Types, and where each caller stands *)

LEMMA InitInv == Init => Inv
<1> SUFFICES ASSUME Init PROVE Inv
  OBVIOUS
<1>1. TypeOK
  BY ModelStoreAssumption DEF Init, TypeOK, Labels, Results, OnThread
<1>2. OneWriter
  BY ModelStoreAssumption DEF Init, OneWriter
<1>3. CallFits /\ Working
  BY DEF Init, CallFits, Working, Installing, RemovesAll, InstallLabels
<1> QED BY <1>1, <1>2, <1>3 DEF Inv

LEMMA TypeStep ==
    ASSUME TypeOK, CallFits, [Next]_vars
    PROVE  TypeOK'
<1> USE DEF TypeOK, At, Goto
<1>1. CASE UNCHANGED vars
  BY <1>1
<1>2. ASSUME NEW c \in Callers, Begin(c) PROVE TypeOK'
  <2>1. calls' \in 0..MaxCalls
    BY <1>2, ModelStoreAssumption DEF Begin
  <2>2. call' \in [Callers -> Install \cup Remove \cup {NoCall}]
    BY <1>2 DEF Begin
  <2>3. pc' \in [Callers -> Labels]
    BY <1>2 DEF Begin, Labels, OnThread
  <2> QED BY <2>1, <2>2, <2>3, <1>2 DEF Begin
<1>3. ASSUME NEW c \in Callers, lock_user(c) PROVE TypeOK'
  BY <1>3 DEF lock_user, Labels, OnThread
<1>4. ASSUME NEW c \in Callers, InstallStep(c) PROVE TypeOK'
  <2>1. CASE ReturnExisting(c) \/ RenameFails(c) \/ ReturnInstalled(c)
    BY <2>1 DEF ReturnExisting, RenameFails, ReturnInstalled, Return, Labels, Results
  <2>2. CASE LookForLeftover(c)
    BY <2>2 DEF LookForLeftover, Labels, OnThread
  <2>3. CASE CleanLeftover(c)
    <3>1. files' \in [Versions -> SUBSET Items]
      BY <2>3, InstallFacts DEF CleanLeftover, InstallLabels
    <3>2. pc' \in [Callers -> Labels]
      BY <2>3 DEF CleanLeftover, Labels, OnThread
    <3> QED BY <3>1, <3>2, <2>3 DEF CleanLeftover
  <2>4. CASE CreateStaging(c)
    BY <2>4 DEF CreateStaging, Labels, OnThread
  <2>5. CASE StoreManifest(c)
    <3>1. staging' \in [Procs \X Versions -> SUBSET Items]
      BY <2>5, InstallFacts DEF StoreManifest, InstallLabels, Items
    <3>2. pc' \in [Callers -> Labels]
      BY <2>5 DEF StoreManifest, Labels, OnThread
    <3> QED BY <3>1, <3>2, <2>5 DEF StoreManifest
  <2>6. CASE Rename(c)
    <3>1. staging[TmpDir(c)] \in SUBSET Items
      BY <2>6, InstallFacts DEF Rename, InstallLabels
    <3>2. files' \in [Versions -> SUBSET Items]
      BY <2>6, <3>1 DEF Rename
    <3>3. staging' \in [Procs \X Versions -> SUBSET Items]
      BY <2>6 DEF Rename
    <3>4. pc' \in [Callers -> Labels]
      BY <2>6 DEF Rename, Labels, OnThread
    <3> QED BY <3>2, <3>3, <3>4, <2>6 DEF Rename
  <2> QED BY <1>4, <2>1, <2>2, <2>3, <2>4, <2>5, <2>6 DEF InstallStep
<1>5. ASSUME NEW c \in Callers, DownloadStep(c) \/ Cancelled(c) PROVE TypeOK'
  <2>1. CASE DownloadFails(c) \/ Cancelled(c)
    BY <2>1 DEF DownloadFails, Cancelled, Return, Labels, Results
  <2>2. CASE Downloaded(c)
    <3>1. staging' \in [Procs \X Versions -> SUBSET Items]
      BY <2>2, InstallFacts DEF Downloaded, InstallLabels, Items
    <3>2. pc' \in [Callers -> Labels]
      BY <2>2 DEF Downloaded, Labels, OnThread
    <3> QED BY <3>1, <3>2, <2>2 DEF Downloaded
  <2> QED BY <1>5, <2>1, <2>2 DEF DownloadStep
<1>6. ASSUME NEW c \in Callers, RemoveStep(c) PROVE TypeOK'
  <2>1. CASE ScanUserCopies(c)
    BY <2>1 DEF ScanUserCopies, UserCopies, Labels, OnThread
  <2>2. CASE NotInstalled(c)
    BY <2>2 DEF NotInstalled, Return, Labels, Results
  <2>3. CASE RemoveFile(c)
    <3>1. PICK v \in NextRemoved(c) : \E i \in files[v] :
              /\ files' = [files EXCEPT ![v] = @ \ {i}]
              /\ todo' = [todo EXCEPT ![c] = IF files[v] = {i} THEN @ \ {v} ELSE @]
      BY <2>3 DEF RemoveFile
    <3>2. v \in Versions
      BY <3>1 DEF NextRemoved
    <3>3. files' \in [Versions -> SUBSET Items] /\ todo' \in [Callers -> SUBSET Versions]
      BY <3>1, <3>2
    <3>4. CASE todo'[c] = {}
      <4>1. Return(c, "ok") /\ UNCHANGED staging
        BY <2>3, <3>4 DEF RemoveFile
      <4> QED BY <3>3, <4>1 DEF Return, Labels, Results
    <3>5. CASE todo'[c] # {}
      <4>1. UNCHANGED <<lock, pc, call, result, bounds, staging>>
        BY <2>3, <3>5 DEF RemoveFile
      <4> QED BY <3>3, <4>1
    <3> QED BY <3>4, <3>5
  <2> QED BY <1>6, <2>1, <2>2, <2>3 DEF RemoveStep
<1>7. ASSUME NEW p \in Procs, Kill(p) PROVE TypeOK'
  <2>1. kills' \in 0..MaxKills
    BY <1>7, ModelStoreAssumption DEF Kill
  <2>2. pc' \in [Callers -> Labels] /\ result' \in [Callers -> Results]
    BY <1>7 DEF Kill, Labels, Results
  <2>3. call' \in [Callers -> Install \cup Remove \cup {NoCall}]
    BY <1>7 DEF Kill
  <2>4. todo' \in [Callers -> SUBSET Versions] /\ lock' \in Callers \cup {NoOne}
    BY <1>7 DEF Kill
  <2> QED BY <2>1, <2>2, <2>3, <2>4, <1>7 DEF Kill
<1> QED BY <1>1, <1>2, <1>3, <1>4, <1>5, <1>6, <1>7 DEF Next

-----------------------------------------------------------------------------
(* The lock *)

Past(c) == pc[c] \notin {"idle", "lock"}

\* Inside an operation a step keeps the lock and stays inside, or returns.
LEMMA StepInside ==
    ASSUME TypeOK, NEW c \in Callers,
           InstallStep(c) \/ DownloadStep(c) \/ Cancelled(c) \/ RemoveStep(c)
    PROVE  /\ Past(c)
           /\ pc' = [pc EXCEPT ![c] = pc'[c]]
           /\ \/ Past(c)' /\ UNCHANGED <<lock, call>>
              \/ pc'[c] = "idle" /\ lock' = NoOne /\ call' = [call EXCEPT ![c] = NoCall]
<1> USE DEF TypeOK, Past, At, Goto, Return
<1>1. CASE InstallStep(c)
  <2>1. CASE ReturnExisting(c) \/ RenameFails(c) \/ ReturnInstalled(c)
    BY <2>1 DEF ReturnExisting, RenameFails, ReturnInstalled
  <2>2. CASE LookForLeftover(c) \/ CleanLeftover(c) \/ CreateStaging(c)
    BY <2>2 DEF LookForLeftover, CleanLeftover, CreateStaging
  <2>3. CASE StoreManifest(c) \/ Rename(c)
    BY <2>3 DEF StoreManifest, Rename
  <2> QED BY <1>1, <2>1, <2>2, <2>3 DEF InstallStep
<1>2. CASE DownloadStep(c) \/ Cancelled(c)
  BY <1>2 DEF DownloadStep, Cancelled, Downloaded, DownloadFails
<1>3. CASE RemoveStep(c)
  <2>1. CASE ScanUserCopies(c) \/ NotInstalled(c)
    BY <2>1 DEF ScanUserCopies, NotInstalled
  <2>2. CASE RemoveFile(c)
    <3>1. CASE todo'[c] = {}
      BY <2>2, <3>1 DEF RemoveFile
    <3>2. CASE todo'[c] # {}
      BY <2>2, <3>2 DEF RemoveFile
    <3> QED BY <3>1, <3>2
  <2> QED BY <1>3, <2>1, <2>2 DEF RemoveStep
<1> QED BY <1>1, <1>2, <1>3

LEMMA WriterStep ==
    ASSUME TypeOK, OneWriter, [Next]_vars
    PROVE  OneWriter'
<1> USE DEF TypeOK, OneWriter
<1>1. CASE UNCHANGED vars
  BY <1>1
<1>2. ASSUME NEW c \in Callers, Begin(c) PROVE OneWriter'
  BY <1>2 DEF Begin, At
<1>3. ASSUME NEW c \in Callers, lock_user(c) PROVE OneWriter'
  <2>1. lock = NoOne /\ lock' = c
    BY <1>3 DEF lock_user
  <2>2. pc'[c] \in {"check", "scan"} /\ \A d \in Callers \ {c} : pc'[d] = pc[d]
    BY <1>3 DEF lock_user, Goto
  <2>3. \A d \in Callers : ~Past(d)
    BY <2>1, ModelStoreAssumption DEF Past
  <2> QED BY <2>1, <2>2, <2>3 DEF Past
<1>4. ASSUME NEW c \in Callers,
             InstallStep(c) \/ DownloadStep(c) \/ Cancelled(c) \/ RemoveStep(c)
      PROVE  OneWriter'
  <2>1. lock = c /\ \A d \in Callers \ {c} : ~Past(d) /\ pc'[d] = pc[d]
    BY <1>4, StepInside DEF Past
  <2>2. \/ Past(c)' /\ lock' = lock
        \/ pc'[c] = "idle" /\ lock' = NoOne
    BY <1>4, StepInside
  <2> QED BY <2>1, <2>2, ModelStoreAssumption DEF Past
<1>5. ASSUME NEW p \in Procs, Kill(p) PROVE OneWriter'
  BY <1>5, ModelStoreAssumption DEF Kill
<1> QED BY <1>1, <1>2, <1>3, <1>4, <1>5 DEF Next

LEMMA FitsStep ==
    ASSUME TypeOK, CallFits, [Next]_vars
    PROVE  CallFits'
<1> USE DEF TypeOK, CallFits, InstallLabels
<1>1. CASE UNCHANGED vars
  BY <1>1
<1>2. ASSUME NEW c \in Callers, Begin(c) PROVE CallFits'
  <2>1. call'[c] \in Install \cup Remove /\ pc'[c] = "lock"
    BY <1>2 DEF Begin
  <2>2. \A d \in Callers \ {c} : call'[d] = call[d] /\ pc'[d] = pc[d]
    BY <1>2 DEF Begin
  <2> QED BY <2>1, <2>2
<1>3. ASSUME NEW c \in Callers, lock_user(c) PROVE CallFits'
  <2>1. call[c] \in Install \cup Remove
    BY <1>3 DEF lock_user, At
  <2>2. call[c].kind = "install" <=> call[c] \in Install
    BY <2>1 DEF Install, Remove
  <2>3. pc'[c] = IF call[c].kind = "install" THEN "check" ELSE "scan"
    BY <1>3 DEF lock_user, Goto
  <2>4. call' = call /\ \A d \in Callers \ {c} : pc'[d] = pc[d]
    BY <1>3 DEF lock_user, Goto
  <2> QED BY <2>1, <2>2, <2>3, <2>4
<1>4. ASSUME NEW c \in Callers,
             InstallStep(c) \/ DownloadStep(c) \/ Cancelled(c) \/ RemoveStep(c)
      PROVE  CallFits'
  <2>1. \A d \in Callers \ {c} : pc'[d] = pc[d] /\ call'[d] = call[d]
    BY <1>4, StepInside
  <2>2. CASE pc'[c] = "idle"
    BY <2>1, <2>2
  <2>3. CASE pc'[c] # "idle"
    <3>1. call' = call
      BY <1>4, <2>3, StepInside
    <3>2. \/ pc[c] \in InstallLabels /\ pc'[c] \in InstallLabels
          \/ pc[c] \in {"scan", "remove"} /\ pc'[c] = "remove"
      <4> USE DEF At, Goto, Return
      <4>1. CASE InstallStep(c)
        BY <4>1, <2>3 DEF InstallStep, ReturnExisting, LookForLeftover, CleanLeftover,
              CreateStaging, StoreManifest, Rename, RenameFails, ReturnInstalled
      <4>2. CASE DownloadStep(c) \/ Cancelled(c)
        BY <4>2, <2>3 DEF DownloadStep, Cancelled, Downloaded, DownloadFails
      <4>3. CASE ScanUserCopies(c) \/ NotInstalled(c)
        BY <4>3, <2>3 DEF ScanUserCopies, NotInstalled
      <4>4. CASE RemoveFile(c)
        BY <4>4, <2>3 DEF RemoveFile
      <4> QED BY <1>4, <4>1, <4>2, <4>3, <4>4 DEF RemoveStep
    <3> QED BY <2>1, <3>1, <3>2
  <2> QED BY <2>2, <2>3
<1>5. ASSUME NEW p \in Procs, Kill(p) PROVE CallFits'
  BY <1>5 DEF Kill
<1> QED BY <1>1, <1>2, <1>3, <1>4, <1>5 DEF Next

-----------------------------------------------------------------------------
(* What the lock protects *)

\* A caller that is not past the lock has no claim on the directories.
LEMMA Waiting ==
    ASSUME NEW c \in Callers, ~Past(c)
    PROVE  Installing(c) /\ RemovesAll(c)
BY DEF Past, Installing, RemovesAll

\* With one caller past the lock, only its claims are at stake in its steps.
LEMMA OwnClaims ==
    ASSUME TypeOK, OneWriter, NEW c \in Callers,
           InstallStep(c) \/ DownloadStep(c) \/ Cancelled(c) \/ RemoveStep(c),
           (Installing(c) /\ RemovesAll(c))'
    PROVE  Working'
<1>1. ASSUME NEW d \in Callers, d # c PROVE (Installing(d) /\ RemovesAll(d))'
  <2>1. ~Past(d) /\ pc'[d] = pc[d]
    BY <1>1, StepInside DEF Past, OneWriter, TypeOK
  <2> QED BY <2>1 DEF Past, Installing, RemovesAll
<1> QED BY <1>1 DEF Working

LEMMA InstallClaims ==
    ASSUME TypeOK, CallFits, Working, NEW c \in Callers,
           InstallStep(c) \/ DownloadStep(c) \/ Cancelled(c)
    PROVE  (Installing(c) /\ RemovesAll(c))'
<1> USE DEF TypeOK, Working, At, Goto
<1>1. CASE pc'[c] = "idle"
  BY <1>1 DEF Installing, RemovesAll
<1>2. CASE LookForLeftover(c)
  <2>1. pc'[c] = IF MANIFEST_FILE \in files[Version(c)] THEN "clean" ELSE "stage"
    BY <1>2 DEF LookForLeftover
  <2>2. ~Usable(Version(c)) /\ UNCHANGED <<files, staging, call>>
    BY <1>2 DEF LookForLeftover
  <2> QED BY <2>1, <2>2 DEF Installing, RemovesAll, Usable, Version
<1>3. CASE CleanLeftover(c)
  <2>1. PICK i \in files[Version(c)] :
            files' = [files EXCEPT ![Version(c)] = @ \ {i}]
    BY <1>3 DEF CleanLeftover
  <2>2. Version(c) \in Versions /\ call' = call
    BY <1>3, InstallFacts DEF CleanLeftover, InstallLabels
  <2>3. i \in Items /\ i \notin files'[Version(c)]
    BY <2>1, <2>2
  <2>4. pc'[c] = IF files'[Version(c)] = {} THEN "stage" ELSE "clean"
    BY <1>3 DEF CleanLeftover
  <2> QED BY <2>2, <2>3, <2>4 DEF Installing, RemovesAll, Usable, Version
<1>4. CASE CreateStaging(c)
  BY <1>4 DEF CreateStaging, Installing, RemovesAll, Version
<1>5. CASE Downloaded(c)
  <2>1. UNCHANGED <<files, call>> /\ MANIFEST_FILE \notin files[Version(c)]
    BY <1>5 DEF Downloaded, Installing
  <2>2. pc'[c] = IF ModelFiles \subseteq staging'[TmpDir(c)] THEN "manifest" ELSE "download"
    BY <1>5 DEF Downloaded
  <2> QED BY <2>1, <2>2 DEF Installing, RemovesAll, Version, TmpDir
<1>6. CASE StoreManifest(c)
  <2>1. UNCHANGED <<files, call>> /\ MANIFEST_FILE \notin files[Version(c)]
    BY <1>6 DEF StoreManifest, Installing
  <2>2. staging[TmpDir(c)] \in SUBSET Items /\ ModelFiles \subseteq staging[TmpDir(c)]
    BY <1>6, InstallFacts DEF StoreManifest, Installing, InstallLabels
  <2>3. staging'[TmpDir(c)] = staging[TmpDir(c)] \cup {MANIFEST_FILE}
    BY <1>6, InstallFacts DEF StoreManifest, InstallLabels
  <2>4. staging'[TmpDir(c)] = Items
    BY <2>2, <2>3 DEF Items
  <2>5. pc'[c] = "rename"
    BY <1>6 DEF StoreManifest
  <2> QED BY <2>1, <2>4, <2>5 DEF Installing, RemovesAll, Version, TmpDir
<1>7. CASE Rename(c)
  <2>1. Version(c) \in Versions /\ call' = call /\ pc'[c] = "reply"
    BY <1>7, InstallFacts DEF Rename, InstallLabels
  <2>2. files'[Version(c)] = Items
    BY <1>7, <2>1 DEF Rename, Installing
  <2> QED BY <2>1, <2>2 DEF Installing, RemovesAll, Usable, Version
<1>8. CASE ReturnExisting(c) \/ RenameFails(c) \/ ReturnInstalled(c)
            \/ DownloadFails(c) \/ Cancelled(c)
  <2>1. pc'[c] = "idle"
    BY <1>8 DEF ReturnExisting, RenameFails, ReturnInstalled, DownloadFails, Cancelled, Return
  <2> QED BY <2>1, <1>1
<1> QED BY <1>2, <1>3, <1>4, <1>5, <1>6, <1>7, <1>8 DEF InstallStep, DownloadStep

\* The removal of one file, as the facts the proofs need of it.
LEMMA OneFileLess ==
    ASSUME TypeOK, NEW c \in Callers, RemoveFile(c)
    PROVE  \E v \in todo[c] : \E i \in files[v] :
              /\ v \in Versions /\ i \in Items
              /\ files' = [files EXCEPT ![v] = @ \ {i}]
              /\ ~Usable(v)'
              /\ todo'[c] = IF files[v] = {i} THEN todo[c] \ {v} ELSE todo[c]
<1>1. PICK v \in NextRemoved(c) : \E i \in files[v] :
          /\ files' = [files EXCEPT ![v] = @ \ {i}]
          /\ todo' = [todo EXCEPT ![c] = IF files[v] = {i} THEN @ \ {v} ELSE @]
  BY DEF RemoveFile
<1>2. v \in todo[c] /\ v \in Versions
  BY <1>1 DEF NextRemoved, TypeOK
<1>3. PICK i \in files[v] :
          /\ files' = [files EXCEPT ![v] = @ \ {i}]
          /\ todo' = [todo EXCEPT ![c] = IF files[v] = {i} THEN @ \ {v} ELSE @]
  BY <1>1
<1>4. i \in Items /\ i \notin files'[v]
  BY <1>2, <1>3 DEF TypeOK
<1> QED BY <1>2, <1>3, <1>4 DEF Usable, TypeOK

LEMMA RemoveClaims ==
    ASSUME TypeOK, Working, NEW c \in Callers, RemoveStep(c)
    PROVE  (Installing(c) /\ RemovesAll(c))'
<1>1. CASE ScanUserCopies(c)
  BY <1>1 DEF ScanUserCopies, Goto, TypeOK, Installing, RemovesAll, UserCopies, Usable
<1>2. CASE NotInstalled(c)
  BY <1>2 DEF NotInstalled, Return, TypeOK, Installing, RemovesAll
<1>3. CASE RemoveFile(c)
  <2>1. pc[c] = "remove" /\ UserCopies \subseteq todo[c]
    BY <1>3 DEF RemoveFile, At, Working, RemovesAll
  <2>2. PICK v \in todo[c] : \E i \in files[v] :
            /\ v \in Versions /\ i \in Items
            /\ files' = [files EXCEPT ![v] = @ \ {i}]
            /\ ~Usable(v)'
            /\ todo'[c] = IF files[v] = {i} THEN todo[c] \ {v} ELSE todo[c]
    BY <1>3, OneFileLess
  <2>3. UserCopies' \subseteq UserCopies \ {v}
    BY <2>2 DEF UserCopies, Usable, TypeOK
  <2>4. UserCopies' \subseteq todo'[c]
    BY <2>1, <2>2, <2>3
  <2>5. pc'[c] \in {"remove", "idle"}
    <3>1. CASE todo'[c] = {}
      BY <1>3, <3>1 DEF RemoveFile, Return, TypeOK
    <3>2. CASE todo'[c] # {}
      BY <1>3, <3>2, <2>1 DEF RemoveFile
    <3> QED BY <3>1, <3>2
  <2> QED BY <2>4, <2>5 DEF Installing, RemovesAll
<1> QED BY <1>1, <1>2, <1>3 DEF RemoveStep

LEMMA WorkingStep ==
    ASSUME Inv, [Next]_vars
    PROVE  Working'
<1> USE DEF Inv
<1>1. CASE UNCHANGED vars
  BY <1>1 DEF Working, Installing, RemovesAll, UserCopies, Usable, Version, TmpDir
<1>2. ASSUME NEW c \in Callers, Begin(c) \/ lock_user(c) PROVE Working'
  <2>1. UNCHANGED <<files, staging, todo>>
    BY <1>2 DEF Begin, lock_user
  <2>2. pc'[c] \in {"lock", "check", "scan"}
    BY <1>2 DEF Begin, lock_user, Goto, TypeOK
  <2>3. \A d \in Callers \ {c} : pc'[d] = pc[d] /\ call'[d] = call[d]
    BY <1>2 DEF Begin, lock_user, Goto, TypeOK
  <2> QED BY <2>1, <2>2, <2>3
          DEF Working, Installing, RemovesAll, UserCopies, Usable, Version, TmpDir
<1>3. ASSUME NEW c \in Callers, InstallStep(c) \/ DownloadStep(c) \/ Cancelled(c)
      PROVE  Working'
  BY <1>3, InstallClaims, OwnClaims
<1>4. ASSUME NEW c \in Callers, RemoveStep(c) PROVE Working'
  BY <1>4, RemoveClaims, OwnClaims
<1>5. ASSUME NEW p \in Procs, Kill(p) PROVE Working'
  <2>1. UNCHANGED <<files, staging>>
    BY <1>5 DEF Kill
  <2>2. \A d \in Callers : \/ pc'[d] = "idle"
                           \/ pc'[d] = pc[d] /\ call'[d] = call[d] /\ todo'[d] = todo[d]
    BY <1>5 DEF Kill
  <2> QED BY <2>1, <2>2
          DEF Working, Installing, RemovesAll, UserCopies, Usable, Version, TmpDir
<1> QED BY <1>1, <1>2, <1>3, <1>4, <1>5 DEF Next

THEOREM Invariance == Spec => []Inv
<1>1. Inv /\ [Next]_vars => Inv'
  BY TypeStep, WriterStep, FitsStep, WorkingStep DEF Inv
<1> QED BY InitInv, <1>1, PTL DEF Spec

-----------------------------------------------------------------------------
(* The properties *)

\* Types and operations fit.
THEOREM TypeCorrect == Spec => []TypeOK
<1>1. Inv => TypeOK
  BY DEF Inv
<1> QED BY <1>1, Invariance, PTL

\* However many callers, processes and threads there are, and whichever of
\* them dies or gives up: one holder of the lock, and nobody else at work.
THEOREM WriterIsExclusive == Spec => []OneWriter
<1>1. Inv => OneWriter
  BY DEF Inv
<1> QED BY <1>1, Invariance, PTL

\* The three actions that change a version's directory.
LEMMA WhoChangesFiles ==
    ASSUME [Next]_vars, files' # files
    PROVE  \E c \in Callers : CleanLeftover(c) \/ Rename(c) \/ RemoveFile(c)
<1>1. ASSUME NEW c \in Callers, InstallStep(c)
      PROVE  CleanLeftover(c) \/ Rename(c)
  BY <1>1 DEF InstallStep, ReturnExisting, LookForLeftover, CreateStaging,
              StoreManifest, RenameFails, ReturnInstalled
<1>2. ASSUME NEW c \in Callers PROVE ~Begin(c) /\ ~lock_user(c)
  BY DEF Begin, lock_user
<1>3. ASSUME NEW c \in Callers PROVE ~DownloadStep(c) /\ ~Cancelled(c)
  BY DEF DownloadStep, Downloaded, DownloadFails, Cancelled
<1>4. ASSUME NEW c \in Callers, RemoveStep(c) PROVE RemoveFile(c)
  BY <1>4 DEF RemoveStep, ScanUserCopies, NotInstalled
<1>5. ASSUME NEW p \in Procs PROVE ~Kill(p)
  BY DEF Kill
<1> QED BY <1>1, <1>2, <1>3, <1>4, <1>5 DEF Next

\* A step that takes a usable version away, or leaves one half there, removes.
LEMMA NoHalfInstall ==
    ASSUME Inv, [Next]_vars, NEW v \in Versions,
           (Usable(v) /\ ~Usable(v)') \/ (~Damaged(v) /\ Damaged(v)')
    PROVE  \E c \in Callers : Removing(c)
<1> USE DEF Inv
<1>1. files' # files
  BY DEF Usable, Damaged
<1>2. PICK c \in Callers : CleanLeftover(c) \/ Rename(c) \/ RemoveFile(c)
  BY <1>1, WhoChangesFiles
<1>3. ASSUME CleanLeftover(c) PROVE FALSE
  <2>1. PICK i \in files[Version(c)] :
            files' = [files EXCEPT ![Version(c)] = @ \ {i}]
    BY <1>3 DEF CleanLeftover
  <2>2. Version(c) \in Versions
    BY <1>3, InstallFacts DEF CleanLeftover, InstallLabels, At
  <2>3. ~Usable(Version(c)) /\ files[Version(c)] # {}
    BY <1>3, <2>1 DEF CleanLeftover, At, Working, Installing
  <2>4. v # Version(c) => files'[v] = files[v]
    BY <2>1, <2>2 DEF TypeOK
  <2>5. v = Version(c) => Damaged(v) /\ ~Usable(v)
    BY <2>3 DEF Damaged
  <2> QED BY <2>4, <2>5 DEF Usable, Damaged
<1>4. ASSUME Rename(c) PROVE FALSE
  <2>1. Version(c) \in Versions
    BY <1>4, InstallFacts DEF Rename, InstallLabels, At
  <2>2. files[Version(c)] = {} /\ Usable(Version(c))'
    <3>1. staging[TmpDir(c)] = Items
      BY <1>4 DEF Rename, At, Working, Installing
    <3>2. call' = call
      BY <1>4 DEF Rename, Goto
    <3> QED BY <1>4, <2>1, <3>1, <3>2 DEF Rename, Usable, TypeOK, Version
  <2>3. v # Version(c) => files'[v] = files[v]
    BY <1>4, <2>1 DEF Rename, TypeOK
  <2>4. files[Version(c)] # Items
    BY <2>2 DEF Items
  <2>5. Version(c)' = Version(c)
    BY <1>4 DEF Rename, Goto, Version
  <2> QED BY <2>2, <2>3, <2>4, <2>5 DEF Usable, Damaged
<1>5. RemoveFile(c)
  BY <1>2, <1>3, <1>4
<1>6. pc[c] = "remove" /\ lock = c
  BY <1>5 DEF RemoveFile, At, OneWriter
<1> QED BY <1>6 DEF Removing, At

\* Whatever is killed, cancelled or fails, only a removal takes a usable
\* version away or leaves one half there.
THEOREM InstallationIsAtomic == Spec => InstallIsAtomic
<1> DEFINE Step == \A v \in Versions :
        (Usable(v) /\ ~Usable(v)') \/ (~Damaged(v) /\ Damaged(v)')
            => \E c \in Callers : Removing(c)
<1>1. Inv /\ [Next]_vars => [Step]_vars
  BY NoHalfInstall
<1> QED BY <1>1, Invariance, PTL DEF Spec, InstallIsAtomic

\* A caller that answers is in the step that gives the answer.
LEMMA WhoAnswers ==
    ASSUME TypeOK, [Next]_vars, NEW c \in Callers, NEW with, Answers(c, with)
    PROVE  \/ with = "ok" /\ (ReturnExisting(c) \/ ReturnInstalled(c))
           \/ with = "ok" /\ RemoveFile(c) /\ todo'[c] = {}
           \/ with = "not_empty" /\ RenameFails(c)
           \/ with \in {"failed", "cancelled", "not_installed", "killed"}
<1> USE DEF TypeOK, Answers, At, Goto
<1>1. vars' # vars
  OBVIOUS
<1>2. ASSUME NEW d \in Callers, Begin(d) \/ lock_user(d) PROVE FALSE
  BY <1>2 DEF Begin, lock_user
<1>3. ASSUME NEW d \in Callers,
             InstallStep(d) \/ DownloadStep(d) \/ Cancelled(d) \/ RemoveStep(d)
      PROVE  d = c
  BY <1>3, StepInside
<1>4. CASE InstallStep(c)
  <2>1. ReturnExisting(c) \/ RenameFails(c) \/ ReturnInstalled(c)
    BY <1>4 DEF InstallStep, LookForLeftover, CleanLeftover, CreateStaging,
                StoreManifest, Rename
  <2> QED BY <2>1 DEF ReturnExisting, RenameFails, ReturnInstalled, Return
<1>5. CASE DownloadStep(c) \/ Cancelled(c)
  BY <1>5 DEF DownloadStep, Downloaded, DownloadFails, Cancelled, Return
<1>6. CASE RemoveStep(c)
  <2>1. CASE ScanUserCopies(c) \/ NotInstalled(c)
    BY <2>1 DEF ScanUserCopies, NotInstalled, Return
  <2>2. CASE RemoveFile(c)
    <3>1. todo'[c] = {}
      BY <2>2 DEF RemoveFile
    <3> QED BY <2>2, <3>1 DEF RemoveFile, Return
  <2> QED BY <1>6, <2>1, <2>2 DEF RemoveStep
<1>7. ASSUME NEW p \in Procs, Kill(p) PROVE with = "killed"
  BY <1>7 DEF Kill
<1> QED BY <1>1, <1>2, <1>3, <1>4, <1>5, <1>6, <1>7 DEF Next

\* A removal that answers has removed every usable user copy.
LEMMA RemovedAll ==
    ASSUME Inv, [Next]_vars, NEW c \in Callers,
           Answers(c, "ok"), call[c].kind = "remove"
    PROVE  UserCopies' = {}
<1> USE DEF Inv
<1>1. RemoveFile(c) /\ todo'[c] = {}
  <2>1. call[c] \notin Install
    BY DEF Install
  <2>2. ~(ReturnExisting(c) \/ ReturnInstalled(c))
    BY <2>1 DEF ReturnExisting, ReturnInstalled, At, CallFits, InstallLabels
  <2> QED BY <2>2, WhoAnswers
<1>2. UserCopies \subseteq todo[c]
  BY <1>1 DEF RemoveFile, At, Working, RemovesAll
<1>3. PICK v \in todo[c] : \E i \in files[v] :
          /\ v \in Versions /\ i \in Items
          /\ files' = [files EXCEPT ![v] = @ \ {i}]
          /\ ~Usable(v)'
          /\ todo'[c] = IF files[v] = {i} THEN todo[c] \ {v} ELSE todo[c]
  BY <1>1, OneFileLess
<1>4. UserCopies' \subseteq UserCopies \ {v}
  BY <1>3 DEF UserCopies, Usable, TypeOK
<1>5. todo[c] \subseteq {v}
  BY <1>1, <1>3
<1> QED BY <1>2, <1>4, <1>5

\* For every answer of a removal: nothing is left to resolve.
THEOREM RemovalIsComplete == Spec => RemovedIsGone
<1> DEFINE Step == \A c \in Callers :
        Answers(c, "ok") /\ call[c].kind = "remove" => UserCopies' = {}
<1>1. Inv /\ [Next]_vars => [Step]_vars
  BY RemovedAll
<1> QED BY <1>1, Invariance, PTL DEF Spec, RemovedIsGone

\* The only directory that blocks an installation has lost its manifest.
THEOREM OnlyHeadless == Spec => OnlyHeadlessBlocks
<1> DEFINE Step == \A c \in Callers :
        Answers(c, "not_empty") => MANIFEST_FILE \notin files[Version(c)]
<1>1. ASSUME Inv, [Next]_vars, NEW c \in Callers, Answers(c, "not_empty")
      PROVE  MANIFEST_FILE \notin files[Version(c)]
  <2>1. RenameFails(c)
    BY <1>1, WhoAnswers DEF Inv
  <2> QED BY <1>1, <2>1 DEF RenameFails, At, Inv, Working, Installing
<1>2. Inv /\ [Next]_vars => [Step]_vars
  BY <1>1
<1> QED BY <1>2, Invariance, PTL DEF Spec, OnlyHeadlessBlocks

-----------------------------------------------------------------------------
(* What resolve finds *)

\* A finite set of numbers has a largest one: the element with the fewest
\* others above it.
LEMMA HasLargest ==
    ASSUME NEW S \in SUBSET Nat, IsFiniteSet(S), S # {}
    PROVE  \E v \in S : \A w \in S : w <= v
<1> DEFINE Above(v) == {w \in S : w > v}
           T        == {Cardinality(Above(v)) : v \in S}
<1>1. \A v \in S : IsFiniteSet(Above(v)) /\ Cardinality(Above(v)) \in Nat
  BY FS_Subset, FS_CardinalityType
<1>2. T \subseteq Nat /\ T # {}
  BY <1>1
<1>3. PICK n \in T : \A m \in T : ~(<<m, n>> \in OpToRel(<, Nat))
  BY <1>2, WFMin, NatLessThanWellFounded
<1>4. \A m \in T : ~(m < n)
  BY <1>2, <1>3 DEF OpToRel
<1>5. PICK v \in S : n = Cardinality(Above(v))
  BY <1>3
<1>6. ASSUME NEW w \in S, ~(w <= v) PROVE FALSE
  <2> v \in Nat /\ w \in Nat /\ w > v
    BY <1>6
  <2>1. Above(w) \subseteq Above(v) /\ w \in Above(v) /\ w \notin Above(w)
    <3>1. ASSUME NEW u \in S, u > w PROVE u > v
      <4>1. u \in Nat
        OBVIOUS
      <4> QED BY <3>1, <4>1
    <3>2. ~(w > w)
      OBVIOUS
    <3> QED BY <3>1, <3>2, Zenon
  <2>2. Cardinality(Above(w)) <= Cardinality(Above(v))
        /\ (Cardinality(Above(v)) = Cardinality(Above(w)) => Above(v) = Above(w))
    BY <1>1, <2>1, FS_Subset
  <2>3. Cardinality(Above(w)) < n
    BY <1>1, <1>5, <2>1, <2>2
  <2>4. Cardinality(Above(w)) \in T
    OBVIOUS
  <2> QED BY <1>4, <2>3, <2>4
<1> QED BY <1>6

\* An answer names a version that is usable when it is given.
LEMMA AnsweredIsUsable ==
    ASSUME Inv, [Next]_vars, NEW c \in Callers,
           Answers(c, "ok"), call[c].kind = "install"
    PROVE  Version(c) \in Supported \cap UserCopies'
<1> USE DEF Inv
<1>1. call[c] \notin Remove
  BY DEF Remove
<1>2. ReturnExisting(c) \/ ReturnInstalled(c)
  <2>1. ~RemoveFile(c)
    BY <1>1 DEF RemoveFile, At, CallFits
  <2> QED BY <2>1, WhoAnswers
<1>3. pc[c] \in {"check", "reply"} /\ files' = files
  BY <1>2 DEF ReturnExisting, ReturnInstalled, At
<1>4. Usable(Version(c))
  BY <1>2 DEF ReturnExisting, ReturnInstalled, At, Working, Installing
<1>5. call[c] \in Install /\ Version(c) \in Supported
  BY <1>3 DEF CallFits, InstallLabels, Install, Version
<1>6. Supported \subseteq Versions
  BY ModelStoreAssumption
<1> QED BY <1>3, <1>4, <1>5, <1>6 DEF UserCopies, Usable

\* resolve is at least every supported version that a user copy has.
LEMMA ResolveIsNewest ==
    ASSUME NEW v \in Supported \cap UserCopies
    PROVE  resolve >= v
<1> DEFINE found == (UserCopies \cup System) \cap Supported
           best  == CHOOSE b \in found : \A w \in found : w <= b
<1>1. found \in SUBSET Nat /\ IsFiniteSet(found)
  <2>1. Supported \in SUBSET Versions /\ IsFiniteSet(Versions) /\ Versions \subseteq Nat
    BY ModelStoreAssumption
  <2>2. IsFiniteSet(Supported)
    BY <2>1, FS_Subset
  <2> QED BY <2>1, <2>2, FS_Subset
<1>2. v \in found /\ found # {}
  OBVIOUS
<1>3. \E b \in found : \A w \in found : w <= b
  BY <1>1, <1>2, HasLargest
<1>4. best \in found /\ \A w \in found : w <= best
  BY <1>3
<1>5. resolve = best
  BY <1>2 DEF resolve
<1> HIDE DEF found, best
<1> QED BY <1>1, <1>2, <1>4, <1>5

\* For every answer of an installation: resolve finds it, or a newer one.
THEOREM InstalledIsResolved == Spec => OkIsResolved
<1> DEFINE Step == \A c \in Callers :
        Answers(c, "ok") /\ call[c].kind = "install" => resolve' >= Version(c)
<1>1. \A v \in Supported \cap UserCopies : resolve >= v
  BY ResolveIsNewest
<1>2. (\A v \in Supported \cap UserCopies : resolve >= v)'
  BY <1>1, PTL
<1>3. Inv /\ [Next]_vars => [Step]_vars
  BY <1>2, AnsweredIsUsable
<1> QED BY <1>3, Invariance, PTL DEF Spec, OkIsResolved
=============================================================================
