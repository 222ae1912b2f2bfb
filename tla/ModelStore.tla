---------------------------- MODULE ModelStore ----------------------------
(***************************************************************************)
(* The user store of models (crates/dragoman-models/src/store.rs) as       *)
(* installations (remote_settings.rs, install) and removals (RemovePair in *)
(* service.rs, remove in store_cmd.rs) change it: the lock file, the       *)
(* staging directories, the rename and the file-by-file removal.           *)
(*                                                                         *)
(* The store holds one language pair; a version's directory is the set of  *)
(* files in it, and a missing directory is an empty one (rename(2) treats  *)
(* both alike).  The callers are handlers in the daemon, whose runtime has *)
(* Threads[p] threads, and runs of dragomanctl, processes of one caller.   *)
(* flock() blocks the thread that calls it; only a download gives the      *)
(* thread back.  A process may be killed between any two steps.            *)
(***************************************************************************)
EXTENDS Naturals, FiniteSets

CONSTANTS Callers, Procs, ProcOf,  \* callers of install and remove
          Daemon,                  \* the process whose calls can be cancelled
          Threads,                 \* [Procs -> Nat], threads of the runtime
          Versions,                \* versions in the user store, as numbers
          Supported,               \* those from MODEL_MAJOR_MIN to _MAX
          System,                  \* versions in a read-only system store
          ModelFiles,              \* the files of a model, without manifest
          MaxCalls, MaxKills       \* bounds on a run

NoOne == "nobody"

ASSUME ModelStoreAssumption ==
    /\ IsFiniteSet(Callers) /\ NoOne \notin Callers
    /\ ProcOf \in [Callers -> Procs]
    /\ Threads \in [Procs -> Nat \ {0}]
    /\ Versions \subseteq Nat /\ IsFiniteSet(Versions) /\ IsFiniteSet(ModelFiles)
    /\ Supported \subseteq Versions /\ System \subseteq Nat
    /\ MaxCalls \in Nat /\ MaxKills \in Nat

MANIFEST_FILE == "manifest.json"
Items  == ModelFiles \cup {MANIFEST_FILE}
Install == [kind : {"install"}, version : Supported]
Remove  == [kind : {"remove"}, version : {0}]
NoCall  == [kind |-> "none", version |-> 0]

VARIABLES
    files,       \* [Versions -> SUBSET Items], the pair's directories
    staging,     \* the .tmp-<version>-<pid> directories
    lock,        \* who holds the flock on <store>/.lock
    pc, call,    \* where each caller stands, and in which operation
    todo,        \* what scan() told a remover to remove
    result,      \* how each caller's last operation ended
    calls, kills \* counters of the bounds

store  == <<files, staging>>
caller == <<pc, call, todo, result>>
bounds == <<calls, kills>>
vars   == <<store, lock, caller, bounds>>

OnThread == {"lock", "check", "clean", "stage", "manifest", "rename", "reply",
             "scan", "remove"}
Labels   == OnThread \cup {"idle", "download"}
Results  == {"none", "ok", "failed", "not_empty", "not_installed", "cancelled", "killed"}

Init ==
    /\ files \in [Versions -> {{}, Items}]
    /\ staging = [d \in Procs \X Versions |-> {}]
    /\ lock = NoOne
    /\ pc = [c \in Callers |-> "idle"]
    /\ call = [c \in Callers |-> NoCall]
    /\ todo = [c \in Callers |-> {}]
    /\ result = [c \in Callers |-> "none"]
    /\ calls = 0 /\ kills = 0
-----------------------------------------------------------------------------
(* What a scan sees, and the model that translations get *)

\* scan_model_dir: the manifest parses and every file it lists has its size.
Usable(v)  == files[v] = Items
UserCopies == {v \in Versions : Usable(v)}

\* resolve: the newest supported version; which copy of it, a system or a
\* user one, makes no difference here.  0 if there is none.
resolve ==
    LET found == (UserCopies \cup System) \cap Supported
    IN  IF found = {} THEN 0 ELSE CHOOSE v \in found : \A w \in found : w <= v

\* A thread of the process is not held by another caller.
ThreadFree(p) ==
    Cardinality({c \in Callers : ProcOf[c] = p /\ pc[c] \in OnThread}) < Threads[p]

Version(c) == call[c].version
TmpDir(c)  == <<ProcOf[c], Version(c)>>
At(c, label)     == pc[c] = label
Goto(c, label)   == pc' = [pc EXCEPT ![c] = label] /\ UNCHANGED <<call, result>>
\* The operation returns, and with it the StoreLock is dropped.
Return(c, answer) ==
    /\ pc' = [pc EXCEPT ![c] = "idle"]
    /\ result' = [result EXCEPT ![c] = answer]
    /\ call' = [call EXCEPT ![c] = NoCall]
    /\ lock' = NoOne
    /\ UNCHANGED bounds
-----------------------------------------------------------------------------
(* Both operations: the call, and lock_user() *)

\* A call arrives, an installation knows its version from available(), and
\* lock_user() is next.
Begin(c) ==
    /\ At(c, "idle") /\ calls < MaxCalls /\ ThreadFree(ProcOf[c])
    /\ \E op \in Install \cup Remove : call' = [call EXCEPT ![c] = op]
    /\ pc' = [pc EXCEPT ![c] = "lock"]
    /\ calls' = calls + 1
    /\ UNCHANGED <<store, lock, todo, result, kills>>

\* Mutant: the lock does not exclude a caller of the same process.
LockPerProcess(c) ==
    /\ At(c, "lock") /\ (lock # NoOne => ProcOf[lock] = ProcOf[c])
    /\ lock' = c
    /\ Goto(c, IF call[c].kind = "install" THEN "check" ELSE "scan")
    /\ UNCHANGED <<store, todo, bounds>>

\* flock(LockExclusive) returns.
lock_user(c) ==
    /\ At(c, "lock") /\ lock = NoOne
    /\ lock' = c
    /\ Goto(c, IF call[c].kind = "install" THEN "check" ELSE "scan")
    /\ UNCHANGED <<store, todo, bounds>>
-----------------------------------------------------------------------------
(* install() *)

\* Mutant: the manifest's existence counts as an installed model.
ReturnIfManifest(c) ==
    /\ At(c, "check") /\ MANIFEST_FILE \in files[Version(c)]
    /\ Return(c, "ok")
    /\ UNCHANGED <<store, todo>>

\* This exact version is already there.
ReturnExisting(c) ==
    /\ At(c, "check") /\ Usable(Version(c))
    /\ Return(c, "ok")
    /\ UNCHANGED <<store, todo>>

\* Mutant: a damaged leftover is not removed.
KeepLeftover(c) ==
    /\ At(c, "check") /\ ~Usable(Version(c))
    /\ Goto(c, "stage")
    /\ UNCHANGED <<store, lock, todo, bounds>>

\* A directory with a manifest that the scan does not accept is removed
\* first; one without a manifest is not looked at.
LookForLeftover(c) ==
    /\ At(c, "check") /\ ~Usable(Version(c))
    /\ Goto(c, IF MANIFEST_FILE \in files[Version(c)] THEN "clean" ELSE "stage")
    /\ UNCHANGED <<store, lock, todo, bounds>>

\* remove_dir_all of the damaged directory, one file per step.
CleanLeftover(c) ==
    /\ At(c, "clean")
    /\ \E i \in files[Version(c)] : files' = [files EXCEPT ![Version(c)] = @ \ {i}]
    /\ Goto(c, IF files'[Version(c)] = {} THEN "stage" ELSE "clean")
    /\ UNCHANGED <<staging, lock, todo, bounds>>

\* The staging directory starts empty; then the first download is awaited.
CreateStaging(c) ==
    /\ At(c, "stage")
    /\ staging' = [staging EXCEPT ![TmpDir(c)] = {}]
    /\ Goto(c, "download")
    /\ UNCHANGED <<files, lock, todo, bounds>>

\* Mutant: the directory is renamed before its manifest is written.
DownloadedNoManifest(c) ==
    /\ At(c, "download") /\ ThreadFree(ProcOf[c])
    /\ \E f \in ModelFiles \ staging[TmpDir(c)] :
        staging' = [staging EXCEPT ![TmpDir(c)] = @ \cup {f}]
    /\ Goto(c, IF ModelFiles \subseteq staging'[TmpDir(c)] THEN "rename" ELSE "download")
    /\ UNCHANGED <<files, lock, todo, bounds>>

\* A file arrived; once a thread takes the task up it is verified, unpacked,
\* verified again and written, and the next one is awaited.
Downloaded(c) ==
    /\ At(c, "download") /\ ThreadFree(ProcOf[c])
    /\ \E f \in ModelFiles \ staging[TmpDir(c)] :
        staging' = [staging EXCEPT ![TmpDir(c)] = @ \cup {f}]
    /\ Goto(c, IF ModelFiles \subseteq staging'[TmpDir(c)] THEN "manifest" ELSE "download")
    /\ UNCHANGED <<files, lock, todo, bounds>>

\* The download, its verification or its decompression fails.
DownloadFails(c) ==
    /\ At(c, "download") /\ ThreadFree(ProcOf[c])
    /\ Return(c, "failed")
    /\ UNCHANGED <<store, todo>>

\* Request1.Cancel, or the client's disconnection, drops the future.
Cancelled(c) ==
    /\ At(c, "download") /\ ProcOf[c] = Daemon /\ ThreadFree(ProcOf[c])
    /\ Return(c, "cancelled")
    /\ UNCHANGED <<store, todo>>

\* Manifest::store.
StoreManifest(c) ==
    /\ At(c, "manifest")
    /\ staging' = [staging EXCEPT ![TmpDir(c)] = @ \cup {MANIFEST_FILE}]
    /\ Goto(c, "rename")
    /\ UNCHANGED <<files, lock, todo, bounds>>

\* rename(tmp_dir, final_dir): the target is missing, or an empty directory.
Rename(c) ==
    /\ At(c, "rename") /\ files[Version(c)] = {}
    /\ files' = [files EXCEPT ![Version(c)] = staging[TmpDir(c)]]
    /\ staging' = [staging EXCEPT ![TmpDir(c)] = {}]
    /\ Goto(c, "reply")
    /\ UNCHANGED <<lock, todo, bounds>>

\* Any other target is ENOTEMPTY.
RenameFails(c) ==
    /\ At(c, "rename") /\ files[Version(c)] # {}
    /\ Return(c, "not_empty")
    /\ UNCHANGED <<store, todo>>

\* fsync_dir(pair_dir), and the answer.
ReturnInstalled(c) ==
    /\ At(c, "reply")
    /\ Return(c, "ok")
    /\ UNCHANGED <<store, todo>>
-----------------------------------------------------------------------------
(* RemovePair and dragomanctl store remove *)

\* Mutant: only the copy that resolve would take is removed.
ScanNewest(c) ==
    /\ At(c, "scan") /\ UserCopies # {}
    /\ todo' = [todo EXCEPT ![c] = {CHOOSE v \in UserCopies : \A w \in UserCopies : w <= v}]
    /\ Goto(c, "remove")
    /\ UNCHANGED <<store, lock, bounds>>

ScanUserCopies(c) ==
    /\ At(c, "scan") /\ UserCopies # {}
    /\ todo' = [todo EXCEPT ![c] = UserCopies]
    /\ Goto(c, "remove")
    /\ UNCHANGED <<store, lock, bounds>>

NotInstalled(c) ==
    /\ At(c, "scan") /\ UserCopies = {}
    /\ Return(c, "not_installed")
    /\ UNCHANGED <<store, todo>>

\* The version remove_dir_all is in the middle of, or else any to come.
NextRemoved(c) ==
    LET begun == {v \in todo[c] : files[v] # Items}
    IN  IF begun = {} THEN todo[c] ELSE begun

\* Stores::remove of each copy in turn, one file per step.
RemoveFile(c) ==
    /\ At(c, "remove")
    /\ \E v \in NextRemoved(c) : \E i \in files[v] :
        /\ files' = [files EXCEPT ![v] = @ \ {i}]
        /\ todo' = [todo EXCEPT ![c] = IF files[v] = {i} THEN @ \ {v} ELSE @]
    /\ IF todo'[c] = {}
       THEN Return(c, "ok")
       ELSE UNCHANGED <<lock, pc, call, result, bounds>>
    /\ UNCHANGED staging
-----------------------------------------------------------------------------
\* Mutant: the lock outlives its process, as a lock file made and deleted would.
KillKeepsLock(p) ==
    LET mine == {c \in Callers : ProcOf[c] = p /\ pc[c] # "idle"} IN
    /\ kills < MaxKills /\ mine # {}
    /\ kills' = kills + 1
    /\ pc' = [c \in Callers |-> IF c \in mine THEN "idle" ELSE pc[c]]
    /\ result' = [c \in Callers |-> IF c \in mine THEN "killed" ELSE result[c]]
    /\ call' = [c \in Callers |-> IF c \in mine THEN NoCall ELSE call[c]]
    /\ todo' = [c \in Callers |-> IF c \in mine THEN {} ELSE todo[c]]
    /\ UNCHANGED <<store, lock, calls>>

\* The process dies: the kernel closes its files and with them the lock.
Kill(p) ==
    LET mine == {c \in Callers : ProcOf[c] = p /\ pc[c] # "idle"} IN
    /\ kills < MaxKills /\ mine # {}
    /\ kills' = kills + 1
    /\ pc' = [c \in Callers |-> IF c \in mine THEN "idle" ELSE pc[c]]
    /\ result' = [c \in Callers |-> IF c \in mine THEN "killed" ELSE result[c]]
    /\ call' = [c \in Callers |-> IF c \in mine THEN NoCall ELSE call[c]]
    /\ todo' = [c \in Callers |-> IF c \in mine THEN {} ELSE todo[c]]
    /\ lock' = IF lock \in mine THEN NoOne ELSE lock
    /\ UNCHANGED <<store, calls>>

InstallStep(c) ==
    \/ ReturnExisting(c) \/ LookForLeftover(c) \/ CleanLeftover(c) \/ CreateStaging(c)
    \/ StoreManifest(c) \/ Rename(c) \/ RenameFails(c) \/ ReturnInstalled(c)
RemoveStep(c)   == ScanUserCopies(c) \/ NotInstalled(c) \/ RemoveFile(c)
DownloadStep(c) == Downloaded(c) \/ DownloadFails(c)

Next ==
    \/ \E c \in Callers : \/ Begin(c) \/ lock_user(c) \/ InstallStep(c)
                          \/ DownloadStep(c) \/ Cancelled(c) \/ RemoveStep(c)
    \/ \E p \in Procs : Kill(p)

\* A thread that runs goes on; the server answers or the connection breaks;
\* flock() returns to a caller when the lock stays free.
Fairness ==
    \A c \in Callers : /\ WF_vars(InstallStep(c) \/ RemoveStep(c))
                       /\ WF_vars(DownloadStep(c))
                       /\ WF_vars(lock_user(c))

Spec == Init /\ [][Next]_vars /\ Fairness
-----------------------------------------------------------------------------
(* Properties *)

TypeOK ==
    /\ files \in [Versions -> SUBSET Items]
    /\ staging \in [Procs \X Versions -> SUBSET Items]
    /\ lock \in Callers \cup {NoOne}
    /\ pc \in [Callers -> Labels] /\ call \in [Callers -> Install \cup Remove \cup {NoCall}]
    /\ todo \in [Callers -> SUBSET Versions] /\ result \in [Callers -> Results]
    /\ calls \in 0..MaxCalls /\ kills \in 0..MaxKills

\* Whoever works on the store, in whatever process, is the one that holds its
\* lock, and nobody else holds it: neither an answer, a failed download, a
\* cancelled task nor a killed process leaves it behind (StoreLock's drop).
OneWriter == \A c \in Callers : (lock = c) <=> pc[c] \notin {"idle", "lock"}

Removing(c)      == At(c, "remove") /\ lock = c
Answers(c, with) == result'[c] = with /\ pc[c] # "idle" /\ pc'[c] = "idle"
Damaged(v)       == files[v] # {} /\ ~Usable(v)

\* When install answers with a version, resolve finds that version or a newer
\* one at that moment: neither a removal nor another installation that was
\* waiting for the lock has taken it away (remote_settings.rs, install).
OkIsResolved ==
    [][\A c \in Callers : Answers(c, "ok") /\ call[c].kind = "install"
            => resolve' >= Version(c)]_vars

\* When a removal answers, no user copy of the pair is left to resolve: not
\* another version, and none that was installed while the removal waited.
RemovedIsGone ==
    [][\A c \in Callers : Answers(c, "ok") /\ call[c].kind = "remove"
            => UserCopies' = {}]_vars

\* An installation, whatever interrupts it, takes no usable version away and
\* leaves no version half there: only a removal does either (models.md:12).
InstallIsAtomic ==
    [][\A v \in Versions :
            (Usable(v) /\ ~Usable(v)') \/ (~Damaged(v) /\ Damaged(v)')
                => \E c \in Callers : Removing(c)]_vars

\* A directory that a scan refuses blocks an installation only if it has lost
\* its manifest; with one, it is cleaned and replaced (remote_settings.rs:227).
OnlyHeadlessBlocks ==
    [][\A c \in Callers : Answers(c, "not_empty")
            => MANIFEST_FILE \notin files[Version(c)]]_vars

\* Every installation and removal comes to an end, while the runtime has more
\* threads than callers that can be waiting for the lock.
EveryOperationEnds ==
    \A c \in Callers : pc[c] # "idle" ~> pc[c] = "idle"
=============================================================================
