------------------------------- MODULE Updater -------------------------------
(***************************************************************************)
(* The self-update of the agent (internal/topsrv/updater.go) across        *)
(* process restarts: the install of an offered version, the state file     *)
(* that counts restarts after it, the rollback to the backup of the        *)
(* previous binary, and the two goroutines (Run and markStableAfter) that  *)
(* read, change and write the state file without a lock.                   *)
(*                                                                         *)
(* A version is a number, ordered as compareVersionedNames orders them.    *)
(* The state file keeps what checkRollback reads; LastUpdate is reduced to *)
(* whether it lies within updateCrashWindow.                               *)
(***************************************************************************)
EXTENDS Naturals, FiniteSets

CONSTANTS
    MaxVersion,        \* bound: versions the server may offer
    Bad,               \* versions that crash before updateStableThreshold
    CrashPoints,       \* where an unplanned end may hit: see Points
    Faults,            \* which of FaultKinds may occur
    Downgrades,        \* TRUE: the server may offer an older version
    Interleaved,       \* FALSE: Run takes no step within markStableAfter
    updateMaxBackups,
    updateMaxRestarts,
    MaxTerms,          \* bound: SIGTERMs
    MaxCrashes,        \* bound: unplanned ends counted; more are not told apart
    MaxInstalls        \* bound: installs that reach the state file

Versions == 1..MaxVersion

\* "boot": before the updater runs; "run": outside of checks and writes;
\* "replace": between saveState and the rename of an install; "write": from the
\* start of its backup to there, and within the other writes
Points == {"boot", "run", "replace", "write"}

\* which of saveState, backup and replace may fail
FaultKinds == {"state", "backup", "replace"}

ASSUME UpdaterAssumption ==
    /\ MaxVersion \in Nat \ {0}
    /\ Bad \subseteq Nat
    /\ CrashPoints \subseteq Points
    /\ Faults \subseteq FaultKinds
    /\ Downgrades \in BOOLEAN
    /\ Interleaved \in BOOLEAN
    /\ updateMaxBackups \in Nat \ {0}
    /\ updateMaxRestarts \in Nat \ {0}
    /\ MaxTerms \in Nat
    /\ MaxCrashes \in Nat
    /\ MaxInstalls \in Nat

VARIABLES
    \* the disk
    bin,        \* the binary at binPath: its version and whether it is whole
    backups,    \* .topsrv-backup: the state of each version's copy
    file,       \* update-state.json, or Unreadable
    \* the process
    pc,         \* where Run is
    mine,       \* the state Run is about to save
    new,        \* the version check is installing
    stable,     \* where markStableAfter is
    zeroed,     \* the state markStableAfter is about to save
    cancelled,  \* ctx.Done() is closed
    \* history
    ended,      \* how the last process ended
    crashes,    \* unplanned ends since the last install
    replaced,   \* the version the last install, complete or not, was to replace
    saved,      \* no saveState has failed so far
    terms, installs

disk    == <<bin, backups, file>>
run     == <<pc, mine, new>>
marker  == <<stable, zeroed>>
ends    == <<ended, crashes, replaced>>
bounds  == <<terms, installs>>
vars    == <<disk, run, marker, cancelled, ends, saved, bounds>>

-----------------------------------------------------------------------------
(* Data *)

State == [recent : BOOLEAN, prev : Nat, count : Nat, graceful : BOOLEAN]

\* loadState fails: no file, or one cut short by a failed or interrupted
\* write; a state of zeros says no more than that
Unreadable == [recent |-> FALSE, prev |-> 0, count |-> 0, graceful |-> FALSE]
Readable == file # Unreadable

\* saveState ignores its errors: the old file stays, or an empty one is left
Save(s) ==
    \/ file' = s /\ UNCHANGED saved
    \/ "state" \in Faults /\ file' \in {file, Unreadable} /\ saved' = FALSE

Copies == {"none", "torn", "whole"}

\* bug: names sorted in descending order, the newest copies removed
KeepOldest(v, kept) ==
    Cardinality({w \in Versions : w < v /\ kept[w] # "none"}) < updateMaxBackups

\* trimBackups: version v survives if few enough kept copies are newer
KeepNewest(v, kept) ==
    Cardinality({w \in Versions : w > v /\ kept[w] # "none"}) < updateMaxBackups

TrimBackups(kept) ==
    [v \in Versions |-> IF KeepNewest(v, kept) THEN kept[v] ELSE "none"]

Capped(n) == IF n < MaxCrashes THEN n ELSE MaxCrashes

-----------------------------------------------------------------------------
(* Run: checkRollback at the start *)

\* App.Run reaches the updater: its goroutine and markStableAfter start
Boot ==
    /\ pc = "boot"
    /\ pc' = "load"
    /\ UNCHANGED <<disk, mine, new, marker, cancelled, ends, bounds, saved>>

\* counts above the limit are not told apart
Counted(s) == [s EXCEPT !.count = IF @ < updateMaxRestarts THEN @ + 1 ELSE @]

\* bug: the mark survives the restart it excuses
KeepMark(s) == s

ClearMark(s) == [s EXCEPT !.graceful = FALSE]

CheckRollback ==
    /\ pc = "load"
    /\ \/ /\ file.recent /\ ~file.graceful
          /\ mine' = Counted(file)
          /\ pc' = "saveCount"
       \/ /\ file.recent /\ file.graceful
          /\ mine' = ClearMark(file)
          /\ pc' = "tidy"
       \/ /\ ~file.recent /\ (file.count # 0 \/ file.graceful)
          /\ mine' = [file EXCEPT !.count = 0, !.graceful = FALSE]
          /\ pc' = "tidy"
       \/ /\ ~file.recent /\ file.count = 0 /\ ~file.graceful
          /\ pc' = "idle"
          /\ UNCHANGED mine
    /\ UNCHANGED <<disk, new, marker, cancelled, ends, bounds, saved>>

\* outside the window or after a graceful end
Tidy ==
    /\ pc = "tidy"
    /\ Save(mine)
    /\ pc' = "idle"
    /\ UNCHANGED <<bin, backups, mine, new, marker, cancelled, ends, bounds>>

\* bug: the limit is met one restart too early
FewerThanLimit == mine.count + 1 >= updateMaxRestarts

TooMany == mine.count >= updateMaxRestarts

SaveCount ==
    /\ pc = "saveCount"
    /\ Save(mine)
    /\ pc' = IF TooMany THEN "rollback" ELSE "idle"
    /\ UNCHANGED <<bin, backups, mine, new, marker, cancelled, ends, bounds>>

-----------------------------------------------------------------------------
(* rollback and attemptRollback *)

\* replace(backup): without a copy, or if it cannot be installed, the process
\* keeps running
RollbackFails ==
    /\ pc = "rollback"
    /\ backups[mine.prev] = "none" \/ "replace" \in Faults
    /\ pc' = "idle"
    /\ UNCHANGED <<disk, mine, new, marker, cancelled, ends, bounds, saved>>

RollbackReplaces ==
    /\ pc = "rollback"
    /\ backups[mine.prev] # "none"
    /\ bin' = [ver |-> mine.prev, whole |-> backups[mine.prev] = "whole"]
    /\ pc' = "closeWindow"
    /\ UNCHANGED <<backups, file, mine, new, marker, cancelled, ends, bounds, saved>>

\* bug: the window stays open and the counter keeps its value
LeftOpen == [file EXCEPT !.graceful = FALSE]

Closed == [file EXCEPT !.recent = FALSE, !.count = 0, !.graceful = FALSE]

\* LastUpdate is zeroed, then os.Exit(updateExitCode)
RollbackExits ==
    /\ pc = "closeWindow"
    /\ Save(Closed)
    /\ pc' = "down"
    /\ ended' = "rollback"
    /\ crashes' = 0
    /\ UNCHANGED <<bin, backups, mine, new, marker, cancelled, replaced, bounds>>

-----------------------------------------------------------------------------
(* check *)

\* the server offers v, and the archive passes the checksum, the extraction
\* and --version; one that fails leaves no trace
Check(v) ==
    /\ pc = "idle" /\ ~cancelled /\ installs < MaxInstalls
    /\ v # bin.ver
    /\ Downgrades \/ v > bin.ver
    /\ new' = v
    /\ backups' = [backups EXCEPT ![bin.ver] = "torn"]
    /\ pc' = "backup"
    /\ UNCHANGED <<bin, file, mine, marker, cancelled, ends, bounds, saved>>

\* the copy of the running binary is complete; trimBackups
Backup ==
    /\ pc = "backup"
    /\ backups' = TrimBackups([backups EXCEPT ![bin.ver] = "whole"])
    /\ pc' = "saveNew"
    /\ UNCHANGED <<bin, file, mine, new, marker, cancelled, ends, bounds, saved>>

\* bug: the error of the copy is not looked at
GoOn == "saveNew"

GiveUp == "idle"

\* the disk is full: the part that was copied stays
BackupFails ==
    /\ pc = "backup" /\ "backup" \in Faults
    /\ pc' = GiveUp
    /\ UNCHANGED <<disk, mine, new, marker, cancelled, ends, bounds, saved>>

\* bug: the running version is not known when the state is written
PreviousUnset == 0

\* bug: the version recorded by an earlier install is kept
PreviousKept == IF file.prev = 0 THEN bin.ver ELSE file.prev

Previous == bin.ver

SaveNew ==
    /\ pc = "saveNew"
    /\ Save([recent |-> TRUE, prev |-> Previous, count |-> 0, graceful |-> FALSE])
    /\ pc' = "replace"
    /\ replaced' = bin.ver
    /\ installs' = installs + 1
    /\ UNCHANGED <<bin, backups, mine, new, marker, cancelled, ended, crashes,
                   terms>>

\* the rename, then os.Exit(updateExitCode)
Replace ==
    /\ pc = "replace"
    /\ bin' = [ver |-> new, whole |-> TRUE]
    /\ pc' = "down"
    /\ ended' = "update"
    /\ crashes' = 0
    /\ UNCHANGED <<backups, file, mine, new, marker, cancelled, replaced, bounds,
                   saved>>

\* the process goes on, under the state saved for the version not installed
ReplaceFails ==
    /\ pc = "replace" /\ "replace" \in Faults
    /\ pc' = "idle"
    /\ UNCHANGED <<disk, mine, new, marker, cancelled, ends, bounds, saved>>

-----------------------------------------------------------------------------
(* markStableAfter, a goroutine of its own *)

\* another goroutine's write has the file empty for a moment
BeingWritten == pc \in {"saveNew", "saveMark"}

\* checkRollback has returned
Started == pc \in {"idle", "backup", "saveNew", "replace", "saveMark", "returned"}

\* updateStableThreshold has passed
Survived == stable = "waiting" /\ ~cancelled /\ Started /\ bin.ver \notin Bad

Zeroed == [file EXCEPT !.count = 0]

StableLoad ==
    /\ Survived /\ Interleaved
    /\ Readable /\ file.count # 0
    /\ zeroed' = Zeroed
    /\ stable' = "loaded"
    /\ UNCHANGED <<disk, run, cancelled, ends, bounds, saved>>

\* os.WriteFile empties the file before it writes
StableOpen ==
    /\ stable = "loaded" /\ Started
    /\ \/ file' = Unreadable /\ stable' = "writing" /\ UNCHANGED saved
       \/ "state" \in Faults /\ stable' = "done"
          /\ saved' = FALSE /\ UNCHANGED file
    /\ UNCHANGED <<bin, backups, run, zeroed, cancelled, ends, bounds>>

StableSave ==
    /\ stable = "writing" /\ Started
    /\ Save(zeroed)
    /\ stable' = "done"
    /\ UNCHANGED <<bin, backups, run, zeroed, cancelled, ends, bounds>>

\* the load and the save with no step of Run between them
StableAtOnce ==
    /\ Survived /\ ~Interleaved
    /\ Readable /\ file.count # 0
    /\ Save(Zeroed)
    /\ stable' = "done"
    /\ UNCHANGED <<bin, backups, run, zeroed, cancelled, ends, bounds>>

\* nothing to reset, or nothing to read at this moment
StableNothing ==
    /\ Survived
    /\ ~Readable \/ file.count = 0 \/ BeingWritten
    /\ stable' = "done"
    /\ UNCHANGED <<disk, run, zeroed, cancelled, ends, bounds, saved>>

-----------------------------------------------------------------------------
(* Shutdown: markGracefulIfCancelled *)

Terminate ==
    /\ pc # "down" /\ ~cancelled /\ terms < MaxTerms
    /\ cancelled' = TRUE
    /\ terms' = terms + 1
    /\ UNCHANGED <<disk, run, marker, ends, installs, saved>>

\* Run returns; markGraceful loads the state
MarkLoad ==
    /\ pc = "idle" /\ cancelled
    /\ \/ /\ Readable /\ ~file.graceful
          /\ mine' = [file EXCEPT !.graceful = TRUE]
          /\ pc' = "saveMark"
       \/ /\ ~Readable \/ file.graceful
          /\ pc' = "returned"
          /\ UNCHANGED mine
    /\ UNCHANGED <<disk, new, marker, cancelled, ends, bounds, saved>>

MarkSave ==
    /\ pc = "saveMark"
    /\ Save(mine)
    /\ pc' = "returned"
    /\ UNCHANGED <<bin, backups, mine, new, marker, cancelled, ends, bounds>>

-----------------------------------------------------------------------------
(* Ends and starts of the process *)

Point == CASE pc \in {"boot", "load"} -> "boot"
           [] pc \in {"idle", "returned"} -> "run"
           [] pc = "replace" -> "replace"
           [] OTHER -> "write"

\* a write of the state file may be cut short by the end of the process
CutShort ==
    \/ UNCHANGED file
    \/ /\ pc \in {"tidy", "saveCount", "saveNew", "saveMark", "closeWindow"}
       /\ file' = Unreadable

\* the end that Shutdown waits for
CleanEnd ==
    /\ pc = "returned"
    /\ pc' = "down"
    /\ ended' = "clean"
    /\ UNCHANGED <<disk, mine, new, marker, cancelled, crashes, replaced, bounds, saved>>

\* a panic, an exit with an error, SIGKILL, or Shutdown out of time
Crash ==
    /\ pc # "down" /\ Point \in CrashPoints
    /\ bin.ver \in Bad \/ crashes < MaxCrashes
    /\ pc' = "down"
    /\ ended' = "crash"
    /\ crashes' = Capped(crashes + 1)
    /\ CutShort
    /\ UNCHANGED <<bin, backups, mine, new, marker, cancelled, replaced, bounds, saved>>

\* systemd starts the binary, if it can be executed
Start ==
    /\ pc = "down" /\ bin.whole
    /\ pc' = "boot"
    /\ mine' = Unreadable /\ new' = bin.ver
    /\ stable' = "waiting" /\ zeroed' = Unreadable
    /\ cancelled' = FALSE
    /\ UNCHANGED <<disk, ends, bounds, saved>>

Outside(s) == [s EXCEPT !.recent = FALSE]

\* updateCrashWindow passes, for every copy of LastUpdate
WindowCloses ==
    /\ file.recent
    /\ file' = Outside(file)
    /\ mine' = Outside(mine)
    /\ zeroed' = Outside(zeroed)
    /\ UNCHANGED <<bin, backups, pc, new, stable, cancelled, ends, bounds, saved>>

-----------------------------------------------------------------------------
Init ==
    /\ bin = [ver |-> 1, whole |-> TRUE]
    /\ backups = [v \in Versions |-> "none"]
    /\ file = Unreadable
    /\ pc = "boot" /\ mine = Unreadable /\ new = 1
    /\ stable = "waiting" /\ zeroed = Unreadable
    /\ cancelled = FALSE
    /\ ended = "clean" /\ crashes = 0 /\ replaced = 1
    /\ terms = 0 /\ installs = 0 /\ saved = TRUE

Updating == Backup \/ BackupFails \/ SaveNew \/ Replace \/ ReplaceFails
Rollback == RollbackFails \/ RollbackReplaces \/ RollbackExits
Marking  == MarkLoad \/ MarkSave

\* a step of the goroutine of Run that no timer or signal decides
Continue == \/ Boot \/ CheckRollback \/ Tidy \/ SaveCount
            \/ Rollback \/ Updating \/ Marking

Next ==
    \/ Continue \/ \E v \in Versions : Check(v)
    \/ StableLoad \/ StableOpen \/ StableSave \/ StableAtOnce \/ StableNothing
    \/ Terminate \/ CleanEnd \/ Crash \/ Start \/ WindowCloses

Spec == Init /\ [][Next]_vars

\* The goroutine runs, systemd restarts, a bad version crashes, and a rollback
\* that is tried again and again finds a disk it can write to.
FairSpec ==
    /\ Spec
    /\ WF_vars(Continue) /\ WF_vars(Start) /\ WF_vars(CleanEnd)
    /\ WF_vars(bin.ver \in Bad /\ Crash) /\ SF_vars(RollbackReplaces)

-----------------------------------------------------------------------------
(* Properties *)

\* Types, and a state that may lead to a rollback names a version.
TypeOK ==
    /\ bin \in [ver : Versions, whole : BOOLEAN]
    /\ backups \in [Versions -> Copies]
    /\ file \in State /\ mine \in State /\ zeroed \in State
    /\ \A s \in {file, mine, zeroed} : s.recent => s.prev \in Versions
    /\ pc \in {"down", "boot", "load", "tidy", "saveCount", "rollback",
               "closeWindow", "idle", "backup", "saveNew", "replace",
               "saveMark", "returned"}
    /\ new \in Versions
    /\ stable \in {"waiting", "loaded", "writing", "done"}
    /\ cancelled \in BOOLEAN
    /\ ended \in {"update", "rollback", "clean", "crash"}
    /\ crashes \in 0..MaxCrashes /\ replaced \in Versions
    /\ terms \in 0..MaxTerms /\ installs \in 0..MaxInstalls /\ saved \in BOOLEAN

RollsBack == pc = "rollback" /\ pc' = "closeWindow"

\* As long as a crash may lead to a rollback, the binary to go back to has a
\* whole copy in the backup directory, however many updates, failed updates
\* and rollbacks came before; "the current binary is always staged for
\* crash-loop rollback".  Between the copy and saveState it may be missing.
BackupStaged ==
    file.recent /\ pc \notin {"backup", "saveNew"} => backups[file.prev] = "whole"

\* A rollback leaves systemd a whole binary to start, whatever failed, crashed
\* or was interleaved before: backup rewrites the copy of the running version
\* only, and an install begins by completing that copy.  The exception is a
\* state that names the running version itself (the downgrade or the install
\* after it never took effect): a torn copy of it may then replace it.
RollbackIsWhole ==
    [][RollsBack => bin'.whole \/ bin'.ver = bin.ver]_vars

\* Supervised restarts and updates alone never lead to a rollback, whatever
\* Run and markStableAfter make of the state file, as long as it is written: it
\* takes crashes of the version installed last, unless a state of an earlier
\* install was left in the file.  It takes one crash less than the code says:
\* updateMaxRestarts is documented as "the crash count that triggers a rollback",
\* but the restart that the install itself causes is counted too, so that
\* crashes >= updateMaxRestarts does not hold: two crashes suffice, not three.
RollbackNeedsCrashes ==
    [][RollsBack /\ saved => crashes + 1 >= updateMaxRestarts]_vars

\* A rollback restores the version that the last install replaced, or was to
\* replace when it failed or the process ended before the rename, if the state
\* was saved each time.  This holds only while Run takes no step within
\* markStableAfter: otherwise a stale state can be written over that of an
\* install, and a rollback goes one version too far.
RollsBackToReplaced == [][RollsBack /\ saved => bin'.ver = replaced]_vars

\* attemptRollback: "the supervisor's restart after our os.Exit cannot trip
\* checkRollback into another rollback of the same binary"; that is so if the
\* state could be saved, since attemptRollback ignores it when it could not.
RollsBackOnce == [][RollsBack /\ saved => ended # "rollback"]_vars

\* checkRollback "rolls back to PreviousVersion on a crash-loop": a version
\* that keeps crashing is replaced, unless its crashes are so slow that the
\* window closes between them.
CrashLoopEnds == bin.ver \in Bad ~> bin.ver \notin Bad \/ ~file.recent

=============================================================================
