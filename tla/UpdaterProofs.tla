---------------------------- MODULE UpdaterProofs ----------------------------
(***************************************************************************)
(* Safety of the self-update for every number of versions, kept backups,   *)
(* restarts allowed and bounds.  Whatever fails, crashes or is offered, a  *)
(* rollback takes crashes, happens once and installs a whole binary; while *)
(* the two goroutines do not overlap it restores what the last install     *)
(* replaced; and its copy is ready under the conditions of Undisturbed.    *)
(***************************************************************************)
EXTENDS Updater, FiniteSetTheorems, TLAPS

\* What it takes for the copy to be ready at every moment: newer versions only
\* are offered, the state file is not written by two goroutines at once, no write
\* of it fails, and no copy of a binary fails or is cut short.  The code ensures
\* none of the four, and each is needed.  trimBackups keeps the newest copies, not
\* the one a downgrade just made; a state that is not saved, or with one kept copy
\* one that is overwritten by a stale one, leaves a version whose copy is trimmed;
\* and a copy cut short while the state names the running version is a torn one.
Undisturbed ==
    /\ ~Downgrades /\ ~Interleaved
    /\ Faults \subseteq {"replace"}
    /\ "write" \notin CrashPoints

\* The version a state names has a whole copy, and none newer has any.
Staged(s) ==
    /\ s.prev \in Versions
    /\ backups[s.prev] = "whole"
    /\ \A v \in Versions : v > s.prev => backups[v] = "none"

\* TypeOK is not inductive alone: a state that leads to a rollback names a
\* version even when the window closes before the rollback, and a check begins
\* below the bound of installs.
TypeInv ==
    /\ TypeOK
    /\ pc \in {"saveCount", "rollback"} => mine.prev \in Versions
    /\ pc \in {"backup", "saveNew"} => installs < MaxInstalls

\* While an install or a rollback may follow, the states in file and in hand
\* are staged; outside of them no version newer than the binary has a copy.
StagedInv ==
    /\ bin.whole
    /\ stable \in {"waiting", "done"}
    /\ \A v \in Versions : v > bin.ver => backups[v] = "none"
    /\ file.recent /\ pc \notin {"backup", "saveNew"} => Staged(file)
    /\ pc \in {"tidy", "saveMark"} /\ mine.recent => Staged(mine)
    /\ pc \in {"saveCount", "rollback"} => Staged(mine)
    /\ pc \in {"backup", "saveNew", "replace"} => new > bin.ver
    /\ pc = "saveNew" => backups[bin.ver] = "whole"

\* The state names the version the last install replaced, if each was saved.
ReplacedInv ==
    saved =>
        /\ stable \in {"waiting", "done"}
        /\ file.recent => file.prev = replaced
        /\ pc \in {"tidy", "saveMark"} /\ mine.recent => mine.prev = replaced
        /\ pc \in {"saveCount", "rollback"} => mine.prev = replaced

\* The process after a rollback starts outside of the window, if it was closed.
OnceInv ==
    saved /\ ended = "rollback" =>
        /\ pc \in {"down", "boot", "load"} => ~file.recent
        /\ pc \notin {"saveCount", "rollback"}

SafeInv == TypeInv /\ StagedInv

-----------------------------------------------------------------------------
(* Types *)

\* States that name a version whenever they may lead to a rollback.
Sound(s) == s \in State /\ (s.recent => s.prev \in Versions)

\* The updates of a state keep it sound.
LEMMA SoundStates ==
    /\ Sound(Unreadable)
    /\ \A s : Sound(s) => /\ Sound(Counted(s)) /\ Sound(ClearMark(s))
                          /\ Sound(Outside(s)) /\ s.prev \in Nat
                          /\ Sound([s EXCEPT !.count = 0, !.graceful = FALSE])
                          /\ Sound([s EXCEPT !.recent = FALSE, !.count = 0,
                                             !.graceful = FALSE])
                          /\ Sound([s EXCEPT !.count = 0])
                          /\ Sound([s EXCEPT !.graceful = TRUE])
    /\ \A v \in Versions :
          Sound([recent |-> TRUE, prev |-> v, count |-> 0, graceful |-> FALSE])
<1>1. Versions \subseteq Nat
  BY UpdaterAssumption DEF Versions
<1>2. Sound(Unreadable)
  BY DEF Sound, Unreadable, State
<1>3. ASSUME NEW s, Sound(s) PROVE Sound(Counted(s))
  <2>1. s.count + 1 \in Nat
    BY <1>3 DEF Sound, State
  <2> QED BY <1>3, <2>1 DEF Sound, State, Counted
<1>4. ASSUME NEW s, Sound(s)
      PROVE  /\ Sound(ClearMark(s)) /\ Sound(Outside(s)) /\ s.prev \in Nat
             /\ Sound([s EXCEPT !.count = 0, !.graceful = FALSE])
             /\ Sound([s EXCEPT !.recent = FALSE, !.count = 0, !.graceful = FALSE])
             /\ Sound([s EXCEPT !.count = 0])
             /\ Sound([s EXCEPT !.graceful = TRUE])
  BY <1>4 DEF Sound, State, ClearMark, Outside
<1>5. \A v \in Versions :
         Sound([recent |-> TRUE, prev |-> v, count |-> 0, graceful |-> FALSE])
  BY <1>1 DEF Sound, State
<1> QED BY <1>2, <1>3, <1>4, <1>5

\* A save leaves the state it was given, or a fault leaves the old file or an
\* empty one.
LEMMA SaveTyped ==
    ASSUME Sound(file), saved \in BOOLEAN, NEW s, Sound(s), Save(s)
    PROVE  Sound(file') /\ saved' \in BOOLEAN
  BY SoundStates DEF Save

\* A fresh install is typed.
LEMMA TypeInit == Init => TypeInv
<1> SUFFICES ASSUME Init PROVE TypeInv
  OBVIOUS
<1>1. 1 \in Versions /\ MaxCrashes \in Nat /\ MaxTerms \in Nat /\ MaxInstalls \in Nat
  BY UpdaterAssumption DEF Versions
<1>2. Sound(Unreadable)
  BY SoundStates
<1>3. /\ bin \in [ver : Versions, whole : BOOLEAN]
      /\ backups \in [Versions -> Copies]
  BY <1>1 DEF Init, Copies
<1>4. crashes \in 0..MaxCrashes /\ terms \in 0..MaxTerms /\ installs \in 0..MaxInstalls
  BY <1>1 DEF Init
<1>5. Sound(file) /\ Sound(mine) /\ Sound(zeroed)
  BY <1>2 DEF Init
<1> QED BY <1>1, <1>3, <1>4, <1>5 DEF Init, TypeInv, TypeOK, Sound

\* Every step keeps the types.
LEMMA TypeStep == TypeInv /\ [Next]_vars => TypeInv'
<1> SUFFICES ASSUME TypeInv, [Next]_vars PROVE TypeInv'
  OBVIOUS
<1>a. /\ Sound(file) /\ Sound(mine) /\ Sound(zeroed) /\ saved \in BOOLEAN
      /\ file \in State /\ mine \in State /\ bin.ver \in Versions
  BY DEF TypeInv, TypeOK, Sound
<1>b. SUFFICES /\ Sound(file') /\ Sound(mine') /\ Sound(zeroed')
               /\ bin' \in [ver : Versions, whole : BOOLEAN]
               /\ backups' \in [Versions -> Copies]
               /\ pc' \in {"down", "boot", "load", "tidy", "saveCount", "rollback",
                           "closeWindow", "idle", "backup", "saveNew", "replace",
                           "saveMark", "returned"}
               /\ new' \in Versions
               /\ stable' \in {"waiting", "loaded", "writing", "done"}
               /\ cancelled' \in BOOLEAN
               /\ ended' \in {"update", "rollback", "clean", "crash"}
               /\ crashes' \in 0..MaxCrashes /\ replaced' \in Versions
               /\ terms' \in 0..MaxTerms /\ installs' \in 0..MaxInstalls
               /\ saved' \in BOOLEAN
               /\ pc' \in {"saveCount", "rollback"} => mine'.prev \in Versions
               /\ pc' \in {"backup", "saveNew"} => installs' < MaxInstalls
  BY DEF TypeInv, TypeOK, Sound
<1> USE <1>a DEF TypeInv, TypeOK
<1>1. CASE Boot \/ RollbackFails \/ BackupFails
  BY <1>1 DEF Boot, RollbackFails, BackupFails, GiveUp, disk, marker, ends, bounds
<1>2. CASE CheckRollback
  <2>1. Sound(mine') /\ (pc' = "saveCount" => mine'.prev \in Versions)
    <3>1. CASE file.recent /\ ~file.graceful
      <4>1. mine' = Counted(file) /\ file.prev \in Versions
        BY <1>2, <3>1 DEF CheckRollback
      <4>2. mine'.prev = file.prev
        BY <4>1 DEF Counted, State
      <4> QED BY <4>1, <4>2, SoundStates
    <3>2. CASE ~(file.recent /\ ~file.graceful)
      <4>1. /\ pc' # "saveCount"
            /\ mine' \in {mine, ClearMark(file),
                          [file EXCEPT !.count = 0, !.graceful = FALSE]}
        BY <1>2, <3>2 DEF CheckRollback
      <4>2. /\ Sound(ClearMark(file))
            /\ Sound([file EXCEPT !.count = 0, !.graceful = FALSE])
        BY SoundStates
      <4> QED BY <4>1, <4>2
    <3> QED BY <3>1, <3>2
  <2> QED BY <1>2, <2>1 DEF CheckRollback, disk, marker, ends, bounds
<1>3. CASE Tidy \/ SaveCount \/ MarkSave
  <2>1. Sound(file') /\ saved' \in BOOLEAN
    BY <1>3, SaveTyped DEF Tidy, SaveCount, MarkSave
  <2> QED BY <1>3, <2>1 DEF Tidy, SaveCount, MarkSave, marker, ends, bounds
<1>4. CASE RollbackReplaces
  BY <1>4 DEF RollbackReplaces, marker, ends, bounds
<1>5. CASE RollbackExits
  <2>1. Sound(file') /\ saved' \in BOOLEAN
    BY <1>5, SaveTyped, SoundStates DEF RollbackExits, Closed
  <2> QED BY <1>5, <2>1, UpdaterAssumption DEF RollbackExits, marker, bounds
<1>6. CASE \E v \in Versions : Check(v)
  BY <1>6 DEF Check, Copies, marker, ends, bounds
<1>7. CASE Backup
  BY <1>7 DEF Backup, TrimBackups, Copies, marker, ends, bounds
<1>8. CASE SaveNew
  <2>1. Sound(file') /\ saved' \in BOOLEAN
    BY <1>8, SaveTyped, SoundStates DEF SaveNew, Previous
  <2>2. installs' \in 0..MaxInstalls
    BY <1>8, UpdaterAssumption DEF SaveNew
  <2> QED BY <1>8, <2>1, <2>2 DEF SaveNew, marker
<1>9. CASE Replace \/ ReplaceFails
  <2>1. CASE Replace
    BY <2>1, UpdaterAssumption DEF Replace, marker, bounds
  <2>2. CASE ReplaceFails
    BY <2>2 DEF ReplaceFails, disk, marker, ends, bounds
  <2> QED BY <1>9, <2>1, <2>2
<1>10. CASE StableLoad
  BY <1>10, SoundStates DEF StableLoad, Zeroed, disk, run, ends, bounds
<1>11. CASE StableOpen \/ StableSave \/ StableAtOnce
  <2>1. Sound(file') /\ saved' \in BOOLEAN
    BY <1>11, SaveTyped, SoundStates DEF StableOpen, StableSave, StableAtOnce, Zeroed
  <2> QED BY <1>11, <2>1 DEF StableOpen, StableSave, StableAtOnce, run, ends, bounds
<1>12. CASE StableNothing
  BY <1>12 DEF StableNothing, disk, run, ends, bounds
<1>13. CASE Terminate
  <2>1. terms' \in 0..MaxTerms
    BY <1>13, UpdaterAssumption DEF Terminate
  <2> QED BY <1>13, <2>1 DEF Terminate, disk, run, marker, ends
<1>14. CASE MarkLoad
  <2>1. Sound(mine')
    BY <1>14, SoundStates DEF MarkLoad
  <2> QED BY <1>14, <2>1 DEF MarkLoad, disk, marker, ends, bounds
<1>15. CASE CleanEnd
  BY <1>15 DEF CleanEnd, disk, marker, bounds
<1>16. CASE Crash
  <2>1. Sound(file')
    BY <1>16, SoundStates DEF Crash, CutShort
  <2>2. crashes' \in 0..MaxCrashes
    BY <1>16, UpdaterAssumption DEF Crash, Capped
  <2> QED BY <1>16, <2>1, <2>2 DEF Crash, marker, bounds
<1>17. CASE Start
  BY <1>17, SoundStates DEF Start, disk, ends, bounds
<1>18. CASE WindowCloses
  <2>1. Sound(file') /\ Sound(mine') /\ Sound(zeroed') /\ mine'.prev = mine.prev
    BY <1>18, SoundStates DEF WindowCloses, Outside, State
  <2> QED BY <1>18, <2>1 DEF WindowCloses, ends, bounds
<1>19. CASE UNCHANGED vars
  BY <1>19 DEF vars, disk, run, marker, ends, bounds
<1> QED
  BY <1>1, <1>2, <1>3, <1>4, <1>5, <1>6, <1>7, <1>8, <1>9, <1>10, <1>11, <1>12,
     <1>13, <1>14, <1>15, <1>16, <1>17, <1>18, <1>19
     DEF Next, Continue, Rollback, Updating, Marking

\* Every variable of the updater keeps its type, whatever is offered, fails or
\* crashes.
THEOREM UpdaterTypeCorrect == Spec => []TypeOK
<1>1. TypeInv => TypeOK
  BY DEF TypeInv
<1> QED BY <1>1, TypeInit, TypeStep, PTL DEF Spec

-----------------------------------------------------------------------------
(* What a rollback finds *)

\* A write of the state file that did not fail.
LEMMA SaveWorks ==
    ASSUME NEW s, Save(s), saved' \/ Undisturbed
    PROVE  file' = s
  BY DEF Undisturbed, Save

\* The updates of a state that do not touch what it may lead to.
LEMMA SameStaging ==
    ASSUME NEW s, s \in State, s.prev \in Nat
    PROVE  /\ Counted(s).prev = s.prev
           /\ ClearMark(s).prev = s.prev /\ ClearMark(s).recent = s.recent
           /\ Outside(s).prev = s.prev /\ ~Outside(s).recent
           /\ [s EXCEPT !.count = 0].prev = s.prev
           /\ [s EXCEPT !.count = 0].recent = s.recent
           /\ [s EXCEPT !.graceful = TRUE].prev = s.prev
           /\ [s EXCEPT !.graceful = TRUE].recent = s.recent
           /\ [s EXCEPT !.count = 0, !.graceful = FALSE].recent = s.recent
           /\ ~[s EXCEPT !.recent = FALSE, !.count = 0, !.graceful = FALSE].recent
  BY DEF State, Counted, ClearMark, Outside

\* The copy of the running binary, the newest there is, survives the trim.
LEMMA BackupSurvives ==
    ASSUME TypeOK, Backup, \A v \in Versions : v > bin.ver => backups[v] = "none"
    PROVE  /\ backups'[bin.ver] = "whole"
           /\ \A v \in Versions : v > bin.ver => backups'[v] = "none"
<1> DEFINE kept == [backups EXCEPT ![bin.ver] = "whole"]
<1>1. bin.ver \in Versions /\ Versions \subseteq Nat /\ updateMaxBackups \in Nat \ {0}
  BY UpdaterAssumption DEF TypeOK, Versions
<1>2. kept[bin.ver] = "whole" /\ \A v \in Versions : v # bin.ver => kept[v] = backups[v]
  BY <1>1 DEF TypeOK
<1>i. \A v \in Versions : v > bin.ver => v # bin.ver
  BY <1>1
<1>3. {w \in Versions : w > bin.ver /\ kept[w] # "none"} = {}
  <2> HIDE DEF kept
  <2> QED BY <1>2, <1>i
<1>4. Cardinality({}) = 0
  BY FS_EmptySet
<1>5. KeepNewest(bin.ver, kept)
  BY <1>1, <1>3, <1>4 DEF KeepNewest
<1> HIDE DEF kept
<1>6. \A v \in Versions : backups'[v] = IF KeepNewest(v, kept) THEN kept[v] ELSE "none"
  BY DEF Backup, TrimBackups, kept
<1> QED BY <1>1, <1>i, <1>2, <1>5, <1>6

\* A fresh install has nothing to go back to.
LEMMA RollbackInit == Init => StagedInv /\ ReplacedInv /\ OnceInv
  BY DEF Init, StagedInv, ReplacedInv, OnceInv, Unreadable

\* Every step keeps the copy of a rollback ready.
LEMMA StagedStep ==
    ASSUME Undisturbed
    PROVE  SafeInv /\ [Next]_vars => StagedInv'
<1> SUFFICES ASSUME SafeInv, [Next]_vars
             PROVE  StagedInv'
  OBVIOUS
<1>a. /\ TypeOK /\ StagedInv /\ SafeInv
      /\ file \in State /\ mine \in State /\ bin.ver \in Versions
      /\ file.prev \in Nat /\ mine.prev \in Nat
  BY DEF SafeInv, TypeInv, TypeOK, State
<1>b. ~Downgrades /\ ~Interleaved /\ "write" \notin CrashPoints
      /\ "backup" \notin Faults
  BY DEF Undisturbed
<1>s. /\ Counted(file).prev = file.prev
      /\ ClearMark(file).prev = file.prev
      /\ ClearMark(file).recent = file.recent
      /\ Outside(file).prev = file.prev /\ ~Outside(file).recent
      /\ Outside(mine).prev = mine.prev /\ ~Outside(mine).recent
  BY <1>a, SameStaging
<1>e. /\ [file EXCEPT !.count = 0].prev = file.prev
      /\ [file EXCEPT !.count = 0].recent = file.recent
      /\ [file EXCEPT !.graceful = TRUE].prev = file.prev
      /\ [file EXCEPT !.graceful = TRUE].recent = file.recent
      /\ [file EXCEPT !.count = 0, !.graceful = FALSE].recent = file.recent
      /\ ~[file EXCEPT !.recent = FALSE, !.count = 0, !.graceful = FALSE].recent
  BY <1>a, SameStaging
<1> USE <1>a DEF StagedInv, Staged
<1>1. CASE Boot \/ RollbackFails \/ Terminate
  BY <1>1 DEF Boot, RollbackFails, Terminate, disk, run, marker, ends, bounds
<1>2. CASE CheckRollback
  <2>1. /\ UNCHANGED <<bin, backups, file, new, stable, ended, replaced>>
        /\ pc = "load"
    BY <1>2 DEF CheckRollback, disk, marker, ends
  <2>2. CASE file.recent /\ ~file.graceful
    <3>1. mine'.prev = file.prev /\ pc' = "saveCount"
      BY <1>2, <2>2, <1>s DEF CheckRollback
    <3> QED BY <2>1, <2>2, <3>1
  <2>3. CASE file.recent /\ file.graceful
    <3>1. mine'.prev = file.prev /\ mine'.recent = file.recent /\ pc' = "tidy"
      BY <1>2, <2>3, <1>s DEF CheckRollback
    <3> QED BY <2>1, <2>3, <3>1
  <2>4. CASE ~file.recent
    <3>1. pc' = "idle" \/ (pc' = "tidy" /\ ~mine'.recent)
      BY <1>2, <2>4, <1>e DEF CheckRollback
    <3> QED BY <2>1, <2>4, <3>1
  <2> QED BY <2>2, <2>3, <2>4 DEF TypeOK, State
<1>3. CASE Tidy \/ SaveCount \/ MarkSave
  <2>1. file' = mine
    BY <1>3, SaveWorks DEF Tidy, SaveCount, MarkSave
  <2> QED BY <1>3, <2>1 DEF Tidy, SaveCount, MarkSave, marker, ends, bounds
<1>4. CASE RollbackReplaces
  <2>1. bin'.ver = mine.prev /\ bin'.whole
    BY <1>4 DEF RollbackReplaces
  <2> QED BY <1>4, <2>1 DEF RollbackReplaces, marker, ends, bounds
<1>5. CASE RollbackExits
  <2>1. ~file'.recent
    BY <1>5, <1>e, SaveWorks DEF RollbackExits, Closed
  <2> QED BY <1>5, <2>1 DEF RollbackExits, marker, bounds
<1>6. CASE \E v \in Versions : Check(v)
  <2>1. PICK v \in Versions : Check(v)
    BY <1>6
  <2>2. new' > bin.ver /\ \A w \in Versions : w > bin.ver => backups'[w] = "none"
    <3>1. \A w \in Versions : w > bin.ver => w # bin.ver
      BY UpdaterAssumption DEF Versions
    <3> QED BY <1>b, <2>1, <3>1 DEF Check, TypeOK
  <2> QED BY <2>1, <2>2 DEF Check, marker, ends, bounds
<1>7. CASE Backup
  BY <1>7, BackupSurvives DEF Backup, marker, ends, bounds
<1>8. CASE SaveNew
  <2>1. file'.prev = bin.ver /\ file'.recent /\ replaced' = bin.ver
    BY <1>8, SaveWorks DEF SaveNew, Previous
  <2> QED BY <1>8, <2>1 DEF SaveNew, marker
<1>9. CASE Replace
  <2>1. bin'.ver = new /\ bin'.whole
    BY <1>9 DEF Replace
  <2>2. \A v \in Versions : v > new => v > bin.ver
    BY <1>9, UpdaterAssumption DEF Versions, Replace, TypeOK
  <2> QED BY <1>9, <2>1, <2>2 DEF Replace, marker, bounds
<1>10. CASE ReplaceFails
  BY <1>10 DEF ReplaceFails, disk, marker, ends, bounds
<1>11. CASE StableAtOnce
  <2>1. file'.prev = file.prev /\ file'.recent = file.recent
    BY <1>11, <1>e, SaveWorks DEF StableAtOnce, Zeroed
  <2> QED BY <1>11, <2>1 DEF StableAtOnce, Survived, Started, run, ends, bounds
<1>12. CASE StableNothing
  BY <1>12 DEF StableNothing, disk, run, ends, bounds
<1>13. CASE MarkLoad
  <2>1. pc' = "saveMark" => mine'.prev = file.prev /\ mine'.recent = file.recent
    BY <1>13, <1>e DEF MarkLoad
  <2> QED BY <1>13, <2>1 DEF MarkLoad, disk, marker, ends, bounds
<1>14. CASE CleanEnd
  BY <1>14 DEF CleanEnd, disk, marker, bounds
<1>15. CASE Crash
  <2>1. pc \in {"boot", "load", "idle", "returned", "replace"} /\ file' = file
    BY <1>b, <1>15 DEF Crash, Point, CutShort
  <2> QED BY <1>15, <2>1 DEF Crash, marker, bounds
<1>16. CASE Start
  BY <1>16 DEF Start, disk, ends, bounds
<1>17. CASE WindowCloses
  <2>1. ~file'.recent /\ file'.prev = file.prev /\ ~mine'.recent /\ mine'.prev = mine.prev
    BY <1>17, <1>s DEF WindowCloses
  <2> QED BY <1>17, <2>1 DEF WindowCloses, ends, bounds
<1>18. CASE UNCHANGED vars
  BY <1>18 DEF vars, disk, run, marker, ends, bounds
<1>19. ~BackupFails /\ ~StableLoad /\ ~StableOpen /\ ~StableSave
  BY <1>b DEF BackupFails, StableLoad, StableOpen, StableSave
<1> QED
  BY <1>1, <1>2, <1>3, <1>4, <1>5, <1>6, <1>7, <1>8, <1>9, <1>10, <1>11, <1>12,
     <1>13, <1>14, <1>15, <1>16, <1>17, <1>18, <1>19
     DEF Next, Continue, Rollback, Updating, Marking

\* Under Undisturbed every step keeps the types and the staged copies.
THEOREM UpdaterSafety ==
    ASSUME Undisturbed
    PROVE  Spec => []SafeInv
<1>1. Init => SafeInv
  BY TypeInit, RollbackInit DEF SafeInv
<1>2. SafeInv /\ [Next]_vars => SafeInv'
  BY TypeStep, StagedStep DEF SafeInv
<1> QED BY <1>1, <1>2, PTL DEF Spec

\* backup and trimBackups keep a whole copy of the version to go back to, and
\* the binary systemd starts is whole, as long as nothing disturbs them: newer
\* versions only, no overlap of the goroutines, no failed or torn write.
THEOREM RollbackIsReady ==
    ASSUME Undisturbed
    PROVE  Spec => [](BackupStaged /\ bin.whole)
<1>1. SafeInv => BackupStaged /\ bin.whole
  BY DEF SafeInv, StagedInv, Staged, BackupStaged
<1> QED BY <1>1, UpdaterSafety, PTL

-----------------------------------------------------------------------------
(* Where a rollback leads *)

\* Every step keeps the version to go back to, if Run and markStableAfter do not
\* overlap.
LEMMA ReplacedStep ==
    ASSUME ~Interleaved
    PROVE  TypeInv /\ ReplacedInv /\ [Next]_vars => ReplacedInv'
<1> SUFFICES ASSUME TypeInv, ReplacedInv, [Next]_vars, saved'
             PROVE  ReplacedInv'
  BY DEF ReplacedInv
<1>a. /\ TypeOK /\ file \in State /\ mine \in State
      /\ file.prev \in Nat /\ mine.prev \in Nat
  BY DEF TypeInv, TypeOK, State
<1>b. saved
  BY DEF Next, Continue, Rollback, Updating, Marking, Boot, CheckRollback, Tidy,
         SaveCount, RollbackFails, RollbackReplaces, RollbackExits, Backup,
         BackupFails, SaveNew, Replace, ReplaceFails, MarkLoad, MarkSave, Check,
         StableLoad, StableOpen, StableSave, StableAtOnce, StableNothing,
         Terminate, CleanEnd, Crash, Start, WindowCloses, Save, vars
<1>s. /\ Counted(file).prev = file.prev
      /\ ClearMark(file).prev = file.prev
      /\ ClearMark(file).recent = file.recent
      /\ ~Outside(file).recent /\ ~Outside(mine).recent
      /\ Outside(mine).prev = mine.prev
  BY <1>a, SameStaging
<1>e. /\ [file EXCEPT !.count = 0].prev = file.prev
      /\ [file EXCEPT !.count = 0].recent = file.recent
      /\ [file EXCEPT !.graceful = TRUE].prev = file.prev
      /\ [file EXCEPT !.graceful = TRUE].recent = file.recent
      /\ [file EXCEPT !.count = 0, !.graceful = FALSE].recent = file.recent
      /\ ~[file EXCEPT !.recent = FALSE, !.count = 0, !.graceful = FALSE].recent
  BY <1>a, SameStaging
<1> USE <1>a, <1>b DEF ReplacedInv
<1>1. CASE Boot \/ RollbackFails \/ RollbackReplaces \/ Terminate
  BY <1>1 DEF Boot, RollbackFails, RollbackReplaces, Terminate, disk, run, marker, ends
<1>2. CASE CheckRollback
  <2>1. /\ UNCHANGED <<file, stable, replaced>> /\ pc = "load"
    BY <1>2 DEF CheckRollback, disk, marker, ends
  <2>2. CASE file.recent /\ ~file.graceful
    <3>1. mine'.prev = file.prev /\ pc' = "saveCount"
      BY <1>2, <2>2, <1>s DEF CheckRollback
    <3> QED BY <2>1, <2>2, <3>1
  <2>3. CASE file.recent /\ file.graceful
    <3>1. mine'.prev = file.prev /\ mine'.recent = file.recent /\ pc' = "tidy"
      BY <1>2, <2>3, <1>s DEF CheckRollback
    <3> QED BY <2>1, <2>3, <3>1
  <2>4. CASE ~file.recent
    <3>1. pc' = "idle" \/ (pc' = "tidy" /\ ~mine'.recent)
      BY <1>2, <2>4, <1>e DEF CheckRollback
    <3> QED BY <2>1, <2>4, <3>1
  <2> QED BY <2>2, <2>3, <2>4 DEF State
<1>3. CASE Tidy \/ SaveCount \/ MarkSave
  <2>1. file' = mine
    BY <1>3, SaveWorks DEF Tidy, SaveCount, MarkSave
  <2> QED BY <1>3, <2>1 DEF Tidy, SaveCount, MarkSave, marker, ends
<1>4. CASE RollbackExits
  <2>1. ~file'.recent
    BY <1>4, <1>e, SaveWorks DEF RollbackExits, Closed
  <2> QED BY <1>4, <2>1 DEF RollbackExits, marker
<1>5. CASE \E v \in Versions : Check(v)
  BY <1>5 DEF Check, marker, ends
<1>6. CASE Backup \/ BackupFails
  BY <1>6 DEF Backup, BackupFails, GiveUp, disk, marker, ends
<1>7. CASE SaveNew
  <2>1. file'.prev = bin.ver /\ file'.recent /\ replaced' = bin.ver
    BY <1>7, SaveWorks DEF SaveNew, Previous
  <2> QED BY <1>7, <2>1 DEF SaveNew, marker
<1>8. CASE Replace \/ ReplaceFails
  BY <1>8 DEF Replace, ReplaceFails, disk, marker, ends
<1>9. CASE StableAtOnce
  <2>1. file'.prev = file.prev /\ file'.recent = file.recent
    BY <1>9, <1>e, SaveWorks DEF StableAtOnce, Zeroed
  <2> QED BY <1>9, <2>1 DEF StableAtOnce, run, ends
<1>10. CASE StableNothing
  BY <1>10 DEF StableNothing, disk, run, ends
<1>11. CASE MarkLoad
  <2>1. pc' = "saveMark" => mine'.prev = file.prev /\ mine'.recent = file.recent
    BY <1>11, <1>e DEF MarkLoad
  <2> QED BY <1>11, <2>1 DEF MarkLoad, disk, marker, ends
<1>12. CASE CleanEnd
  BY <1>12 DEF CleanEnd, disk, marker
<1>13. CASE Crash
  <2>1. file' = file \/ ~file'.recent
    BY <1>13 DEF Crash, CutShort, Unreadable
  <2> QED BY <1>13, <2>1 DEF Crash, marker
<1>14. CASE Start
  BY <1>14 DEF Start, disk, ends
<1>15. CASE WindowCloses
  <2>1. ~file'.recent /\ ~mine'.recent /\ mine'.prev = mine.prev
    BY <1>15, <1>s DEF WindowCloses
  <2> QED BY <1>15, <2>1 DEF WindowCloses, ends
<1>16. CASE UNCHANGED vars
  BY <1>16 DEF vars, disk, run, marker, ends
<1>17. ~StableLoad /\ ~StableOpen /\ ~StableSave
  BY DEF StableLoad, StableOpen, StableSave
<1> QED
  BY <1>1, <1>2, <1>3, <1>4, <1>5, <1>6, <1>7, <1>8, <1>9, <1>10, <1>11, <1>12,
     <1>13, <1>14, <1>15, <1>16, <1>17
     DEF Next, Continue, Rollback, Updating, Marking

\* Every step keeps the window closed over the restart after a rollback.
LEMMA OnceStep == TypeInv /\ OnceInv /\ [Next]_vars => OnceInv'
<1> SUFFICES ASSUME TypeInv, OnceInv, [Next]_vars, saved', ended' = "rollback"
             PROVE  OnceInv'
  BY DEF OnceInv
<1>a. TypeOK /\ file \in State /\ mine \in State
  BY DEF TypeInv, TypeOK
<1> USE <1>a DEF OnceInv
<1>1. CASE Boot \/ RollbackFails \/ RollbackReplaces \/ Terminate
  BY <1>1 DEF Boot, RollbackFails, RollbackReplaces, Terminate, disk, run, ends
<1>2. CASE CheckRollback
  BY <1>2 DEF CheckRollback, disk, ends
<1>3. CASE Tidy \/ SaveCount \/ MarkSave \/ SaveNew
  BY <1>3 DEF Tidy, SaveCount, MarkSave, SaveNew, Save, ends
<1>4. CASE RollbackExits
  <2>1. file' = Closed
    BY <1>4, SaveWorks DEF RollbackExits
  <2>2. ~Closed.recent
    BY DEF Closed, State
  <2> QED BY <1>4, <2>1, <2>2 DEF RollbackExits
<1>5. CASE (\E v \in Versions : Check(v)) \/ Backup \/ BackupFails \/ MarkLoad
  BY <1>5 DEF Check, Backup, BackupFails, GiveUp, MarkLoad, ends
<1>6. CASE Replace \/ CleanEnd \/ Crash
  BY <1>6 DEF Replace, CleanEnd, Crash
<1>7. CASE ReplaceFails
  BY <1>7 DEF ReplaceFails, ends
<1>8. CASE StableLoad \/ StableNothing
  BY <1>8 DEF StableLoad, StableNothing, disk, run, ends
<1>9. CASE StableOpen \/ StableSave \/ StableAtOnce
  BY <1>9 DEF StableOpen, StableSave, StableAtOnce, Survived, Started, Save, run, ends
<1>10. CASE Start
  BY <1>10 DEF Start, disk, ends
<1>11. CASE WindowCloses
  <2>1. ~Outside(file).recent
    BY DEF Outside, State
  <2> QED BY <1>11, <2>1 DEF WindowCloses, ends
<1>12. CASE UNCHANGED vars
  BY <1>12 DEF vars, disk, run, ends
<1> QED
  BY <1>1, <1>2, <1>3, <1>4, <1>5, <1>6, <1>7, <1>8, <1>9, <1>10, <1>11, <1>12
     DEF Next, Continue, Rollback, Updating, Marking

\* Only the rename of attemptRollback rolls back.
LEMMA RollsBackByReplacing ==
    ASSUME Next, RollsBack
    PROVE  RollbackReplaces
  BY DEF RollsBack, Next, Continue, Rollback, Updating, Marking, Boot,
         CheckRollback, Tidy, SaveCount, RollbackFails, RollbackExits, Backup,
         BackupFails, SaveNew, Replace, ReplaceFails, MarkLoad, MarkSave, Check,
         StableLoad, StableOpen, StableSave, StableAtOnce, StableNothing,
         Terminate, CleanEnd, Crash, Start, WindowCloses, run

\* attemptRollback restores what the last install replaced, whatever is offered,
\* crashes or fails, as long as each state could be saved and Run takes no step
\* within markStableAfter.  The code has no lock that ensures the latter, and
\* without it the property fails.
THEOREM RollbackIsRight ==
    ASSUME ~Interleaved
    PROVE  Spec => RollsBackToReplaced
<1>1. Init => TypeInv /\ ReplacedInv
  BY TypeInit, RollbackInit
<1>2. TypeInv /\ ReplacedInv /\ [Next]_vars => (TypeInv /\ ReplacedInv)'
  BY TypeStep, ReplacedStep
<1>3. ReplacedInv /\ [Next]_vars => [RollsBack /\ saved => bin'.ver = replaced]_vars
  <2> SUFFICES ASSUME ReplacedInv, Next, RollsBack, saved
               PROVE  bin'.ver = replaced
    OBVIOUS
  <2>1. mine.prev = replaced
    BY DEF RollsBack, ReplacedInv
  <2>2. RollbackReplaces
    BY RollsBackByReplacing
  <2> QED BY <2>1, <2>2 DEF RollbackReplaces
<1> QED BY <1>1, <1>2, <1>3, PTL DEF Spec, RollsBackToReplaced

\* A rollback is not tried again after the restart that it causes, whatever the
\* goroutines interleave, is offered, crashes or fails, unless a state could not
\* be saved.
THEOREM RollbackHappensOnce == Spec => RollsBackOnce
<1>1. Init => TypeInv /\ OnceInv
  BY TypeInit, RollbackInit
<1>2. TypeInv /\ OnceInv /\ [Next]_vars => (TypeInv /\ OnceInv)'
  BY TypeStep, OnceStep
<1>3. OnceInv /\ [Next]_vars => [RollsBack /\ saved => ended # "rollback"]_vars
  BY DEF RollsBack, OnceInv
<1> QED BY <1>1, <1>2, <1>3, PTL DEF Spec, RollsBackOnce

-----------------------------------------------------------------------------
(* What a rollback takes *)

\* As long as no saveState failed, the counter is at most one ahead of the
\* crashes: the restart that the install itself causes is counted too.
CountInv ==
    saved =>
        /\ file.recent =>
              /\ file.count <= crashes + 1
              /\ pc \in {"down", "boot", "load", "returned"} /\ ~file.graceful
                    => file.count <= crashes
              /\ pc = "replace" => file.count = 0
        /\ pc \in {"tidy", "saveMark"} /\ mine.recent => mine.count <= crashes + 1
        /\ pc \in {"saveCount", "rollback"} => mine.count <= crashes + 1
        /\ pc = "rollback" => mine.count >= updateMaxRestarts
        /\ pc = "saveMark" => mine.graceful
        /\ stable \in {"loaded", "writing"} => zeroed.count = 0
        /\ \A s \in {file, mine} : s.count <= updateMaxRestarts

\* What the updates of a state do to what CountInv reads.
LEMMA CountsOf ==
    ASSUME NEW s, s \in State, s.count <= updateMaxRestarts
    PROVE  /\ Counted(s).count \in Nat /\ Counted(s).count <= updateMaxRestarts
           /\ Counted(s).count <= s.count + 1
           /\ ClearMark(s).count = s.count /\ ClearMark(s).recent = s.recent
           /\ Outside(s).count = s.count /\ ~Outside(s).recent
           /\ Outside(s).graceful = s.graceful
           /\ [s EXCEPT !.count = 0].count = 0
           /\ [s EXCEPT !.graceful = TRUE].count = s.count
           /\ [s EXCEPT !.graceful = TRUE].graceful
           /\ [s EXCEPT !.graceful = TRUE].recent = s.recent
           /\ [s EXCEPT !.count = 0, !.graceful = FALSE].recent = s.recent
           /\ [s EXCEPT !.count = 0, !.graceful = FALSE].count = 0
           /\ ~[s EXCEPT !.recent = FALSE, !.count = 0, !.graceful = FALSE].recent
           /\ [s EXCEPT !.recent = FALSE, !.count = 0, !.graceful = FALSE].count = 0
<1>1. s.count \in Nat /\ updateMaxRestarts \in Nat
  BY UpdaterAssumption DEF State
<1>2. Counted(s).count = IF s.count < updateMaxRestarts THEN s.count + 1 ELSE s.count
  BY DEF State, Counted
<1>3. /\ ClearMark(s).count = s.count /\ ClearMark(s).recent = s.recent
      /\ Outside(s).count = s.count /\ ~Outside(s).recent
      /\ Outside(s).graceful = s.graceful
      /\ [s EXCEPT !.count = 0].count = 0
      /\ [s EXCEPT !.graceful = TRUE].count = s.count
      /\ [s EXCEPT !.graceful = TRUE].graceful
      /\ [s EXCEPT !.graceful = TRUE].recent = s.recent
  BY DEF State, ClearMark, Outside
<1>4. /\ [s EXCEPT !.count = 0, !.graceful = FALSE].recent = s.recent
      /\ [s EXCEPT !.count = 0, !.graceful = FALSE].count = 0
      /\ ~[s EXCEPT !.recent = FALSE, !.count = 0, !.graceful = FALSE].recent
      /\ [s EXCEPT !.recent = FALSE, !.count = 0, !.graceful = FALSE].count = 0
  BY DEF State
<1> QED BY <1>1, <1>2, <1>3, <1>4

\* A fresh install has counted nothing.
LEMMA CountInit == Init => CountInv
  BY UpdaterAssumption DEF Init, CountInv, Unreadable

\* Every step keeps the counter behind the crashes.
LEMMA CountStep ==
    ASSUME MaxCrashes >= updateMaxRestarts
    PROVE  TypeInv /\ CountInv /\ [Next]_vars => CountInv'
<1> SUFFICES ASSUME TypeInv, CountInv, [Next]_vars, saved' PROVE CountInv'
  BY DEF CountInv
<1>a. /\ file \in State /\ mine \in State /\ crashes \in Nat /\ file.count \in Nat
      /\ mine.count \in Nat /\ updateMaxRestarts \in Nat /\ MaxCrashes \in Nat
  BY UpdaterAssumption DEF TypeInv, TypeOK, State
<1>b. ~saved => ~saved'
  BY DEF Next, Continue, Rollback, Updating, Marking, Boot, CheckRollback, Tidy,
         SaveCount, RollbackFails, RollbackReplaces, RollbackExits, Backup,
         BackupFails, SaveNew, Replace, ReplaceFails, MarkLoad, MarkSave, Check,
         StableLoad, StableOpen, StableSave, StableAtOnce, StableNothing,
         Terminate, CleanEnd, Crash, Start, WindowCloses, Save, vars
<1>c. ASSUME NEW s, Save(s) PROVE file' = s
  BY <1>b, <1>c DEF Save
<1>d. saved /\ file.count <= updateMaxRestarts /\ mine.count <= updateMaxRestarts
  BY <1>b DEF CountInv
<1>e. /\ Counted(file).count \in Nat /\ Counted(file).count <= updateMaxRestarts
      /\ Counted(file).count <= file.count + 1
      /\ ClearMark(file).count = file.count /\ ClearMark(file).recent = file.recent
      /\ [file EXCEPT !.count = 0].count = 0
      /\ [file EXCEPT !.graceful = TRUE].count = file.count
      /\ [file EXCEPT !.graceful = TRUE].graceful
      /\ [file EXCEPT !.graceful = TRUE].recent = file.recent
  BY <1>a, <1>d, CountsOf
<1>f. /\ [file EXCEPT !.count = 0, !.graceful = FALSE].recent = file.recent
      /\ [file EXCEPT !.count = 0, !.graceful = FALSE].count = 0
      /\ ~[file EXCEPT !.recent = FALSE, !.count = 0, !.graceful = FALSE].recent
      /\ [file EXCEPT !.recent = FALSE, !.count = 0, !.graceful = FALSE].count = 0
  BY <1>a, <1>d, CountsOf
<1>g. /\ Outside(file).count = file.count /\ ~Outside(file).recent
      /\ Outside(mine).count = mine.count /\ ~Outside(mine).recent
      /\ Outside(mine).graceful = mine.graceful
  BY <1>a, <1>d, CountsOf
<1>h. ~Unreadable.recent /\ Unreadable.count = 0
  BY DEF Unreadable
<1> USE <1>a, <1>d, <1>h DEF CountInv
<1>1. CASE Boot \/ RollbackFails \/ RollbackReplaces \/ Terminate
  BY <1>1 DEF Boot, RollbackFails, RollbackReplaces, Terminate, disk, run, marker,
              ends, bounds
<1>2. CASE CheckRollback
  <2>1. /\ UNCHANGED <<file, stable, zeroed, crashes, saved>> /\ pc = "load"
    BY <1>2 DEF CheckRollback, disk, marker, ends
  <2>2. CASE file.recent /\ ~file.graceful
    <3>1. mine' = Counted(file) /\ pc' = "saveCount"
      BY <1>2, <2>2 DEF CheckRollback
    <3>2. mine'.count <= crashes + 1 /\ mine'.count <= updateMaxRestarts
      BY <2>1, <2>2, <3>1, <1>e
    <3> QED BY <2>1, <2>2, <3>1, <3>2
  <2>3. CASE file.recent /\ file.graceful
    <3>1. mine' = ClearMark(file) /\ pc' = "tidy"
      BY <1>2, <2>3 DEF CheckRollback
    <3> QED BY <2>1, <2>3, <3>1, <1>e
  <2>4. CASE ~file.recent
    <3>1. \/ pc' = "idle" /\ mine' = mine
          \/ pc' = "tidy" /\ ~mine'.recent /\ mine'.count = 0
      BY <1>2, <2>4, <1>f DEF CheckRollback
    <3> QED BY <2>1, <2>4, <3>1, UpdaterAssumption
  <2> QED BY <2>2, <2>3, <2>4 DEF State
<1>3. CASE Tidy \/ SaveCount \/ MarkSave
  <2>1. file' = mine
    BY <1>3, <1>c DEF Tidy, SaveCount, MarkSave
  <2> QED BY <1>3, <2>1 DEF Tidy, SaveCount, MarkSave, TooMany, marker, ends, bounds
<1>4. CASE RollbackExits
  <2>1. ~file'.recent /\ file'.count = 0
    BY <1>4, <1>c, <1>f DEF RollbackExits, Closed
  <2> QED BY <1>4, <2>1 DEF RollbackExits, marker, bounds
<1>5. CASE \E v \in Versions : Check(v)
  BY <1>5 DEF Check, marker, ends, bounds
<1>6. CASE Backup \/ BackupFails
  BY <1>6 DEF Backup, BackupFails, GiveUp, disk, marker, ends, bounds
<1>7. CASE SaveNew
  <2>1. file'.count = 0
    BY <1>7, <1>c DEF SaveNew
  <2> QED BY <1>7, <2>1 DEF SaveNew, marker
<1>8. CASE Replace \/ ReplaceFails
  BY <1>8 DEF Replace, ReplaceFails, disk, marker, ends, bounds
<1>9. CASE StableLoad
  BY <1>9, <1>e DEF StableLoad, Zeroed, disk, run, ends, bounds
<1>10. CASE StableOpen
  <2>1. file' = Unreadable \/ (file' = file /\ stable' = "done")
    BY <1>10 DEF StableOpen
  <2> QED BY <1>10, <2>1 DEF StableOpen, run, ends, bounds
<1>11. CASE StableSave \/ StableAtOnce
  <2>1. file'.count = 0
    BY <1>11, <1>c, <1>e DEF StableSave, StableAtOnce, Zeroed
  <2> QED BY <1>11, <2>1 DEF StableSave, StableAtOnce, run, ends, bounds
<1>12. CASE StableNothing
  BY <1>12 DEF StableNothing, disk, run, ends, bounds
<1>13. CASE MarkLoad
  <2>1. \/ pc' = "saveMark" /\ mine' = [file EXCEPT !.graceful = TRUE]
        \/ pc' = "returned" /\ mine' = mine /\ (~file.recent \/ file.graceful)
    BY <1>13 DEF MarkLoad, Readable
  <2> QED BY <1>13, <2>1, <1>e DEF MarkLoad, disk, marker, ends, bounds
<1>14. CASE CleanEnd
  BY <1>14 DEF CleanEnd, disk, marker, bounds
<1>15. CASE Crash
  <2>1. file' = file \/ file' = Unreadable
    BY <1>15 DEF Crash, CutShort
  <2>2. file.recent => file.count <= crashes'
    BY <1>15 DEF Crash, Capped
  <2>3. crashes' \in Nat
    BY <1>15 DEF Crash, Capped
  <2> QED BY <1>15, <2>1, <2>2, <2>3 DEF Crash, marker, bounds
<1>16. CASE Start
  BY <1>16 DEF Start, disk, ends, bounds
<1>17. CASE WindowCloses
  <2>1. zeroed'.count = zeroed.count
    BY <1>17 DEF WindowCloses, Outside, TypeInv, TypeOK, State
  <2> QED BY <1>17, <1>g, <2>1 DEF WindowCloses, ends, bounds
<1>18. CASE UNCHANGED vars
  BY <1>18 DEF vars, disk, run, marker, ends, bounds
<1> QED
  BY <1>1, <1>2, <1>3, <1>4, <1>5, <1>6, <1>7, <1>8, <1>9, <1>10, <1>11, <1>12,
     <1>13, <1>14, <1>15, <1>16, <1>17, <1>18
     DEF Next, Continue, Rollback, Updating, Marking

\* Whatever Run and markStableAfter make of the state file, a rollback takes
\* crashes of the version installed last: the restarts of updates and of
\* SIGTERMs never add up to one.  It takes updateMaxRestarts - 1 of them; that it
\* took updateMaxRestarts, as the constant is documented, does not hold.
THEOREM RollbackTakesCrashes ==
    ASSUME MaxCrashes >= updateMaxRestarts
    PROVE  Spec => RollbackNeedsCrashes
<1>1. Init => TypeInv /\ CountInv
  BY TypeInit, CountInit
<1>2. TypeInv /\ CountInv /\ [Next]_vars => TypeInv' /\ CountInv'
  BY TypeStep, CountStep
<1>3. TypeInv /\ CountInv /\ [Next]_vars
        => [RollsBack /\ saved => crashes + 1 >= updateMaxRestarts]_vars
  <2> SUFFICES ASSUME TypeInv, CountInv, RollsBack, saved
               PROVE  crashes + 1 >= updateMaxRestarts
    OBVIOUS
  <2>1. /\ crashes \in Nat /\ mine.count \in Nat /\ updateMaxRestarts \in Nat
    BY UpdaterAssumption DEF TypeInv, TypeOK, State
  <2> QED BY <2>1 DEF CountInv, RollsBack
<1> QED BY <1>1, <1>2, <1>3, PTL DEF Spec, RollbackNeedsCrashes

-----------------------------------------------------------------------------
(* What a rollback installs *)

\* A state that may lead to a rollback names no torn copy, but for that of the
\* running version.
Names(s) == s.recent => backups[s.prev] # "torn" \/ s.prev = bin.ver

\* The states in the file and in hand name no torn copy of another version.
\* An install has completed the copy of the version it replaces, and what is
\* left in the file after a rollback names the version now installed:
\* markStableAfter, which could write an older state back, waits for the end
\* of checkRollback.
WholeInv ==
    /\ Names(file)
    /\ pc \in {"tidy", "saveMark"} => Names(mine)
    /\ stable \in {"loaded", "writing"} => Names(zeroed)
    /\ pc \in {"saveCount", "rollback"} =>
          /\ backups[mine.prev] # "torn" \/ mine.prev = bin.ver
          /\ file.recent => file.prev = mine.prev
    /\ pc = "closeWindow" /\ file.recent => file.prev = bin.ver
    /\ pc \in {"boot", "load", "tidy", "saveCount", "rollback", "closeWindow"}
          => stable = "waiting"
    /\ pc \in {"saveNew", "replace"} => backups[bin.ver] # "torn"

\* A fresh install has no state and no copies.
LEMMA WholeInit == Init => WholeInv
  BY DEF Init, WholeInv, Names, Unreadable

\* Every step keeps what a rollback would install whole, or already installed.
LEMMA WholeStep == TypeInv /\ WholeInv /\ [Next]_vars => WholeInv'
<1> SUFFICES ASSUME TypeInv, WholeInv, [Next]_vars PROVE WholeInv'
  OBVIOUS
<1>a. /\ file \in State /\ mine \in State /\ zeroed \in State /\ bin.ver \in Versions
      /\ file.prev \in Nat /\ mine.prev \in Nat /\ zeroed.prev \in Nat
      /\ backups \in [Versions -> Copies]
  BY DEF TypeInv, TypeOK, State
<1>b. /\ file.recent => file.prev \in Versions
      /\ mine.recent => mine.prev \in Versions
      /\ zeroed.recent => zeroed.prev \in Versions
      /\ pc \in {"saveCount", "rollback"} => mine.prev \in Versions
  BY DEF TypeInv, TypeOK
<1>s. /\ Counted(file).prev = file.prev
      /\ ClearMark(file).prev = file.prev
      /\ ClearMark(file).recent = file.recent
      /\ Outside(file).prev = file.prev /\ ~Outside(file).recent
      /\ Outside(mine).prev = mine.prev /\ ~Outside(mine).recent
      /\ ~Outside(zeroed).recent
  BY <1>a, SameStaging
<1>e. /\ [file EXCEPT !.count = 0].prev = file.prev
      /\ [file EXCEPT !.count = 0].recent = file.recent
      /\ [file EXCEPT !.graceful = TRUE].prev = file.prev
      /\ [file EXCEPT !.graceful = TRUE].recent = file.recent
      /\ [file EXCEPT !.count = 0, !.graceful = FALSE].recent = file.recent
      /\ ~[file EXCEPT !.recent = FALSE, !.count = 0, !.graceful = FALSE].recent
  BY <1>a, SameStaging
<1>h. ~Unreadable.recent
  BY DEF Unreadable
<1>k. ASSUME NEW s, Save(s) PROVE file' \in {s, file, Unreadable}
  BY <1>k DEF Save
<1> USE <1>a, <1>b, <1>h DEF WholeInv, Names
<1>1. CASE Boot \/ RollbackFails \/ Terminate \/ BackupFails \/ ReplaceFails
  BY <1>1 DEF Boot, RollbackFails, Terminate, BackupFails, GiveUp, ReplaceFails,
              disk, run, marker, ends, bounds
<1>2. CASE CheckRollback
  <2>1. UNCHANGED <<bin, backups, file, stable, zeroed>> /\ pc = "load"
    BY <1>2 DEF CheckRollback, disk, marker
  <2>2. CASE file.recent /\ ~file.graceful
    <3>1. mine'.prev = file.prev /\ pc' = "saveCount"
      BY <1>2, <2>2, <1>s DEF CheckRollback
    <3> QED BY <2>1, <2>2, <3>1
  <2>3. CASE file.recent /\ file.graceful
    <3>1. mine'.prev = file.prev /\ mine'.recent = file.recent /\ pc' = "tidy"
      BY <1>2, <2>3, <1>s DEF CheckRollback
    <3> QED BY <2>1, <2>3, <3>1
  <2>4. CASE ~file.recent
    <3>1. pc' = "idle" \/ (pc' = "tidy" /\ ~mine'.recent)
      BY <1>2, <2>4, <1>e DEF CheckRollback
    <3> QED BY <2>1, <2>4, <3>1
  <2> QED BY <2>2, <2>3, <2>4 DEF State
<1>3. CASE Tidy \/ MarkSave
  <2>1. file' \in {mine, file, Unreadable}
    BY <1>3, <1>k DEF Tidy, MarkSave
  <2> QED BY <1>3, <2>1 DEF Tidy, MarkSave, marker
<1>4. CASE SaveCount
  <2>1. file' \in {mine, file, Unreadable}
    BY <1>4, <1>k DEF SaveCount
  <2> QED BY <1>4, <2>1 DEF SaveCount, marker
<1>5. CASE RollbackReplaces
  <2>1. bin'.ver = mine.prev
    BY <1>5 DEF RollbackReplaces
  <2> QED BY <1>5, <2>1 DEF RollbackReplaces, marker
<1>6. CASE RollbackExits
  <2>1. file' \in {Closed, file, Unreadable} /\ ~Closed.recent
    BY <1>6, <1>k, <1>e DEF RollbackExits, Closed
  <2> QED BY <1>6, <2>1 DEF RollbackExits, marker
<1>7. CASE \E v \in Versions : Check(v)
  <2>1. /\ UNCHANGED <<bin, file, mine, stable, zeroed>> /\ pc' = "backup"
        /\ backups' = [backups EXCEPT ![bin.ver] = "torn"]
    BY <1>7 DEF Check, marker
  <2>2. \A v \in Versions : v # bin.ver => backups'[v] = backups[v]
    BY <2>1
  <2> QED BY <2>1, <2>2
<1>8. CASE Backup
  <2>1. UNCHANGED <<bin, file, mine, stable, zeroed>> /\ pc' = "saveNew"
    BY <1>8 DEF Backup, marker
  <2>2. \A v \in Versions : backups'[v] = "torn" => backups[v] = "torn" /\ v # bin.ver
    BY <1>8 DEF Backup, TrimBackups
  <2> QED BY <2>1, <2>2
<1>9. CASE SaveNew
  <2>1. file' = file \/ ~file'.recent \/ file'.prev = bin.ver
    BY <1>9, <1>k DEF SaveNew, Previous
  <2> QED BY <1>9, <2>1 DEF SaveNew, marker
<1>10. CASE Replace
  <2>1. UNCHANGED <<backups, file, mine, stable, zeroed>> /\ pc = "replace" /\ pc' = "down"
    BY <1>10 DEF Replace, marker
  <2> QED BY <2>1
<1>11. CASE StableLoad
  <2>1. zeroed'.prev = file.prev /\ zeroed'.recent = file.recent
    BY <1>11, <1>e DEF StableLoad, Zeroed
  <2> QED BY <1>11, <2>1 DEF StableLoad, Survived, Started, disk, run
<1>12. CASE StableOpen
  <2>1. file' \in {file, Unreadable}
    BY <1>12 DEF StableOpen
  <2> QED BY <1>12, <2>1 DEF StableOpen, Started, run
<1>13. CASE StableSave
  <2>1. file' \in {zeroed, file, Unreadable}
    BY <1>13, <1>k DEF StableSave
  <2> QED BY <1>13, <2>1 DEF StableSave, Started, run
<1>14. CASE StableAtOnce
  <2>1. file' = file \/ ~file'.recent
           \/ (file'.prev = file.prev /\ file'.recent = file.recent)
    BY <1>14, <1>k, <1>e DEF StableAtOnce, Zeroed
  <2> QED BY <1>14, <2>1 DEF StableAtOnce, Survived, Started, run
<1>15. CASE StableNothing
  BY <1>15 DEF StableNothing, Survived, Started, disk, run
<1>16. CASE MarkLoad
  <2>1. pc' = "saveMark" => mine'.prev = file.prev /\ mine'.recent = file.recent
    BY <1>16, <1>e DEF MarkLoad
  <2> QED BY <1>16, <2>1 DEF MarkLoad, disk, marker
<1>17. CASE CleanEnd
  BY <1>17 DEF CleanEnd, disk, marker
<1>18. CASE Crash
  <2>1. file' \in {file, Unreadable}
    BY <1>18 DEF Crash, CutShort
  <2> QED BY <1>18, <2>1 DEF Crash, marker
<1>19. CASE Start
  BY <1>19 DEF Start, disk
<1>20. CASE WindowCloses
  <2>1. ~file'.recent /\ ~mine'.recent /\ ~zeroed'.recent /\ mine'.prev = mine.prev
    BY <1>20, <1>s DEF WindowCloses
  <2> QED BY <1>20, <2>1 DEF WindowCloses
<1>21. CASE UNCHANGED vars
  BY <1>21 DEF vars, disk, run, marker
<1> QED
  BY <1>1, <1>2, <1>3, <1>4, <1>5, <1>6, <1>7, <1>8, <1>9, <1>10, <1>11, <1>12,
     <1>13, <1>14, <1>15, <1>16, <1>17, <1>18, <1>19, <1>20, <1>21
     DEF Next, Continue, Rollback, Updating, Marking

\* Whatever fails, crashes in the middle of a write or runs between two steps,
\* attemptRollback installs a whole binary, unless the state names the version
\* that is running already.
THEOREM RollbackInstallsWhole == Spec => RollbackIsWhole
<1>1. Init => TypeInv /\ WholeInv
  BY TypeInit, WholeInit
<1>2. TypeInv /\ WholeInv /\ [Next]_vars => TypeInv' /\ WholeInv'
  BY TypeStep, WholeStep
<1>3. TypeInv /\ WholeInv /\ [Next]_vars
        => [RollsBack => bin'.whole \/ bin'.ver = bin.ver]_vars
  <2> SUFFICES ASSUME TypeInv, WholeInv, Next, RollsBack
               PROVE  bin'.whole \/ bin'.ver = bin.ver
    OBVIOUS
  <2>1. mine.prev \in Versions /\ (backups[mine.prev] # "torn" \/ mine.prev = bin.ver)
    BY DEF RollsBack, TypeInv, WholeInv
  <2>2. RollbackReplaces
    BY RollsBackByReplacing
  <2> QED BY <2>1, <2>2 DEF RollbackReplaces, TypeInv, TypeOK, Copies
<1> QED BY <1>1, <1>2, <1>3, PTL DEF Spec, RollbackIsWhole
=============================================================================
