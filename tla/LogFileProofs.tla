---------------------------- MODULE LogFileProofs ----------------------------
(***************************************************************************)
(* Proofs about LogFile: for any number of changes, faults, interrupts and *)
(* crashes, what was reported written stays on the disk and the main file  *)
(* is whole.                                                               *)
(***************************************************************************)
EXTENDS LogFile, TLAPS

(* The main file is as new as the last reported write; when it is missing, *)
(* because a write stopped between its two renames, the backup is.  A      *)
(* running program has the newest version in memory, and the temporary     *)
(* file has it from its closing to its renaming.                           *)
MainCurrent ==
  /\ files.main # Torn /\ files.bak # Torn
  /\ files.main # Missing => files.bak <= files.main /\ saved <= files.main
  /\ files.main = Missing => saved <= files.bak
MemoryNewest ==
  pc \notin Ended => files.main <= mem /\ files.bak <= mem
TmpCurrent ==
  /\ pc \in {"backup", "rename"} => files.tmp = mem
  /\ pc = "export" => files.main = mem
Callers ==
  /\ pc \in {"cloning", "changing"} => then = "cloning"
  /\ pc = "changed" => then \in {"idle", "cloning"}
Versions == mem <= made /\ files.main <= made

IInv == TypeOK /\ MainCurrent /\ MemoryNewest /\ TmpCurrent /\ Callers /\ Versions

USE DEF Missing, Torn

LEMMA InitIInv == Init => IInv
<1> SUFFICES ASSUME Init PROVE IInv
  OBVIOUS
<1>1. PICK main \in {Missing, 0} :
        /\ files = [main |-> main, bak |-> Missing, tmp |-> Missing]
        /\ saved = main
  BY DEF Init
<1>2. /\ files \in [{"main", "bak", "tmp"} -> Missing .. MaxChanges]
      /\ files.main = main /\ files.bak = Missing
  BY <1>1, LogFileAssumption
<1>3. TypeOK
  <2>1. mem = 0 /\ before = 0 /\ made = 0 /\ 0 \in 0 .. MaxChanges
    BY LogFileAssumption DEF Init
  <2>2. saved \in {Missing} \cup 0 .. MaxChanges
    BY <1>1, <2>1
  <2> QED
    BY <1>2, <2>1, <2>2 DEF Init, TypeOK
<1> QED
  BY <1>1, <1>2, <1>3
     DEF Init, IInv, MainCurrent, MemoryNewest, TmpCurrent, Callers, Versions, Ended

(* A step that leaves memory and disk alone.                               *)
LEMMA CallerIInv ==
  ASSUME IInv, UNCHANGED <<log, disk>>,
         {changed', copied', pending'} \subseteq BOOLEAN,
         pc' \in {"idle", "cloning", "changing", "changed", "open", "exited", "killed"},
         then' \in {"idle", "cloning", "end", "close", "signal"},
         pc' \notin Ended => pc \notin Ended,
         Callers'
  PROVE  IInv'
<1>1. UNCHANGED <<mem, before, made, files, saved, failed>>
  BY DEF log, disk
<1>2. TypeOK'
  BY <1>1 DEF IInv, TypeOK, Writing, Ended
<1>3. MainCurrent' /\ MemoryNewest'
  BY <1>1 DEF IInv, MainCurrent, MemoryNewest
<1> QED
  BY <1>1, <1>2, <1>3 DEF IInv, TmpCurrent, Versions

(* A change makes a version newer than all files.                          *)
LEMMA VersionIInv ==
  ASSUME IInv, Version, UNCHANGED <<disk, flag, pending>>,
         pc \notin Ended, pc' = "changed", then' \in {"idle", "cloning"}
  PROVE  IInv'
<1>1. UNCHANGED <<files, saved, failed, changed, copied, pending>>
  BY DEF disk, flag
<1>2. /\ made' \in 0 .. MaxChanges /\ mem' = made' /\ before' \in 0 .. MaxChanges
      /\ mem <= mem' /\ mem \in Int /\ mem' \in Int
  BY LogFileAssumption DEF Version, IInv, TypeOK, Versions
<1>3. TypeOK'
  BY <1>1, <1>2 DEF IInv, TypeOK
<1>4. files.main \in Int /\ files.bak \in Int /\ files.main <= mem /\ files.bak <= mem
  BY DEF IInv, TypeOK, MemoryNewest
<1>5. MemoryNewest'
  BY <1>1, <1>2, <1>4 DEF MemoryNewest
<1>6. Versions'
  BY <1>1, <1>2, <1>4 DEF Versions
<1> QED
  BY <1>1, <1>3, <1>5, <1>6 DEF IInv, MainCurrent, TmpCurrent, Callers

LEMMA ReturnIInv ==
  ASSUME IInv, pc \in Writing, NEW ok \in BOOLEAN, Return(ok),
         UNCHANGED files, {changed', copied'} \subseteq BOOLEAN,
         saved' = saved \/ (pc = "export" /\ saved' = mem)
  PROVE  IInv'
<1>1. /\ pc' \in {"idle", "cloning", "open", "exited"}
      /\ then' \in {"idle", "cloning", "end", "close", "signal"}
      /\ failed' \in BOOLEAN /\ Callers'
  BY DEF Return, IInv, TypeOK, Callers
<1>2. UNCHANGED <<mem, before, made, pending>>
  BY DEF Return, log
<1>3. saved' \in {Missing} \cup 0 .. MaxChanges
  BY DEF IInv, TypeOK
<1>4. MainCurrent'
  <2>1. CASE saved' = saved
    BY <2>1 DEF IInv, MainCurrent
  <2>2. CASE pc = "export" /\ saved' = mem
    BY <2>2, LogFileAssumption DEF IInv, TypeOK, MainCurrent, TmpCurrent
  <2> QED
    BY <2>1, <2>2
<1>5. MemoryNewest'
  BY <1>2 DEF IInv, MemoryNewest, Writing, Ended
<1>6. TypeOK'
  BY <1>1, <1>2, <1>3 DEF IInv, TypeOK, Writing, Ended
<1> QED
  BY <1>1, <1>2, <1>4, <1>5, <1>6 DEF IInv, TmpCurrent, Versions

(* A step of a write that moves files and nothing else.                    *)
Moves(from, to, m, k, t) ==
  /\ from \in Writing /\ to \in Writing /\ Step(from, to)
  /\ {m, k, t} \subseteq Missing .. MaxChanges
  /\ files' = [main |-> m, bak |-> k, tmp |-> t]
  /\ m # Torn /\ k # Torn /\ m <= mem /\ k <= mem
  /\ m # Missing => k <= m /\ saved <= m
  /\ m = Missing => saved <= k
  /\ to \in {"backup", "rename"} => t = mem
  /\ to = "export" => m = mem

LEMMA FilesIInv ==
  ASSUME IInv, NEW from, NEW to, NEW m, NEW k, NEW t, Moves(from, to, m, k, t)
  PROVE  IInv'
<1> USE DEF Moves
<1>1. /\ files' \in [{"main", "bak", "tmp"} -> Missing .. MaxChanges]
      /\ files'.main = m /\ files'.bak = k /\ files'.tmp = t
  OBVIOUS
<1>2. /\ UNCHANGED <<mem, before, made, changed, copied, pending, saved, failed, then>>
      /\ pc' = to
  BY DEF Step, log, flag
<1>3. TypeOK'
  BY <1>1, <1>2 DEF IInv, TypeOK
<1>4. MainCurrent' /\ MemoryNewest'
  BY <1>1, <1>2 DEF MainCurrent, MemoryNewest
<1>5. Versions'
  BY <1>1, <1>2, LogFileAssumption DEF IInv, TypeOK, Versions
<1> QED
  BY <1>1, <1>2, <1>3, <1>4, <1>5 DEF IInv, TmpCurrent, Callers, Writing

LEMMA WriteStepIInv == ASSUME IInv, WriteStep PROVE IInv'
<1> USE LogFileAssumption
<1>0. /\ files.main \in Missing .. MaxChanges /\ files.bak \in Missing .. MaxChanges
      /\ files.tmp \in Missing .. MaxChanges /\ mem \in 0 .. MaxChanges
      /\ saved \in Missing .. MaxChanges
      /\ files = [main |-> files.main, bak |-> files.bak, tmp |-> files.tmp]
  BY DEF IInv, TypeOK
<1>1. ASSUME pc \in Writing
      PROVE  files.main <= mem /\ files.bak <= mem
  BY <1>1 DEF IInv, MemoryNewest, Writing, Ended
<1>2. MainCurrent /\ TmpCurrent
  BY DEF IInv
<1>3. CASE OpenTmp
  <2>1. files' = [main |-> files.main, bak |-> files.bak, tmp |-> Torn]
    BY <1>0, <1>3 DEF OpenTmp
  <2>2. Step("open", "sync") /\ pc \in Writing
    BY <1>3 DEF OpenTmp, Step, Writing
  <2>4. Moves("open", "sync", files.main, files.bak, Torn)
    BY <1>0, <1>1, <1>2, <2>1, <2>2 DEF MainCurrent, Moves, Writing
  <2> QED
    BY <2>4, FilesIInv
<1>4. CASE SyncTmp
  <2>1. files' = [main |-> files.main, bak |-> files.bak, tmp |-> mem]
    BY <1>0, <1>4 DEF SyncTmp
  <2>2. Step("sync", "backup") /\ pc \in Writing
    BY <1>4 DEF SyncTmp, Step, Writing
  <2>4. Moves("sync", "backup", files.main, files.bak, mem)
    BY <1>0, <1>1, <1>2, <2>1, <2>2 DEF MainCurrent, Moves, Writing
  <2> QED
    BY <2>4, FilesIInv
<1>5. CASE BackupOld
  <2>1. Step("backup", "rename") /\ pc \in Writing /\ files.tmp = mem
    BY <1>2, <1>5 DEF BackupOld, Step, Writing, TmpCurrent
  <2>2. CASE UNCHANGED files
    <3>1. files' = [main |-> files.main, bak |-> files.bak, tmp |-> files.tmp]
      BY <1>0, <2>2
    <3>2. Moves("backup", "rename", files.main, files.bak, files.tmp)
      BY <1>0, <1>1, <1>2, <2>1, <3>1 DEF MainCurrent, Moves, Writing
    <3> QED
      BY <3>2, FilesIInv
  <2>3. CASE /\ files.main # Missing
             /\ files' = [files EXCEPT !.bak = files.main, !.main = Missing]
    <3>1. files' = [main |-> Missing, bak |-> files.main, tmp |-> files.tmp]
      BY <1>0, <2>3
    <3>0. /\ files.main # Torn /\ saved <= files.main
          /\ files.main <= mem /\ Missing <= mem
      BY <1>0, <1>1, <1>2, <2>1, <2>3 DEF MainCurrent
    <3>2. Moves("backup", "rename", Missing, files.main, files.tmp)
      BY ONLY <1>0, <2>1, <3>0, <3>1, Missing \in Missing .. MaxChanges
         DEF Moves, Writing
    <3> QED
      BY <3>2, FilesIInv
  <2> QED
    BY <1>5, <2>2, <2>3 DEF BackupOld
<1>6. CASE RenameTmp
  <2>1. Step("rename", "export") /\ pc \in Writing /\ files.tmp = mem
    BY <1>2, <1>6 DEF RenameTmp, Step, Writing, TmpCurrent
  <2>2. files' = [main |-> mem, bak |-> files.bak, tmp |-> Missing]
    BY <1>0, <1>6, <2>1 DEF RenameTmp
  <2>3. saved <= mem
    BY <1>0, <1>1, <1>2, <2>1 DEF MainCurrent
  <2>4. Moves("rename", "export", mem, files.bak, Missing)
    BY <1>0, <1>1, <1>2, <2>1, <2>2, <2>3 DEF MainCurrent, Moves, Writing
  <2> QED
    BY <2>4, FilesIInv
<1>7. CASE Export
  BY <1>7, ReturnIInv DEF Export, Writing
<1>8. ASSUME NEW step \in Writing, Fail(step)
      PROVE  IInv'
  BY <1>8, ReturnIInv DEF Fail, flag, IInv, TypeOK
<1> QED
  BY <1>3, <1>4, <1>5, <1>6, <1>7, <1>8 DEF WriteStep

LEMMA NextIInv == ASSUME IInv, [Next]_vars PROVE IInv'
<1> USE LogFileAssumption
<1>0. /\ {changed, copied, pending} \subseteq BOOLEAN
      /\ pc \in {"idle", "cloning", "changing", "changed"} \cup Writing \cup Ended
      /\ then \in {"idle", "cloning", "end", "close", "signal"}
      /\ Callers
  BY DEF IInv, TypeOK
<1>1. CASE ChangeChunk
  BY <1>0, <1>1, CallerIInv DEF Callers, ChangeChunk, flag, Ended
<1>2. CASE ChangeDone
  BY <1>0, <1>2, VersionIInv DEF ChangeDone, Callers, Ended
<1>3. CASE UserChange
  BY <1>0, <1>3, VersionIInv DEF UserChange, Ended
<1>4. CASE FlagChange
  BY <1>0, <1>4, CallerIInv DEF FlagChange, Callers, Ended
<1>5. CASE UpdateLog \/ StartClone \/ Save
  BY <1>0, <1>5, CallerIInv DEF Callers, UpdateLog, StartClone, Save, Write, flag, Ended
<1>6. CASE EndPass
  BY <1>0, <1>6, CallerIInv DEF Callers, EndPass, Copied, Write, flag, Ended
<1>7. CASE SaveAs
  BY <1>0, <1>7, CallerIInv DEF Callers, SaveAs, Copied, flag, Ended
<1>8. CASE Close
  BY <1>0, <1>8, CallerIInv DEF Callers, Close, Cleanup, flag, Ended
<1>9. CASE Signal
  BY <1>0, <1>9, CallerIInv DEF Callers, Signal, Cleanup, flag, Ended
<1>10. CASE Kill
  BY <1>0, <1>10, CallerIInv DEF Callers, Kill, flag, Ended
<1>11. CASE Load
  <2>1. /\ files.main \in 0 .. MaxChanges
        /\ mem' = files.main /\ before' = files.main
    BY <1>11 DEF Load, IInv, TypeOK
  <2>2. TypeOK'
    BY <1>11, <2>1 DEF Load, IInv, TypeOK
  <2>3. MainCurrent' /\ MemoryNewest'
    BY <1>11, <2>1 DEF Load, IInv, MainCurrent, MemoryNewest
  <2> QED
    BY <1>11, <2>1, <2>2, <2>3 DEF Load, IInv, TmpCurrent, Callers, Versions
<1>12. CASE WriteStep
  BY <1>12, WriteStepIInv
<1>13. CASE UNCHANGED vars
  BY <1>13 DEF vars, IInv, TypeOK, MainCurrent, MemoryNewest, TmpCurrent, Callers, Versions
<1> QED
  BY <1>1, <1>2, <1>3, <1>4, <1>5, <1>6, <1>7, <1>8, <1>9, <1>10, <1>11, <1>12, <1>13
     DEF Next, Cloning

(* The inductive invariant holds at every step.                            *)
THEOREM IInvHolds == Spec => []IInv
<1>1. Init => IInv
  BY InitIInv
<1>2. IInv /\ [Next]_vars => IInv'
  BY NextIInv
<1> QED
  BY <1>1, <1>2, PTL DEF Spec

(* Every variable of the log's writing keeps its type.                     *)
THEOREM FileTypes == Spec => []TypeOK
<1>1. IInv => TypeOK
  BY DEF IInv
<1> QED
  BY <1>1, IInvHolds, PTL

(* A whole log as new as the last one write_logfile_ccc reported written   *)
(* is on the disk at every step, however many writes fail or are cut off.  *)
THEOREM NothingLost == Spec => []NothingSavedIsLost
<1>1. IInv => NothingSavedIsLost
  <2>1. ASSUME IInv PROVE \E f \in {"main", "bak"} : files[f] >= saved
    BY <2>1 DEF IInv, TypeOK, MainCurrent
  <2> QED
    BY <2>1 DEF NothingSavedIsLost, OnDisk
<1> QED
  BY <1>1, IInvHolds, PTL

(* The main log is never torn and never older than its backup.             *)
THEOREM MainWhole == Spec => []MainIsWhole
<1>1. IInv => MainIsWhole
  BY DEF IInv, MainCurrent, MainIsWhole
<1> QED
  BY <1>1, IInvHolds, PTL

(***************************************************************************)
(* Leaving the program.  A flag that was not cleared by a write under      *)
(* another name means, once it is cleared, that the last report covers all *)
(* changes but one that is made and not flagged yet; so does an exit       *)
(* without an error.  (A kill in that moment starts a session anew, with   *)
(* the flag set.)                                                          *)
(***************************************************************************)
ChangesSaved ==
  /\ before <= mem
  /\ ~changed /\ ~copied /\ pc # "killed" =>
       /\ saved >= before
       /\ pc \notin {"changed", "exited"} => saved >= mem
  /\ pc = "exited" /\ ~failed /\ ~copied => saved >= before

(* A return from a write keeps this: it reports success only at the end of *)
(* the write, when the newest version has just been counted as saved.      *)
LEMMA ReturnChangesSaved ==
  ASSUME IInv, ChangesSaved, pc \in Writing, NEW ok \in BOOLEAN, Return(ok),
         \/ ok /\ saved' = mem
         \/ ~ok /\ UNCHANGED <<saved, flag>>
  PROVE  ChangesSaved'
<1>1. UNCHANGED <<mem, before>> /\ failed' = ~ok
  BY DEF Return, log
<1>2. pc' \in {"idle", "cloning", "open", "exited"}
  BY DEF Return, IInv, TypeOK
<1>3. pc \notin {"killed", "changed", "exited"}
  BY DEF Writing
<1>4. mem \in Int /\ before \in Int /\ before <= mem
  BY LogFileAssumption DEF IInv, TypeOK, ChangesSaved
<1>5. CASE ok /\ saved' = mem
  BY <1>1, <1>2, <1>4, <1>5 DEF ChangesSaved
<1>6. CASE ~ok /\ UNCHANGED <<saved, flag>>
  BY <1>1, <1>2, <1>3, <1>4, <1>6 DEF ChangesSaved, flag
<1> QED
  BY <1>5, <1>6

(* A change is the one that may be lost: what it was made to is saved.     *)
LEMMA VersionChangesSaved ==
  ASSUME IInv, ChangesSaved, Version, UNCHANGED <<disk, flag>>,
         pc \notin {"changed", "exited", "killed"}, pc' = "changed"
  PROVE  ChangesSaved'
<1>1. /\ mem \in Int /\ made \in Int /\ mem <= made
      /\ before' = mem /\ mem' = made + 1 /\ UNCHANGED <<changed, copied, saved>>
  BY LogFileAssumption DEF IInv, TypeOK, Versions, Version, disk, flag
<1> QED
  BY <1>1 DEF ChangesSaved

LEMMA NextChangesSaved ==
  ASSUME IInv, ChangesSaved, [Next]_vars
  PROVE  ChangesSaved'
<1> USE LogFileAssumption
<1>0. /\ {changed, copied, pending, failed} \subseteq BOOLEAN /\ Callers
      /\ {mem, before, made} \subseteq Int /\ saved \in Int
      /\ pc \in {"idle", "cloning", "changing", "changed"} \cup Writing \cup Ended
      /\ files.main \in Int
  BY DEF IInv, TypeOK
<1>1. CASE ChangeChunk \/ FlagChange \/ UpdateLog \/ EndPass \/ StartClone \/ Save \/ SaveAs
  BY <1>0, <1>1 DEF ChangeChunk, FlagChange, UpdateLog, EndPass, StartClone, Save, SaveAs,
     Write, Copied, log, disk, flag, ChangesSaved, Callers, Writing, Ended
<1>2. CASE ChangeDone
  BY <1>2, VersionChangesSaved DEF ChangeDone
<1>3. CASE UserChange
  BY <1>3, VersionChangesSaved DEF UserChange
<1>4. CASE Close \/ Signal \/ Kill
  BY <1>0, <1>4 DEF Close, Signal, Kill, Cleanup, log, disk, flag, ChangesSaved, Writing, Ended
<1>5. CASE Load
  BY <1>0, <1>5 DEF Load, ChangesSaved, Ended
<1>6. CASE OpenTmp \/ SyncTmp \/ BackupOld \/ RenameTmp
  BY <1>0, <1>6 DEF OpenTmp, SyncTmp, BackupOld, RenameTmp, Step, log, flag, ChangesSaved, Ended
<1>7. CASE Export
  BY <1>7, ReturnChangesSaved DEF Export, Writing
<1>8. ASSUME NEW step \in Writing, Fail(step)
      PROVE  ChangesSaved'
  BY <1>8, ReturnChangesSaved DEF Fail
<1>9. CASE UNCHANGED vars
  BY <1>9 DEF vars, ChangesSaved
<1> QED
  BY <1>1, <1>2, <1>3, <1>4, <1>5, <1>6, <1>7, <1>8, <1>9 DEF Next, Cloning, WriteStep

(* A program that is closed or interrupted and reports no error leaves all *)
(* changes on the disk but, at most, the one ctrl-c came between the       *)
(* making and the flagging of.  The exception is a flag that was last      *)
(* cleared by write_logfile_ccc under another name.                        *)
THEOREM ExitKeeps == Spec => []ExitKeepsAllButOne
<1>1. Init => ChangesSaved
  BY DEF Init, ChangesSaved
<1>2. IInv /\ ChangesSaved /\ [Next]_vars => ChangesSaved'
  BY NextChangesSaved
<1>3. IInv /\ ChangesSaved => ExitKeepsAllButOne
  <2> SUFFICES ASSUME IInv, ChangesSaved, pc = "exited" /\ ~failed /\ ~copied
               PROVE  \E f \in {"main", "bak", "tmp"} : files[f] >= before
    BY DEF ExitKeepsAllButOne, OnDisk
  <2>1. /\ files.main \in Int /\ files.bak \in Int /\ saved \in Int /\ before \in Int
        /\ saved <= files.main \/ saved <= files.bak
    BY LogFileAssumption DEF IInv, TypeOK, MainCurrent
  <2>2. files.main >= before \/ files.bak >= before
    BY <2>1 DEF ChangesSaved
  <2> QED
    BY <2>2
<1> QED
  BY <1>1, <1>2, <1>3, IInvHolds, PTL DEF Spec

(***************************************************************************)
(* LogFile implements SavedLog.  Renaming the temporary file is the save,  *)
(* as it has the version in memory by then; the end of the write is the    *)
(* report, as the main file still has that version; and all that fails or  *)
(* is cut off in between is seen as nothing or as the program's end.       *)
(***************************************************************************)
LEMMA InitImplements == Init => Saved!Init
<1> SUFFICES ASSUME Init PROVE Saved!Init
  OBVIOUS
<1>1. PICK main \in {Missing, 0} :
        /\ files = [main |-> main, bak |-> Missing, tmp |-> Missing]
        /\ saved = main
  BY DEF Init
<1>2. Kept = main /\ Running
  BY <1>1 DEF Init, Kept, Running, Ended
<1> QED
  BY <1>1, <1>2 DEF Init, Saved!Init

(* A step that changes neither files nor versions ends the program or      *)
(* leaves it running.                                                      *)
LEMMA EndsOrStutters ==
  ASSUME UNCHANGED <<mem, files, saved>>, Running' => Running
  PROVE  [Saved!Next]_Saved!vars
<1>1. UNCHANGED <<mem, Kept, saved>> /\ Running \in BOOLEAN /\ Running' \in BOOLEAN
  BY DEF Kept, Running
<1>2. CASE Running' = Running
  BY <1>1, <1>2 DEF Saved!vars
<1>3. CASE Running /\ Running' = FALSE
  BY <1>1, <1>3 DEF Saved!Next, Saved!Stop
<1> QED
  BY <1>1, <1>2, <1>3

LEMMA VersionImplements ==
  ASSUME IInv, Version, UNCHANGED disk, pc \notin Ended, pc' \notin Ended
  PROVE  Saved!Next
<1>1. /\ mem \in Int /\ made \in Int /\ made >= 0 /\ mem <= made
      /\ mem' = made + 1 /\ UNCHANGED <<files, saved>>
  BY LogFileAssumption DEF IInv, TypeOK, Versions, Version, disk
<1>2. mem' \in Nat /\ mem' > mem
  BY <1>1
<1>3. Running /\ Running' = Running /\ UNCHANGED Kept
  BY <1>1 DEF Running, Kept
<1> QED
  BY <1>1, <1>2, <1>3 DEF Saved!Next, Saved!Change

LEMMA WriteImplements ==
  ASSUME IInv, WriteStep
  PROVE  [Saved!Next]_Saved!vars
<1>0. /\ files \in [{"main", "bak", "tmp"} -> Missing .. MaxChanges]
      /\ mem \in 0 .. MaxChanges /\ MainCurrent /\ TmpCurrent
  BY DEF IInv, TypeOK
<1>1. CASE OpenTmp \/ SyncTmp
  <2>1. UNCHANGED <<mem, saved>> /\ Running' = Running
    BY <1>1 DEF OpenTmp, SyncTmp, Step, log, Running, Ended
  <2>2. files'.main = files.main /\ files'.bak = files.bak
    BY <1>0, <1>1 DEF OpenTmp, SyncTmp
  <2> QED
    BY <2>1, <2>2 DEF Kept, Saved!vars
<1>2. CASE BackupOld
  <2>1. UNCHANGED <<mem, saved>> /\ Running' = Running
    BY <1>2 DEF BackupOld, Step, log, Running, Ended
  <2>2. Kept' = Kept
    BY <1>0, <1>2 DEF BackupOld, Kept
  <2> QED
    BY <2>1, <2>2 DEF Saved!vars
<1>3. CASE RenameTmp
  <2>1. UNCHANGED <<mem, saved>> /\ Running /\ Running' = Running /\ files.tmp = mem
    BY <1>0, <1>3 DEF RenameTmp, Step, log, Running, Ended, TmpCurrent
  <2>2. files'.main = mem /\ mem # Missing
    BY <1>0, <1>3, <2>1 DEF RenameTmp
  <2>3. Kept' = mem
    BY <2>2 DEF Kept
  <2> QED
    BY <2>1, <2>3 DEF Saved!Next, Saved!Save
<1>4. CASE Export
  <2>1. UNCHANGED <<mem, files>> /\ saved' = mem /\ pc = "export" /\ files.main = mem
    BY <1>0, <1>4 DEF Export, Return, log, TmpCurrent
  <2>2. Running /\ Running' \in BOOLEAN
    BY <2>1 DEF Running, Ended
  <2>3. Kept = mem /\ Kept' = Kept
    BY <1>0, <2>1 DEF Kept
  <2> QED
    BY <2>1, <2>2, <2>3 DEF Saved!Next, Saved!Report
<1>5. ASSUME NEW step \in Writing, Fail(step)
      PROVE  [Saved!Next]_Saved!vars
  <2>1. UNCHANGED <<mem, files, saved>> /\ pc \in Writing
    BY <1>5 DEF Fail, Return, log
  <2> QED
    BY <2>1, EndsOrStutters DEF Running, Writing, Ended
<1> QED
  BY <1>1, <1>2, <1>3, <1>4, <1>5 DEF WriteStep

LEMMA StepImplements ==
  ASSUME IInv, [Next]_vars
  PROVE  [Saved!Next]_Saved!vars
<1>1. CASE ChangeDone \/ UserChange
  BY <1>1, VersionImplements DEF ChangeDone, UserChange, Ended
<1>2. CASE ChangeChunk \/ FlagChange \/ UpdateLog \/ EndPass \/ StartClone \/ Save \/ SaveAs
  <2>1. UNCHANGED <<mem, files, saved>> /\ pc \notin Ended
    BY <1>2 DEF ChangeChunk, FlagChange, UpdateLog, EndPass, StartClone, Save, SaveAs,
       Write, log, disk, Ended
  <2> QED
    BY <2>1, EndsOrStutters DEF Running
<1>3. CASE Close \/ Signal \/ Kill
  <2>1. UNCHANGED <<mem, files, saved>> /\ pc \notin Ended
    BY <1>3 DEF Close, Signal, Kill, Cleanup, log, disk, Ended
  <2> QED
    BY <2>1, EndsOrStutters DEF Running
<1>4. CASE Load
  <2>1. files.main # Missing /\ mem' = files.main /\ UNCHANGED <<files, saved>>
    BY <1>4 DEF Load, IInv, TypeOK
  <2>2. Kept = files.main /\ Kept' = Kept
    BY <2>1 DEF Kept
  <2>3. ~Running /\ Running' = TRUE
    BY <1>4 DEF Load, Running, Ended
  <2> QED
    BY <2>1, <2>2, <2>3 DEF Saved!Next, Saved!Start
<1>5. CASE WriteStep
  BY <1>5, WriteImplements
<1>6. CASE UNCHANGED vars
  BY <1>6, EndsOrStutters DEF vars, Running
<1> QED
  BY <1>1, <1>2, <1>3, <1>4, <1>5, <1>6 DEF Next, Cloning

(* Writing the log is seen from outside as one step that saves what is in  *)
(* memory: no failure, interrupt or crash between the two renames puts the *)
(* log on the disk behind a report or back to an older version, and the    *)
(* next session begins with what was saved.                                *)
THEOREM Implements == Spec => ImplementsSavedLog
<1>1. Init => Saved!Init
  BY InitImplements
<1>2. IInv /\ [Next]_vars => [Saved!Next]_Saved!vars
  BY StepImplements
<1> QED
  BY <1>1, <1>2, IInvHolds, PTL DEF Spec, ImplementsSavedLog, Saved!Spec
=============================================================================
