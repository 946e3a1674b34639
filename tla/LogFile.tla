------------------------------- MODULE LogFile -------------------------------
(***************************************************************************)
(* The progress log on disk: how write_logfile_ccc puts the log in memory  *)
(* into <log>, <log>.tmp and <log>.bak, when cloning and closing call it,  *)
(* and what an interrupt, a failing write or a crash leaves behind.        *)
(*                                                                         *)
(* What the log says is ProgressLog's business; here it is a version, the  *)
(* number of the change that made it.  The domain file is written by a     *)
(* copy of the same code (write_domainfile_ccc).                           *)
(***************************************************************************)
EXTENDS Integers

CONSTANTS
  MaxChanges,   \* bound on the changes made to the log
  Copies,       \* whether the log is also written under other names
  Faults,       \* whether calls of the file system can fail
  Interrupts,   \* whether the user hits ctrl-c
  Kills         \* whether the process or the system can go down

ASSUME LogFileAssumption ==
  /\ MaxChanges \in Nat \ {0}
  /\ {Copies, Faults, Interrupts, Kills} \subseteq BOOLEAN

VARIABLES
  mem,       \* the version in memory
  before,    \* the version the last change was made to
  made,      \* the changes made so far, the bound's counter
  changed,   \* logfile_changed_ccc
  copied,    \* it was cleared by a write under another name, and no change flagged since
  pending,   \* pending_exit_ccc
  files,     \* what is in <log>, <log>.bak and <log>.tmp
  saved,     \* the last version a write of <log> reported written
  failed,    \* whether the last write of <log> reported an error
  pc,        \* where the program is
  then       \* who called write_logfile_ccc, or made the change

vars == <<mem, before, made, changed, copied, pending, files, saved, failed, pc, then>>
log == <<mem, before, made>>
disk == <<files, saved, failed>>
flag == <<changed, copied>>

Missing == -2
Torn == -1      \* opened for writing and not known to be on the disk
Writing == {"open", "sync", "backup", "rename", "export"}
Ended == {"exited", "killed"}

(* Some file holds version v or a newer one.                               *)
OnDisk(v) == \E f \in {"main", "bak", "tmp"} : files[f] >= v

(* A new project writes its first log later; a project that was loaded has *)
(* one.  Both count as changed.                                            *)
Init ==
  /\ mem = 0 /\ before = 0 /\ made = 0
  /\ changed = TRUE /\ copied = FALSE /\ pending = FALSE
  /\ \E main \in {Missing, 0} :
       /\ files = [main |-> main, bak |-> Missing, tmp |-> Missing]
       /\ saved = main
  /\ failed = FALSE
  /\ pc = "idle" /\ then = "idle"

-----------------------------------------------------------------------------
(* Changing the log.                                                       *)
Version ==
  /\ made < MaxChanges
  /\ made' = made + 1 /\ mem' = made + 1 /\ before' = mem

(* A chunk was copied or failed: change_chunk_status_ccc changes the log   *)
(* with critical_process_ccc set.                                          *)
ChangeChunk ==
  /\ pc = "cloning" /\ made < MaxChanges
  /\ pc' = "changing"
  /\ UNCHANGED <<log, disk, flag, pending, then>>

ChangeDone ==
  /\ pc = "changing"
  /\ Version
  /\ pc' = "changed"
  /\ UNCHANGED <<flag, pending, disk, then>>

(* The user resets or repairs the log or changes a setting.                *)
UserChange ==
  /\ pc = "idle"
  /\ Version
  /\ pc' = "changed" /\ then' = "idle"
  /\ UNCHANGED <<flag, pending, disk>>

FlagChange ==
  /\ pc = "changed"
  /\ changed' = TRUE /\ copied' = FALSE
  /\ pc' = then
  /\ UNCHANGED <<log, pending, disk, then>>

-----------------------------------------------------------------------------
(* write_logfile_ccc of <log>: one action per call of the file system.     *)
Write(from, caller) ==
  /\ pc = from
  /\ pc' = "open" /\ then' = caller

(* Returning to the caller.  Cloning stops at an error; begin_cloning_ccc  *)
(* writes the log whatever happened, and start_cloning in the GUI once     *)
(* more.  Closing ends the program with or without an error.               *)
Return(ok) ==
  /\ failed' = ~ok
  /\ CASE then = "cloning" -> (IF ok THEN pc' = "cloning" /\ then' = "cloning"
                                     ELSE pc' = "open" /\ then' = "end")
       [] then = "end"     -> pc' = "open" /\ then' = "idle"
       [] then = "idle"    -> pc' = "idle" /\ then' = "idle"
       [] then \in {"close", "signal"} -> pc' = "exited" /\ UNCHANGED then
  /\ UNCHANGED <<log, pending>>

Fail(step) ==
  /\ Faults /\ pc = step
  /\ Return(FALSE)
  /\ UNCHANGED <<flag, files, saved>>

Step(from, to) ==
  /\ pc = from /\ pc' = to
  /\ UNCHANGED <<log, flag, pending, saved, failed, then>>

(* Mutant: the log is written in place.                                    *)
OpenMain ==
  /\ Step("open", "sync")
  /\ files' = [files EXCEPT !.main = Torn, !.tmp = Torn]

OpenTmp == Step("open", "sync") /\ files' = [files EXCEPT !.tmp = Torn]

(* Mutant: an error of fflush, fsync or fclose is not looked at.           *)
SyncUnchecked ==
  /\ Step("sync", "backup")
  /\ files' = [files EXCEPT !.tmp = IF Faults THEN Torn ELSE mem]

(* The log is written, flushed, synced and closed.                         *)
SyncTmp == Step("sync", "backup") /\ files' = [files EXCEPT !.tmp = mem]

(* Mutant: the old log is removed where a backup should be kept.           *)
BackupDropped ==
  /\ Step("backup", "rename")
  /\ \/ UNCHANGED files
     \/ /\ files.main # Missing
        /\ files' = [files EXCEPT !.main = Missing]

(* A backup is kept unless the user turned it off or there is no old log.  *)
BackupOld ==
  /\ Step("backup", "rename")
  /\ \/ UNCHANGED files
     \/ /\ files.main # Missing
        /\ files' = [files EXCEPT !.bak = files.main, !.main = Missing]

RenameTmp ==
  /\ Step("rename", "export")
  /\ files' = [files EXCEPT !.main = files.tmp, !.tmp = Missing]

(* The ddrescue mapfile is written when asked for; then the log counts as  *)
(* unchanged.                                                              *)
Export ==
  /\ pc = "export"
  /\ changed' = FALSE /\ copied' = FALSE /\ saved' = mem
  /\ Return(TRUE)
  /\ UNCHANGED files

WriteStep ==
  \/ OpenTmp \/ SyncTmp \/ BackupOld \/ RenameTmp \/ Export
  \/ \E step \in Writing : Fail(step)

(* write_logfile_ccc of another name (a phase log, the copy a reset keeps, *)
(* "save as"): <log> is as it was, and yet it counts as unchanged.         *)
Copied ==
  \/ UNCHANGED flag
  \/ Copies /\ changed /\ changed' = FALSE /\ copied' = TRUE

-----------------------------------------------------------------------------
(* The callers.                                                            *)

(* A pass of cloning starts with a write.                                  *)
StartClone ==
  /\ Write("idle", "cloning")
  /\ UNCHANGED <<log, disk, flag, pending>>

(* The copy loop writes the log whenever 30 seconds are over.              *)
UpdateLog ==
  /\ Write("cloning", "cloning")
  /\ UNCHANGED <<log, disk, flag, pending>>

(* Mutant: at the end of a run the log is only written if it is flagged.   *)
EndPassIfChanged ==
  /\ pc = "cloning"
  /\ Copied
  /\ \/ changed' /\ pc' = "open" /\ then' \in {"cloning", "end"}
     \/ ~changed' /\ pc' = "idle" /\ then' = "idle"
  /\ UNCHANGED <<log, disk, pending>>

(* A pass ends, with a phase log when the user wants them; another pass    *)
(* starts or the run is over.                                              *)
EndPass ==
  /\ Copied
  /\ \E caller \in {"cloning", "end"} : Write("cloning", caller)
  /\ UNCHANGED <<log, disk, pending>>

Save ==
  /\ Write("idle", "idle")
  /\ UNCHANGED <<log, disk, flag, pending>>

SaveAs ==
  /\ pc = "idle" /\ Copies
  /\ Copied
  /\ UNCHANGED <<log, disk, pending, pc, then>>

(* Mutant: closing never writes the log.                                   *)
CleanupUnsaved(caller) ==
  /\ then' = caller
  /\ pc' = "exited"
  /\ UNCHANGED <<log, disk, flag>>

(* cleanup_ccc writes a log that is flagged as changed.                    *)
Cleanup(caller) ==
  /\ then' = caller
  /\ pc' = IF changed THEN "open" ELSE "exited"
  /\ UNCHANGED <<log, disk, flag>>

Close ==
  /\ pc = "idle"
  /\ Cleanup("close")
  /\ UNCHANGED pending

(* Ctrl-C, anywhere but in the handler itself: at once, or in a critical   *)
(* section by a flag.                                                      *)
Signal ==
  /\ Interrupts /\ pc \notin Ended /\ then # "signal"
  /\ IF pc = "changing"
     THEN pending' = TRUE /\ UNCHANGED <<log, disk, flag, pc, then>>
     ELSE UNCHANGED pending /\ Cleanup("signal")

Kill ==
  /\ Kills /\ pc \notin Ended
  /\ pc' = "killed"
  /\ UNCHANGED <<log, disk, flag, pending, then>>

(* The next session loads <log>, if it can; nothing looks for the others.  *)
Load ==
  /\ pc \in Ended /\ files.main >= 0
  /\ mem' = files.main /\ before' = files.main
  /\ changed' = TRUE /\ copied' = FALSE /\ pending' = FALSE /\ failed' = FALSE
  /\ pc' = "idle" /\ then' = "idle"
  /\ UNCHANGED <<made, files, saved>>

Cloning == ChangeChunk \/ ChangeDone \/ FlagChange \/ UpdateLog \/ EndPass
Next ==
  \/ Cloning \/ WriteStep
  \/ UserChange \/ StartClone \/ Save \/ SaveAs \/ Close
  \/ Signal \/ Kill \/ Load

Spec == Init /\ [][Next]_vars

(* Cloning goes on until it is done (a pass ends when there is no block    *)
(* left for it), and a call of the file system returns.                    *)
FairSpec ==
  /\ Spec
  /\ WF_vars(ChangeDone) /\ WF_vars(FlagChange) /\ WF_vars(WriteStep)
  /\ SF_vars(EndPass /\ then' = "end")

-----------------------------------------------------------------------------
(* A file is missing, torn or a version; the program is at one place.      *)
TypeOK ==
  /\ {mem, before, made} \subseteq 0 .. MaxChanges
  /\ {changed, copied, pending, failed} \subseteq BOOLEAN
  /\ files \in [{"main", "bak", "tmp"} -> Missing .. MaxChanges]
  /\ saved \in {Missing} \cup 0 .. MaxChanges
  /\ pc \in {"idle", "cloning", "changing", "changed"} \cup Writing \cup Ended
  /\ then \in {"idle", "cloning", "end", "close", "signal"}

(* "So the original still exists if system crashes": whatever fails, and   *)
(* wherever the program is interrupted or goes down, again and again, one  *)
(* of the three files holds a whole log at least as new as the last one    *)
(* that was reported written.                                              *)
NothingSavedIsLost == OnDisk(saved)

(* <log> is never a torn one and never older than its backup, also in the  *)
(* middle of a write that an interrupt's own write overtakes.              *)
MainIsWhole == files.main # Torn /\ (files.main # Missing => files.bak <= files.main)

(* Renaming twice is one step: seen from outside, the log on the disk is   *)
(* the main one or, while that is missing, the backup; it changes only to  *)
(* the version in memory, is never behind a report, and is what the next   *)
(* session works on.                                                       *)
Kept == IF files.main # Missing THEN files.main ELSE files.bak
Running == pc \notin Ended
Saved == INSTANCE SavedLog WITH
  Nothing <- Missing, work <- mem, kept <- Kept, reported <- saved, running <- Running
ImplementsSavedLog == Saved!Spec

(* A program that was closed or interrupted and did not report an error    *)
(* has left all changes on the disk but, at most, the last one: the one    *)
(* ctrl-c came between the making and the flagging of.  Only a write under *)
(* another name hides what <log> is behind.                                *)
ExitKeepsAllButOne == pc = "exited" /\ ~failed /\ ~copied => OnDisk(before)

(* A run of cloning ends up in <log>, phase logs that clear the flag or    *)
(* not, unless a write fails and says so or the run is interrupted or goes *)
(* down.                                                                   *)
CloningIsSaved ==
  \A v \in 1 .. MaxChanges :
    (pc = "cloning" /\ mem = v) ~>
      (files.main >= v \/ failed \/ then = "signal" \/ pc \in Ended)
=============================================================================
