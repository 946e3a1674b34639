---------------------------- MODULE CloneRestarts ----------------------------
(***************************************************************************)
(* Cloning over sessions: the runs of CloneRun, the log they leave on the  *)
(* disk, and a program or computer that goes down at any point.  The next  *)
(* session has the map, the phase and the position of the log as it was    *)
(* last written; the destination has all that was written to it since.     *)
(*                                                                         *)
(* That the log on the disk is always one that was in memory as a whole is *)
(* LogFile's business (SavedLog).                                          *)
(***************************************************************************)
EXTENDS CloneRun

VARIABLE kept   \* the log on the disk

sessionVars == <<vars, kept>>

(* What the file says of a run.  The sectors retried are a number there.   *)
Log == [map |-> map, phase |-> phase, pos |-> pos, retried |-> retried]

SessionsInit == Init /\ kept = Log

RunStep == Next /\ UNCHANGED kept

(* Mutant: the log is also written when a pass is over and the position is *)
(* still where it ended.                                                   *)
WriteLogAnywhere == kept' = Log /\ UNCHANGED vars

(* A pass writes the log when it starts, every LOG_UPDATE_TIME seconds at  *)
(* the beginning of a turn, and when it returns with an error; a run ends  *)
(* with a write, and idle the user can save.  Nothing writes it between    *)
(* the phase's change at the end of a pass and the start of the next.      *)
WriteLog ==
  /\ pc # "next"
  /\ kept' = Log
  /\ UNCHANGED vars

(* The program ends where it is, and a new one loads the log.              *)
Restart ==
  /\ map' = kept.map /\ phase' = kept.phase /\ pos' = kept.pos /\ retried' = kept.retried
  /\ pc' = "idle" /\ BlockLeft
  /\ UNCHANGED <<data, drive, rollover, retries, last, kept>>

SessionsNext == RunStep \/ WriteLog \/ Restart

SessionsSpec == SessionsInit /\ [][SessionsNext]_sessionVars
=============================================================================
