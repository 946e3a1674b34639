----------------------------- MODULE ProgressLog -----------------------------
(***************************************************************************)
(* The progress log in memory: the arrays lposition_ccc, lsize_ccc and     *)
(* lstatus_ccc with total_lines_ccc lines, one line per block of sectors   *)
(* that share a status.  Cloning changes it chunk by chunk                 *)
(* (change_chunk_status_ccc); connecting to the drive checks it and merges *)
(* neighbours with equal statuses; the user may reset it.                  *)
(*                                                                         *)
(* A status is a 64-bit word whose fields matter one by one: the kind of   *)
(* the block, the bad-head bit (0x80), the skip run (SKIP_INFO_MASK).  The *)
(* other fields (error registers, read time) only take part in the test    *)
(* for equality, as the skip run does, and are left out.  All callers pass *)
(* FULL_MASK.                                                              *)
(***************************************************************************)
EXTENDS Integers, Sequences, SequencesExt

CONSTANTS Size, Kinds, Skips   \* see SectorMap

ASSUME LogSizeAssumption == Size \in Nat \ {0}
ASSUME LogKindsAssumption == {"NONTRIED", "FINISHED"} \subseteq Kinds
ASSUME LogSkipsAssumption == 0 \in Skips

VARIABLES
  lines,   \* the log: position, size and status of each block
  ret,     \* what the last call that can fail answered
  pc,      \* what the program is doing with the log
  i        \* the line the merging loop looks at

vars == <<lines, ret, pc, i>>

Sectors == 0 .. Size - 1
Status == [kind : Kinds, head : BOOLEAN, skip : Skips]
Line == [pos : Nat, size : Nat \ {0}, status : Status]
Plain(k) == [kind |-> k, head |-> FALSE, skip |-> 0]
Block(p, n, st) == [pos |-> p, size |-> n, status |-> st]

EndOf(l) == l.pos + l.size
Holds(l, x) == l.pos <= x /\ x < EndOf(l)

(* The line that holds sector x, 0 when there is none (the code's -1).     *)
FindBlock(ls, x) ==
  IF \E k \in 1 .. Len(ls) : Holds(ls[k], x)
  THEN CHOOSE k \in 1 .. Len(ls) : Holds(ls[k], x)
  ELSE 0

(* The status of sector x.                                                 *)
StatusAt(ls, x) == ls[FindBlock(ls, x)].status

(* Whether a chunk that starts in block b ends in it.                      *)
Fits(ls, b, p, n) == b # 0 /\ p + n <= EndOf(ls[b])

(* Mutant: the bad-head bit of the block is forgotten.                     *)
KeepSkipOnly(old, s) ==
  [kind |-> s.kind, head |-> s.head, skip |-> IF s.skip = 0 THEN old.skip ELSE s.skip]

(* What a new status s leaves in a block that had the status old.          *)
Keep(old, s) ==
  [kind |-> s.kind,
   head |-> s.head \/ old.head,
   skip |-> IF s.skip = 0 THEN old.skip ELSE s.skip]

(* What a reset leaves of a status.                                        *)
Forget(old) == IF old.kind = "FINISHED" THEN Plain("FINISHED") ELSE Plain("NONTRIED")

NewLog == <<Block(0, Size, Plain("NONTRIED"))>>

(***************************************************************************)
(* change_chunk_status_ccc, after the checks: block b of ls gives the      *)
(* status st to n sectors.                                                 *)
(***************************************************************************)

(* The chunk is the whole block: merge it with the block below, then with  *)
(* the block above, when their statuses are the same.                      *)
WholeBlock(ls, b, st) ==
  LET marked == [ls EXCEPT ![b] = Block(@.pos, @.size, st)]
      below == IF b < Len(ls) /\ ls[b + 1].status = st
               THEN RemoveAt([marked EXCEPT ![b + 1] =
                       Block(@.pos - ls[b].size, @.size + ls[b].size, st)], b)
               ELSE marked
  IN IF b > 1 /\ ls[b - 1].status = st
     THEN RemoveAt([below EXCEPT ![b - 1] = Block(@.pos, @.size + below[b].size, st)], b)
     ELSE below

(* The chunk starts the block: it joins the block above or becomes a line. *)
StartOfBlock(ls, b, n, st) ==
  LET rest == Block(ls[b].pos + n, ls[b].size - n, ls[b].status) IN
    IF b > 1 /\ ls[b - 1].status = st
    THEN [ls EXCEPT ![b - 1] = Block(@.pos, @.size + n, st), ![b] = rest]
    ELSE InsertAt([ls EXCEPT ![b] = rest], b, Block(ls[b].pos, n, st))

(* Mutant: the joined chunk is not taken from its block.                   *)
EndOfBlockKept(ls, b, n, st) ==
  IF b < Len(ls) /\ ls[b + 1].status = st
  THEN [ls EXCEPT ![b + 1] = Block(@.pos - n, @.size + n, st)]
  ELSE InsertAt([ls EXCEPT ![b] = Block(@.pos, @.size - n, @.status)], b + 1,
                Block(EndOf(ls[b]) - n, n, st))

(* The chunk ends the block: it joins the block below or becomes a line.   *)
EndOfBlock(ls, b, n, st) ==
  LET rest == Block(ls[b].pos, ls[b].size - n, ls[b].status) IN
    IF b < Len(ls) /\ ls[b + 1].status = st
    THEN [ls EXCEPT ![b] = rest, ![b + 1] = Block(@.pos - n, @.size + n, st)]
    ELSE InsertAt([ls EXCEPT ![b] = rest], b + 1, Block(EndOf(ls[b]) - n, n, st))

(* The chunk is inside the block, which is cut in three.                   *)
InsideBlock(ls, b, p, n, st) ==
  LET before == Block(ls[b].pos, p - ls[b].pos, ls[b].status)
      after == Block(p + n, EndOf(ls[b]) - (p + n), ls[b].status)
  IN InsertAt(InsertAt([ls EXCEPT ![b] = after], b, Block(p, n, st)), b, before)

Marked(ls, b, p, n, st) ==
  IF p = ls[b].pos /\ n = ls[b].size THEN WholeBlock(ls, b, st)
  ELSE IF p = ls[b].pos THEN StartOfBlock(ls, b, n, st)
  ELSE IF p + n = EndOf(ls[b]) THEN EndOfBlock(ls, b, n, st)
  ELSE InsideBlock(ls, b, p, n, st)

(***************************************************************************)
(* check_log_ccc: the complaints it has about a log.                       *)
(***************************************************************************)
CheckLog(ls) ==
  LET pairs == 1 .. Len(ls) - 1 IN
    {f \in {"first", "overlap", "empty", "gap", "same", "last"} :
       CASE f = "first"   -> ls[1].pos # 0
         [] f = "overlap" -> \E k \in pairs : EndOf(ls[k]) > ls[k + 1].pos
         [] f = "empty"   -> \E k \in pairs : ls[k].size = 0
         [] f = "gap"     -> \E k \in pairs : EndOf(ls[k]) < ls[k + 1].pos
         [] f = "same"    -> \E k \in pairs : ls[k].status = ls[k + 1].status
         [] f = "last"    -> EndOf(ls[Len(ls)]) # Size}

(***************************************************************************)
(* The program.                                                            *)
(***************************************************************************)
Init ==
  /\ lines = NewLog
  /\ ret = "none"
  /\ pc = "idle"
  /\ i = 1

(* A call of change_chunk_status_ccc whose position is in no block, or     *)
(* whose chunk leaves the block, changes nothing (INTERNAL_ERROR).         *)
ChangeRefused(p, n) ==
  LET b == FindBlock(lines, p) IN
    /\ pc = "cloning"
    /\ ~Fits(lines, b, p, n)
    /\ ret' = "internal_error"
    /\ UNCHANGED <<lines, pc, i>>

(* A call that asks for the status the block has returns 1.                *)
ChangeUnneeded(p, n, s) ==
  LET b == FindBlock(lines, p) IN
    /\ pc = "cloning"
    /\ Fits(lines, b, p, n)
    /\ lines[b].status = s
    /\ ret' = "same"
    /\ UNCHANGED <<lines, pc, i>>

ChangeChunk(p, n, s) ==
  LET b == FindBlock(lines, p) IN
    /\ pc = "cloning"
    /\ Fits(lines, b, p, n)
    /\ lines[b].status # s
    /\ lines' = Marked(lines, b, p, n, Keep(lines[b].status, s))
    /\ ret' = "ok"
    /\ UNCHANGED <<pc, i>>

ChangeChunkStatus ==
  \E p \in 0 .. Size, n \in 1 .. Size :
    \/ ChangeRefused(p, n)
    \/ \E s \in Status : ChangeUnneeded(p, n, s) \/ ChangeChunk(p, n, s)

(* Connecting to the drives checks the log; when equal neighbours are its  *)
(* only complaint, the log is repaired first.  Opening the drives can fail *)
(* afterwards.                                                             *)
OpenDrives ==
  \/ pc' = "cloning" /\ ret' = "connected"
  \/ pc' = "idle" /\ ret' = "device_error"

ConnectClean ==
  /\ pc = "idle" /\ CheckLog(lines) = {}
  /\ OpenDrives
  /\ UNCHANGED <<lines, i>>

ConnectRepair ==
  /\ pc = "idle" /\ CheckLog(lines) = {"same"}
  /\ pc' = "connect" /\ i' = 1
  /\ UNCHANGED <<lines, ret>>

Disconnect ==
  /\ pc = "cloning"
  /\ pc' = "idle" /\ ret' = "none"
  /\ UNCHANGED <<lines, i>>

(* The user resets the log: blocks that are not FINISHED are to be tried   *)
(* again, then equal neighbours are merged.                                *)
ResetLogStatus ==
  /\ pc = "idle"
  /\ lines' = [k \in 1 .. Len(lines) |->
                 Block(lines[k].pos, lines[k].size, Forget(lines[k].status))]
  /\ pc' = "reset" /\ i' = 1 /\ ret' = "none"

(* Loading a project and the repair menu run the repair, too; neither      *)
(* insists on a log without complaints afterwards.                         *)
RepairLog ==
  /\ pc = "idle"
  /\ pc' = "load" /\ i' = 1 /\ ret' = "none"
  /\ UNCHANGED lines

(* A virtual drive without a destination reads everything again.           *)
CompleteLogReset ==
  /\ pc = "cloning"
  /\ lines' = NewLog /\ ret' = "none"
  /\ UNCHANGED <<pc, i>>

Merging == {"connect", "load", "reset", "repair"}

(* Mutants: no step back after a merge; no step ahead without one.         *)
MergeTurnStuck ==
  /\ pc \in Merging /\ i < Len(lines)
  /\ UNCHANGED i
  /\ lines' = IF lines[i].status = lines[i + 1].status
              THEN RemoveAt([lines EXCEPT ![i] =
                               Block(@.pos, @.size + lines[i + 1].size, @.status)], i + 1)
              ELSE lines
  /\ UNCHANGED <<ret, pc>>

(* Mutant: the loop begins with the second pair.                           *)
MergeTurnFromSecond ==
  /\ pc \in Merging /\ i < Len(lines)
  /\ IF i > 1 /\ lines[i].status = lines[i + 1].status
     THEN /\ lines' =
              RemoveAt([lines EXCEPT ![i] = Block(@.pos, @.size + lines[i + 1].size, @.status)],
                       i + 1)
          /\ UNCHANGED i
     ELSE UNCHANGED lines /\ i' = i + 1
  /\ UNCHANGED <<ret, pc>>

(* One turn of the loop that merges equal neighbours.  After a merge it    *)
(* goes back one line, except from the first.                              *)
MergeTurn ==
  /\ pc \in Merging /\ i < Len(lines)
  /\ \/ /\ lines[i].status = lines[i + 1].status
        /\ lines' =
             RemoveAt([lines EXCEPT ![i] = Block(@.pos, @.size + lines[i + 1].size, @.status)],
                      i + 1)
        /\ i' = IF i > 1 THEN i ELSE 2
     \/ /\ lines[i].status # lines[i + 1].status
        /\ i' = i + 1
        /\ UNCHANGED lines
  /\ UNCHANGED <<ret, pc>>

(* After the repair the log is checked again before cloning starts.        *)
ConnectRecheck ==
  /\ pc = "connect" /\ i >= Len(lines)
  /\ \/ CheckLog(lines) = {} /\ OpenDrives
     \/ CheckLog(lines) # {} /\ pc' = "idle" /\ ret' = "log_check_error"
  /\ i' = 1
  /\ UNCHANGED lines

(* Mutant: the log is not checked again after a reset.                     *)
ResetUnchecked ==
  /\ pc = "reset" /\ i >= Len(lines)
  /\ pc' = "idle"
  /\ UNCHANGED <<lines, ret, i>>

(* After a reset equal neighbours that are left get the repair's loop.     *)
ResetRecheck ==
  /\ pc = "reset" /\ i >= Len(lines)
  /\ \/ CheckLog(lines) = {"same"} /\ pc' = "repair" /\ i' = 1
     \/ CheckLog(lines) # {"same"} /\ pc' = "idle" /\ i' = i
  /\ UNCHANGED <<lines, ret>>

RepairEnd ==
  /\ pc \in {"load", "repair"} /\ i >= Len(lines)
  /\ pc' = "idle" /\ i' = 1
  /\ UNCHANGED <<lines, ret>>

MergeLoop == MergeTurn \/ ConnectRecheck \/ ResetRecheck \/ RepairEnd

Next ==
  \/ ChangeChunkStatus
  \/ ConnectClean \/ ConnectRepair \/ Disconnect
  \/ ResetLogStatus \/ RepairLog \/ CompleteLogReset
  \/ MergeLoop

Spec == Init /\ [][Next]_vars

(* The loops run in the thread that entered them and wait for nothing.     *)
FairSpec == Spec /\ WF_vars(MergeLoop)

(***************************************************************************)
(* Properties.                                                             *)
(***************************************************************************)

(* Every line has a position, a size above zero and a status, and the      *)
(* merging loop looks at a line number.                                    *)
TypeOK ==
  /\ lines \in Seq(Line)
  /\ ret \in {"none", "ok", "same", "internal_error", "connected", "device_error",
              "log_check_error"}
  /\ pc \in {"idle", "cloning"} \cup Merging
  /\ i \in Nat \ {0}

(* Whatever is marked, merged or reset, in whatever order, the log covers  *)
(* the source from its first to its last sector without gap or overlap:    *)
(* the only complaint check_log_ccc can have is of equal neighbours.       *)
LogCoversSource == Len(lines) > 0 /\ CheckLog(lines) \subseteq {"same"}

(* The same, stated line against line and sector by sector: the form that  *)
(* every operation preserves.                                              *)
Tiles(ls) ==
  /\ ls \in Seq(Line)
  /\ \A k \in 1 .. Len(ls) : EndOf(ls[k]) <= Size
  /\ \A j, k \in 1 .. Len(ls) : j < k => EndOf(ls[j]) <= ls[k].pos
  /\ \A x \in Sectors : \E k \in 1 .. Len(ls) : Holds(ls[k], x)
LogTiles == Tiles(lines)

(* Splitting, extending and merging lines is invisible: seen sector by     *)
(* sector, the log is the abstract SectorMap, where a call marks exactly   *)
(* the sectors of its chunk and merging changes nothing.                   *)
SectorStatus == [x \in Sectors |-> StatusAt(lines, x)]
Abstract == INSTANCE SectorMap WITH map <- SectorStatus
ImplementsSectorMap == Abstract!Spec

(* Lines the merging loop has passed differ from their neighbour below,    *)
(* except for the first line.                                              *)
MergedBehind ==
  pc \in Merging => \A k \in 2 .. i - 1 : k < Len(lines) => lines[k].status # lines[k + 1].status

(* A reset never leaves equal neighbours behind: the loop of               *)
(* reset_log_status_ccc may, then the repair's loop removes them.          *)
ResetLeavesClean ==
  [][(pc \in {"reset", "repair"} /\ pc' = "idle") => CheckLog(lines') = {}]_vars

(* When connecting was refused because of the log, connecting again is not *)
(* refused: what the first repair missed the second one merges.            *)
RefusedOnlyOnce ==
  [][ret = "log_check_error" /\ pc = "connect" /\ pc' # "connect"
     => ret' # "log_check_error"]_vars

(* The merging loop, which steps back after a merge, ends.                 *)
MergingEnds == pc \in Merging ~> pc \notin Merging
=============================================================================
