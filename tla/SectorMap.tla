------------------------------ MODULE SectorMap ------------------------------
(***************************************************************************)
(* What the progress log promises its users: a map that gives every sector *)
(* of the source drive one status.  Copying, trimming, scraping and the    *)
(* virtual drive mark chunks of sectors; nothing else may move a status.   *)
(* The list of blocks the program really keeps is in ProgressLog, which    *)
(* implements this module.                                                 *)
(***************************************************************************)
EXTENDS Integers

CONSTANTS
  Size,    \* source_total_size_ccc, in sectors
  Kinds,   \* the values of the low status byte without its bad-head bit
  Skips    \* the values of the skip-run field of a status; 0 is "no skip"

Sectors == 0 .. Size - 1
Status == [kind : Kinds, head : BOOLEAN, skip : Skips]
Plain(k) == [kind |-> k, head |-> FALSE, skip |-> 0]

VARIABLE map       \* the status of every sector

Chunk(p, n) == p .. p + n - 1

(* What a new status s leaves in a sector that had the status old: a head  *)
(* known to be bad stays known, and so does the skip run unless s names    *)
(* one of its own.                                                         *)
Keep(old, s) ==
  [kind |-> s.kind,
   head |-> s.head \/ old.head,
   skip |-> IF s.skip = 0 THEN old.skip ELSE s.skip]

(* What a reset of the log leaves: what was copied stays copied, the rest  *)
(* is to be tried again.                                                   *)
Forget(old) == IF old.kind = "FINISHED" THEN Plain("FINISHED") ELSE Plain("NONTRIED")

Init == map = [x \in Sectors |-> Plain("NONTRIED")]

(* Only a chunk whose sectors all have the same status can be marked, and  *)
(* marking it touches no sector outside it.                                *)
Mark(p, n, s) ==
  /\ Chunk(p, n) \subseteq Sectors
  /\ \A x, y \in Chunk(p, n) : map[x] = map[y]
  /\ \A x \in Chunk(p, n) : map[x] # s
  /\ map' = [x \in Sectors |-> IF x \in Chunk(p, n) THEN Keep(map[x], s) ELSE map[x]]

Reset == map' = [x \in Sectors |-> Forget(map[x])]

CompleteReset == map' = [x \in Sectors |-> Plain("NONTRIED")]

Next ==
  \/ \E p \in Sectors, n \in 1 .. Size, s \in Status : Mark(p, n, s)
  \/ Reset
  \/ CompleteReset

Spec == Init /\ [][Next]_map
=============================================================================
