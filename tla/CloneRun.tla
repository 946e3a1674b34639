------------------------------ MODULE CloneRun ------------------------------
(***************************************************************************)
(* A cloning run: clone_forward_ccc or, with Reverse, clone_reverse_ccc,   *)
(* takes the drive through the phases; in each, copy_forward_ccc,          *)
(* copy_reverse_ccc or trim_..._ccc looks in the log for sectors of one    *)
(* kind, reads them in chunks and marks each chunk.  A run can stop at any *)
(* turn and be resumed later from the phase and position it stopped at.    *)
(*                                                                         *)
(* Sectors are blocks of block_size_ccc, without a domain.  How the log    *)
(* keeps the kinds is ProgressLog's business; because other fields of the  *)
(* status can split sectors of one kind into several lines, a line is any  *)
(* stretch of sectors of one kind.                                         *)
(***************************************************************************)
EXTENDS Integers

CONSTANTS
  Size,        \* the sectors of the source
  Start, End,  \* start_position_ccc and end_position_ccc
  Cluster,     \* original_cluster_size_ccc
  Divided,     \* the cluster size of the dividing phases
  MaxSkip,     \* bound on the sectors a skip jumps over
  Retries,     \* bound on retries_ccc, which the user sets before a run
  Off,         \* the phases the user turned off
  Reverse,     \* reverse_ccc
  DontMark,    \* whether a timeout keeps a single sector from being BAD
  Reports,     \* whether the drive reports which sector it failed at
  OldLog       \* whether the log comes from a run over another range

(* lstatus_ccc of a sector, without its fields: the kinds.                 *)
NONTRIED == 0
NONTRIMMED == 16
NONDIVIDED == 32
NONSCRAPED == 48
BAD == 64
FINISHED == 127
Kinds == {NONTRIED, NONTRIMMED, NONDIVIDED, NONSCRAPED, BAD, FINISHED}

(* current_status_ccc: the phases, and FINISHED.                           *)
PHASE1 == 0
PHASE2 == 2
PHASE3 == 6
PHASE4 == 8
TRIMMING == 16
DIVIDING1 == 32
DIVIDING2 == 34
SCRAPING == 48
RETRYING == 64
Passes == {PHASE1, PHASE2, PHASE3, PHASE4, TRIMMING, DIVIDING1, DIVIDING2, SCRAPING}
Phases == Passes \cup {RETRYING, FINISHED}

(* DIVIDING2 runs only with do_divide2_ccc and DIVIDING1.                  *)
ASSUME CloneRunAssumption ==
  /\ {Size, End} \subseteq Nat \ {0} /\ Start \in Nat
  /\ Start < End /\ End <= Size
  /\ Cluster \in Nat \ {0} /\ Divided \in 1 .. Cluster
  /\ {MaxSkip, Retries} \subseteq Nat
  /\ Off \subseteq Passes /\ (DIVIDING1 \in Off => DIVIDING2 \in Off)
  /\ {Reverse, DontMark, Reports, OldLog} \subseteq BOOLEAN

VARIABLES
  map,       \* the kind of every sector
  data,      \* the sectors whose data is on the destination
  weak,      \* the sectors the drive may fail to read,
  dead,      \* and those among them that it can never read
  phase,     \* current_status_ccc
  pos,       \* current_position_ccc
  pc,        \* idle, next: between passes, pass: in a pass's loop,
             \* scan1, scan2: in the two loops that trim a block
  rollover,  \* a pass ended in this run: the next one starts afresh
  retries,   \* retries_ccc
  retried,   \* the sectors read since a retry pass started afresh
  block,     \* block_start and block_end of the block being trimmed,
  err,       \* where the first loop over it met an error
  reading,   \* and whether rsize is still above zero in the loop
  last       \* last_sector_adjust

vars == <<map, data, weak, dead, phase, pos, pc, rollover, retries, retried, block, err,
          reading, last>>
trim == <<block, err, reading>>
NoBlock == [from |-> 0, to |-> 0]
drive == <<weak, dead>>
run == <<weak, dead, phase, rollover, retries>>

Sectors == 0 .. Size - 1
Range == Start .. End - 1
Chunk(q, n) == q .. q + n - 1
Least(a, b) == IF a < b THEN a ELSE b
Most(a, b) == IF a > b THEN a ELSE b

(* Stretches of sectors of one kind that hold sector x.                    *)
Lines(x) ==
  {l \in [from : 0 .. x, to : x + 1 .. Size] :
     \A y \in l.from .. l.to - 1 : map[y] = map[x]}

(* The kind a phase looks for and the kind it leaves what it cannot read.  *)
Sought ==
  CASE phase \in {PHASE1, PHASE2, PHASE3, PHASE4} -> NONTRIED
    [] phase \in {TRIMMING, DIVIDING1} -> NONTRIMMED
    [] phase = DIVIDING2 -> NONDIVIDED
    [] phase = SCRAPING -> NONSCRAPED
    [] OTHER -> BAD
Left ==
  CASE phase \in {PHASE1, PHASE2, PHASE3, PHASE4} -> NONTRIMMED
    [] phase = DIVIDING1 /\ DIVIDING2 \notin Off -> NONDIVIDED
    [] phase \in {TRIMMING, DIVIDING1, DIVIDING2} -> NONSCRAPED
    [] OTHER -> BAD

ClusterSize ==
  CASE phase \in {PHASE1, PHASE2, PHASE3, PHASE4} -> Cluster
    [] phase \in {DIVIDING1, DIVIDING2} -> Divided
    [] OTHER -> 1

(* Scraping is the last phase that must leave nothing behind.              *)
Following(p) ==
  CASE p = PHASE1 -> PHASE2 [] p = PHASE2 -> PHASE3 [] p = PHASE3 -> PHASE4
    [] p = PHASE4 -> TRIMMING [] p = TRIMMING -> DIVIDING1
    [] p = DIVIDING1 -> DIVIDING2 [] p = DIVIDING2 -> SCRAPING
    [] OTHER -> FINISHED

(* Retrying calls copy_forward_ccc whatever the direction of the run.      *)
Up == phase = RETRYING \/ (phase = PHASE2) = Reverse

(* Where the passes of a run start when they start afresh.                 *)
Origin ==
  IF Reverse THEN IF phase = PHASE2 THEN Start ELSE End
  ELSE IF phase = PHASE2 THEN End - 1 ELSE Start

Init ==
  /\ weak \in SUBSET Sectors /\ dead \in SUBSET weak
  /\ map \in [Sectors -> {NONTRIED, NONTRIMMED}]
  /\ \A x \in Sectors : map[x] = NONTRIMMED => OldLog /\ x \notin Range
  /\ data = {} /\ retried = {}
  /\ phase = PHASE1 /\ pos = 0 /\ pc = "idle"
  /\ rollover = FALSE /\ retries = Retries
  /\ block = NoBlock /\ err = 0 /\ reading = FALSE
  /\ last = FALSE

-----------------------------------------------------------------------------
(* The run: which pass comes next.                                         *)
Begin ==
  LET p == IF phase = FINISHED THEN (IF Reverse THEN End ELSE Start) ELSE pos IN
    /\ pc = "idle"
    /\ phase' = IF phase = FINISHED THEN PHASE3 ELSE phase
    /\ pos' = IF p < Start THEN Start
              ELSE IF p >= End THEN (IF Reverse THEN End ELSE End - 1) ELSE p
    /\ retries' \in 0 .. Retries
    /\ rollover' = FALSE /\ pc' = "next"
    /\ UNCHANGED <<map, data, drive, retried, trim, last>>

PassOff ==
  /\ pc = "next" /\ phase \in Off
  /\ phase' = Following(phase) /\ rollover' = TRUE
  /\ UNCHANGED <<map, data, drive, pos, pc, retries, retried, trim, last>>

(* Mutant: a pass goes on where the pass before it ended.                  *)
PassStartKeepsPosition ==
  /\ pc = "next" /\ phase \in (Passes \ Off) \cup {RETRYING}
  /\ phase = RETRYING => retries > 0
  /\ pos' = IF Up THEN Most(pos, Start) ELSE Least(pos, End - 1)
  /\ last' = (~Up /\ pos >= End)
  /\ pc' = "pass"
  /\ UNCHANGED <<map, data, run, retried, trim>>

PassStart ==
  LET p == IF rollover THEN Origin
           ELSE IF Reverse /\ phase = PHASE1 /\ pos = Start THEN End ELSE pos
  IN
    /\ pc = "next" /\ phase \in (Passes \ Off) \cup {RETRYING}
    /\ phase = RETRYING => retries > 0
    /\ pos' = IF Up THEN Most(p, Start) ELSE Least(p, End - 1)
    /\ last' = (~Up /\ p >= End)
    /\ pc' = "pass"
    /\ UNCHANGED <<map, data, run, retried, trim>>

(* Mutant: a retry pass does not count.                                    *)
PassEndUncounted ==
  /\ phase' = Following(phase) /\ rollover' = TRUE
  /\ pc' = "next" /\ retried' = {}
  /\ UNCHANGED <<map, data, drive, pos, retries, trim, last>>

(* The pass returned 0.                                                    *)
PassEnd ==
  /\ phase' = Following(phase) /\ rollover' = TRUE
  /\ retries' = IF phase = RETRYING THEN retries - 1 ELSE retries
  /\ pc' = "next" /\ retried' = {}
  /\ UNCHANGED <<map, data, drive, pos, trim, last>>

RunEnd ==
  /\ pc = "next"
  /\ \/ phase = FINISHED /\ retries > 0 /\ phase' = RETRYING /\ rollover' = TRUE /\ UNCHANGED pc
     \/ phase = FINISHED /\ retries = 0 /\ pc' = "idle" /\ UNCHANGED <<phase, rollover>>
     \/ phase = RETRYING /\ retries = 0 /\ phase' = FINISHED /\ UNCHANGED <<pc, rollover>>
  /\ UNCHANGED <<map, data, drive, pos, retries, retried, trim, last>>

BlockLeft == block' = NoBlock /\ err' = 0 /\ reading' = FALSE

(* A pass looks for a stop signal, writes the log and, in the first two    *)
(* phases, gives up on a slow drive at every turn; each of them ends the   *)
(* run with an error and leaves the phase and the position as they are.    *)
Stop ==
  /\ pc \in {"pass", "scan1", "scan2"}
  /\ pc' = "idle" /\ BlockLeft
  /\ UNCHANGED <<map, data, run, pos, retried, last>>

-----------------------------------------------------------------------------
(* Reading a chunk.                                                        *)
Marked(q, n, k) == [x \in Sectors |-> IF x \in Chunk(q, n) THEN k ELSE map[x]]

Readable(q, n) == Chunk(q, n) \cap dead = {}
CanFail(q, n) == Chunk(q, n) \cap weak # {}

(* What a failed chunk is marked as, with and without a timeout.           *)
FailedKinds(n) ==
  IF n > 1 THEN {Left} ELSE {BAD} \cup (IF DontMark THEN {Left} ELSE {})

(* Ending the run, with an error, at position p.                           *)
GiveUp(p) == pc' = "idle" /\ pos' = p

(* Mutant: the chunk is marked before the write is known to have worked.   *)
ReadInVainMarked(q) ==
  /\ GiveUp(q)
  /\ map' = Marked(q, 1, FINISHED)
  /\ UNCHANGED data

(* Mutant: the position is moved past the chunk before it is read.         *)
ReadInVainPassed(q) ==
  /\ GiveUp(q + 1)
  /\ UNCHANGED <<map, data>>

(* Stopped during the read or failed to write what was read: the chunk     *)
(* keeps its kind.                                                         *)
ReadInVain(q) ==
  /\ GiveUp(q)
  /\ UNCHANGED <<map, data>>

(* In the first two phases an error and a slow read jump over some         *)
(* sectors.                                                                *)
Jump(q, s) == IF Up THEN q + s ELSE q - s
Jumps(q) ==
  IF phase \in {PHASE1, PHASE2} THEN {Jump(q, s) : s \in 0 .. MaxSkip} ELSE {q}

(* Going on after the chunk, or giving up before that: after a jump        *)
(* process_skip_ccc may, and after an error the drive may be gone.         *)
MoveOn(n, js) ==
  \E j \in js :
    \/ GiveUp(j)
    \/ pos' = (IF Up THEN j + n ELSE j) /\ pc' = pc

Copied(q, n) ==
  /\ Readable(q, n)
  /\ map' = Marked(q, n, FINISHED) /\ data' = data \cup Chunk(q, n)
  /\ \/ pos' = (IF Up THEN q + n ELSE q) /\ pc' = pc
     \/ phase \in {PHASE1, PHASE2} /\ MoveOn(n, Jumps(q))

Failed(q, n) ==
  /\ CanFail(q, n)
  /\ \E k \in FailedKinds(n) : map' = Marked(q, n, k)
  /\ UNCHANGED data
  /\ MoveOn(n, Jumps(q))

(* Mutant: the sector before the reported one is marked.                   *)
ReportedOffByOne(q, n, lba) ==
  /\ Reports /\ n > 1 /\ lba > 0 /\ CanFail(lba, 1) /\ Readable(q, lba - q)
  /\ map' = [x \in Sectors |->
       IF x \notin Chunk(q, n) THEN map[x]
       ELSE IF x < lba - 1 THEN FINISHED ELSE IF x = lba - 1 THEN BAD ELSE Left]
  /\ data' = data \cup Chunk(q, lba - q)
  /\ MoveOn(n, Jumps(q))

(* process_chunk_ccc: the drive reported the sector it failed at.  What is *)
(* before it is read again; if that works only the sector itself is BAD.   *)
Reported(q, n, lba) ==
  /\ Reports /\ n > 1 /\ lba > 0 /\ CanFail(lba, 1) /\ Readable(q, lba - q)
  /\ map' = [x \in Sectors |->
       IF x \notin Chunk(q, n) THEN map[x]
       ELSE IF x < lba THEN FINISHED ELSE IF x = lba THEN BAD ELSE Left]
  /\ data' = data \cup Chunk(q, lba - q)
  /\ MoveOn(n, Jumps(q))

Read(q, n) ==
  /\ \/ ReadInVain(q)
     \/ Copied(q, n)
     \/ Failed(q, n)
     \/ \E lba \in Chunk(q, n) : Reported(q, n, lba)
  /\ retried' = IF phase = RETRYING THEN retried \cup Chunk(q, n) ELSE retried
  /\ last' = FALSE
  /\ UNCHANGED <<run, trim>>

-----------------------------------------------------------------------------
(* copy_forward_ccc                                                        *)
Copying == pc = "pass" /\ phase # TRIMMING

(* The first sector of the kind the pass looks for, from p on.             *)
IsNext(q) == map[q] = Sought /\ \A y \in pos .. q - 1 : map[y] # Sought

CopyForward ==
  /\ Copying /\ Up /\ pos < End
  /\ \E q \in pos .. End - 1 :
       /\ IsNext(q)
       /\ \E l \in Lines(q) : Read(q, Least(Least(ClusterSize, l.to - q), End - q))

CopyForwardEnd ==
  /\ Copying /\ Up
  /\ \A q \in Range : q >= pos => map[q] # Sought
  /\ PassEnd

(* copy_reverse_ccc.  The chunk ends at the position, or it ends the       *)
(* nearest line of the kind below.  last_sector_adjust stands in for a     *)
(* position that is one after the last sector.                             *)
ChunkAt(q, l) == Read(q, Least(Least(q + ClusterSize, l.to), End) - q)

CopyReverseHere ==
  /\ Copying /\ ~Up /\ pos > Start /\ map[pos] = Sought
  /\ \E l \in Lines(pos) : ChunkAt(Most((IF last THEN End ELSE pos) - ClusterSize, l.from), l)

IsPrevious(q) == map[q] = Sought /\ \A y \in q + 1 .. pos : map[y] # Sought

CopyReverseBelow ==
  /\ Copying /\ ~Up /\ pos > Start
  /\ \E x \in Start .. pos - 1 :
       /\ IsPrevious(x)
       /\ \E l \in {m \in Lines(x) : m.to = x + 1} :
            ChunkAt(Most(Most(l.to - ClusterSize, l.from), Start), l)

(* A line that ends at the start position leaves nothing to read.          *)
CopyReverseEnd ==
  /\ Copying /\ ~Up
  /\ pos <= Start \/ \A q \in Range : q <= pos => map[q] # Sought
  /\ PassEnd

(* PHASE3 jumps when two reads in a row are too slow.                      *)
RateSkip ==
  /\ pc = "pass" /\ phase = PHASE3
  /\ IF Up THEN pos < End ELSE pos > Start
  /\ \E s \in 1 .. MaxSkip : pos' = Jump(pos, s)
  /\ last' = FALSE
  /\ UNCHANGED <<map, data, run, pc, retried, trim>>

-----------------------------------------------------------------------------
(* trim_forward_ccc and, in a reverse run, trim_reverse_ccc.               *)
Trimming == pc = "pass" /\ phase = TRIMMING

TrimBlock(l) ==
  /\ block' = l /\ reading' = TRUE /\ pc' = "scan1"
  /\ pos' = IF Reverse THEN l.to - 1 ELSE l.from
  /\ last' = FALSE
  /\ UNCHANGED <<map, data, run, retried, err>>

TrimForward ==
  /\ Trimming /\ ~Reverse /\ pos < End
  /\ \E q \in pos .. End - 1 :
       /\ IsNext(q)
       /\ \E l \in Lines(q) : (q # pos => l.from = q) /\ TrimBlock(l)

TrimForwardEnd ==
  /\ Trimming /\ ~Reverse
  /\ \A q \in Range : q >= pos => map[q] # Sought
  /\ PassEnd

(* A line that ends at the start position is trimmed, too.                 *)
TrimReverse ==
  /\ Trimming /\ Reverse /\ pos > Start
  /\ \E x \in Most(Start - 1, 0) .. pos :
       /\ IsPrevious(x)
       /\ \E l \in Lines(x) : (x # pos => l.to = x + 1) /\ TrimBlock(l)

TrimReverseEnd ==
  /\ Trimming /\ Reverse
  /\ pos <= Start \/ \A x \in Most(Start - 1, 0) .. pos : map[x] # Sought
  /\ PassEnd

(* The first loop runs in the direction of the run and the second, after   *)
(* an error, from the other end of the block back to it.                   *)
Scanning == pc \in {"scan1", "scan2"}
ScanNext == IF (pc = "scan1") = Reverse THEN pos - 1 ELSE pos + 1

ScanOver ==
  \/ pos \notin block.from .. block.to - 1
  \/ pc = "scan2" /\ IF Reverse THEN pos >= err ELSE pos <= err

Passed == IF Reverse THEN block.from ELSE block.to

ScanEnd ==
  /\ Scanning /\ ScanOver
  /\ pos' = Passed /\ pc' = "pass" /\ BlockLeft
  /\ UNCHANGED <<map, data, run, retried, last>>

(* Past the end position rsize drops to zero or below and stays there.     *)
ScanBeyond ==
  /\ Scanning /\ ~ScanOver /\ (pos >= End \/ ~reading)
  /\ reading' = FALSE /\ pos' = ScanNext
  /\ UNCHANGED <<map, data, run, pc, retried, block, err, last>>

Between(x, a, b) == (a < x /\ x < b) \/ (b < x /\ x < a)

(* Mutant: the sector of the first error is marked along with the rest.    *)
ScanErrorWide(k) ==
  LET far == IF pc = "scan2" THEN err ELSE IF Reverse THEN block.from - 1 ELSE block.to
      rest == [x \in Sectors |-> IF x = pos THEN k
                                 ELSE IF Between(x, pos, far) \/ (pc = "scan2" /\ x = err)
                                 THEN NONSCRAPED ELSE map[x]]
  IN
    \/ /\ pc = "scan1"
       /\ map' = Marked(pos, 1, k)
       /\ err' = pos /\ pc' = "scan2" /\ reading' = TRUE
       /\ pos' = IF Reverse THEN block.from ELSE block.to - 1
       /\ UNCHANGED block
    \/ /\ pc = "scan1"
       /\ map' = rest /\ GiveUp(pos) /\ BlockLeft
    \/ /\ pc = "scan2"
       /\ map' = rest
       /\ pos' = Passed /\ pc' \in {"pass", "idle"} /\ BlockLeft

(* After an error in the first loop either the second one starts or the    *)
(* run gives up; what the loops did not reach becomes NONSCRAPED, then as  *)
(* after an error in the second.                                           *)
ScanError(k) ==
  LET far == IF pc = "scan2" THEN err ELSE IF Reverse THEN block.from - 1 ELSE block.to
      rest == [x \in Sectors |-> IF x = pos THEN k
                                 ELSE IF Between(x, pos, far) THEN NONSCRAPED ELSE map[x]]
  IN
    \/ /\ pc = "scan1"
       /\ map' = Marked(pos, 1, k)
       /\ err' = pos /\ pc' = "scan2" /\ reading' = TRUE
       /\ pos' = IF Reverse THEN block.from ELSE block.to - 1
       /\ UNCHANGED block
    \/ /\ pc = "scan1"
       /\ map' = rest /\ GiveUp(pos) /\ BlockLeft
    \/ /\ pc = "scan2"
       /\ map' = rest
       /\ pos' = Passed /\ pc' \in {"pass", "idle"} /\ BlockLeft

ScanRead ==
  /\ Scanning /\ ~ScanOver /\ pos < End /\ reading
  /\ \/ ReadInVain(pos) /\ BlockLeft
     \/ /\ Readable(pos, 1)
        /\ map' = Marked(pos, 1, FINISHED) /\ data' = data \cup {pos}
        /\ pos' = ScanNext
        /\ UNCHANGED <<pc, trim>>
     \/ /\ CanFail(pos, 1)
        /\ \E k \in FailedKinds(1) : ScanError(k)
        /\ UNCHANGED data
  /\ UNCHANGED <<run, retried, last>>

-----------------------------------------------------------------------------
(* reset_log_status_ccc, called by the user between runs.                  *)
Reset ==
  /\ pc = "idle"
  /\ map' = [x \in Sectors |-> IF map[x] = FINISHED THEN FINISHED ELSE NONTRIED]
  /\ phase' = PHASE1 /\ pos' = 0 /\ retried' = {}
  /\ UNCHANGED <<data, drive, pc, rollover, retries, trim, last>>

Copy ==
  \/ CopyForward \/ CopyForwardEnd
  \/ CopyReverseHere \/ CopyReverseBelow \/ CopyReverseEnd
Trim ==
  \/ TrimForward \/ TrimForwardEnd \/ TrimReverse \/ TrimReverseEnd
  \/ ScanEnd \/ ScanBeyond \/ ScanRead
Turn == PassOff \/ PassStart \/ RunEnd \/ RateSkip \/ Copy \/ Trim

Next == Begin \/ Turn \/ Stop \/ Reset

Spec == Init /\ [][Next]_vars

(* A run is one loop in one thread; it waits for nothing but reads, which  *)
(* time out.                                                               *)
FairSpec == Spec /\ WF_vars(Turn)

(***************************************************************************)
(* Properties.                                                             *)
(***************************************************************************)

(* The kinds, phases, positions and counters of a run.  A jump can leave   *)
(* the position outside the range.                                         *)
TypeOK ==
  /\ map \in [Sectors -> Kinds]
  /\ data \subseteq Sectors /\ dead \subseteq weak /\ weak \subseteq Sectors /\ retried \subseteq Sectors
  /\ phase \in Phases /\ pos \in Int
  /\ pc \in {"idle", "next", "pass", "scan1", "scan2"}
  /\ rollover \in BOOLEAN /\ reading \in BOOLEAN /\ last \in BOOLEAN
  /\ retries \in Nat
  /\ block \in [from : 0 .. Size, to : 0 .. Size] /\ err \in 0 .. Size

(* Only what was read and written to the destination is ever FINISHED.     *)
DataFollowsLog == \A x \in Sectors : map[x] = FINISHED => x \in data

(* When a run says "rescue finished" no sector of the range was forgotten: *)
(* each was copied or given up as BAD, however often the run was stopped   *)
(* and resumed.  hddsuperclone.texi:221 says a resumed run "will pick up   *)
(* where it left off" and 244 that phase 4 "gets all the remaining         *)
(* non-tried areas".                                                       *)
Ended == phase = FINISHED /\ pc = "idle"
NothingForgotten == Ended => \A x \in Range : map[x] \in {FINISHED, BAD}

(* Only a sector the drive fails at is ever given up: neither a chunk with *)
(* a failing sector nor a reported sector is charged to its neighbours.    *)
NoGoodSectorGivenUp == \A x \in Sectors : map[x] = BAD => x \in weak

(* A run never takes a sector back to an earlier kind, and what is         *)
(* FINISHED stays so; only the user's reset does otherwise.                *)
NeverBack ==
  [][pc # "idle" => \A x \in Sectors :
       map'[x] # map[x] => map[x] # FINISHED /\ map'[x] > map[x]]_vars

(* A retry pass that ends without an error has read every BAD sector of    *)
(* the range again.  hddsuperclone.texi:471 says of --retries: "Number of  *)
(* retries on bad sectors".                                                *)
RetryReadsAll ==
  [][(phase = RETRYING /\ pc = "pass" /\ pc' = "next")
     => \A x \in Range : map[x] = BAD => x \in retried]_vars

(* A run that is begun ends.  hddsuperclone.texi:251 says "Trimming reads  *)
(* each non-trimmed one sector at a time forward until a read error, and   *)
(* then backward until a read error".                                      *)
RunEnds == pc # "idle" ~> pc = "idle"
=============================================================================
