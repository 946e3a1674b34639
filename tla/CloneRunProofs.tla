--------------------------- MODULE CloneRunProofs ---------------------------
(***************************************************************************)
(* Proofs about CloneRun and CloneRestarts, for every source, range,       *)
(* cluster size, number of retries and choice of phases.                   *)
(***************************************************************************)
EXTENDS CloneRestarts, TLAPS

USE DEF NONTRIED, NONTRIMMED, NONDIVIDED, NONSCRAPED, BAD, FINISHED, PHASE1, PHASE2,
        PHASE3, PHASE4, TRIMMING, DIVIDING1, DIVIDING2, SCRAPING, RETRYING

(* What the passes mark a chunk as comes after what they look for.         *)
LEMMA SoughtLeft ==
  /\ Sought \in {NONTRIED, NONTRIMMED, NONDIVIDED, NONSCRAPED, BAD}
  /\ Left \in {NONTRIMMED, NONDIVIDED, NONSCRAPED, BAD}
  /\ Sought <= Left
BY DEF Sought, Left

(* Sectors read together are not given up together.                        *)
LEMMA ClusterLeft ==
  /\ ClusterSize \in Nat \ {0}
  /\ ClusterSize > 1 => Left # BAD
BY CloneRunAssumption DEF ClusterSize, Left

(* The sectors a pass is about to read: the n sectors from q on are        *)
(* sectors of the kind it looks for.                                       *)
IsChunk(q, n) ==
  /\ q \in Nat /\ q < End /\ n \in 1 .. ClusterSize /\ q + n <= Size
  /\ \A x \in Chunk(q, n) : map[x] = Sought

LEMMA ChunkBounds ==
  ASSUME NEW q, NEW n, IsChunk(q, n)
  PROVE  q \in Nat /\ n \in Nat \ {0} /\ q < End /\ q + n <= Size
BY ClusterLeft DEF IsChunk

LEMMA ChunkInSource ==
  ASSUME NEW q, NEW n, IsChunk(q, n)
  PROVE  Chunk(q, n) \subseteq Sectors
BY ChunkBounds, CloneRunAssumption DEF Chunk, Sectors

LEMMA LineOf ==
  ASSUME NEW x \in Nat, NEW l \in Lines(x)
  PROVE  /\ l.from \in Nat /\ l.to \in Nat /\ l.from <= x /\ x < l.to /\ l.to <= Size
         /\ \A y \in l.from .. l.to - 1 : map[y] = map[x]
BY CloneRunAssumption DEF Lines

(* What a read does to the log and to the data, whatever it meets.         *)
MarkedAs(q, n, x) ==
  \/ map'[x] = map[x]
  \/ x \in Chunk(q, n) /\ map'[x] = FINISHED /\ x \in data'
  \/ x \in Chunk(q, n) /\ map'[x] \in {BAD, Left} /\ (map'[x] = BAD => x \in weak)
ReadMarks(q, n) ==
  /\ map' \in [Sectors -> Kinds]
  /\ \A x \in Sectors : MarkedAs(q, n, x)
  /\ data \subseteq data' /\ data' \subseteq data \cup Chunk(q, n)

LEMMA ReadDoes ==
  ASSUME TypeOK, NEW q, NEW n, IsChunk(q, n), Read(q, n)
  PROVE  ReadMarks(q, n)
<1>1. \A k \in Kinds : Marked(q, n, k) \in [Sectors -> Kinds]
  BY DEF TypeOK, Marked
<1>2. {FINISHED, BAD, Left} \subseteq Kinds
  BY SoughtLeft DEF Kinds
<1>3. n > 1 => Left # BAD
  BY ClusterLeft DEF IsChunk
<1>4. q \in Nat /\ n \in Nat \ {0}
  BY ChunkBounds
<1>5. CASE ReadInVain(q)
  BY <1>5 DEF ReadInVain, ReadMarks, MarkedAs, TypeOK
<1>6. CASE Copied(q, n)
  <2>1. map' = Marked(q, n, FINISHED) /\ data' = data \cup Chunk(q, n)
    BY <1>6 DEF Copied
  <2> QED
    BY <1>1, <1>2, <2>1 DEF ReadMarks, MarkedAs, Marked
<1>7. CASE Failed(q, n)
  <2>1. PICK k \in FailedKinds(n) : map' = Marked(q, n, k)
    BY <1>7 DEF Failed
  <2>2. k \in {BAD, Left} /\ data' = data
    BY <1>7, <2>1 DEF FailedKinds, Failed
  <2>3. map' \in [Sectors -> Kinds]
    BY <1>1, <1>2, <2>1, <2>2
  <2>4. ASSUME NEW x \in Chunk(q, n), k = BAD
        PROVE  x \in weak
    <3>1. n = 1
      BY <1>3, <1>4, <2>1, <2>4 DEF FailedKinds
    <3>2. Chunk(q, n) = {x}
      BY <1>4, <2>4, <3>1 DEF Chunk
    <3>3. Chunk(q, n) \cap weak # {}
      BY <1>7 DEF Failed, CanFail
    <3> QED
      BY <3>2, <3>3
  <2>5. \A x \in Sectors : map'[x] = map[x] \/ (x \in Chunk(q, n) /\ map'[x] = k)
    BY <2>1 DEF Marked
  <2> QED
    BY <2>2, <2>3, <2>4, <2>5 DEF ReadMarks, MarkedAs
<1>8. ASSUME NEW lba \in Chunk(q, n), Reported(q, n, lba)
      PROVE  ReadMarks(q, n)
  <2>1. map' = [x \in Sectors |->
                 IF x \notin Chunk(q, n) THEN map[x]
                 ELSE IF x < lba THEN FINISHED ELSE IF x = lba THEN BAD ELSE Left]
    BY <1>8 DEF Reported
  <2>2. data' = data \cup Chunk(q, lba - q) /\ n > 1 /\ Chunk(lba, 1) \cap weak # {}
    BY <1>8 DEF Reported, CanFail
  <2>3. /\ Chunk(q, lba - q) \subseteq Chunk(q, n)
        /\ Chunk(lba, 1) = {lba}
        /\ \A x \in Chunk(q, n) : x < lba => x \in Chunk(q, lba - q)
    BY <1>4 DEF Chunk
  <2>4. map' \in [Sectors -> Kinds]
    BY <1>2, <2>1 DEF TypeOK
  <2>5. lba \in weak /\ Left # BAD
    BY <1>3, <2>2, <2>3
  <2>6. ASSUME NEW x \in Sectors
        PROVE  MarkedAs(q, n, x)
    BY <2>1, <2>2, <2>3, <2>5, <2>6 DEF MarkedAs
  <2> QED
    BY <2>2, <2>3, <2>4, <2>6 DEF ReadMarks
<1> QED
  BY <1>5, <1>6, <1>7, <1>8 DEF Read

(* A read the run goes on after leaves no sector of its chunk as it was.   *)
LEMMA ReadMarksAll ==
  ASSUME NEW q, NEW n, IsChunk(q, n), Read(q, n)
  PROVE  pos' = q \/ \A x \in Chunk(q, n) : map'[x] \in {FINISHED, BAD, Left}
<1>1. CASE ReadInVain(q)
  BY <1>1 DEF ReadInVain, GiveUp
<1>2. CASE Copied(q, n)
  BY <1>2, ChunkInSource DEF Copied, Marked
<1>3. CASE Failed(q, n)
  BY <1>3, ChunkInSource DEF Failed, FailedKinds, Marked
<1>4. ASSUME NEW lba \in Chunk(q, n), Reported(q, n, lba)
      PROVE  \A x \in Chunk(q, n) : map'[x] \in {FINISHED, BAD, Left}
  BY <1>4, ChunkInSource DEF Reported
<1> QED
  BY <1>1, <1>2, <1>3, <1>4 DEF Read

(* Where a read leaves the run.                                            *)
ReadLeaves(q, n) ==
  /\ pos' \in Int /\ pc' \in {pc, "idle"}
  /\ pc' # "idle" => IF Up THEN pos' >= q + n ELSE pos' <= q
  /\ phase \notin {PHASE1, PHASE2} => pos' \in {q, q + n}
  /\ retried' = IF phase = RETRYING THEN retried \cup Chunk(q, n) ELSE retried
  /\ last' = FALSE
  /\ UNCHANGED <<run, trim>>

LEMMA ReadGoesOn ==
  ASSUME TypeOK, NEW q, NEW n, IsChunk(q, n), Read(q, n)
  PROVE  ReadLeaves(q, n)
<1>1. q \in Nat /\ n \in Nat \ {0}
  BY ChunkBounds
<1>2. /\ pos' \in Int /\ pc' \in {pc, "idle"}
      /\ pc' # "idle" => IF Up THEN pos' >= q + n ELSE pos' <= q
      /\ phase \notin {PHASE1, PHASE2} => pos' \in {q, q + n}
  <2>1. ASSUME NEW j \in Jumps(q)
        PROVE  /\ j \in Int /\ (IF Up THEN j >= q ELSE j <= q)
               /\ phase \notin {PHASE1, PHASE2} => j = q
    BY <1>1, <2>1, CloneRunAssumption DEF Jumps, Jump
  <2>2. ASSUME MoveOn(n, Jumps(q))
        PROVE  <1>2!1 /\ <1>2!2 /\ <1>2!3
    BY <1>1, <2>1, <2>2 DEF MoveOn, GiveUp
  <2>3. CASE ReadInVain(q)
    BY <1>1, <2>3 DEF ReadInVain, GiveUp
  <2>4. CASE Copied(q, n)
    BY <1>1, <2>2, <2>4 DEF Copied
  <2>5. CASE Failed(q, n)
    BY <2>2, <2>5 DEF Failed
  <2>6. ASSUME NEW lba \in Chunk(q, n), Reported(q, n, lba)
        PROVE  <1>2!1 /\ <1>2!2 /\ <1>2!3
    BY <2>2, <2>6 DEF Reported
  <2> QED
    BY <2>3, <2>4, <2>5, <2>6 DEF Read
<1> QED
  BY <1>2 DEF ReadLeaves, Read

-----------------------------------------------------------------------------
(* Where a pass and its trimming loops stand.                              *)
Placed ==
  /\ pc = "pass" => IF Up THEN pos >= Start ELSE pos < End
  /\ pc = "pass" /\ last => pos = End - 1
  /\ pc \in {"scan1", "scan2"} =>
       /\ phase = TRIMMING /\ ~last
       /\ IF Reverse THEN block.from < End ELSE block.to >= Start

(* A retry pass runs only while there are retries left.                    *)
RetriesLeft == pc = "pass" /\ phase = RETRYING => retries > 0

(* The sectors of a block that its trimming loops have not come to yet are *)
(* as they were.                                                           *)
Ahead ==
  IF pc = "scan1"
  THEN IF Reverse THEN block.from .. pos ELSE pos .. block.to - 1
  ELSE IF Reverse THEN pos .. err - 1 ELSE err + 1 .. pos
BlockAhead ==
  pc \in {"scan1", "scan2"} => \A x \in Ahead : x \in Sectors => map[x] = NONTRIMMED

IInv == TypeOK /\ Placed /\ RetriesLeft /\ BlockAhead

LEMMA UpOrDown ==
  /\ Up \in BOOLEAN
  /\ phase = TRIMMING => Up = ~Reverse
BY CloneRunAssumption DEF Up

(* A forward pass reads the first sectors of its kind from the position on. *)
ForwardChunk(q, n) ==
  /\ IsChunk(q, n) /\ Read(q, n)
  /\ q >= pos /\ q + n <= End
  /\ \A y \in pos .. q - 1 : map[y] # Sought

LEMMA ForwardReads ==
  ASSUME IInv, CopyForward
  PROVE  \E q, n : ForwardChunk(q, n)
<1>1. pc = "pass" /\ Up /\ pos \in Int /\ pos >= Start
  BY DEF CopyForward, Copying, IInv, TypeOK, Placed
<1>2. PICK q \in pos .. End - 1 :
        /\ IsNext(q)
        /\ \E l \in Lines(q) : Read(q, Least(Least(ClusterSize, l.to - q), End - q))
  BY DEF CopyForward
<1>3. q \in Nat /\ q >= pos /\ q < End
  BY <1>1, <1>2, CloneRunAssumption
<1>4. PICK l \in Lines(q) : Read(q, Least(Least(ClusterSize, l.to - q), End - q))
  BY <1>2
<1> DEFINE n == Least(Least(ClusterSize, l.to - q), End - q)
<1>5. /\ l.from \in Nat /\ l.to \in Nat /\ l.from <= q /\ q < l.to /\ l.to <= Size
      /\ \A y \in l.from .. l.to - 1 : map[y] = map[q]
  BY <1>3, <1>4, LineOf
<1>6. ClusterSize \in Nat \ {0}
  BY ClusterLeft
<1>7. n \in 1 .. ClusterSize /\ q + n <= End /\ q + n <= l.to
  BY <1>3, <1>5, <1>6, CloneRunAssumption DEF Least
<1> HIDE DEF n
<1>8. \A x \in Chunk(q, n) : map[x] = Sought
  BY <1>2, <1>3, <1>5, <1>6, <1>7 DEF Chunk, IsNext
<1>9. IsChunk(q, n)
  <2>1. q + n <= Size
    BY <1>3, <1>5, <1>6, <1>7, CloneRunAssumption
  <2> QED
    BY <1>3, <1>7, <1>8, <2>1 DEF IsChunk
<1>10. Read(q, n)
  BY <1>4 DEF n
<1> QED
  BY <1>2, <1>3, <1>7, <1>9, <1>10 DEF ForwardChunk, IsNext

LEMMA ReverseReads ==
  ASSUME IInv, CopyReverseHere \/ CopyReverseBelow
  PROVE  \E q, n : IsChunk(q, n) /\ Read(q, n)
<1>1. /\ pc = "pass" /\ ~Up /\ pos \in Int /\ pos < End /\ pos > Start
      /\ ClusterSize \in Nat \ {0} /\ {Start, End, Size} \subseteq Nat
      /\ last => pos = End - 1
  BY ClusterLeft, CloneRunAssumption
     DEF CopyReverseHere, CopyReverseBelow, Copying, IInv, TypeOK, Placed
<1>2. ASSUME NEW x \in Nat, NEW l \in Lines(x), NEW q \in l.from .. l.to - 1, q < End,
             map[x] = Sought, ChunkAt(q, l)
      PROVE  \E n : IsChunk(q, n) /\ Read(q, n)
  <2> DEFINE n == Least(Least(q + ClusterSize, l.to), End) - q
  <2>1. /\ l.from \in Nat /\ l.to \in Nat /\ l.from <= x /\ x < l.to /\ l.to <= Size
        /\ \A y \in l.from .. l.to - 1 : map[y] = map[x]
    BY LineOf
  <2>2. n \in 1 .. ClusterSize /\ q + n <= l.to
    BY <1>1, <1>2, <2>1 DEF Least
  <2> HIDE DEF n
  <2>3. \A y \in Chunk(q, n) : map[y] = Sought
    BY <1>1, <1>2, <2>1, <2>2 DEF Chunk
  <2>4. Read(q, n)
    BY <1>2 DEF ChunkAt, n
  <2> QED
    BY <1>1, <1>2, <2>1, <2>2, <2>3, <2>4 DEF IsChunk
<1>3. CASE CopyReverseHere
  <2>1. PICK l \in Lines(pos) :
          ChunkAt(Most((IF last THEN End ELSE pos) - ClusterSize, l.from), l)
    BY <1>3 DEF CopyReverseHere
  <2> DEFINE q == Most((IF last THEN End ELSE pos) - ClusterSize, l.from)
  <2>2. pos \in Nat /\ map[pos] = Sought
    BY <1>1, <1>3 DEF CopyReverseHere
  <2>3. l.from \in Nat /\ l.to \in Nat /\ l.from <= pos /\ pos < l.to
    BY <2>2, LineOf
  <2>4. q < End /\ q >= l.from /\ q \in Int
    BY <1>1, <2>3 DEF Most
  <2>5. q < l.to
    BY <1>1, <2>3 DEF Most
  <2>6. q \in l.from .. l.to - 1 /\ ChunkAt(q, l)
    BY <2>1, <2>3, <2>4, <2>5
  <2> HIDE DEF q
  <2> QED
    BY <1>2, <2>2, <2>4, <2>6
<1>4. CASE CopyReverseBelow
  <2>1. PICK x \in Start .. pos - 1 :
          /\ IsPrevious(x)
          /\ \E l \in {m \in Lines(x) : m.to = x + 1} :
               ChunkAt(Most(Most(l.to - ClusterSize, l.from), Start), l)
    BY <1>4 DEF CopyReverseBelow
  <2>2. PICK l \in Lines(x) :
          l.to = x + 1 /\ ChunkAt(Most(Most(l.to - ClusterSize, l.from), Start), l)
    BY <2>1
  <2> DEFINE q == Most(Most(l.to - ClusterSize, l.from), Start)
  <2>3. x \in Nat /\ x < End /\ x >= Start /\ map[x] = Sought
    BY <1>1, <2>1 DEF IsPrevious
  <2>4. l.from \in Nat /\ l.to \in Nat /\ l.from <= x /\ l.to = x + 1
    BY <2>2, <2>3, LineOf
  <2>5. q \in l.from .. l.to - 1 /\ q < End
    BY <1>1, <2>3, <2>4 DEF Most
  <2> QED
    BY <1>2, <2>2, <2>3, <2>5
<1> QED
  BY <1>3, <1>4

-----------------------------------------------------------------------------
(* The invariant is inductive.                                             *)
LEMMA InitIInv == Init => IInv
<1> SUFFICES ASSUME Init PROVE IInv
  OBVIOUS
<1>1. TypeOK
  <2>1. map \in [Sectors -> Kinds]
    BY DEF Init, Kinds
  <2>2. /\ retries \in Nat /\ block \in [from : 0 .. Size, to : 0 .. Size]
        /\ err \in 0 .. Size /\ phase \in Phases /\ pos \in Int
    BY CloneRunAssumption DEF Init, NoBlock, Phases, Passes
  <2> QED
    BY <2>1, <2>2 DEF Init, TypeOK
<1> QED
  BY <1>1 DEF Init, IInv, Placed, RetriesLeft, BlockAhead

LEMMA FollowingPhase == \A p \in Phases : Following(p) \in Phases
BY DEF Following, Phases, Passes

LEMMA SameUp == ASSUME phase' = phase PROVE Up' = Up
BY DEF Up

LEMMA ReadIInv ==
  ASSUME IInv, pc = "pass", NEW q, NEW n, IsChunk(q, n), Read(q, n), Up => q >= Start
  PROVE  IInv'
<1>1. ReadMarks(q, n) /\ ReadLeaves(q, n)
  BY ReadDoes, ReadGoesOn DEF IInv
<1>2. q \in Nat /\ n \in Nat \ {0} /\ q < End
  BY ChunkBounds
<1>3. UNCHANGED <<weak, dead, phase, rollover, retries, block, err, reading>>
  BY <1>1 DEF ReadLeaves, run, trim
<1>4. TypeOK'
  <2>1. data' \subseteq Sectors /\ map' \in [Sectors -> Kinds]
    BY <1>1, ChunkInSource DEF ReadMarks, IInv, TypeOK
  <2>2. retried' \subseteq Sectors /\ last' = FALSE
    BY <1>1, ChunkInSource DEF ReadLeaves, IInv, TypeOK
  <2>3. pos' \in Int /\ pc' \in {"pass", "idle"}
    BY <1>1 DEF ReadLeaves
  <2> QED
    BY <1>3, <2>1, <2>2, <2>3 DEF IInv, TypeOK
<1>5. Placed'
  <2>1. pc' \in {"pass", "idle"} /\ last' = FALSE /\ pos' \in Int
    BY <1>1 DEF ReadLeaves
  <2>2. ASSUME pc' = "pass" PROVE IF Up THEN pos' >= Start ELSE pos' < End
    BY <1>1, <1>2, <2>2, UpOrDown, CloneRunAssumption DEF ReadLeaves
  <2> QED
    BY <1>3, <2>1, <2>2, SameUp DEF Placed
<1> QED
  BY <1>1, <1>3, <1>4, <1>5 DEF IInv, RetriesLeft, BlockAhead, ReadLeaves

LEMMA CopyIInv ==
  ASSUME IInv, CopyForward \/ CopyReverseHere \/ CopyReverseBelow
  PROVE  IInv'
<1>1. CASE CopyForward
  <2>1. PICK q, n : ForwardChunk(q, n)
    BY <1>1, ForwardReads
  <2>2. pc = "pass" /\ Up /\ pos \in Int /\ pos >= Start /\ Start \in Nat
    BY <1>1, CloneRunAssumption DEF CopyForward, Copying, IInv, TypeOK, Placed
  <2>3. IsChunk(q, n) /\ Read(q, n) /\ q >= Start
    BY <2>1, <2>2, ChunkBounds DEF ForwardChunk
  <2> QED
    BY <2>2, <2>3, ReadIInv
<1>2. CASE CopyReverseHere \/ CopyReverseBelow
  <2>1. PICK q, n : IsChunk(q, n) /\ Read(q, n)
    BY <1>2, ReverseReads
  <2>2. pc = "pass" /\ ~Up
    BY <1>2 DEF CopyReverseHere, CopyReverseBelow, Copying
  <2> QED
    BY <2>1, <2>2, ReadIInv
<1> QED
  BY <1>1, <1>2

LEMMA PassEndIInv ==
  ASSUME IInv, pc = "pass", PassEnd
  PROVE  IInv'
<1>1. /\ pc' = "next" /\ retried' = {} /\ rollover' = TRUE /\ phase' = Following(phase)
      /\ UNCHANGED <<map, data, weak, dead, pos, block, err, reading, last>>
  BY DEF PassEnd, drive, trim
<1>2. retries' \in Nat
  BY DEF PassEnd, IInv, RetriesLeft, TypeOK
<1>3. phase' \in Phases
  BY <1>1, FollowingPhase DEF IInv, TypeOK
<1> QED
  BY <1>1, <1>2, <1>3 DEF IInv, TypeOK, Placed, RetriesLeft, BlockAhead

(* A pass takes a block to trim.                                           *)
LEMMA TrimIInv ==
  ASSUME IInv, TrimForward \/ TrimReverse
  PROVE  IInv'
<1>1. /\ pc = "pass" /\ phase = TRIMMING /\ Sought = NONTRIMMED /\ pos \in Int
      /\ {Start, End, Size} \subseteq Nat
      /\ IF Reverse THEN pos < End ELSE pos >= Start
  BY UpOrDown, CloneRunAssumption
     DEF TrimForward, TrimReverse, Trimming, IInv, TypeOK, Placed, Sought
<1>2. PICK x, l :
        /\ x \in Nat
        /\ l \in Lines(x) /\ map[x] = NONTRIMMED /\ TrimBlock(l)
        /\ IF Reverse THEN x < End ELSE x >= Start
  <2>1. CASE TrimForward
    <3>1. PICK x \in pos .. End - 1 : IsNext(x) /\ \E l \in Lines(x) : TrimBlock(l)
      BY <2>1 DEF TrimForward
    <3>2. ~Reverse /\ x \in Nat /\ x >= Start /\ map[x] = NONTRIMMED
      BY <1>1, <2>1, <3>1 DEF TrimForward, IsNext
    <3> QED
      BY <3>1, <3>2
  <2>2. CASE TrimReverse
    <3>1. PICK x \in Most(Start - 1, 0) .. pos : IsPrevious(x) /\ \E l \in Lines(x) : TrimBlock(l)
      BY <2>2 DEF TrimReverse
    <3>2. Reverse /\ x \in Nat /\ x < End /\ map[x] = NONTRIMMED
      BY <1>1, <2>2, <3>1 DEF TrimReverse, IsPrevious, Most
    <3> QED
      BY <3>1, <3>2
  <2> QED
    BY <2>1, <2>2
<1>3. /\ l.from \in Nat /\ l.to \in Nat /\ l.from <= x /\ x < l.to /\ l.to <= Size
      /\ \A y \in l.from .. l.to - 1 : map[y] = NONTRIMMED
      /\ l \in [from : 0 .. Size, to : 0 .. Size]
  <2>1. /\ l.from \in Nat /\ l.to \in Nat /\ l.from <= x /\ x < l.to /\ l.to <= Size
        /\ \A y \in l.from .. l.to - 1 : map[y] = map[x]
    BY <1>2, LineOf
  <2>2. l \in [from : 0 .. x, to : x + 1 .. Size]
    BY <1>2 DEF Lines
  <2>3. 0 .. x \subseteq 0 .. Size /\ x + 1 .. Size \subseteq 0 .. Size
    BY <1>1, <1>2, <2>1
  <2> QED
    BY <1>2, <2>1, <2>2, <2>3
<1>4. /\ block' = l /\ reading' = TRUE /\ pc' = "scan1" /\ last' = FALSE
      /\ pos' = IF Reverse THEN l.to - 1 ELSE l.from
      /\ UNCHANGED <<map, data, weak, dead, phase, rollover, retries, retried, err>>
  BY <1>2 DEF TrimBlock, run
<1>5. TypeOK'
  <2>1. pos' \in Int /\ pc' = "scan1" /\ block' \in [from : 0 .. Size, to : 0 .. Size]
    BY <1>3, <1>4
  <2> QED
    BY <1>4, <2>1 DEF IInv, TypeOK
<1>6. Placed' /\ RetriesLeft'
  BY <1>1, <1>2, <1>3, <1>4 DEF Placed, RetriesLeft
<1>7. BlockAhead'
  BY <1>3, <1>4 DEF BlockAhead, Ahead
<1> QED
  BY <1>5, <1>6, <1>7 DEF IInv

(* The trimming loops.                                                     *)
LEMMA ScanStill ==
  ASSUME IInv, ScanEnd \/ ScanBeyond
  PROVE  IInv'
<1>1. /\ pc \in {"scan1", "scan2"} /\ phase = TRIMMING /\ ~last /\ pos \in Int
      /\ IF Reverse THEN block.from < End ELSE block.to >= Start
      /\ block.from \in 0 .. Size /\ block.to \in 0 .. Size /\ err \in Nat /\ Size \in Nat
      /\ Up = ~Reverse
  BY UpOrDown, CloneRunAssumption
     DEF ScanEnd, ScanBeyond, Scanning, IInv, TypeOK, Placed
<1>2. CASE ScanEnd
  <2>1. /\ pos' = Passed /\ pc' = "pass" /\ block' = NoBlock /\ err' = 0 /\ reading' = FALSE
        /\ UNCHANGED <<map, data, weak, dead, phase, rollover, retries, retried, last>>
    BY <1>2 DEF ScanEnd, BlockLeft, run
  <2>2. TypeOK'
    <3>1. pos' \in Int /\ err' \in 0 .. Size /\ block' \in [from : 0 .. Size, to : 0 .. Size]
      BY <1>1, <2>1 DEF Passed, NoBlock
    <3> QED
      BY <2>1, <3>1 DEF IInv, TypeOK
  <2>3. Placed'
    <3>1. Up' = ~Reverse /\ pos' = (IF Reverse THEN block.from ELSE block.to) /\ ~last'
      BY <1>1, <2>1, SameUp DEF Passed
    <3> QED
      BY <1>1, <2>1, <3>1 DEF Placed
  <2> QED
    BY <1>1, <2>1, <2>2, <2>3 DEF IInv, RetriesLeft, BlockAhead
<1>3. CASE ScanBeyond
  <2>1. /\ reading' = FALSE /\ pos' = ScanNext
        /\ UNCHANGED <<map, data, weak, dead, phase, rollover, retries, pc, retried, block, err, last>>
    BY <1>3 DEF ScanBeyond, run
  <2>2. TypeOK'
    <3>1. pos' \in Int
      BY <1>1, <2>1 DEF ScanNext
    <3> QED
      BY <2>1, <3>1 DEF IInv, TypeOK
  <2>3. BlockAhead'
    <3>1. Ahead' \subseteq Ahead
      BY <1>1, <2>1, CloneRunAssumption DEF Ahead, ScanNext
    <3> QED
      BY <1>1, <2>1, <3>1 DEF IInv, BlockAhead
  <2> QED
    BY <1>1, <2>1, <2>2, <2>3 DEF IInv, Placed, RetriesLeft
<1> QED
  BY <1>2, <1>3

(* What a failed read in a trimming loop marks.                            *)
LEMMA ScanErrorMarks ==
  ASSUME IInv, ScanRead, NEW k \in {BAD, NONSCRAPED}, ScanError(k)
  PROVE  /\ map' \in [Sectors -> Kinds]
         /\ \A x \in Sectors :
              \/ map'[x] = map[x]
              \/ x = pos /\ map'[x] = k
              \/ x # pos /\ x \in Ahead /\ map'[x] = NONSCRAPED
<1>1. /\ pc \in {"scan1", "scan2"} /\ pos \in block.from .. block.to - 1 /\ err \in Nat
      /\ pc = "scan2" => IF Reverse THEN pos < err ELSE pos > err
      /\ block.from \in 0 .. Size /\ block.to \in 0 .. Size /\ Size \in Nat
      /\ map \in [Sectors -> Kinds] /\ {k, NONSCRAPED} \subseteq Kinds
  BY CloneRunAssumption DEF ScanRead, Scanning, ScanOver, IInv, TypeOK, Kinds
<1>2. DEFINE far == IF pc = "scan2" THEN err ELSE IF Reverse THEN block.from - 1 ELSE block.to
<1>3. \A x \in Sectors : Between(x, pos, far) => x # pos /\ x \in Ahead
  BY <1>1 DEF Between, Ahead, Sectors
<1>4. \/ map' = Marked(pos, 1, k)
      \/ map' = [x \in Sectors |-> IF x = pos THEN k
                                   ELSE IF Between(x, pos, far) THEN NONSCRAPED ELSE map[x]]
  BY DEF ScanError
<1> HIDE DEF far
<1>5. Chunk(pos, 1) = {pos}
  BY <1>1 DEF Chunk
<1> QED
  BY <1>1, <1>3, <1>4, <1>5 DEF Marked

LEMMA MarkedOne ==
  ASSUME TypeOK, NEW q \in Int, NEW k \in Kinds
  PROVE  /\ Marked(q, 1, k) \in [Sectors -> Kinds]
         /\ \A x \in Sectors : Marked(q, 1, k)[x] = IF x = q THEN k ELSE map[x]
<1>1. Chunk(q, 1) = {q}
  BY DEF Chunk
<1> QED
  BY <1>1 DEF Marked, TypeOK

LEMMA ScanReadIInv ==
  ASSUME IInv, ScanRead
  PROVE  IInv'
<1>1. /\ pc \in {"scan1", "scan2"} /\ phase = TRIMMING /\ ~last /\ Left = NONSCRAPED
      /\ pos \in Int /\ pos \in block.from .. block.to - 1 /\ err \in 0 .. Size
      /\ pc = "scan2" => IF Reverse THEN pos < err ELSE pos > err
      /\ IF Reverse THEN block.from < End ELSE block.to >= Start
      /\ block \in [from : 0 .. Size, to : 0 .. Size]
      /\ block.from \in 0 .. Size /\ block.to \in 0 .. Size /\ Size \in Nat
      /\ Up = ~Reverse /\ TypeOK
  BY UpOrDown, CloneRunAssumption
     DEF ScanRead, Scanning, ScanOver, IInv, TypeOK, Placed, Left
<1>2. UNCHANGED <<weak, dead, phase, rollover, retries, retried, last>>
  BY DEF ScanRead, run
<1>3. NoBlock \in [from : 0 .. Size, to : 0 .. Size] /\ 0 \in 0 .. Size
  BY <1>1 DEF NoBlock
<1>4. pos \in Sectors /\ pos \in 0 .. Size
  BY <1>1 DEF Sectors
<1>5. CASE ReadInVain(pos) /\ BlockLeft
  BY <1>1, <1>2, <1>3, <1>5
     DEF ReadInVain, GiveUp, BlockLeft, IInv, TypeOK, Placed, RetriesLeft, BlockAhead
<1>6. CASE /\ map' = Marked(pos, 1, FINISHED) /\ data' = data \cup {pos}
           /\ pos' = ScanNext /\ UNCHANGED <<pc, trim>>
  <2>1. UNCHANGED <<pc, block, err, reading>> /\ pos' \in Int /\ FINISHED \in Kinds
    BY <1>1, <1>6 DEF trim, ScanNext, Kinds
  <2>2. /\ map' \in [Sectors -> Kinds]
        /\ \A x \in Sectors : x # pos => map'[x] = map[x]
    BY <1>1, <1>6, <2>1, MarkedOne
  <2>3. TypeOK'
    BY <1>1, <1>2, <1>4, <1>6, <2>1, <2>2 DEF TypeOK
  <2>4. Ahead' \subseteq Ahead \ {pos}
    BY <1>1, <1>6, <2>1, CloneRunAssumption DEF Ahead, ScanNext
  <2>5. BlockAhead'
    BY <1>1, <2>1, <2>2, <2>4 DEF IInv, BlockAhead
  <2> QED
    BY <1>1, <1>2, <2>1, <2>3, <2>5 DEF IInv, Placed, RetriesLeft
<1>7. ASSUME NEW k \in FailedKinds(1), ScanError(k), UNCHANGED data
      PROVE  IInv'
  <2>1. k \in {BAD, NONSCRAPED} /\ k \in Kinds
    BY <1>1 DEF FailedKinds, Kinds
  <2>2. map' \in [Sectors -> Kinds]
    BY <1>7, <2>1, ScanErrorMarks
  <2>3. CASE /\ map' = Marked(pos, 1, k) /\ err' = pos /\ pc' = "scan2" /\ reading' = TRUE
             /\ pos' = (IF Reverse THEN block.from ELSE block.to - 1) /\ UNCHANGED block
             /\ pc = "scan1"
    <3>1. \A x \in Sectors : x # pos => map'[x] = map[x]
      BY <1>1, <2>1, <2>3, MarkedOne
    <3>2. TypeOK'
      <4>1. pos' \in Int /\ err' \in 0 .. Size
        BY <1>1, <1>4, <2>3
      <4> QED
        BY <1>1, <1>2, <1>7, <2>2, <2>3, <4>1 DEF TypeOK
    <3>3. Ahead' \subseteq Ahead \ {pos}
      BY <1>1, <2>3, CloneRunAssumption DEF Ahead
    <3>4. BlockAhead'
      BY <2>3, <3>1, <3>3 DEF IInv, BlockAhead
    <3> QED
      BY <1>1, <1>2, <2>3, <3>2, <3>4 DEF IInv, Placed, RetriesLeft
  <2>4. CASE pc' \in {"pass", "idle"} /\ pos' \in {pos, Passed} /\ BlockLeft /\ (pc' = "pass" => pos' = Passed)
    <3>1. /\ err' = 0 /\ reading' = FALSE /\ block' \in [from : 0 .. Size, to : 0 .. Size]
          /\ pos' \in Int
      BY <1>1, <1>3, <2>4 DEF BlockLeft, Passed
    <3>2. TypeOK'
      BY <1>1, <1>2, <1>3, <1>7, <2>2, <2>4, <3>1 DEF TypeOK
    <3>3. Up' = ~Reverse /\ ~last' /\ (pc' = "pass" => pos' = (IF Reverse THEN block.from ELSE block.to))
      BY <1>1, <1>2, <2>4, SameUp DEF Passed
    <3>4. Placed' /\ RetriesLeft' /\ BlockAhead'
      <4>1. pc' \notin {"scan1", "scan2"} /\ phase' = TRIMMING
        BY <1>1, <1>2, <2>4
      <4>2. Placed'
        BY <1>1, <3>3, <4>1 DEF Placed
      <4> QED
        BY <4>1, <4>2 DEF RetriesLeft, BlockAhead
    <3> QED
      BY <3>2, <3>4 DEF IInv
  <2> QED
    BY <1>7, <2>3, <2>4 DEF ScanError, GiveUp
<1> QED
  BY <1>5, <1>6, <1>7 DEF ScanRead

(* The steps between the reads: they leave the log and the data alone.     *)
Quiet ==
  \/ Begin \/ PassOff \/ PassStart \/ RunEnd \/ Stop \/ RateSkip

LEMMA QuietIInv ==
  ASSUME IInv, Quiet
  PROVE  IInv'
<1>1. /\ {Start, End, Size, Retries} \subseteq Nat /\ Start < End /\ TypeOK
      /\ Up \in BOOLEAN
  BY CloneRunAssumption, UpOrDown DEF IInv
<1>2. CASE Begin \/ PassOff \/ RunEnd
  <2>1. /\ pc' \in {"idle", "next"} /\ phase' \in Phases /\ pos' \in Int
        /\ retries' \in Nat /\ rollover' \in BOOLEAN
    <3>1. {PHASE3, RETRYING, FINISHED} \subseteq Phases
      BY DEF Phases, Passes
    <3>2. CASE Begin
      <4>1. pc' = "next" /\ rollover' \in BOOLEAN
        BY <3>2 DEF Begin
      <4>2. retries' \in Nat
        BY <1>1, <3>2 DEF Begin
      <4>3. phase' \in Phases
        BY <1>1, <3>1, <3>2 DEF Begin, TypeOK
      <4>4. pos' \in Int
        BY <1>1, <3>2 DEF Begin, TypeOK
      <4> QED
        BY <4>1, <4>2, <4>3, <4>4
    <3>3. CASE PassOff
      BY <1>1, <3>3, FollowingPhase DEF PassOff, TypeOK
    <3>4. CASE RunEnd
      <4>1. phase' \in Phases
        BY <1>1, <3>1, <3>4 DEF RunEnd, TypeOK
      <4>2. pc' \in {"idle", "next"} /\ rollover' \in BOOLEAN
        BY <1>1, <3>4 DEF RunEnd, TypeOK
      <4> QED
        BY <1>1, <3>4, <4>1, <4>2 DEF RunEnd, TypeOK
    <3> QED
      BY <1>2, <3>2, <3>3, <3>4
  <2>2. UNCHANGED <<map, data, weak, dead, retried, block, err, reading, last>>
    BY <1>2 DEF Begin, PassOff, RunEnd, drive, trim
  <2> QED
    BY <1>1, <2>1, <2>2 DEF IInv, TypeOK, Placed, RetriesLeft, BlockAhead
<1>3. CASE PassStart
  <2>1. /\ pc' = "pass" /\ last' \in BOOLEAN /\ (phase = RETRYING => retries > 0)
        /\ UNCHANGED <<map, data, weak, dead, phase, rollover, retries, retried, block, err, reading>>
    BY <1>3 DEF PassStart, run, trim
  <2>2. PICK p \in Int :
          /\ pos' = IF Up THEN Most(p, Start) ELSE Least(p, End - 1)
          /\ last' = (~Up /\ p >= End)
    BY <1>1, <1>3 DEF PassStart, Origin, TypeOK
  <2>3. /\ pos' \in Int /\ (IF Up THEN pos' >= Start ELSE pos' < End)
        /\ last' => pos' = End - 1
    <3> last' => ~Up /\ p >= End
      BY <2>2, Zenon
    <3>1. CASE Up
      BY <1>1, <2>2, <3>1 DEF Most
    <3>2. CASE ~Up
      BY <1>1, <2>2, <3>2 DEF Least
    <3> QED
      BY <1>1, <3>1, <3>2
  <2>4. TypeOK'
    BY <1>1, <2>1, <2>3 DEF TypeOK
  <2> QED
    BY <2>1, <2>3, <2>4, SameUp DEF IInv, Placed, RetriesLeft, BlockAhead
<1>4. CASE Stop
  <2>1. NoBlock \in [from : 0 .. Size, to : 0 .. Size] /\ 0 \in 0 .. Size
    BY <1>1 DEF NoBlock
  <2> QED
    BY <1>1, <1>4, <2>1
       DEF Stop, BlockLeft, run, IInv, TypeOK, Placed, RetriesLeft, BlockAhead
<1>5. CASE RateSkip
  <2>1. /\ pc = "pass" /\ pc' = "pass" /\ last' = FALSE
        /\ UNCHANGED <<map, data, weak, dead, phase, rollover, retries, retried, block, err, reading>>
    BY <1>5 DEF RateSkip, run, trim
  <2>2. /\ pos' \in Int /\ (Up => pos' >= pos) /\ (~Up => pos' <= pos) /\ pos \in Int
    BY <1>1, <1>5, CloneRunAssumption DEF RateSkip, Jump, TypeOK
  <2>3. TypeOK'
    BY <1>1, <2>1, <2>2 DEF TypeOK
  <2>4. Placed'
    BY <1>1, <2>1, <2>2, SameUp DEF IInv, Placed
  <2> QED
    BY <2>1, <2>3, <2>4 DEF IInv, RetriesLeft, BlockAhead
<1> QED
  BY <1>2, <1>3, <1>4, <1>5 DEF Quiet

LEMMA ResetIInv ==
  ASSUME IInv, Reset
  PROVE  IInv'
<1>1. map' \in [Sectors -> Kinds] /\ phase' \in Phases /\ pos' \in Int
  BY DEF Reset, Kinds, Phases, Passes
<1> QED
  BY <1>1 DEF Reset, drive, trim, IInv, TypeOK, Placed, RetriesLeft, BlockAhead

PassOver == CopyForwardEnd \/ CopyReverseEnd \/ TrimForwardEnd \/ TrimReverseEnd

LEMMA PassOverIs ==
  ASSUME PassOver
  PROVE  pc = "pass" /\ PassEnd
BY DEF PassOver, CopyForwardEnd, CopyReverseEnd, TrimForwardEnd, TrimReverseEnd,
       Copying, Trimming

(* The kinds of steps the system takes.                                    *)
LEMMA Steps ==
  ASSUME [Next]_vars
  PROVE  \/ Quiet \/ PassOver \/ Reset
         \/ CopyForward \/ CopyReverseHere \/ CopyReverseBelow
         \/ TrimForward \/ TrimReverse \/ ScanEnd \/ ScanBeyond \/ ScanRead
         \/ UNCHANGED vars
BY DEF Next, Turn, Copy, Trim, Quiet, PassOver

LEMMA StepIInv ==
  ASSUME IInv, [Next]_vars
  PROVE  IInv'
<1>1. CASE UNCHANGED vars
  BY <1>1 DEF vars, IInv, TypeOK, Placed, Up, RetriesLeft, BlockAhead, Ahead
<1>2. CASE PassOver
  BY <1>2, PassOverIs, PassEndIInv
<1> QED
  BY <1>1, <1>2, Steps, QuietIInv, ResetIInv, CopyIInv, TrimIInv, ScanStill, ScanReadIInv

(* The kinds, phases, positions and counters keep their types, whatever    *)
(* the range, the sizes and the phases that are turned off.                *)
THEOREM TypeCorrect == Spec => []TypeOK
<1>1. Init => IInv
  BY InitIInv
<1>2. IInv /\ [Next]_vars => IInv'
  BY StepIInv
<1>3. IInv => TypeOK
  BY DEF IInv
<1> QED
  BY <1>1, <1>2, <1>3, PTL DEF Spec

-----------------------------------------------------------------------------
(* What a step of a run does to a sector: nothing, or it takes a sector of *)
(* the kind the pass looks for and either copies it or gives it the kind   *)
(* the pass leaves, or BAD when the drive can fail at it.                  *)
SectorStep(x) ==
  \/ map'[x] = map[x]
  \/ map[x] = Sought /\ map'[x] = FINISHED /\ x \in data'
  \/ map[x] = Sought /\ map'[x] \in {BAD, Left} /\ (map'[x] = BAD => x \in weak)

LEMMA ReadSectorStep ==
  ASSUME IInv, NEW q, NEW n, IsChunk(q, n), Read(q, n)
  PROVE  (\A x \in Sectors : SectorStep(x)) /\ data \subseteq data'
<1>1. ReadMarks(q, n)
  BY ReadDoes DEF IInv
<1>2. \A x \in Chunk(q, n) : map[x] = Sought
  BY DEF IsChunk
<1> QED
  BY <1>1, <1>2 DEF ReadMarks, MarkedAs, SectorStep

LEMMA ScanSectorStep ==
  ASSUME IInv, ScanRead
  PROVE  (\A x \in Sectors : SectorStep(x)) /\ data \subseteq data'
<1>1. /\ pc \in {"scan1", "scan2"} /\ phase = TRIMMING /\ Left = NONSCRAPED /\ Sought = NONTRIMMED
      /\ pos \in block.from .. block.to - 1 /\ err \in Nat
      /\ pc = "scan2" => IF Reverse THEN pos < err ELSE pos > err
      /\ block.from \in 0 .. Size /\ block.to \in 0 .. Size /\ Size \in Nat
      /\ TypeOK /\ \A x \in Ahead : x \in Sectors => map[x] = NONTRIMMED
  BY CloneRunAssumption
     DEF ScanRead, Scanning, ScanOver, IInv, TypeOK, Placed, BlockAhead, Left, Sought
<1>2. pos \in Ahead /\ pos \in Sectors /\ Chunk(pos, 1) = {pos}
  BY <1>1 DEF Ahead, Sectors, Chunk
<1>3. map[pos] = Sought
  BY <1>1, <1>2
<1>4. CASE ReadInVain(pos)
  BY <1>4 DEF ReadInVain, SectorStep
<1>5. CASE map' = Marked(pos, 1, FINISHED) /\ data' = data \cup {pos}
  BY <1>2, <1>3, <1>5 DEF Marked, SectorStep
<1>6. ASSUME NEW k \in FailedKinds(1), ScanError(k), UNCHANGED data, CanFail(pos, 1)
      PROVE  \A x \in Sectors : SectorStep(x)
  <2>1. k \in {BAD, NONSCRAPED} /\ pos \in weak
    BY <1>1, <1>2, <1>6 DEF FailedKinds, CanFail
  <2>2. \A x \in Sectors :
          \/ map'[x] = map[x]
          \/ x = pos /\ map'[x] = k
          \/ x # pos /\ x \in Ahead /\ map'[x] = NONSCRAPED
    BY <1>6, <2>1, ScanErrorMarks
  <2> QED
    BY <1>1, <1>3, <2>1, <2>2 DEF SectorStep
<1> QED
  BY <1>4, <1>5, <1>6 DEF ScanRead

LEMMA StepSectors ==
  ASSUME IInv, [Next]_vars, ~Reset
  PROVE  (\A x \in Sectors : SectorStep(x)) /\ data \subseteq data'
<1>1. CASE UNCHANGED <<map, data>>
  BY <1>1 DEF SectorStep
<1>2. Quiet \/ PassOver \/ TrimForward \/ TrimReverse \/ ScanEnd \/ ScanBeyond \/ UNCHANGED vars
      => UNCHANGED <<map, data>>
  BY DEF Quiet, Begin, PassOff, PassStart, RunEnd, Stop, RateSkip, PassOver, CopyForwardEnd,
         CopyReverseEnd, TrimForwardEnd, TrimReverseEnd, PassEnd, TrimForward, TrimReverse,
         TrimBlock, ScanEnd, ScanBeyond, vars
<1>3. CASE CopyForward
  BY <1>3, ForwardReads, ReadSectorStep DEF ForwardChunk
<1>4. CASE CopyReverseHere \/ CopyReverseBelow
  BY <1>4, ReverseReads, ReadSectorStep
<1> QED
  BY <1>1, <1>2, <1>3, <1>4, Steps, ScanSectorStep

LEMMA StepData ==
  ASSUME IInv, DataFollowsLog, [Next]_vars
  PROVE  DataFollowsLog' /\ data \subseteq data'
<1>1. CASE Reset
  BY <1>1 DEF Reset, DataFollowsLog
<1>2. CASE ~Reset
  <2>1. (\A x \in Sectors : SectorStep(x)) /\ data \subseteq data'
    BY <1>2, StepSectors
  <2>2. Left # FINISHED
    BY SoughtLeft
  <2> QED
    BY <2>1, <2>2 DEF DataFollowsLog, SectorStep
<1> QED
  BY <1>1, <1>2

(* FINISHED means read and written to the destination, for every drive and *)
(* every history of runs, stops and resets, in either direction.           *)
THEOREM DataFollows == Spec => []DataFollowsLog
<1>1. Init => IInv /\ DataFollowsLog
  BY InitIInv DEF Init, DataFollowsLog
<1>2. IInv /\ DataFollowsLog /\ [Next]_vars => IInv' /\ DataFollowsLog'
  BY StepIInv, StepData
<1> QED
  BY <1>1, <1>2, PTL DEF Spec

LEMMA StepGood ==
  ASSUME IInv, NoGoodSectorGivenUp, [Next]_vars
  PROVE  NoGoodSectorGivenUp' /\ weak' = weak
<1>1. weak' = weak
  BY Steps
     DEF Quiet, Begin, PassOff, PassStart, RunEnd, Stop, RateSkip, PassOver, CopyForwardEnd,
         CopyReverseEnd, TrimForwardEnd, TrimReverseEnd, PassEnd, TrimForward, TrimReverse,
         TrimBlock, ScanEnd, ScanBeyond, ScanRead, CopyForward, CopyReverseHere,
         CopyReverseBelow, ChunkAt, Read, Reset, drive, run, vars
<1>2. CASE Reset
  BY <1>1, <1>2 DEF Reset, NoGoodSectorGivenUp
<1>3. CASE ~Reset
  <2>1. \A x \in Sectors : SectorStep(x)
    BY <1>3, StepSectors
  <2> QED
    BY <1>1, <2>1 DEF NoGoodSectorGivenUp, SectorStep
<1> QED
  BY <1>1, <1>2, <1>3

(* Only sectors the drive can fail at are given up.                        *)
THEOREM GoodSectorsKept == Spec => []NoGoodSectorGivenUp
<1>1. Init => IInv /\ NoGoodSectorGivenUp
  BY InitIInv DEF Init, NoGoodSectorGivenUp
<1>2. IInv /\ NoGoodSectorGivenUp /\ [Next]_vars => IInv' /\ NoGoodSectorGivenUp'
  BY StepIInv, StepGood
<1> QED
  BY <1>1, <1>2, PTL DEF Spec

(* No run takes a sector back to an earlier kind, in either direction.     *)
THEOREM Forward == Spec => NeverBack
<1>1. Init => IInv
  BY InitIInv
<1>2. IInv /\ [Next]_vars => IInv'
  BY StepIInv
<1>3. ASSUME IInv, [Next]_vars
      PROVE  [pc # "idle" => \A x \in Sectors :
                 map'[x] # map[x] => map[x] # FINISHED /\ map'[x] > map[x]]_vars
  <2> SUFFICES ASSUME pc # "idle", NEW x \in Sectors, map'[x] # map[x]
               PROVE  map[x] # FINISHED /\ map'[x] > map[x]
    OBVIOUS
  <2>1. ~Reset
    BY DEF Reset
  <2>2. SectorStep(x)
    BY <1>3, <2>1, StepSectors
  <2> QED
    BY <2>2, SoughtLeft DEF SectorStep
<1> QED
  BY <1>1, <1>2, <1>3, PTL DEF Spec, NeverBack

-----------------------------------------------------------------------------
(* Nothing is forgotten.  Each kind but FINISHED and BAD has a last phase  *)
(* that looks for it, and that phase runs forward; a sector of such a kind *)
(* still has that phase before it, or is not yet behind its position.      *)
Unread == {NONTRIED, NONTRIMMED, NONDIVIDED, NONSCRAPED}
LastPass(k) ==
  CASE k = NONTRIED -> PHASE4
    [] k = NONTRIMMED -> DIVIDING1
    [] k = NONDIVIDED -> DIVIDING2
    [] OTHER -> SCRAPING
Awaits(x) ==
  map[x] \in Unread =>
    \/ phase < LastPass(map[x])
    \/ phase = LastPass(map[x]) /\ (x >= pos \/ (pc = "next" /\ rollover))
Awaited ==
  /\ \A x \in Range : Awaits(x)
  /\ DIVIDING2 \in Off => \A x \in Sectors : map[x] # NONDIVIDED

(* What a retry pass has passed it has read.                               *)
RetriedBelow ==
  phase = RETRYING /\ ~(pc = "next" /\ rollover) =>
    \A x \in Range : map[x] = BAD /\ x < pos => x \in retried

(* The user left the phases on that must leave nothing of their kind.      *)
Thorough == {PHASE4, DIVIDING1, SCRAPING} \cap Off = {}

LEMMA PhaseOrder ==
  /\ \A k \in Unread : LastPass(k) \in {PHASE4, DIVIDING1, DIVIDING2, SCRAPING}
  /\ \A k \in Unread, p \in Phases :
       p < LastPass(k) => Following(p) < LastPass(k) \/ Following(p) = LastPass(k)
  /\ Left \in Unread /\ phase \in Phases => phase < LastPass(Left)
  /\ \A k \in Unread : phase = LastPass(k) => Sought = k
  /\ DIVIDING2 \in Off => Left # NONDIVIDED
  /\ \A p \in Phases : Following(p) # RETRYING
BY DEF Unread, LastPass, Phases, Passes, Following, Left, Sought

LEMMA LastPassUp ==
  ASSUME ~Reverse, phase \in {PHASE4, DIVIDING1, DIVIDING2, SCRAPING, RETRYING}
  PROVE  Up
BY CloneRunAssumption DEF Up

LEMMA RangeInt == \A x \in Range : x \in Nat /\ x \in Sectors /\ x >= Start /\ x < End
BY CloneRunAssumption DEF Range, Sectors

LEMMA InitAwaited == Init => Awaited /\ RetriedBelow
<1> SUFFICES ASSUME Init PROVE Awaited /\ RetriedBelow
  OBVIOUS
<1>1. \A x \in Sectors : map[x] \in {NONTRIED, NONTRIMMED}
  BY DEF Init
<1>2. \A k \in {NONTRIED, NONTRIMMED} : PHASE1 < LastPass(k)
  BY DEF LastPass
<1> QED
  BY <1>1, <1>2, RangeInt DEF Init, Awaited, Awaits, RetriedBelow

(* Sectors of other kinds than a step's own stay awaited.                  *)
LEMMA StepAwaits ==
  ASSUME TypeOK, NEW x \in Sectors, Awaits(x), SectorStep(x), UNCHANGED phase,
         map'[x] = map[x] /\ phase = LastPass(map[x]) /\ map[x] \in Unread => Awaits(x)'
  PROVE  Awaits(x)'
<1>1. CASE map'[x] = map[x]
  BY <1>1 DEF Awaits
<1>2. CASE map'[x] = Left /\ Left \in Unread
  BY <1>2, PhaseOrder DEF Awaits, TypeOK
<1>3. CASE map'[x] \notin Unread
  BY <1>3 DEF Awaits
<1> QED
  BY <1>1, <1>2, <1>3 DEF SectorStep, Unread

LEMMA NoneDivided ==
  ASSUME Awaited, \A x \in Sectors : SectorStep(x), DIVIDING2 \in Off
  PROVE  \A x \in Sectors : map'[x] # NONDIVIDED
BY PhaseOrder DEF Awaited, SectorStep

LEMMA QuietAwaited ==
  ASSUME IInv, ~Reverse, Thorough, Awaited, Quiet
  PROVE  Awaited'
<1>1. UNCHANGED map /\ TypeOK /\ {Start, End} \subseteq Nat /\ Start < End
  BY CloneRunAssumption
     DEF Quiet, Begin, PassOff, PassStart, RunEnd, Stop, RateSkip, IInv
<1>2. ASSUME NEW x \in Range, map[x] \in Unread
      PROVE  Awaits(x)'
  <2>1. /\ x \in Nat /\ x >= Start /\ x < End /\ pos \in Int /\ phase \in Phases
        /\ LastPass(map[x]) \in {PHASE4, DIVIDING1, DIVIDING2, SCRAPING}
        /\ phase <= LastPass(map[x])
        /\ phase = LastPass(map[x]) => x >= pos \/ (pc = "next" /\ rollover)
    <3>1. Awaits(x) /\ pos \in Int /\ phase \in Phases
      BY <1>1 DEF Awaited, TypeOK
    <3>2. LastPass(map[x]) \in {PHASE4, DIVIDING1, DIVIDING2, SCRAPING}
      BY <1>2, PhaseOrder
    <3>3. phase \in Int
      BY <3>1 DEF Phases, Passes
    <3> QED
      BY <1>2, <3>1, <3>2, <3>3, RangeInt DEF Awaits
  <2>2. phase # FINISHED /\ phase # RETRYING
    BY <2>1
  <2>3. CASE Begin
    BY <1>1, <1>2, <2>1, <2>2, <2>3 DEF Begin, Awaits
  <2>4. CASE PassOff
    <3>1. phase < LastPass(map[x])
      <4>1. phase \in Off
        BY <2>4 DEF PassOff
      <4>2. map[x] = NONDIVIDED => DIVIDING2 \notin Off
        BY <1>2, RangeInt DEF Awaited
      <4> QED
        <5>1. ASSUME phase = LastPass(map[x]) PROVE FALSE
          <6>1. phase = DIVIDING2
            BY <2>1, <4>1, <5>1 DEF Thorough
          <6>2. map[x] = NONDIVIDED
            BY <1>2, <5>1, <6>1 DEF LastPass, Unread
          <6> QED
            BY <4>1, <4>2, <6>1, <6>2
        <5>2. phase \in Int
          BY <2>1 DEF Phases, Passes
        <5> QED
          BY <2>1, <5>1, <5>2
    <3> QED
      BY <1>1, <1>2, <2>1, <2>4, <3>1, PhaseOrder DEF PassOff, Awaits
  <2>5. CASE PassStart
    <3>1. phase' = phase
      BY <2>5 DEF PassStart, run
    <3>2. ASSUME phase = LastPass(map[x]) PROVE x >= pos'
      <4>1. Up /\ phase # PHASE2 /\ phase # PHASE1
        BY <2>1, <3>2, LastPassUp
      <4> QED
        BY <1>1, <2>1, <2>5, <3>2, <4>1 DEF PassStart, Origin, Most
    <3>3. phase < LastPass(map[x]) \/ phase = LastPass(map[x])
      BY <2>1 DEF Phases, Passes
    <3> QED
      BY <1>1, <3>1, <3>2, <3>3 DEF Awaits
  <2>6. CASE RunEnd
    BY <2>2, <2>6 DEF RunEnd
  <2>7. CASE Stop
    <3>1. pc # "next" /\ UNCHANGED <<phase, pos>>
      BY <2>7 DEF Stop, run
    <3>2. phase < LastPass(map[x]) \/ phase = LastPass(map[x])
      BY <2>1 DEF Phases, Passes
    <3> QED
      BY <1>1, <2>1, <3>1, <3>2 DEF Awaits
  <2>8. CASE RateSkip
    BY <1>1, <2>1, <2>8 DEF RateSkip, run, Awaits
  <2> QED
    BY <2>3, <2>4, <2>5, <2>6, <2>7, <2>8 DEF Quiet
<1> QED
  BY <1>1, <1>2 DEF Awaited, Awaits

LEMMA PassOverAwaited ==
  ASSUME IInv, ~Reverse, Awaited, PassOver
  PROVE  Awaited'
<1>1. /\ pc = "pass" /\ UNCHANGED map /\ pc' = "next" /\ rollover' = TRUE
      /\ phase' = Following(phase) /\ phase \in Phases
  BY PassOverIs DEF PassEnd, IInv, TypeOK
<1>2. ASSUME NEW x \in Range, map[x] \in Unread
      PROVE  phase < LastPass(map[x])
  <2>1. phase < LastPass(map[x]) \/ (phase = LastPass(map[x]) /\ x >= pos)
    BY <1>1, <1>2 DEF Awaited, Awaits
  <2>2. ASSUME phase = LastPass(map[x]), x >= pos PROVE FALSE
    <3>1. Up /\ phase # TRIMMING /\ map[x] = Sought
      BY <1>2, <2>2, PhaseOrder, LastPassUp
    <3>2. CopyForwardEnd
      BY <3>1 DEF PassOver, CopyReverseEnd, TrimForwardEnd, TrimReverseEnd, Trimming
    <3> QED
      BY <2>2, <3>1, <3>2 DEF CopyForwardEnd
  <2> QED
    BY <2>1, <2>2
<1> QED
  BY <1>1, <1>2, PhaseOrder DEF Awaited, Awaits

LEMMA CopyAwaited ==
  ASSUME IInv, ~Reverse, Awaited, CopyForward \/ CopyReverseHere \/ CopyReverseBelow
  PROVE  Awaited'
<1>1. /\ \A x \in Sectors : SectorStep(x)
      /\ TypeOK /\ pos \in Int /\ pc = "pass"
  BY ForwardReads, ReverseReads, ReadSectorStep
     DEF ForwardChunk, IInv, TypeOK, CopyForward, CopyReverseHere, CopyReverseBelow, Copying
<1>2. UNCHANGED phase
  BY DEF CopyForward, CopyReverseHere, CopyReverseBelow, ChunkAt, Read, run
<1>3. ASSUME NEW x \in Range, map'[x] = map[x], phase = LastPass(map[x]), map[x] \in Unread
      PROVE  Awaits(x)'
  <2>1. Up /\ phase \notin {PHASE1, PHASE2} /\ Sought = map[x] /\ Left # map[x]
    BY <1>1, <1>3, PhaseOrder, LastPassUp DEF TypeOK
  <2>2. x >= pos /\ x \in Int
    <3>1. Awaits(x) /\ ~(phase < LastPass(map[x]))
      BY <1>1, <1>3, PhaseOrder DEF Awaited, TypeOK, Phases, Passes
    <3> QED
      BY <1>1, <1>3, <3>1, RangeInt DEF Awaits
  <2>3. PICK q, n : ForwardChunk(q, n)
    BY <2>1, ForwardReads DEF CopyReverseHere, CopyReverseBelow
  <2>4. /\ pos' \in {q, q + n}
        /\ pos' = q \/ \A y \in Chunk(q, n) : map'[y] \in {FINISHED, BAD, Left}
        /\ q \in Nat /\ n \in Nat \ {0}
    BY <1>1, <2>1, <2>3, ReadGoesOn, ReadMarksAll, ChunkBounds DEF ForwardChunk, ReadLeaves
  <2>5. x >= q
    BY <1>1, <2>1, <2>2, <2>3, <2>4 DEF ForwardChunk
  <2>6. pos' = q \/ x \notin Chunk(q, n)
    BY <1>3, <2>1, <2>4 DEF Unread
  <2>7. x >= pos'
    BY <2>2, <2>4, <2>5, <2>6 DEF Chunk
  <2> QED
    BY <1>2, <1>3, <2>7 DEF Awaits
<1> QED
  BY <1>1, <1>2, <1>3, StepAwaits, NoneDivided, RangeInt DEF Awaited

LEMMA TrimAwaited ==
  ASSUME IInv, ~Reverse, Awaited, [Next]_vars,
         TrimForward \/ TrimReverse \/ ScanEnd \/ ScanBeyond \/ ScanRead
  PROVE  Awaited'
<1>1. phase = TRIMMING /\ UNCHANGED phase /\ TypeOK /\ ~Reset
  BY DEF TrimForward, TrimReverse, Trimming, TrimBlock, ScanEnd, ScanBeyond, ScanRead,
         Scanning, IInv, Placed, run, Reset
<1>2. \A x \in Sectors : SectorStep(x)
  BY <1>1, StepSectors
<1>3. \A x \in Sectors : map[x] \in Unread => phase # LastPass(map[x])
  BY <1>1, PhaseOrder
<1> QED
  BY <1>1, <1>2, <1>3, StepAwaits, NoneDivided, RangeInt DEF Awaited

LEMMA ResetAwaited ==
  ASSUME Awaited, Reset
  PROVE  Awaited'
<1>1. /\ \A x \in Sectors : map'[x] \in {FINISHED, NONTRIED}
      /\ phase' = PHASE1 /\ PHASE1 < LastPass(NONTRIED)
  BY DEF Reset, LastPass
<1> QED
  BY <1>1, RangeInt DEF Awaited, Awaits, Unread

LEMMA StepAwaited ==
  ASSUME IInv, ~Reverse, Thorough, Awaited, [Next]_vars
  PROVE  Awaited'
<1>1. CASE UNCHANGED vars
  <2>1. UNCHANGED <<map, phase, pos, pc, rollover>>
    BY <1>1 DEF vars
  <2>2. \A x \in Range : Awaits(x)' <=> Awaits(x)
    BY <2>1 DEF Awaits
  <2> QED
    BY <2>1, <2>2 DEF Awaited
<1> QED
  BY <1>1, Steps, QuietAwaited, PassOverAwaited, ResetAwaited, CopyAwaited, TrimAwaited

LEMMA AwaitedEnds ==
  ASSUME IInv, Awaited
  PROVE  NothingForgotten
<1> SUFFICES ASSUME Ended, NEW x \in Range
             PROVE  map[x] \in {FINISHED, BAD}
  BY DEF NothingForgotten
<1>1. map[x] \in Kinds
  BY RangeInt DEF IInv, TypeOK
<1>2. map[x] \notin Unread
  BY PhaseOrder DEF Awaited, Awaits, Ended
<1> QED
  BY <1>1, <1>2 DEF Kinds, Unread

(* When a forward run with phase 4, dividing and scraping says it is       *)
(* finished, every sector of the range is copied or BAD, however often it  *)
(* was stopped, resumed and reset on the way.                              *)
THEOREM NoneForgotten == ~Reverse /\ Thorough => (Spec => []NothingForgotten)
<1> SUFFICES ASSUME ~Reverse, Thorough
             PROVE  Spec => []NothingForgotten
  OBVIOUS
<1>1. Init => IInv /\ Awaited
  BY InitIInv, InitAwaited
<1>2. IInv /\ Awaited /\ [Next]_vars => IInv' /\ Awaited'
  BY StepIInv, StepAwaited
<1>3. IInv /\ Awaited => NothingForgotten
  BY AwaitedEnds
<1> QED
  BY <1>1, <1>2, <1>3, PTL DEF Spec

-----------------------------------------------------------------------------
(* Retrying.                                                               *)
LEMMA QuietRetried ==
  ASSUME IInv, ~Reverse, RetriedBelow, Quiet
  PROVE  RetriedBelow'
<1> SUFFICES ASSUME phase' = RETRYING, ~(pc' = "next" /\ rollover'),
                    NEW x \in Range, map'[x] = BAD, x < pos'
             PROVE  x \in retried'
  BY DEF RetriedBelow
<1>1. /\ UNCHANGED <<map, retried>> /\ pos \in Int /\ phase \in Phases
      /\ {Start, End} \subseteq Nat /\ Start < End
      /\ x \in Nat /\ x >= Start /\ x < End
  BY CloneRunAssumption, RangeInt
     DEF Quiet, Begin, PassOff, PassStart, RunEnd, Stop, RateSkip, IInv, TypeOK
<1>2. ASSUME phase = RETRYING, ~(pc = "next" /\ rollover), x < pos
      PROVE  x \in retried'
  BY <1>1, <1>2 DEF RetriedBelow
<1>3. CASE Begin
  <2>1. phase = RETRYING /\ pc = "idle"
    BY <1>3 DEF Begin
  <2>2. x < pos
    BY <1>1, <1>3, <2>1 DEF Begin
  <2> QED
    BY <1>2, <2>1, <2>2
<1>4. CASE PassOff
  BY <1>1, <1>4, PhaseOrder DEF PassOff
<1>5. CASE PassStart
  <2>1. phase = RETRYING /\ Up
    BY <1>5, LastPassUp DEF PassStart, run
  <2>2. pos' = IF rollover THEN Start ELSE Most(pos, Start)
    BY <1>1, <1>5, <2>1 DEF PassStart, Origin, Most
  <2>3. ~rollover /\ x < pos
    BY <1>1, <2>2 DEF Most
  <2> QED
    BY <1>2, <2>1, <2>3
<1>6. CASE RunEnd
  BY <1>6 DEF RunEnd
<1>7. CASE Stop
  BY <1>2, <1>7 DEF Stop, run
<1>8. CASE RateSkip
  BY <1>8 DEF RateSkip, run
<1> QED
  BY <1>3, <1>4, <1>5, <1>6, <1>7, <1>8 DEF Quiet

LEMMA CopyRetried ==
  ASSUME IInv, ~Reverse, RetriedBelow, CopyForward \/ CopyReverseHere \/ CopyReverseBelow
  PROVE  RetriedBelow'
<1> SUFFICES ASSUME phase' = RETRYING, NEW x \in Range, map'[x] = BAD, x < pos'
             PROVE  x \in retried'
  BY DEF RetriedBelow
<1>1. /\ phase = RETRYING /\ Sought = BAD /\ pos \in Int /\ TypeOK /\ pc = "pass"
      /\ x \in Nat /\ x \in Sectors
  BY RangeInt
     DEF CopyForward, CopyReverseHere, CopyReverseBelow, Copying, ChunkAt, Read, run, IInv,
         TypeOK, Sought
<1>2. PICK q, n : ForwardChunk(q, n)
  BY <1>1, LastPassUp, ForwardReads DEF CopyReverseHere, CopyReverseBelow
<1>3. /\ pos' \in {q, q + n} /\ q \in Nat /\ n \in Nat \ {0}
      /\ retried' = retried \cup Chunk(q, n)
      /\ MarkedAs(q, n, x)
  <2>1. IsChunk(q, n) /\ Read(q, n)
    BY <1>2 DEF ForwardChunk
  <2>2. ReadLeaves(q, n) /\ ReadMarks(q, n) /\ q \in Nat /\ n \in Nat \ {0}
    BY <1>1, <2>1, ReadGoesOn, ReadDoes, ChunkBounds
  <2>3. pos' \in {q, q + n} /\ retried' = retried \cup Chunk(q, n)
    BY <1>1, <2>2 DEF ReadLeaves
  <2> QED
    BY <1>1, <2>2, <2>3 DEF ReadMarks
<1>4. CASE x \in Chunk(q, n)
  BY <1>3, <1>4
<1>5. CASE x \notin Chunk(q, n)
  <2>1. map[x] = BAD /\ x < q
    BY <1>1, <1>3, <1>5 DEF MarkedAs, Chunk
  <2>2. x < pos
    BY <1>1, <1>2, <1>3, <2>1 DEF ForwardChunk
  <2> QED
    BY <1>1, <1>3, <2>1, <2>2 DEF RetriedBelow
<1> QED
  BY <1>4, <1>5

LEMMA StepRetried ==
  ASSUME IInv, ~Reverse, RetriedBelow, [Next]_vars
  PROVE  RetriedBelow'
<1>1. CASE PassOver
  BY <1>1, PassOverIs, PhaseOrder DEF PassEnd, RetriedBelow, IInv, TypeOK
<1>2. CASE Reset
  BY <1>2 DEF Reset, RetriedBelow
<1>3. CASE TrimForward \/ TrimReverse \/ ScanEnd \/ ScanBeyond \/ ScanRead
  <2>1. phase = TRIMMING /\ UNCHANGED phase
    BY <1>3 DEF TrimForward, TrimReverse, Trimming, TrimBlock, ScanEnd, ScanBeyond, ScanRead,
               Scanning, IInv, Placed, run
  <2> QED
    BY <2>1 DEF RetriedBelow
<1>4. CASE UNCHANGED vars
  BY <1>4 DEF vars, RetriedBelow
<1> QED
  BY <1>1, <1>2, <1>3, <1>4, Steps, QuietRetried, CopyRetried

LEMMA RetryPass ==
  ASSUME IInv, ~Reverse, RetriedBelow, [Next]_vars
  PROVE  [(phase = RETRYING /\ pc = "pass" /\ pc' = "next")
          => \A x \in Range : map[x] = BAD => x \in retried]_vars
<1> SUFFICES ASSUME phase = RETRYING, pc = "pass", pc' = "next", NEW x \in Range, map[x] = BAD
             PROVE  x \in retried
  OBVIOUS
<1>1. PassOver
  <2>1. CASE CopyForward \/ CopyReverseHere \/ CopyReverseBelow
    BY <2>1, ForwardReads, ReverseReads, ReadGoesOn DEF ForwardChunk, ReadLeaves, IInv
  <2>2. ~Quiet \/ UNCHANGED vars
    BY DEF Quiet, Begin, PassOff, PassStart, RunEnd, Stop, RateSkip
  <2> QED
    BY <2>1, <2>2, Steps
       DEF Reset, TrimForward, TrimReverse, Trimming, ScanEnd, ScanBeyond, ScanRead,
           Scanning, vars
<1>2. Up /\ Sought = BAD
  BY LastPassUp DEF Sought
<1>3. CopyForwardEnd
  BY <1>1, <1>2 DEF PassOver, CopyReverseEnd, TrimForwardEnd, TrimReverseEnd, Trimming
<1>4. x < pos
  BY <1>2, <1>3, RangeInt DEF CopyForwardEnd, IInv, TypeOK
<1> QED
  BY <1>4 DEF RetriedBelow

(* A retry pass of a forward run that ends without an error has read every *)
(* BAD sector of the range, however often it was stopped and resumed.      *)
THEOREM RetriesRead == ~Reverse => (Spec => RetryReadsAll)
<1> SUFFICES ASSUME ~Reverse
             PROVE  Spec => RetryReadsAll
  OBVIOUS
<1>1. Init => IInv /\ RetriedBelow
  BY InitIInv, InitAwaited
<1>2. IInv /\ RetriedBelow /\ [Next]_vars => IInv' /\ RetriedBelow'
  BY StepIInv, StepRetried
<1>3. ASSUME IInv, RetriedBelow, [Next]_vars
      PROVE  [(phase = RETRYING /\ pc = "pass" /\ pc' = "next")
              => \A x \in Range : map[x] = BAD => x \in retried]_vars
  BY <1>3, RetryPass
<1> QED
  BY <1>1, <1>2, <1>3, PTL DEF Spec, RetryReadsAll

-----------------------------------------------------------------------------
(***************************************************************************)
(* Sessions.  A restart goes back to an older map, phase and position, but *)
(* they are those of one moment: what held of the log when it was written  *)
(* holds of it when it is loaded, as the destination only gains sectors    *)
(* and the drive stays what it is.                                         *)
(***************************************************************************)
LogTyped(l) ==
  /\ l.map \in [Sectors -> Kinds] /\ l.phase \in Phases /\ l.pos \in Int
  /\ l.retried \subseteq Sectors
LogCopied(l) == \A x \in Sectors : l.map[x] = FINISHED => x \in data
LogGood(l) == \A x \in Sectors : l.map[x] = BAD => x \in weak
LogAwaited(l) ==
  /\ \A x \in Range : l.map[x] \in Unread =>
       \/ l.phase < LastPass(l.map[x])
       \/ l.phase = LastPass(l.map[x]) /\ x >= l.pos
  /\ DIVIDING2 \in Off => \A x \in Sectors : l.map[x] # NONDIVIDED
LogRetried(l) ==
  l.phase = RETRYING => \A x \in Range : l.map[x] = BAD /\ x < l.pos => x \in l.retried

SessionIInv == IInv /\ LogTyped(kept)

LEMMA SessionSteps ==
  ASSUME [SessionsNext]_sessionVars
  PROVE  ([Next]_vars /\ kept' = kept) \/ WriteLog \/ Restart
BY DEF SessionsNext, RunStep, sessionVars

LEMMA LogFields ==
  /\ Log.map = map /\ Log.phase = phase /\ Log.pos = pos /\ Log.retried = retried
  /\ IInv => LogTyped(Log)
BY DEF Log, LogTyped, IInv, TypeOK

LEMMA WriteLogIs ==
  ASSUME WriteLog
  PROVE  /\ pc # "next" /\ kept' = Log
         /\ UNCHANGED <<map, data, weak, dead, phase, pos, pc, rollover, retries, retried>>
BY DEF WriteLog, vars

LEMMA RestartIs ==
  ASSUME Restart
  PROVE  /\ map' = kept.map /\ phase' = kept.phase /\ pos' = kept.pos /\ retried' = kept.retried
         /\ pc' = "idle" /\ UNCHANGED <<data, weak, dead, kept>>
BY DEF Restart, drive

LEMMA InitSession == SessionsInit => SessionIInv
BY InitIInv, LogFields DEF SessionsInit, SessionIInv

LEMMA StepSession ==
  ASSUME SessionIInv, [SessionsNext]_sessionVars
  PROVE  SessionIInv'
<1>1. IInv /\ LogTyped(kept)
  BY DEF SessionIInv
<1>2. CASE [Next]_vars /\ kept' = kept
  BY <1>1, <1>2, StepIInv DEF SessionIInv, LogTyped
<1>3. CASE WriteLog
  <2>1. IInv'
    BY <1>1, <1>3, StepIInv DEF WriteLog
  <2>2. LogTyped(kept')
    BY <1>1, <1>3, LogFields, WriteLogIs
  <2> QED
    BY <2>1, <2>2 DEF SessionIInv, LogTyped
<1>4. CASE Restart
  <2>1. NoBlock \in [from : 0 .. Size, to : 0 .. Size] /\ 0 \in 0 .. Size
    BY CloneRunAssumption DEF NoBlock
  <2>2. TypeOK'
    BY <1>1, <1>4, <2>1 DEF Restart, BlockLeft, drive, LogTyped, IInv, TypeOK
  <2>3. pc' = "idle"
    BY <1>4, RestartIs
  <2>4. IInv'
    BY <1>4, <2>2, <2>3 DEF Restart, BlockLeft, IInv, Placed, RetriesLeft, BlockAhead
  <2> QED
    BY <1>1, <1>4, <2>4, RestartIs DEF SessionIInv, LogTyped
<1> QED
  BY <1>2, <1>3, <1>4, SessionSteps

(* Over any number of sessions, each falling back to the log as it was     *)
(* last written, FINISHED means that the data is on the destination.       *)
THEOREM SessionsDataFollows == SessionsSpec => []DataFollowsLog
<1> DEFINE Inv == SessionIInv /\ DataFollowsLog /\ LogCopied(kept)
<1>1. SessionsInit => Inv
  BY InitSession, LogFields DEF SessionsInit, Init, DataFollowsLog, LogCopied
<1>2. ASSUME Inv, [SessionsNext]_sessionVars
      PROVE  Inv'
  <2>1. CASE [Next]_vars /\ kept' = kept
    <3>1. DataFollowsLog' /\ data \subseteq data'
      BY <1>2, <2>1, StepData DEF SessionIInv
    <3> QED
      BY <1>2, <2>1, <3>1, StepSession DEF LogCopied
  <2>2. CASE WriteLog
    <3>1. kept'.map = map /\ UNCHANGED <<map, data>>
      BY <2>2, WriteLogIs, LogFields
    <3> QED
      BY <1>2, <3>1, StepSession DEF DataFollowsLog, LogCopied
  <2>3. CASE Restart
    BY <1>2, <2>3, RestartIs, StepSession DEF DataFollowsLog, LogCopied
  <2> QED
    BY <1>2, <2>1, <2>2, <2>3, SessionSteps
<1> QED
  BY <1>1, <1>2, PTL DEF SessionsSpec

(* Over any number of sessions only sectors the drive can fail at are      *)
(* given up.                                                               *)
THEOREM SessionsKeepGood == SessionsSpec => []NoGoodSectorGivenUp
<1> DEFINE Inv == SessionIInv /\ NoGoodSectorGivenUp /\ LogGood(kept)
<1>1. SessionsInit => Inv
  BY InitSession, LogFields DEF SessionsInit, Init, NoGoodSectorGivenUp, LogGood
<1>2. ASSUME Inv, [SessionsNext]_sessionVars
      PROVE  Inv'
  <2>1. CASE [Next]_vars /\ kept' = kept
    <3>1. NoGoodSectorGivenUp' /\ weak' = weak
      BY <1>2, <2>1, StepGood DEF SessionIInv
    <3> QED
      BY <1>2, <2>1, <3>1, StepSession DEF LogGood
  <2>2. CASE WriteLog
    <3>1. kept'.map = map /\ UNCHANGED <<map, weak>>
      BY <2>2, WriteLogIs, LogFields
    <3> QED
      BY <1>2, <3>1, StepSession DEF NoGoodSectorGivenUp, LogGood
  <2>3. CASE Restart
    BY <1>2, <2>3, RestartIs, StepSession DEF NoGoodSectorGivenUp, LogGood
  <2> QED
    BY <1>2, <2>1, <2>2, <2>3, SessionSteps
<1> QED
  BY <1>1, <1>2, PTL DEF SessionsSpec

(* Sectors that are awaited when the log is written are awaited when it is *)
(* loaded.  This is what needs the log not to be written between passes,   *)
(* when the phase is the next one's and the position still the last one's. *)
LEMMA SessionAwaited ==
  ASSUME ~Reverse, Thorough, SessionIInv, Awaited, LogAwaited(kept),
         [SessionsNext]_sessionVars
  PROVE  Awaited' /\ LogAwaited(kept')
<1>1. CASE [Next]_vars /\ kept' = kept
  BY <1>1, StepAwaited DEF SessionIInv
<1>2. CASE WriteLog
  <2>1. UNCHANGED <<map, phase, pos, pc, rollover>> /\ pc # "next"
    BY <1>2, WriteLogIs
  <2>2. /\ kept'.map = map /\ kept'.phase = phase /\ kept'.pos = pos
    BY <1>2, WriteLogIs, LogFields
  <2>3. LogAwaited(kept')
    BY <2>1, <2>2 DEF Awaited, Awaits, LogAwaited
  <2>4. \A x \in Range : Awaits(x)' <=> Awaits(x)
    BY <2>1 DEF Awaits
  <2> QED
    BY <2>1, <2>3, <2>4 DEF Awaited
<1>3. CASE Restart
  <2>1. /\ map' = kept.map /\ phase' = kept.phase /\ pos' = kept.pos /\ kept' = kept
    BY <1>3, RestartIs
  <2>2. \A x \in Range : Awaits(x)'
    BY <2>1 DEF LogAwaited, Awaits
  <2> QED
    BY <2>1, <2>2 DEF LogAwaited, Awaited
<1> QED
  BY <1>1, <1>2, <1>3, SessionSteps

(* A forward run with phase 4, dividing and scraping on that says it is    *)
(* finished has left nothing behind, however often the program went down   *)
(* and began again from the log as it was last written.                    *)
THEOREM SessionsForgetNone == ~Reverse /\ Thorough => (SessionsSpec => []NothingForgotten)
<1> SUFFICES ASSUME ~Reverse, Thorough
             PROVE  SessionsSpec => []NothingForgotten
  OBVIOUS
<1> DEFINE Inv == SessionIInv /\ Awaited /\ LogAwaited(kept)
<1>1. SessionsInit => Inv
  <2> SUFFICES ASSUME SessionsInit PROVE Inv
    OBVIOUS
  <2>1. SessionIInv /\ Awaited /\ kept = Log /\ pc = "idle"
    BY InitSession, InitAwaited DEF SessionsInit, Init
  <2>2. LogAwaited(kept)
    BY <2>1, LogFields DEF Awaited, Awaits, LogAwaited
  <2> QED
    BY <2>1, <2>2
<1>2. Inv /\ [SessionsNext]_sessionVars => Inv'
  BY StepSession, SessionAwaited DEF LogAwaited
<1>3. Inv => NothingForgotten
  BY AwaitedEnds DEF SessionIInv
<1> QED
  BY <1>1, <1>2, <1>3, PTL DEF SessionsSpec

LEMMA SessionRetried ==
  ASSUME ~Reverse, SessionIInv, RetriedBelow, LogRetried(kept), [SessionsNext]_sessionVars
  PROVE  RetriedBelow' /\ LogRetried(kept')
<1>1. CASE [Next]_vars /\ kept' = kept
  BY <1>1, StepRetried DEF SessionIInv
<1>2. CASE WriteLog
  <2>1. UNCHANGED <<map, phase, pos, pc, rollover, retried>> /\ pc # "next"
    BY <1>2, WriteLogIs
  <2>2. kept'.map = map /\ kept'.phase = phase /\ kept'.pos = pos /\ kept'.retried = retried
    BY <1>2, WriteLogIs, LogFields
  <2> QED
    BY <2>1, <2>2 DEF RetriedBelow, LogRetried
<1>3. CASE Restart
  BY <1>3, RestartIs DEF RetriedBelow, LogRetried
<1> QED
  BY <1>1, <1>2, <1>3, SessionSteps

(* A retry pass of a forward run that ends without an error has read every *)
(* BAD sector of the range, also when the program went down in the middle  *)
(* of it: what is read after the log was written is read again.            *)
THEOREM SessionsRetryAll == ~Reverse => (SessionsSpec => RetryReadsAll)
<1> SUFFICES ASSUME ~Reverse
             PROVE  SessionsSpec => RetryReadsAll
  OBVIOUS
<1> DEFINE Inv == SessionIInv /\ RetriedBelow /\ LogRetried(kept)
<1>1. SessionsInit => Inv
  <2> SUFFICES ASSUME SessionsInit PROVE Inv
    OBVIOUS
  <2>1. SessionIInv /\ RetriedBelow /\ kept = Log /\ pc = "idle"
    BY InitSession, InitAwaited DEF SessionsInit, Init
  <2>2. LogRetried(kept)
    BY <2>1, LogFields DEF RetriedBelow, LogRetried
  <2> QED
    BY <2>1, <2>2
<1>2. Inv /\ [SessionsNext]_sessionVars => Inv'
  BY StepSession, SessionRetried DEF LogRetried
<1>3. ASSUME Inv, [SessionsNext]_sessionVars
      PROVE  [(phase = RETRYING /\ pc = "pass" /\ pc' = "next")
              => \A x \in Range : map[x] = BAD => x \in retried]_vars
  <2>1. CASE [Next]_vars
    BY <1>3, <2>1, RetryPass DEF SessionIInv
  <2>2. CASE WriteLog \/ Restart
    BY <2>2, WriteLogIs, RestartIs
  <2> QED
    BY <1>3, <2>1, <2>2, SessionSteps
<1> QED
  BY <1>1, <1>2, <1>3, PTL DEF SessionsSpec, RetryReadsAll
=============================================================================
