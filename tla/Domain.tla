-------------------------------- MODULE Domain --------------------------------
(***************************************************************************)
(* The domain: a second list of blocks, dposition_ccc, dsize_ccc and       *)
(* dstatus_ccc with domain_lines_ccc lines, that limits cloning to the     *)
(* sectors of its FINISHED lines.  The virtual drive adds the sectors the  *)
(* kernel asks for (add_to_domain_ccc), an import adds those of a file;    *)
(* the copying passes ask for the piece of a chunk they are to read        *)
(* (process_domain_ccc).                                                   *)
(*                                                                         *)
(* A domain read from a file may be "loose": it may have gaps, and         *)
(* neighbours with the same status.  add_to_domain_ccc works through a     *)
(* request line by line; it is one action per turn of its loop.  Writing   *)
(* the domain file back is left out.                                       *)
(***************************************************************************)
EXTENDS Integers, Sequences, FiniteSets, SequencesExt

CONSTANTS
  Size,         \* source_total_size_ccc, in sectors
  LoadedLines,  \* bound on the lines of a domain that is read from a file
  MaxRequests   \* bound on the requests that are added

ASSUME DomainSizeAssumption == Size \in Nat \ {0}
ASSUME DomainBoundsAssumption == {LoadedLines, MaxRequests} \subseteq Nat

VARIABLES
  dlines,    \* the domain
  rest,      \* what is left to do of the request being added
  requests,  \* how many requests there were
  wanted,    \* history: the sectors the domain had to start with or was asked for
  exact      \* history: the list was gapless, and no request began inside a line to be changed and ran past it

vars == <<dlines, rest, requests, wanted, exact>>

Sectors == 0 .. Size - 1
Chunk(p, n) == p .. p + n - 1
Block(p, n, st) == [pos |-> p, size |-> n, status |-> st]
EndOf(l) == l.pos + l.size
NoRequest == [pos |-> 0, size |-> 0]

Finished(ls, k) == k \in 1 .. Len(ls) /\ ls[k].status = "FINISHED"
Marked(ls) == UNION {Chunk(ls[k].pos, ls[k].size) : k \in {j \in 1 .. Len(ls) : Finished(ls, j)}}

Line == {l \in [pos : Sectors, size : 1 .. Size, status : {"NONTRIED", "FINISHED"}] :
           EndOf(l) <= Size}
HasSectors(ls) == \A k \in 1 .. Len(ls) : ls[k].size > 0
Ordered(ls) ==
  HasSectors(ls) /\ \A k \in 1 .. Len(ls) - 1 : EndOf(ls[k]) <= ls[k + 1].pos
Loaded == {ls \in UNION {[1 .. k -> Line] : k \in 0 .. LoadedLines} : Ordered(ls)}

(* What initialize_domain_log_ccc makes, and what adding alone keeps: the  *)
(* lines cover the source and take turns in status.                        *)
NewDomain == <<Block(0, Size, "NONTRIED")>>
Gapless(ls) ==
  /\ HasSectors(ls)
  /\ ls # << >> /\ ls[1].pos = 0 /\ EndOf(ls[Len(ls)]) = Size
  /\ \A k \in 1 .. Len(ls) - 1 :
       EndOf(ls[k]) = ls[k + 1].pos /\ ls[k].status # ls[k + 1].status

(***************************************************************************)
(* Binary search: a line that has sectors in common with a chunk, or 0.    *)
(***************************************************************************)
Meets(l, p, n) == l.pos < p + n /\ p < EndOf(l)

Middle(w) == (w[1] + w[2]) \div 2

(* Mutant: the search ends when one line is left to look at.               *)
SearchShort(ls, p, n) ==
  LET look[w \in (1 .. Len(ls) + 1) \X (0 .. Len(ls))] ==
        IF w[1] >= w[2] THEN 0
        ELSE IF Meets(ls[Middle(w)], p, n) THEN Middle(w)
        ELSE IF p > ls[Middle(w)].pos THEN look[<<Middle(w) + 1, w[2]>>]
        ELSE look[<<w[1], Middle(w) - 1>>]
  IN look[<<1, Len(ls)>>]

(* look takes a window, the first and the last line that are left to look at. *)
Search(ls, p, n) ==
  LET look[w \in (1 .. Len(ls) + 1) \X (0 .. Len(ls))] ==
        IF w[1] > w[2] THEN 0
        ELSE IF Meets(ls[Middle(w)], p, n) THEN Middle(w)
        ELSE IF p > ls[Middle(w)].pos THEN look[<<Middle(w) + 1, w[2]>>]
        ELSE look[<<w[1], Middle(w) - 1>>]
  IN look[<<1, Len(ls)>>]

FindBlock(ls, p) == Search(ls, p, 1)

(***************************************************************************)
(* add_to_domain_ccc: line b of ls, or n sectors of it from p on, become   *)
(* FINISHED.  A joined neighbour grows by as much as the line shrinks,     *)
(* wherever the neighbour lies.                                            *)
(***************************************************************************)
GrowUp(l, n) == Block(l.pos - n, l.size + n, l.status)
GrowDown(l, n) == Block(l.pos, l.size + n, l.status)

(* Mutant: the line above is joined but not taken out of the list.         *)
WholeLineKept(ls, b) ==
  LET below == IF Finished(ls, b + 1)
               THEN RemoveAt([ls EXCEPT ![b + 1] = GrowUp(@, ls[b].size)], b)
               ELSE [ls EXCEPT ![b].status = "FINISHED"]
  IN IF Finished(ls, b - 1) THEN [below EXCEPT ![b - 1] = GrowDown(@, below[b].size)] ELSE below

WholeLine(ls, b) ==
  LET below == IF Finished(ls, b + 1)
               THEN RemoveAt([ls EXCEPT ![b + 1] = GrowUp(@, ls[b].size)], b)
               ELSE [ls EXCEPT ![b].status = "FINISHED"]
  IN IF Finished(ls, b - 1)
     THEN RemoveAt([below EXCEPT ![b - 1] = GrowDown(@, below[b].size)], b)
     ELSE below

StartOfLine(ls, b, n) ==
  LET after == Block(ls[b].pos + n, ls[b].size - n, ls[b].status) IN
    IF Finished(ls, b - 1)
    THEN [ls EXCEPT ![b - 1] = GrowDown(@, n), ![b] = after]
    ELSE InsertAt([ls EXCEPT ![b] = after], b, Block(ls[b].pos, n, "FINISHED"))

EndOfLine(ls, b, n) ==
  LET before == Block(ls[b].pos, ls[b].size - n, ls[b].status) IN
    IF Finished(ls, b + 1)
    THEN [ls EXCEPT ![b] = before, ![b + 1] = GrowUp(@, n)]
    ELSE InsertAt([ls EXCEPT ![b] = before], b + 1, Block(EndOf(ls[b]) - n, n, "FINISHED"))

InsideLine(ls, b, p, n) ==
  LET before == Block(ls[b].pos, p - ls[b].pos, ls[b].status)
      after == Block(p + n, EndOf(ls[b]) - (p + n), ls[b].status)
  IN InsertAt(InsertAt([ls EXCEPT ![b] = after], b, Block(p, n, "FINISHED")), b, before)

MarkIn(ls, b, p, n) ==
  IF p = ls[b].pos /\ n = ls[b].size THEN WholeLine(ls, b)
  ELSE IF p = ls[b].pos THEN StartOfLine(ls, b, n)
  ELSE IF p + n = EndOf(ls[b]) THEN EndOfLine(ls, b, n)
  ELSE InsideLine(ls, b, p, n)

(***************************************************************************)
(* process_domain_ccc: the piece of a chunk that is to be read.  Of the    *)
(* FINISHED lines in a row around the line the search hits, a forward pass *)
(* takes the first one before it or else the first one behind it, a        *)
(* reverse pass the last one behind it or else the last one before it, and *)
(* only then the line itself.  A chunk that ends before the line it is in   *)
(* ends asks nobody else.                                                  *)
(***************************************************************************)
Lowest(S) == CHOOSE k \in S : \A j \in S : k <= j
Highest(S) == CHOOSE k \in S : \A j \in S : j <= k

Best(ls, m, p, n, forward) ==
  LET inRow(k) == \A j \in (k .. m) \cup (m .. k) : Meets(ls[j], p, n)
      before == {k \in 1 .. m - 1 : inRow(k) /\ Finished(ls, k)}
      behind == {k \in m + 1 .. Len(ls) : inRow(k) /\ Finished(ls, k)}
      fits == ls[m].pos <= p /\ p + n < EndOf(ls[m])
      first == IF (forward /\ before # {}) \/ (~forward /\ behind = {}) THEN before ELSE behind
  IN IF fits \/ first = {} THEN m
     ELSE IF forward THEN Lowest(first) ELSE Highest(first)

(* Mutant: the line the search hits is the only one looked at.             *)
PieceOfHit(ls, p, n, forward) ==
  LET m == Search(ls, p, n) IN
    IF m # 0 /\ Finished(ls, m) THEN Chunk(p, n) \cap Chunk(ls[m].pos, ls[m].size) ELSE {}

Piece(ls, p, n, forward) ==
  LET m == Search(ls, p, n)
      b == Best(ls, m, p, n, forward)
  IN IF m # 0 /\ Finished(ls, b) THEN Chunk(p, n) \cap Chunk(ls[b].pos, ls[b].size) ELSE {}

-----------------------------------------------------------------------------
Init ==
  /\ dlines \in Loaded \cup {NewDomain}
  /\ rest = NoRequest /\ requests = 0
  /\ wanted = Marked(dlines)
  /\ exact = Gapless(dlines)

(* A request of the kernel, which clone_forward_ccc cuts off at the end of *)
(* the source, or a line of an imported file, which may not pass it.       *)
Request(p, n) ==
  /\ rest = NoRequest /\ requests < MaxRequests
  /\ Chunk(p, n) \subseteq Sectors
  /\ rest' = [pos |-> p, size |-> n]
  /\ requests' = requests + 1
  /\ wanted' = wanted \cup Chunk(p, n)
  /\ UNCHANGED <<dlines, exact>>

(* The line the loop looks at, whether the rest of the request ends in it. *)
Here == FindBlock(dlines, rest.pos)
Fits == rest.pos + rest.size <= EndOf(dlines[Here])
Proceed(n) == rest' = [pos |-> rest.pos + n, size |-> rest.size - n]

(* Nothing to do, or a position that is in no line.                        *)
NotFound ==
  /\ rest # NoRequest /\ Here = 0
  /\ rest' = NoRequest
  /\ UNCHANGED <<dlines, requests, wanted, exact>>

Already ==
  /\ rest # NoRequest /\ Here # 0 /\ Fits
  /\ Finished(dlines, Here)
  /\ rest' = NoRequest
  /\ UNCHANGED <<dlines, requests, wanted, exact>>

MarkRest ==
  /\ rest # NoRequest /\ Here # 0 /\ Fits
  /\ ~Finished(dlines, Here)
  /\ dlines' = MarkIn(dlines, Here, rest.pos, rest.size)
  /\ rest' = NoRequest
  /\ UNCHANGED <<requests, wanted, exact>>

MarkLine ==
  /\ rest # NoRequest /\ Here # 0 /\ ~Fits
  /\ rest.pos = dlines[Here].pos
  /\ dlines' = WholeLine(dlines, Here)
  /\ Proceed(dlines[Here].size)
  /\ UNCHANGED <<requests, wanted, exact>>

(* Mutant: the request is not moved ahead.                                 *)
PassLineStays ==
  /\ rest # NoRequest /\ Here # 0 /\ ~Fits
  /\ rest.pos > dlines[Here].pos
  /\ dlines' = IF Finished(dlines, Here + 1)
               THEN [dlines EXCEPT ![Here + 1] = GrowUp(@, @.pos - rest.pos)]
               ELSE dlines
  /\ exact' = (exact /\ Finished(dlines, Here) /\ dlines' = dlines)
  /\ UNCHANGED <<rest, requests, wanted>>

(* The request begins inside the line and runs past it: a FINISHED line    *)
(* below grows up to the request, but the line keeps its size and status.  *)
PassLine ==
  /\ rest # NoRequest /\ Here # 0 /\ ~Fits
  /\ rest.pos > dlines[Here].pos
  /\ dlines' = IF Finished(dlines, Here + 1)
               THEN [dlines EXCEPT ![Here + 1] = GrowUp(@, @.pos - rest.pos)]
               ELSE dlines
  /\ Proceed(EndOf(dlines[Here]) - rest.pos)
  /\ exact' = (exact /\ Finished(dlines, Here) /\ dlines' = dlines)
  /\ UNCHANGED <<requests, wanted>>

Turn == NotFound \/ Already \/ MarkRest \/ MarkLine \/ PassLine
Next == Turn \/ \E p \in Sectors, n \in 1 .. Size : Request(p, n)

Spec == Init /\ [][Next]_vars

(* A loop that can go on goes on.                                          *)
FairSpec == Spec /\ WF_vars(Turn)

-----------------------------------------------------------------------------
(* A request lies in the source.  A line need not: once lines overlap,     *)
(* growing them can lead to a position below zero and to a line without    *)
(* sectors.                                                                *)
DLine == [pos : Int, size : Int, status : {"NONTRIED", "FINISHED"}]
TypeOK ==
  /\ dlines \in Seq(DLine)
  /\ rest \in [pos : Sectors, size : 0 .. Size] /\ rest.pos + rest.size <= Size
  /\ rest # NoRequest => rest.size > 0
  /\ requests \in 0 .. MaxRequests
  /\ wanted \subseteq Sectors /\ exact \in BOOLEAN

(* Splitting, growing and joining lines, the list stays one that covers    *)
(* the source and takes turns in status, also between two turns of the     *)
(* loop: what the search and the joins of the next turn rely on.           *)
StaysGapless == exact => Gapless(dlines)

(* And then what is FINISHED in it is what was asked for, no sector more   *)
(* or less, and no request fails.                                          *)
MarksAreRequests == exact /\ rest = NoRequest => Marked(dlines) = wanted

(* hddsuperclone.texi:371 "Areas marked as finished in the domain will be  *)
(* recovered.  Areas marked as anything else will not be tried": the piece *)
(* of a chunk that is read is of the domain, and there is one if the chunk *)
(* has a sector of the domain at all, so that a pass that finds nothing    *)
(* may move on.  Also in loose domains, for both directions.               *)
PiecesAreOfTheDomain ==
  Ordered(dlines) =>
    \A p \in Sectors, n \in 1 .. Size, forward \in BOOLEAN :
      LET piece == Piece(dlines, p, n, forward)
          asked == Chunk(p, n) \cap Marked(dlines)
      IN piece \subseteq asked /\ (piece = {} => asked = {})

(* The loop of add_to_domain_ccc ends, whatever list it is given.          *)
AddingEnds == rest # NoRequest ~> rest = NoRequest
=============================================================================
