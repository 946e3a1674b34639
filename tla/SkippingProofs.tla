---------------------------- MODULE SkippingProofs ----------------------------
EXTENDS Skipping, SequenceTheorems, WellFoundedInduction, TLAPS

(* The user's choices and the surface are what they can be.                *)
Setups ==
    [fast : BOOLEAN, reverse : BOOLEAN, max : MaxSkips,
     bad : SUBSET (0 .. Size - 1), slow : SUBSET (0 .. Size - 1)]

Sizes ==
    [min : Nat, size : Nat, last : Nat, multiplier : Nat, count : 0 .. LastNumber,
     since : Nat, history : Nat \X Nat, skipping : BOOLEAN]

(* SizesBounded of the sizes s.                                            *)
Bounded(s) ==
    /\ s \in Sizes
    /\ s.min >= MinSkip \div 2
    /\ s.min <= Most(MinSkip, (setup.max * 1200) \div 4000)
    /\ s.size >= MinSkip \div 2 /\ s.size <= setup.max
    /\ s.size >= s.min \/ s.min = MinSkip

-----------------------------------------------------------------------------
(* The size of a skip.                                                     *)

LEMMA Parameters ==
    /\ Size \in Nat /\ Size > 0 /\ Cluster \in Nat /\ Cluster > 0 /\ Cluster <= Size
    /\ MinSkip \in Nat /\ MinSkip > 0
    /\ \A n \in MaxSkips : n \in Nat /\ n >= MinSkip
    /\ LastNumber \in Nat /\ LastNumber >= 7 /\ LastNumber <= 63
BY SkippingAssumption

LEMMA HalfFacts == MinSkip \div 2 \in Nat /\ MinSkip \div 2 <= MinSkip
BY Parameters

LEMMA FreshBounded ==
    ASSUME setup \in Setups
    PROVE  Bounded(Fresh)
<1>1. setup.max \in Nat /\ MinSkip <= setup.max
  BY Parameters DEF Setups
<1>2. Fresh \in Sizes
  BY Parameters DEF Fresh, Sizes
<1> QED
  BY <1>1, <1>2, Parameters, HalfFacts DEF Bounded, Fresh, Most

LEMMA SizesMember ==
    ASSUME NEW m \in Nat, NEW n \in Nat, NEW l \in Nat, NEW f \in Nat,
           NEW c \in 0 .. LastNumber, NEW e \in Nat, NEW h \in Nat \X Nat,
           NEW b \in BOOLEAN
    PROVE  [min |-> m, size |-> n, last |-> l, multiplier |-> f, count |-> c,
            since |-> e, history |-> h, skipping |-> b] \in Sizes
BY Zenon DEF Sizes

(* Sizes that a run of skips starts with when the smallest skip is m.      *)
LEMMA ResetMember ==
    ASSUME NEW m \in Nat, NEW f \in Nat, NEW e \in Nat, NEW h \in Nat \X Nat
    PROVE  [min |-> m, size |-> m, last |-> 0, multiplier |-> f, count |-> 0,
            since |-> e, history |-> h, skipping |-> FALSE] \in Sizes
<1>1. 0 \in 0 .. LastNumber /\ 0 \in Nat
  BY Parameters
<1> QED
  BY <1>1, Zenon DEF Sizes

LEMMA ResetBounded ==
    ASSUME setup \in Setups, NEW s, Bounded(s)
    PROVE  Bounded(Reset(s)) /\ Reset(s).count = 0 /\ Reset(s).size = Reset(s).min
<1>0. /\ setup.max \in Nat /\ MinSkip <= setup.max /\ setup.fast \in BOOLEAN
  BY Parameters DEF Setups
<1>1. /\ s \in Sizes /\ s.min \in Nat /\ s.last \in Nat /\ s.since \in Nat
      /\ s.history \in Nat \X Nat /\ s.history[1] \in Nat
  BY DEF Bounded, Sizes
<1> DEFINE short == IF setup.fast THEN s.count = 3 ELSE s.count \in 5 .. 6
           shrunk == IF short THEN (s.min * 990) \div 1000 ELSE s.min
           min == IF shrunk < MinSkip \div 2 THEN MinSkip ELSE shrunk
           h == IF s.skipping THEN <<s.last, s.history[1]>> ELSE s.history
           r == [min |-> min, size |-> min, last |-> 0, multiplier |-> FirstMultiplier,
                 count |-> 0, since |-> s.since, history |-> h, skipping |-> FALSE]
<1>2. Reset(s) = r
  BY DEF Reset
<1>3. shrunk \in Nat /\ shrunk <= s.min
  BY <1>1
<1>4. PICK quarter \in Nat : quarter = (setup.max * 1200) \div 4000 /\ quarter <= setup.max
  BY <1>0
<1>5. /\ min \in Nat /\ min >= MinSkip \div 2 /\ min <= Most(MinSkip, quarter)
  <2>1. s.min <= Most(MinSkip, quarter)
    BY <1>4 DEF Bounded
  <2> HIDE DEF shrunk
  <2> QED
    BY <1>1, <1>3, <2>1, Parameters, HalfFacts DEF Most
<1>6. h \in Nat \X Nat
  BY <1>1
<1>7. FirstMultiplier \in Nat
  BY DEF FirstMultiplier
<1> HIDE DEF min, h
<1>8. min <= setup.max
  BY <1>0, <1>4, <1>5, Parameters DEF Most
<1>9. r \in Sizes
  BY <1>1, <1>5, <1>6, <1>7, ResetMember
<1>10. r.min = min /\ r.size = min /\ r.count = 0
  OBVIOUS
<1> HIDE DEF r
<1> QED
  BY <1>2, <1>4, <1>5, <1>8, <1>9, <1>10 DEF Bounded

(* A positive multiplier makes a size no smaller.                          *)
LEMMA Multiplied ==
    ASSUME NEW a \in Nat, NEW m \in Nat
    PROVE  (a * (m + 1000)) \div 1000 \in Nat /\ (a * (m + 1000)) \div 1000 >= a
<1> PICK p \in Int : p = a * (m + 1000)
  OBVIOUS
<1>1. a * m >= 0
  OBVIOUS
<1>2. p >= 1000 * a
  BY <1>1
<1>3. p \div 1000 \in Nat /\ p \div 1000 >= a
  BY <1>2
<1> QED
  BY <1>3

LEMMA NextSizeLarger ==
    ASSUME NEW s, s.size \in Nat, s.multiplier \in Nat, NEW c \in Nat
    PROVE  NextSize(s, c) \in Nat /\ NextSize(s, c) >= s.size
<1> PICK p \in Nat : p = (s.size * (s.multiplier + 1000)) \div 1000 /\ p >= s.size
  BY Multiplied
<1> PICK a \in Nat : a = s.size \div 100
  OBVIOUS
<1> PICK b \in Nat : b = c \div 4
  OBVIOUS
<1>1. a * b \in Nat
  OBVIOUS
<1> PICK q \in Nat : q = a * b
  BY <1>1
<1> QED
  BY DEF NextSize

(* The smallest skip is drawn up to a quarter of a skip at most, whatever  *)
(* the runs before were.                                                   *)
LEMMA SmallestAfterFacts ==
    ASSUME NEW s \in Sizes, NEW min \in Nat, NEW c \in Nat, setup.fast \in BOOLEAN
    PROVE  \E n \in Nat :
             /\ n <= s.size /\ n <= (s.size * 1200) \div 4000
             /\ SmallestAfter(s, min, c) = Most(min, n)
<1>1. /\ s.size \in Nat /\ s.history[1] \in Nat /\ s.history[2] \in Nat
  BY DEF Sizes
<1>2. PICK past \in Nat : past = s.history[1] + s.history[2]
  BY <1>1
<1>3. PICK base \in Nat :
        /\ base = IF past \div 2 < s.size THEN (s.size + past) \div 3 ELSE s.size
        /\ base <= s.size
  BY <1>1
<1>4. PICK factor \in {990, 1000, 1100, 1200} :
        factor = IF c > (IF setup.fast THEN 10 ELSE 12) THEN 1200
                 ELSE IF c > (IF setup.fast THEN 7 ELSE 9) THEN 1100
                 ELSE IF c < (IF setup.fast THEN 5 ELSE 8) THEN 990 ELSE 1000
  OBVIOUS
<1>5. PICK m \in Nat : m = (base * factor) \div 1000 /\ 1000 * m <= 1200 * base
  OBVIOUS
<1>6. PICK n : n = m \div (IF setup.fast THEN 5 ELSE 4)
  OBVIOUS
<1>7. n \in Nat /\ n <= m \div 4
  <2>1. CASE setup.fast
    BY <1>6, <2>1
  <2>2. CASE ~setup.fast
    BY <1>6, <2>2
  <2> QED
    BY <2>1, <2>2
<1>8. n <= s.size /\ n <= (s.size * 1200) \div 4000
  BY <1>1, <1>3, <1>5, <1>7
<1>9. SmallestAfter(s, min, c) = Most(min, n)
  BY <1>2, <1>3, <1>4, <1>5, <1>6 DEF SmallestAfter
<1>10. n \in Nat
  BY <1>7
<1> WITNESS n \in Nat
<1> QED
  BY <1>8, <1>9

LEMMA GrownBounded ==
    ASSUME setup \in Setups, NEW s, Bounded(s)
    PROVE  Bounded(Grown(s)) /\ Bounded([Grown(s) EXCEPT !.min = MinSkip])
<1>0. /\ setup.max \in Nat /\ MinSkip <= setup.max /\ setup.fast \in BOOLEAN
  BY Parameters DEF Setups
<1>1. /\ s \in Sizes /\ s.min \in Nat /\ s.size \in Nat /\ s.multiplier \in Nat
      /\ s.count \in Nat /\ s.since \in Nat /\ s.history \in Nat \X Nat
  BY Parameters DEF Bounded, Sizes
<1>2. PICK quarter \in Nat : quarter = (setup.max * 1200) \div 4000 /\ quarter <= setup.max
  BY <1>0
<1>3. /\ MinSkip \div 2 <= s.min /\ s.min <= Most(MinSkip, quarter)
      /\ MinSkip \div 2 <= s.size /\ s.size <= setup.max
      /\ s.size >= s.min \/ s.min = MinSkip
  BY <1>2 DEF Bounded
<1>4. PICK half \in Nat : half = MinSkip \div 2 /\ half <= MinSkip
  BY HalfFacts
<1> DEFINE c == Least(s.count + 1, LastNumber)
           less == (s.min * 950) \div 1000
           tired == s.since + 1 > MaxRetard
           raised == IF tired THEN Most(less, MinSkip) ELSE s.min
           min == SmallestAfter(s, raised, c)
           next == NextSize(s, c)
           size == Least(next, setup.max)
           since == IF tired THEN 0 ELSE s.since + 1
           multiplier == (s.multiplier * 1000) \div (IF setup.fast THEN 1925 ELSE 1750)
           g == [min |-> min, size |-> size, last |-> s.size, count |-> c, since |-> since,
                 multiplier |-> multiplier, history |-> s.history, skipping |-> TRUE]
<1>5. Grown(s) = g
  BY DEF Grown
<1>6. c \in 0 .. LastNumber /\ c \in Nat
  BY <1>1, Parameters DEF Least
<1>7. less \in Nat /\ less <= s.min
  BY <1>1
<1>8. since \in Nat
  BY <1>1
<1>9. multiplier \in Nat
  BY <1>0, <1>1
<1> HIDE DEF c, less, since, multiplier, tired
<1>10. /\ raised \in Nat /\ half <= raised /\ raised <= Most(MinSkip, quarter)
       /\ raised <= s.size \/ raised = MinSkip
  BY <1>1, <1>3, <1>4, <1>7, Parameters DEF Most
<1> HIDE DEF raised
<1>11. PICK n \in Nat : /\ n <= s.size /\ n <= (s.size * 1200) \div 4000
                        /\ min = Most(raised, n)
  BY <1>0, <1>1, <1>6, <1>10, SmallestAfterFacts
<1>12. n <= quarter
  BY <1>0, <1>1, <1>2, <1>3, <1>11
<1>13. next \in Nat /\ next >= s.size
  BY <1>1, <1>6, NextSizeLarger
<1> HIDE DEF next, min
<1>14. size \in Nat /\ half <= size /\ size <= setup.max /\ s.size <= size
  BY <1>0, <1>1, <1>3, <1>4, <1>13 DEF Least
<1> HIDE DEF size
<1>15. /\ min \in Nat /\ half <= min /\ min <= Most(MinSkip, quarter)
       /\ min <= size \/ min = MinSkip
  BY <1>1, <1>10, <1>11, <1>12, <1>14, Parameters DEF Most
<1>16. g \in Sizes
  BY <1>1, <1>6, <1>8, <1>9, <1>14, <1>15, SizesMember
<1>17. g.min = min /\ g.size = size
  OBVIOUS
<1>18. MinSkip <= Most(MinSkip, quarter)
  BY <1>2, Parameters DEF Most
<1> HIDE DEF g
<1>19. Bounded(g)
  BY <1>2, <1>4, <1>14, <1>15, <1>16, <1>17 DEF Bounded
<1> DEFINE h == [g EXCEPT !.min = MinSkip]
<1>20. h \in Sizes /\ h.min = MinSkip /\ h.size = size
  BY <1>16, <1>17, Parameters DEF Sizes
<1> HIDE DEF h
<1>21. Bounded(h)
  BY <1>2, <1>4, <1>14, <1>18, <1>20 DEF Bounded
<1>22. h = [Grown(s) EXCEPT !.min = MinSkip]
  BY <1>5 DEF h
<1> QED
  BY <1>5, <1>19, <1>21, <1>22

-----------------------------------------------------------------------------
(* The inductive invariant.                                                *)

KindAt(ls, x) == Log!StatusAt(ls, x).kind
Hard == setup.bad \cup setup.slow

(* The sectors that are at least a chunk before, or behind, all bad and    *)
(* slow ones.                                                              *)
Before == {x \in 0 .. Size - 1 : \A y \in Hard : y - x >= Cluster}
Behind == {x \in 0 .. Size - 1 : \A y \in Hard : x - y >= Cluster}

TypeOK ==
    /\ setup \in Setups
    /\ Log!Tiles(lines)
    /\ phase \in 1 .. 3 /\ copying \in BOOLEAN /\ pos \in Int /\ adjust \in BOOLEAN
    /\ Bounded(skips)

(* A pass that runs forward is not below the source, one that runs         *)
(* backward not above its last sector; it takes the end of the source for  *)
(* its position only at that sector.                                       *)
Placed ==
    copying =>
      /\ phase < 3
      /\ IF Ahead(phase) THEN pos >= 0
         ELSE pos <= Size - 1 /\ (adjust => pos = Size - 1)

(* Away from the bad sectors nothing is marked as failed.                  *)
NoneFailed == \A x \in Before \cup Behind : KindAt(lines, x) \in {"NONTRIED", "FINISHED"}

(* The pass that runs forward has read what is before the bad sectors, as  *)
(* far as it has come.                                                     *)
ReadUpward ==
    LET p == IF setup.reverse THEN 2 ELSE 1 IN
      \A x \in Before :
        phase > p \/ (phase = p /\ x < pos) => KindAt(lines, x) = "FINISHED"

(* The pass that runs backward has read what is behind them, except the    *)
(* last sector and the chunks whose read was stopped. When it is phase 1   *)
(* and has stopped below the source, it starts over.                       *)
ReadDownward ==
    LET p == IF setup.reverse THEN 1 ELSE 2
        begun == copying \/ pos > 0 \/ ~setup.reverse
    IN  \A x \in Behind \ {Size - 1} :
          phase > p \/ (phase = p /\ begun /\ x >= pos)
            => KindAt(lines, x) = "FINISHED" \/ x \in Sectors(missed)

IInv == TypeOK /\ Placed /\ NoneFailed /\ ReadUpward /\ ReadDownward

-----------------------------------------------------------------------------
(* What is proved of the progress log holds of the one of Skipping.        *)

Facts == INSTANCE ProgressLogProofs WITH
    Kinds <- Kinds, Skips <- Marks, ret <- "none", pc <- "cloning", i <- 1

LEMMA LogParameters ==
    Facts!LogSizeAssumption /\ Facts!LogKindsAssumption /\ Facts!LogSkipsAssumption
BY SkippingAssumption DEF Facts!LogSizeAssumption, Facts!LogKindsAssumption,
   Facts!LogSkipsAssumption, Kinds, Marks

(* Facts and Log are the same log.                                         *)
LEMMA SameTiles == ASSUME NEW ls PROVE Facts!Tiles(ls) <=> Log!Tiles(ls)
BY DEF Facts!Tiles, Log!Tiles, Facts!Line, Log!Line, Facts!Status, Log!Status, Facts!EndOf,
   Log!EndOf, Facts!Sectors, Log!Sectors, Facts!Holds, Log!Holds

LEMMA SameEnd == ASSUME NEW l PROVE Facts!EndOf(l) = Log!EndOf(l)
BY DEF Facts!EndOf, Log!EndOf

LEMMA SameHolds == ASSUME NEW l, NEW x PROVE Facts!Holds(l, x) <=> Log!Holds(l, x)
BY DEF Facts!Holds, Log!Holds, Facts!EndOf, Log!EndOf

LEMMA SameFind == ASSUME NEW ls, NEW x PROVE Facts!FindBlock(ls, x) = Log!FindBlock(ls, x)
BY DEF Facts!FindBlock, Log!FindBlock, Facts!Holds, Log!Holds, Facts!EndOf, Log!EndOf

LEMMA SameStatusAt == ASSUME NEW ls, NEW x PROVE Facts!StatusAt(ls, x) = Log!StatusAt(ls, x)
BY SameFind DEF Facts!StatusAt, Log!StatusAt

LEMMA SameMarked ==
    ASSUME NEW ls, NEW b, NEW p, NEW n, NEW st
    PROVE  Facts!Marked(ls, b, p, n, st) = Log!Marked(ls, b, p, n, st)
<1>1. Facts!WholeBlock(ls, b, st) = Log!WholeBlock(ls, b, st)
  BY DEF Facts!WholeBlock, Log!WholeBlock, Facts!Block, Log!Block, Facts!RemoveAt, Log!RemoveAt
<1>2. Facts!StartOfBlock(ls, b, n, st) = Log!StartOfBlock(ls, b, n, st)
  BY DEF Facts!StartOfBlock, Log!StartOfBlock, Facts!Block, Log!Block, Facts!InsertAt,
     Log!InsertAt
<1>3. Facts!EndOfBlock(ls, b, n, st) = Log!EndOfBlock(ls, b, n, st)
  BY DEF Facts!EndOfBlock, Log!EndOfBlock, Facts!Block, Log!Block, Facts!InsertAt,
     Log!InsertAt, Facts!EndOf, Log!EndOf
<1>4. Facts!InsideBlock(ls, b, p, n, st) = Log!InsideBlock(ls, b, p, n, st)
  BY DEF Facts!InsideBlock, Log!InsideBlock, Facts!Block, Log!Block, Facts!InsertAt,
     Log!InsertAt, Facts!EndOf, Log!EndOf
<1> QED
  BY <1>1, <1>2, <1>3, <1>4 DEF Facts!Marked, Log!Marked, Facts!EndOf, Log!EndOf

LEMMA SameKeep == ASSUME NEW o, NEW s PROVE Facts!Keep(o, s) = Log!Keep(o, s)
BY DEF Facts!Keep, Log!Keep

-----------------------------------------------------------------------------
(* The log, line by line and sector by sector.                             *)

LEMMA LineFacts ==
    ASSUME NEW ls, Log!Tiles(ls), NEW k \in 1 .. Len(ls)
    PROVE  /\ ls[k].pos \in Nat /\ ls[k].pos < Log!EndOf(ls[k])
           /\ Log!EndOf(ls[k]) \in Nat /\ Log!EndOf(ls[k]) <= Size
           /\ ls[k].status \in Log!Status
<1>1. Facts!Tiles(ls)
  BY SameTiles
<1>2. /\ ls[k].pos \in Nat /\ ls[k].size \in Nat /\ ls[k].size > 0
      /\ ls[k].status \in Facts!Status /\ Facts!EndOf(ls[k]) \in Nat
      /\ Facts!EndOf(ls[k]) = ls[k].pos + ls[k].size /\ Facts!EndOf(ls[k]) <= Size
  BY <1>1, LogParameters, Facts!TileFacts
<1>3. Facts!EndOf(ls[k]) = Log!EndOf(ls[k])
  BY SameEnd
<1> QED
  BY <1>2, <1>3 DEF Facts!Status, Log!Status

LEMMA FindFacts ==
    ASSUME NEW ls, Log!Tiles(ls), NEW x \in 0 .. Size - 1
    PROVE  /\ Log!FindBlock(ls, x) \in 1 .. Len(ls)
           /\ ls[Log!FindBlock(ls, x)].pos <= x
           /\ x < Log!EndOf(ls[Log!FindBlock(ls, x)])
           /\ \A k \in 1 .. Len(ls) :
                ls[k].pos <= x /\ x < Log!EndOf(ls[k]) => k = Log!FindBlock(ls, x)
<1>1. Facts!Tiles(ls) /\ x \in Facts!Sectors
  BY SameTiles DEF Facts!Sectors
<1>2. /\ Facts!FindBlock(ls, x) \in 1 .. Len(ls)
      /\ Facts!Holds(ls[Facts!FindBlock(ls, x)], x)
      /\ \A k \in 1 .. Len(ls) : Facts!Holds(ls[k], x) => k = Facts!FindBlock(ls, x)
  BY <1>1, LogParameters, Facts!FindBlockFacts
<1> QED
  BY <1>2, SameFind, SameEnd DEF Facts!Holds

LEMMA KindFacts ==
    ASSUME NEW ls, Log!Tiles(ls), NEW k \in 1 .. Len(ls), NEW x \in Int,
           ls[k].pos <= x, x < Log!EndOf(ls[k])
    PROVE  x \in 0 .. Size - 1 /\ Log!StatusAt(ls, x) = ls[k].status
<1>1. x \in 0 .. Size - 1
  BY LineFacts, Parameters
<1> QED
  BY <1>1, FindFacts DEF Log!StatusAt

(* Lines in the order of their sectors.                                    *)
LEMMA LinesOrdered ==
    ASSUME NEW ls, Log!Tiles(ls), NEW j \in 1 .. Len(ls), NEW k \in 1 .. Len(ls), j < k
    PROVE  Log!EndOf(ls[j]) <= ls[k].pos
BY DEF Log!Tiles

InOneLine(ls, c) == \E k \in 1 .. Len(ls) : ls[k].pos <= c.from /\ c.to <= Log!EndOf(ls[k])

(* The log ms is ls with the kind k on the sectors of chunk c, which is    *)
(* still in one line.                                                      *)
Touched(ls, ms, c, k) ==
    /\ Log!Tiles(ms)
    /\ \A x \in 0 .. Size - 1 :
         KindAt(ms, x) = IF c.from <= x /\ x < c.to THEN k ELSE KindAt(ls, x)
    /\ InOneLine(ms, c)

Chunk(c) == c.from \in Nat /\ c.to \in Nat /\ c.from < c.to /\ c.to <= Size

LEMMA ChangeFacts ==
    ASSUME NEW ls, Log!Tiles(ls), NEW c, Chunk(c), InOneLine(ls, c), NEW s \in Log!Status
    PROVE  Touched(ls, Change(ls, c, s), c, s.kind)
<1> DEFINE b == Log!FindBlock(ls, c.from)
           n == c.to - c.from
           new == Log!Keep(ls[b].status, s)
           ms == Log!Marked(ls, b, c.from, n, new)
<1>0. Size \in Nat /\ c.from \in 0 .. Size - 1 /\ n \in Nat \ {0} /\ c.from + n = c.to
  BY Parameters DEF Chunk
<1>1. /\ b \in 1 .. Len(ls) /\ ls[b].pos <= c.from /\ c.to <= Log!EndOf(ls[b])
  <2>1. PICK k \in 1 .. Len(ls) : ls[k].pos <= c.from /\ c.to <= Log!EndOf(ls[k])
    BY DEF InOneLine
  <2>2. c.from < Log!EndOf(ls[k])
    BY <2>1, LineFacts DEF Chunk
  <2>3. k = b
    BY <1>0, <2>1, <2>2, FindFacts
  <2> QED
    BY <2>1, <2>3
<1>2. ls[b].status \in Log!Status
  BY <1>1, LineFacts
<1>3. new \in Log!Status /\ new.kind = s.kind
  BY <1>2 DEF Log!Keep, Log!Status, Marks
<1>4. CASE ls[b].status = s
  <2>1. Change(ls, c, s) = ls
    BY <1>4 DEF Change
  <2>2. ASSUME NEW x \in 0 .. Size - 1, c.from <= x, x < c.to PROVE KindAt(ls, x) = s.kind
    <3>1. x \in Int /\ ls[b].pos <= x /\ x < Log!EndOf(ls[b])
      BY <1>0, <1>1, <2>2, LineFacts DEF Chunk
    <3>2. Log!StatusAt(ls, x) = ls[b].status
      BY <1>1, <3>1, KindFacts
    <3> QED
      BY <1>4, <3>2 DEF KindAt
  <2> QED
    BY <2>1, <2>2 DEF Touched
<1>5. CASE ls[b].status # s
  <2>1. Change(ls, c, s) = ms
    BY <1>5 DEF Change
  <2>2. /\ Facts!Tiles(ls) /\ new \in Facts!Status
        /\ ls[b].pos <= c.from /\ c.from + n <= Facts!EndOf(ls[b])
    BY <1>0, <1>1, <1>3, SameTiles, SameEnd DEF Facts!Status, Log!Status
  <2>3. Facts!Marked(ls, b, c.from, n, new) = ms
    BY SameMarked
  <2> HIDE DEF ms, new, n, b
  <2>4. c.from \in Nat
    BY DEF Chunk
  <2>5. Facts!MarksChunk(ls, ms, c.from, n, new) /\ Facts!InLine(ms, c.from, n)
    BY <1>0, <1>1, <2>2, <2>3, <2>4, LogParameters, Facts!MarkedMarks, Facts!MarkedInLine
  <2>6. Log!Tiles(ms)
    BY <2>5, SameTiles DEF Facts!MarksChunk
  <2>7. ASSUME NEW x \in 0 .. Size - 1
        PROVE  KindAt(ms, x) = IF c.from <= x /\ x < c.to THEN s.kind ELSE KindAt(ls, x)
    BY <1>0, <1>3, <2>5, SameStatusAt DEF Facts!MarksChunk, Facts!Sectors, KindAt
  <2>8. InOneLine(ms, c)
    BY <1>0, <2>5, SameEnd DEF Facts!InLine, InOneLine
  <2> QED
    BY <2>1, <2>6, <2>7, <2>8 DEF Touched
<1> QED
  BY <1>4, <1>5

-----------------------------------------------------------------------------
(* Marking a bad head moves no line and changes no kind and no skip.       *)

SameLines(ls, ms) ==
    /\ Log!Tiles(ms) /\ Len(ms) = Len(ls)
    /\ \A k \in 1 .. Len(ls) :
         /\ ms[k].pos = ls[k].pos /\ Log!EndOf(ms[k]) = Log!EndOf(ls[k])
         /\ ms[k].status.kind = ls[k].status.kind
         /\ ms[k].status.skip = ls[k].status.skip

LEMMA SameLinesFacts ==
    ASSUME NEW ls, Log!Tiles(ls), NEW ms, SameLines(ls, ms)
    PROVE  /\ \A x \in 0 .. Size - 1 : KindAt(ms, x) = KindAt(ls, x)
           /\ \A c : InOneLine(ls, c) => InOneLine(ms, c)
<1>1. ASSUME NEW x \in 0 .. Size - 1 PROVE KindAt(ms, x) = KindAt(ls, x)
  <2>1. PICK b \in 1 .. Len(ls) : b = Log!FindBlock(ls, x) /\ ls[b].pos <= x /\ x < Log!EndOf(ls[b])
    BY FindFacts
  <2>2. b \in 1 .. Len(ms) /\ ms[b].pos <= x /\ x < Log!EndOf(ms[b])
    BY <2>1 DEF SameLines
  <2>3. Log!FindBlock(ms, x) = b
    BY <2>2, FindFacts DEF SameLines
  <2> QED
    BY <2>1, <2>3 DEF SameLines, KindAt, Log!StatusAt
<1>2. ASSUME NEW c, InOneLine(ls, c) PROVE InOneLine(ms, c)
  BY <1>2 DEF InOneLine, SameLines
<1> QED
  BY <1>1, <1>2

LEMMA WithHeadsFacts ==
    ASSUME NEW ls, Log!Tiles(ls), NEW a, NEW b
    PROVE  /\ SameLines(ls, WithHeads(ls, a, b))
           /\ \A k \in 1 .. Len(ls) :
                WithHeads(ls, a, b)[k].status.head <=> ls[k].status.head \/ k \in a .. b
<1> DEFINE n == Len(ls)
           head(k) == [ls[k] EXCEPT !.status.head = @ \/ k \in a .. b]
           f == [k \in 1 .. n |-> head(k)]
           ms == WithHeads(ls, a, b)
<1>1. ls \in Seq(Log!Line) /\ n \in Nat /\ n > 0
  <2>1. ls \in Seq(Log!Line) /\ n \in Nat
    BY DEF Log!Tiles
  <2>2. 0 \in 0 .. Size - 1
    BY Parameters
  <2>3. Log!FindBlock(ls, 0) \in 1 .. Len(ls)
    BY <2>2, FindFacts
  <2> QED
    BY <2>1, <2>3
<1>2. ASSUME NEW k \in 1 .. n
      PROVE  /\ head(k) \in Log!Line
             /\ head(k).pos = ls[k].pos /\ head(k).size = ls[k].size
             /\ head(k).status.kind = ls[k].status.kind
             /\ head(k).status.skip = ls[k].status.skip
             /\ head(k).status.head <=> ls[k].status.head \/ k \in a .. b
  <2>1. ls[k] \in Log!Line
    BY <1>1
  <2>2. (ls[k].status.head \/ k \in a .. b) \in BOOLEAN
    OBVIOUS
  <2> QED
    BY <2>1, <2>2 DEF Log!Line, Log!Status
<1> HIDE DEF head
<1>3. f \in Seq(Log!Line) /\ Len(f) = n /\ \A k \in 1 .. n : f[k] = head(k)
  BY <1>1, <1>2
<1>4. ms = SubSeq(f, 1, n)
  BY DEF WithHeads, head
<1> HIDE DEF ms, f, n
<1>5. ms \in Seq(Log!Line) /\ Len(ms) = n /\ \A k \in 1 .. n : ms[k] = head(k)
  BY <1>1, <1>3, <1>4, SubSeqProperties
<1> USE DEF n
<1>6. ASSUME NEW k \in 1 .. n
      PROVE  /\ ms[k].pos = ls[k].pos /\ Log!EndOf(ms[k]) = Log!EndOf(ls[k])
             /\ ms[k].status.kind = ls[k].status.kind
             /\ ms[k].status.skip = ls[k].status.skip
             /\ ms[k].status.head <=> ls[k].status.head \/ k \in a .. b
  BY <1>2, <1>5 DEF Log!EndOf
<1>7. Log!Tiles(ms)
  <2>1. ASSUME NEW x \in Log!Sectors PROVE \E k \in 1 .. Len(ms) : Log!Holds(ms[k], x)
    <3>1. PICK k \in 1 .. n : Log!Holds(ls[k], x)
      BY DEF Log!Tiles
    <3> QED
      BY <1>5, <1>6, <3>1 DEF Log!Holds
  <2> QED
    BY <1>5, <1>6, <2>1 DEF Log!Tiles
<1> QED
  BY <1>5, <1>6, <1>7 DEF SameLines, ms

LEMMA SameLinesRefl == ASSUME NEW ls, Log!Tiles(ls) PROVE SameLines(ls, ls)
BY DEF SameLines

LEMMA MarkRunFacts ==
    ASSUME NEW ls, Log!Tiles(ls), NEW d, NEW n
    PROVE  SameLines(ls, MarkRun(ls, d, n))
<1>1. \/ MarkRun(ls, d, n) = ls
      \/ \E a, b : MarkRun(ls, d, n) = WithHeads(ls, a, b)
  BY DEF MarkRun
<1> QED
  BY <1>1, WithHeadsFacts, SameLinesRefl

-----------------------------------------------------------------------------
(* The chunk of a turn.                                                    *)

LEMMA MinFacts ==
    ASSUME NEW S, S \subseteq Nat, S # {}
    PROVE  Min(S) \in S /\ \A y \in S : Min(S) <= y
<1>1. PICK x \in S : \A y \in S : <<y, x>> \notin OpToRel(<, Nat)
  BY NatLessThanWellFounded, WFMin
<1>2. ASSUME NEW y \in S PROVE x <= y
  <2>1. x \in Nat /\ y \in Nat /\ <<y, x>> \notin OpToRel(<, Nat)
    BY <1>1
  <2> QED
    BY <2>1 DEF OpToRel
<1> QED
  BY <1>2 DEF Min

LEMMA MaxFacts ==
    ASSUME NEW n \in Nat, NEW S, S \subseteq 1 .. n, S # {}
    PROVE  Max(S) \in S /\ \A y \in S : y <= Max(S)
<1> DEFINE T == {d \in Nat : n - d \in S}
<1>1. PICK t \in S : TRUE
  OBVIOUS
<1>2. n - t \in T
  <2>1. t \in 1 .. n
    OBVIOUS
  <2> QED
    BY <2>1
<1>3. PICK d \in T : \A e \in T : d <= e
  BY <1>2, MinFacts
<1>4. ASSUME NEW y \in S PROVE y <= n - d
  <2>1. y \in 1 .. n /\ n - (n - y) = y /\ n - y \in Nat
    OBVIOUS
  <2>2. n - y \in T
    BY <2>1
  <2> QED
    BY <1>3, <2>1, <2>2
<1>5. n - d \in S
  OBVIOUS
<1> QED
  BY <1>4, <1>5 DEF Max

(* No sector between the position and line k was not tried.                *)
NothingBetween(k, b) ==
    \A j \in 1 .. Len(lines) :
      (IF Ahead(phase) THEN b <= j /\ j < k ELSE k < j /\ j <= b)
        => lines[j].status.kind # "NONTRIED"

LEMMA NextLineFacts ==
    ASSUME Log!Tiles(lines), NEW b \in 1 .. Len(lines)
    PROVE  /\ \A k \in NextLine(b) :
                /\ k \in 1 .. Len(lines) /\ lines[k].status.kind = "NONTRIED"
                /\ IF Ahead(phase) THEN b <= k ELSE k <= b
                /\ NothingBetween(k, b)
           /\ NextLine(b) = {} =>
                \A j \in 1 .. Len(lines) :
                  (IF Ahead(phase) THEN b <= j ELSE j <= b)
                    => lines[j].status.kind # "NONTRIED"
<1> DEFINE others == {k \in DOMAIN lines :
                        Sought(k) /\ (IF Ahead(phase) THEN k > b ELSE k < b)}
<1>1. DOMAIN lines = 1 .. Len(lines) /\ Len(lines) \in Nat /\ b \in Nat
  BY DEF Log!Tiles
<1>6. others \subseteq Nat /\ others \subseteq 1 .. Len(lines)
  BY <1>1
<1>2. CASE Sought(b)
  <2>1. NextLine(b) = {b}
    BY <1>2 DEF NextLine
  <2>2. NothingBetween(b, b)
    BY <1>1 DEF NothingBetween
  <2> QED
    BY <1>1, <1>2, <2>1, <2>2 DEF Sought
<1>3. CASE ~Sought(b) /\ others = {}
  <2>1. NextLine(b) = {}
    BY <1>3 DEF NextLine
  <2>2. ASSUME NEW j \in 1 .. Len(lines), IF Ahead(phase) THEN b <= j ELSE j <= b
        PROVE  lines[j].status.kind # "NONTRIED"
    <3>1. j = b \/ j \notin others
      BY <1>3
    <3>2. CASE j = b
      BY <1>3, <3>2 DEF Sought
    <3>3. CASE j # b
      <4>1. IF Ahead(phase) THEN j > b ELSE j < b
        BY <1>1, <2>2, <3>3
      <4> QED
        BY <1>1, <3>1, <3>3, <4>1 DEF Sought
    <3> QED
      BY <3>2, <3>3
  <2> QED
    BY <2>1, <2>2
<1>4. CASE ~Sought(b) /\ others # {} /\ Ahead(phase)
  <2> DEFINE m == Min(others)
  <2>0. m \in others /\ \A j \in others : m <= j
    <3> HIDE DEF others
    <3> QED
      BY <1>1, <1>6, <1>4, MinFacts
  <2> HIDE DEF m
  <2> DEFINE k == m
  <2>1. NextLine(b) = {k}
    BY <1>4 DEF NextLine, m
  <2>3. k \in 1 .. Len(lines) /\ lines[k].status.kind = "NONTRIED" /\ b <= k
    BY <1>1, <1>4, <2>0 DEF Sought
  <2>4. ASSUME NEW j \in 1 .. Len(lines), b <= j, j < k
        PROVE  lines[j].status.kind # "NONTRIED"
    <3>1. CASE j = b
      BY <1>4, <3>1 DEF Sought
    <3>2. CASE j # b
      <4>1. j > b /\ j \notin others
        BY <1>1, <2>0, <2>3, <2>4, <3>2
      <4> QED
        BY <1>1, <1>4, <4>1 DEF Sought
    <3> QED
      BY <3>1, <3>2
  <2>5. NothingBetween(k, b)
    BY <1>4, <2>4 DEF NothingBetween
  <2> QED
    BY <1>4, <2>1, <2>3, <2>5
<1>5. CASE ~Sought(b) /\ others # {} /\ ~Ahead(phase)
  <2> DEFINE m == Max(others)
  <2>0. m \in others /\ \A j \in others : j <= m
    <3> HIDE DEF others
    <3> QED
      BY <1>1, <1>6, <1>5, MaxFacts
  <2> HIDE DEF m
  <2> DEFINE k == m
  <2>1. NextLine(b) = {k}
    BY <1>5 DEF NextLine, m
  <2>3. k \in 1 .. Len(lines) /\ lines[k].status.kind = "NONTRIED" /\ k <= b
    BY <1>1, <1>5, <2>0 DEF Sought
  <2>4. ASSUME NEW j \in 1 .. Len(lines), k < j, j <= b
        PROVE  lines[j].status.kind # "NONTRIED"
    <3>1. CASE j = b
      BY <1>5, <3>1 DEF Sought
    <3>2. CASE j # b
      <4>1. j < b /\ j \notin others
        BY <1>1, <2>0, <2>3, <2>4, <3>2
      <4> QED
        BY <1>1, <1>5, <4>1 DEF Sought
    <3> QED
      BY <3>1, <3>2
  <2>5. NothingBetween(k, b)
    BY <1>5, <2>4 DEF NothingBetween
  <2> QED
    BY <1>5, <2>1, <2>3, <2>5
<1> QED
  BY <1>2, <1>3, <1>4, <1>5

(* The sectors a turn passes on its way from the position to chunk c.      *)
Passed(c, x) ==
    IF Ahead(phase) THEN pos <= x /\ x < c.from ELSE c.to <= x /\ x < pos

(* Chunk c is what the pass reads next.                                    *)
NextChunk(c) ==
    /\ Chunk(c) /\ c.to <= c.from + Cluster /\ InOneLine(lines, c)
    /\ IF Ahead(phase) THEN pos <= c.from ELSE c.from <= pos
    /\ \A x \in 0 .. Size - 1 :
         /\ c.from <= x /\ x < c.to => KindAt(lines, x) = "NONTRIED"
         /\ Passed(c, x) => KindAt(lines, x) # "NONTRIED"

(* The line of the position, when a turn looks for it.                     *)
LEMMA PositionFacts ==
    ASSUME TypeOK, Placed, copying, InRange
    PROVE  /\ pos \in 0 .. Size - 1
           /\ Log!FindBlock(lines, pos) \in 1 .. Len(lines)
           /\ lines[Log!FindBlock(lines, pos)].pos <= pos
           /\ pos < Log!EndOf(lines[Log!FindBlock(lines, pos)])
<1>1. pos \in 0 .. Size - 1
  BY Parameters DEF TypeOK, Placed, InRange
<1> QED
  BY <1>1, FindFacts DEF TypeOK

LEMMA BetweenFacts ==
    ASSUME Log!Tiles(lines), NEW b \in 1 .. Len(lines), NEW k \in 1 .. Len(lines),
           NothingBetween(k, b), NEW x \in 0 .. Size - 1,
           IF Ahead(phase) THEN lines[b].pos <= x /\ x < lines[k].pos
           ELSE Log!EndOf(lines[k]) <= x /\ x < Log!EndOf(lines[b])
    PROVE  KindAt(lines, x) # "NONTRIED"
<1>1. PICK j \in 1 .. Len(lines) : /\ j = Log!FindBlock(lines, x)
                                   /\ lines[j].pos <= x /\ x < Log!EndOf(lines[j])
  BY FindFacts
<1>2. IF Ahead(phase) THEN b <= j /\ j < k ELSE k < j /\ j <= b
  <2>1. /\ lines[j].pos \in Nat /\ Log!EndOf(lines[j]) \in Nat
        /\ lines[k].pos \in Nat /\ Log!EndOf(lines[k]) \in Nat
        /\ lines[b].pos \in Nat /\ Log!EndOf(lines[b]) \in Nat
        /\ lines[k].pos < Log!EndOf(lines[k]) /\ lines[b].pos < Log!EndOf(lines[b])
    BY LineFacts
  <2>2. /\ j < b => Log!EndOf(lines[j]) <= lines[b].pos
        /\ b < j => Log!EndOf(lines[b]) <= lines[j].pos
        /\ j < k => Log!EndOf(lines[j]) <= lines[k].pos
        /\ k < j => Log!EndOf(lines[k]) <= lines[j].pos
    BY LinesOrdered
  <2> QED
    BY SMTT(30), <1>1, <2>1, <2>2
<1> QED
  BY <1>1, <1>2 DEF NothingBetween, KindAt, Log!StatusAt

LEMMA ChunkFacts ==
    ASSUME TypeOK, Placed, copying, NEW c \in Chunks
    PROVE  NextChunk(c)
<1> DEFINE b == Log!FindBlock(lines, pos)
<1>1. InRange
  BY DEF Chunks
<1>2. PICK k \in NextLine(b) : c = ChunkIn(k, b)
  BY <1>1 DEF Chunks
<1>3. /\ pos \in 0 .. Size - 1 /\ b \in 1 .. Len(lines)
      /\ lines[b].pos <= pos /\ pos < Log!EndOf(lines[b])
  BY <1>1, PositionFacts
<1>4. Log!Tiles(lines)
  BY DEF TypeOK
<1> HIDE DEF b
<1>5. /\ k \in 1 .. Len(lines) /\ lines[k].status.kind = "NONTRIED"
      /\ IF Ahead(phase) THEN b <= k ELSE k <= b
      /\ NothingBetween(k, b)
  BY <1>2, <1>3, <1>4, NextLineFacts
<1>6. /\ lines[k].pos \in Nat /\ lines[k].pos < Log!EndOf(lines[k])
      /\ Log!EndOf(lines[k]) \in Nat /\ Log!EndOf(lines[k]) <= Size
      /\ lines[b].pos \in Nat
      /\ Log!EndOf(lines[b]) \in Nat /\ Log!EndOf(lines[b]) <= Size
  BY <1>3, <1>4, <1>5, LineFacts
<1>7. /\ b < k => Log!EndOf(lines[b]) <= lines[k].pos
      /\ k < b => Log!EndOf(lines[k]) <= lines[b].pos
  BY <1>3, <1>4, <1>5, LinesOrdered
<1>8. adjust /\ ~Ahead(phase) => pos = Size - 1
  BY DEF Placed
<1>9. Size \in Nat /\ Cluster \in Nat /\ Cluster > 0 /\ Len(lines) \in Nat
  BY <1>4, Parameters DEF Log!Tiles
<1> DEFINE end == Log!EndOf(lines[k])
<1>10. /\ c.from \in Nat /\ c.to \in Nat /\ c.from < c.to /\ c.to <= end
       /\ lines[k].pos <= c.from /\ c.to <= c.from + Cluster
       /\ Ahead(phase) => /\ pos <= c.from
                          /\ pos < c.from => lines[k].pos = c.from /\ lines[b].pos <= pos
       /\ ~Ahead(phase) => /\ c.from <= pos
                           /\ c.to < pos => end = c.to /\ k < b
  <2>1. CASE Ahead(phase)
    <3>1. /\ c.from = IF k = b THEN pos ELSE lines[k].pos
          /\ c.to = Least(c.from + Cluster, end)
      BY <1>2, <2>1 DEF ChunkIn
    <3> HIDE DEF end
    <3>2. end \in Nat /\ lines[k].pos < end /\ (k = b => pos < end)
      BY <1>3, <1>6 DEF end
    <3> QED
      BY SMTT(30), <1>3, <1>5, <1>6, <1>7, <1>9, <2>1, <3>1, <3>2 DEF Least
  <2>2. CASE ~Ahead(phase)
    <3> DEFINE top == IF k # b THEN end ELSE IF adjust THEN Size ELSE pos
    <3>1. /\ c.from = Most(lines[k].pos, top - Cluster)
          /\ c.to = Least(c.from + Cluster, end)
      BY <1>2, <2>2 DEF ChunkIn
    <3>2. /\ top \in Nat /\ top <= end /\ (k = b => pos <= top /\ top <= pos + 1)
          /\ (k # b => top = end /\ k < b /\ end <= pos)
      BY <1>3, <1>5, <1>6, <1>7, <1>8, <1>9, <2>2
    <3> HIDE DEF top, end
    <3>3. end \in Nat /\ lines[k].pos < end /\ (k = b => lines[k].pos <= pos)
      BY <1>3, <1>6 DEF end
    <3>4. /\ c.from \in Nat /\ lines[k].pos <= c.from /\ c.from < end
          /\ top <= c.from + Cluster /\ c.from <= pos
      <4>1. lines[k].pos \in Nat /\ pos \in Nat /\ Cluster \in Nat /\ Cluster > 0
        BY <1>3, <1>6, <1>9
      <4>2. CASE lines[k].pos > top - Cluster
        <5>1. c.from = lines[k].pos
          BY <3>1, <4>2 DEF Most
        <5> QED
          BY <3>2, <3>3, <4>1, <4>2, <5>1
      <4>3. CASE ~(lines[k].pos > top - Cluster)
        <5>1. c.from = top - Cluster
          BY <3>1, <4>3 DEF Most
        <5> QED
          BY <3>2, <3>3, <4>1, <4>3, <5>1
      <4> QED
        BY <4>2, <4>3
    <3>5. c.to \in Nat /\ c.from < c.to /\ c.to <= end /\ top <= c.to /\ c.to <= c.from + Cluster
      BY <1>9, <3>1, <3>2, <3>3, <3>4 DEF Least
    <3> QED
      BY <1>3, <2>2, <3>2, <3>3, <3>4, <3>5
  <2> QED
    BY <2>1, <2>2
<1>11. InOneLine(lines, c)
  BY <1>5, <1>10 DEF InOneLine
<1>12. ASSUME NEW x \in 0 .. Size - 1, c.from <= x, x < c.to
       PROVE  KindAt(lines, x) = "NONTRIED"
  <2>1. x \in Int /\ lines[k].pos <= x /\ x < end
    BY <1>6, <1>10, <1>12
  <2>2. Log!StatusAt(lines, x) = lines[k].status
    BY <1>4, <1>5, <2>1, KindFacts
  <2> QED
    BY <1>5, <2>2 DEF KindAt
<1>13. ASSUME NEW x \in 0 .. Size - 1, Passed(c, x)
       PROVE  KindAt(lines, x) # "NONTRIED"
  <2>1. IF Ahead(phase) THEN lines[b].pos <= x /\ x < lines[k].pos
        ELSE Log!EndOf(lines[k]) <= x /\ x < Log!EndOf(lines[b])
    BY <1>3, <1>6, <1>10, <1>13 DEF Passed
  <2> QED
    BY <1>3, <1>4, <1>5, <2>1, BetweenFacts
<1> QED
  BY <1>6, <1>9, <1>10, <1>11, <1>12, <1>13 DEF NextChunk, Chunk

(* When a pass finds no chunk any more, all that is ahead of it was tried. *)
LEMMA NoChunkFacts ==
    ASSUME TypeOK, Placed, copying, Chunks = {}, NEW x \in 0 .. Size - 1,
           IF Ahead(phase) THEN pos <= x ELSE x < pos
    PROVE  KindAt(lines, x) # "NONTRIED"
<1> DEFINE b == Log!FindBlock(lines, pos)
<1>1. InRange
  BY Parameters DEF InRange, TypeOK
<1>2. NextLine(b) = {}
  BY <1>1 DEF Chunks
<1>3. /\ pos \in 0 .. Size - 1 /\ b \in 1 .. Len(lines)
      /\ lines[b].pos <= pos /\ pos < Log!EndOf(lines[b])
  BY <1>1, PositionFacts
<1>4. Log!Tiles(lines)
  BY DEF TypeOK
<1> HIDE DEF b
<1>5. PICK j \in 1 .. Len(lines) : /\ j = Log!FindBlock(lines, x)
                                   /\ lines[j].pos <= x /\ x < Log!EndOf(lines[j])
  BY <1>4, FindFacts
<1>6. IF Ahead(phase) THEN b <= j ELSE j <= b
  <2>1. /\ lines[j].pos \in Nat /\ Log!EndOf(lines[j]) \in Nat
        /\ lines[b].pos \in Nat /\ Log!EndOf(lines[b]) \in Nat
    BY <1>3, <1>4, LineFacts
  <2>2. /\ j < b => Log!EndOf(lines[j]) <= lines[b].pos
        /\ b < j => Log!EndOf(lines[b]) <= lines[j].pos
    BY <1>3, <1>4, LinesOrdered
  <2> QED
    BY <1>3, <1>5, <2>1, <2>2
<1>7. lines[j].status.kind # "NONTRIED"
  BY <1>2, <1>3, <1>4, <1>6, NextLineFacts
<1> QED
  BY <1>5, <1>7 DEF KindAt, Log!StatusAt

-----------------------------------------------------------------------------
(* What a turn leaves in the log.                                          *)

LEMMA TouchedThenSame ==
    ASSUME NEW ls, NEW ms, NEW ns, NEW c, NEW k, Touched(ls, ms, c, k), SameLines(ms, ns)
    PROVE  Touched(ls, ns, c, k)
<1>1. Log!Tiles(ms) /\ Log!Tiles(ns)
  BY DEF Touched, SameLines
<1>2. /\ \A x \in 0 .. Size - 1 : KindAt(ns, x) = KindAt(ms, x)
      /\ InOneLine(ms, c) => InOneLine(ns, c)
  BY <1>1, SameLinesFacts
<1> QED
  BY <1>1, <1>2 DEF Touched

LEMMA SameThenTouched ==
    ASSUME NEW ls, NEW ms, NEW ns, NEW c, NEW k, Log!Tiles(ls), SameLines(ls, ms),
           Touched(ms, ns, c, k)
    PROVE  Touched(ls, ns, c, k)
<1>1. \A x \in 0 .. Size - 1 : KindAt(ms, x) = KindAt(ls, x)
  BY SameLinesFacts
<1> QED
  BY <1>1 DEF Touched

LEMMA TouchedTwice ==
    ASSUME NEW ls, NEW ms, NEW ns, NEW c, NEW k, NEW l, Touched(ls, ms, c, k),
           Touched(ms, ns, c, l)
    PROVE  Touched(ls, ns, c, l)
BY DEF Touched

LEMMA MarkedFacts ==
    ASSUME Log!Tiles(lines), NEW c
    PROVE  SameLines(lines, Marked(c))
BY MarkRunFacts, SameLinesRefl DEF Marked

LEMMA RunOverFacts ==
    ASSUME NEW ls, Log!Tiles(ls), NEW run, NEW s, NEW d, RunOver(ls, run, s, d)
    PROVE  SameLines(ls, lines')
BY MarkRunFacts, SameLinesRefl DEF RunOver

LEMMA CurrentFacts ==
    ASSUME TypeOK, NEW c
    PROVE  Bounded(Current(c)) /\ Current(c).count \in 0 .. LastNumber /\ Current(c).size \in Nat
<1>1. Bounded(Current(c))
  BY ResetBounded DEF Current, TypeOK
<1> QED
  BY <1>1 DEF Bounded, Sizes

LEMMA StatusFacts ==
    ASSUME NEW k \in Kinds
    PROVE  /\ Status(k, 0) \in Log!Status /\ Status(k, 0).kind = k
           /\ \A n \in 0 .. LastNumber :
                /\ Status(k, Field(Direction(phase), n)) \in Log!Status
                /\ Status(k, Field(Direction(phase), n)).kind = k
<1>1. 0 \in Marks
  BY DEF Marks
<1>2. ASSUME NEW n \in 0 .. LastNumber PROVE Field(Direction(phase), n) \in Marks
  BY DEF Marks, Direction
<1> QED
  BY <1>1, <1>2 DEF Status, Log!Status

LEMMA GoodLog ==
    ASSUME TypeOK, Placed, copying, NEW c \in Chunks
    PROVE  Touched(lines, Change(Marked(c), c, Status("FINISHED", 0)), c, "FINISHED")
<1>1. Log!Tiles(lines) /\ Chunk(c) /\ InOneLine(lines, c)
  BY ChunkFacts DEF TypeOK, NextChunk
<1>2. SameLines(lines, Marked(c)) /\ Log!Tiles(Marked(c)) /\ InOneLine(Marked(c), c)
  BY <1>1, MarkedFacts, SameLinesFacts DEF SameLines
<1>3. Status("FINISHED", 0) \in Log!Status /\ Status("FINISHED", 0).kind = "FINISHED"
  BY StatusFacts DEF Kinds
<1>4. Touched(Marked(c), Change(Marked(c), c, Status("FINISHED", 0)), c, "FINISHED")
  BY <1>1, <1>2, <1>3, ChangeFacts
<1> QED
  BY <1>1, <1>2, <1>4, SameThenTouched

KindOf(c) == IF Meets(c, setup.bad) THEN "NONTRIMMED" ELSE "FINISHED"

LEMMA SkipLog ==
    ASSUME TypeOK, Placed, copying, NEW c \in Chunks
    PROVE  Touched(lines, SkipMarks(c), c, KindOf(c))
<1>1. Log!Tiles(lines) /\ Chunk(c) /\ InOneLine(lines, c)
  BY ChunkFacts DEF TypeOK, NextChunk
<1> DEFINE n == Current(c).count
           mark == Field(Direction(phase), n)
<1>2. n \in 0 .. LastNumber
  BY CurrentFacts
<1>3. CASE Meets(c, setup.bad)
  <2> DEFINE st == Status("NONTRIMMED", mark)
  <2>1. SkipMarks(c) = Change(Marked(c), c, st) /\ KindOf(c) = "NONTRIMMED"
    BY <1>3 DEF SkipMarks, KindOf
  <2>2. SameLines(lines, Marked(c)) /\ Log!Tiles(Marked(c)) /\ InOneLine(Marked(c), c)
    BY <1>1, MarkedFacts, SameLinesFacts DEF SameLines
  <2>3. st \in Log!Status /\ st.kind = "NONTRIMMED"
    BY <1>2, StatusFacts DEF Kinds
  <2> HIDE DEF st, mark
  <2>4. Touched(Marked(c), Change(Marked(c), c, st), c, "NONTRIMMED")
    BY <1>1, <2>2, <2>3, ChangeFacts
  <2> QED
    BY <1>1, <2>1, <2>2, <2>4, SameThenTouched
<1>4. CASE ~Meets(c, setup.bad)
  <2> DEFINE st == Status("FINISHED", mark)
             read == Change(Marked(c), c, Status("FINISHED", 0))
  <2>1. SkipMarks(c) = Change(read, c, st) /\ KindOf(c) = "FINISHED"
    BY <1>4 DEF SkipMarks, KindOf
  <2>2. Touched(lines, read, c, "FINISHED")
    BY GoodLog
  <2>3. st \in Log!Status /\ st.kind = "FINISHED"
    BY <1>2, StatusFacts DEF Kinds
  <2> HIDE DEF st, mark, read
  <2>4. Touched(read, Change(read, c, st), c, "FINISHED")
    BY <1>1, <2>2, <2>3, ChangeFacts DEF Touched
  <2> QED
    BY <2>1, <2>2, <2>4, TouchedTwice
<1> QED
  BY <1>3, <1>4

(* A chunk that meets a bad or slow sector is not away from all of them.   *)
LEMMA HardChunk ==
    ASSUME TypeOK, NEW c, NextChunk(c), Meets(c, setup.bad) \/ Meets(c, setup.slow)
    PROVE  /\ \A x \in Before : x < c.from
           /\ \A x \in Behind : x >= c.to
<1>1. PICK y \in Hard : c.from <= y /\ y < c.to
  BY DEF Meets, Hard, NextChunk, Chunk
<1>2. y \in Nat /\ Size \in Nat /\ Cluster \in Nat
  BY Parameters DEF Hard, TypeOK, Setups
<1>3. c.from \in Nat /\ c.to \in Nat /\ c.to <= c.from + Cluster
  BY DEF NextChunk, Chunk
<1>4. ASSUME NEW x \in Before PROVE x < c.from
  <2>1. x \in Nat /\ y - x >= Cluster
    BY <1>2 DEF Before
  <2> QED
    BY <1>1, <1>2, <1>3, <2>1
<1>5. ASSUME NEW x \in Behind PROVE x >= c.to
  <2>1. x \in Nat /\ x - y >= Cluster
    BY <1>2 DEF Behind
  <2> QED
    BY <1>1, <1>2, <1>3, <2>1
<1> QED
  BY <1>4, <1>5

-----------------------------------------------------------------------------
(* The steps.                                                              *)

(* A turn that gave chunk c the kind k and left the position where the     *)
(* pass has come to.                                                       *)
Turned(c, k) ==
    /\ setup' = setup /\ phase' = phase /\ missed \subseteq missed'
    /\ Touched(lines, lines', c, k) /\ k \in {"FINISHED", "NONTRIMMED"}
    /\ k = "FINISHED" \/ \A x \in Before \cup Behind : ~(c.from <= x /\ x < c.to)
    /\ Ahead(phase) => \A x \in Before : x < pos' => x < c.to
    /\ ~Ahead(phase) => \A x \in Behind : x >= pos' => x >= c.from

Reading == NoneFailed /\ ReadUpward /\ ReadDownward

LEMMA SidesKept ==
    ASSUME setup' = setup
    PROVE  Before' = Before /\ Behind' = Behind /\ \A p : Ahead(p)' = Ahead(p)
BY DEF Before, Behind, Hard, Ahead

LEMMA AheadFacts ==
    ASSUME setup \in Setups
    PROVE  /\ Ahead(IF setup.reverse THEN 2 ELSE 1)
           /\ ~Ahead(IF setup.reverse THEN 1 ELSE 2)
           /\ Ahead(1) <=> ~setup.reverse
           /\ Ahead(2) <=> setup.reverse
<1>1. setup.reverse \in BOOLEAN
  BY DEF Setups
<1>2. CASE setup.reverse = TRUE
  <2>1. Ahead(2)
    <3>1. (2 = 1) = FALSE
      OBVIOUS
    <3> QED
      BY <1>2, <3>1, Zenon DEF Ahead
  <2>2. ~Ahead(1)
    BY <1>2, Zenon DEF Ahead
  <2> QED
    BY <1>2, <2>1, <2>2
<1>3. CASE setup.reverse = FALSE
  <2>1. ~Ahead(2)
    <3>1. (2 = 1) = FALSE
      OBVIOUS
    <3> QED
      BY <1>3, <3>1, Zenon DEF Ahead
  <2>2. Ahead(1)
    BY <1>3, Zenon DEF Ahead
  <2> QED
    BY <1>3, <2>1, <2>2
<1> QED
  BY <1>1, <1>2, <1>3

LEMMA MissedKept ==
    ASSUME missed \subseteq missed'
    PROVE  Sectors(missed) \subseteq Sectors(missed')
BY DEF Sectors

LEMMA TurnedReading ==
    ASSUME IInv, copying, NEW c, NextChunk(c), NEW k, Turned(c, k)
    PROVE  Reading'
<1>1. /\ setup' = setup /\ Before' = Before /\ Behind' = Behind /\ phase' = phase
      /\ Sectors(missed) \subseteq Sectors(missed')
  BY SidesKept, MissedKept DEF Turned
<1>2. /\ Before \subseteq 0 .. Size - 1 /\ Behind \subseteq 0 .. Size - 1
      /\ pos \in Int /\ c.from \in Nat /\ c.to \in Nat
  BY DEF Before, Behind, IInv, TypeOK, NextChunk, Chunk
<1>3. ASSUME NEW x \in 0 .. Size - 1
      PROVE  /\ KindAt(lines', x) = IF c.from <= x /\ x < c.to THEN k ELSE KindAt(lines, x)
             /\ c.from <= x /\ x < c.to => KindAt(lines, x) = "NONTRIED"
             /\ Passed(c, x) => KindAt(lines, x) # "NONTRIED"
  BY DEF Turned, Touched, NextChunk
<1>4. ASSUME NEW x \in Before \cup Behind
      PROVE  /\ KindAt(lines, x) \in {"NONTRIED", "FINISHED"}
             /\ c.from <= x /\ x < c.to => k = "FINISHED"
  BY DEF Turned, IInv, NoneFailed
<1>5. NoneFailed'
  <2>1. ASSUME NEW x \in Before \cup Behind PROVE KindAt(lines', x) \in {"NONTRIED", "FINISHED"}
    BY <1>2, <1>3, <1>4
  <2> QED
    BY <1>1, <2>1 DEF NoneFailed, KindAt
<1>6. ReadUpward'
  <2> DEFINE p == IF setup.reverse THEN 2 ELSE 1
  <2>1. p \in {1, 2} /\ Ahead(p)
    BY AheadFacts DEF IInv, TypeOK
  <2>2. ASSUME NEW x \in Before, phase > p \/ (phase = p /\ x < pos')
        PROVE  KindAt(lines', x) = "FINISHED"
    <3>1. CASE phase > p \/ (phase = p /\ x < pos)
      <4>1. KindAt(lines, x) = "FINISHED"
        BY <3>1 DEF IInv, ReadUpward
      <4> QED
        BY <1>2, <1>3, <1>4, <4>1
    <3>2. CASE phase = p /\ x < pos' /\ x >= pos
      <4>1. x < c.to
        BY <2>1, <3>2 DEF Turned
      <4>2. CASE c.from <= x
        BY <1>2, <1>3, <1>4, <4>1, <4>2
      <4>3. CASE x < c.from
        <5>1. Passed(c, x)
          BY <2>1, <3>2, <4>3 DEF Passed
        <5> QED
          BY <1>2, <1>3, <1>4, <4>3, <5>1
      <4> QED
        BY <1>2, <4>2, <4>3
    <3> QED
      BY <1>2, <2>2, <3>1, <3>2
  <2> HIDE DEF p
  <2>3. p' = p
    BY <1>1 DEF p
  <2> QED
    BY <1>1, <2>2, <2>3 DEF ReadUpward, KindAt, p
<1>7. ReadDownward'
  <2> DEFINE p == IF setup.reverse THEN 1 ELSE 2
  <2>1. p \in {1, 2} /\ ~Ahead(p)
    BY AheadFacts DEF IInv, TypeOK
  <2>2. ASSUME NEW x \in Behind \ {Size - 1}, phase > p \/ (phase = p /\ x >= pos')
        PROVE  KindAt(lines', x) = "FINISHED" \/ x \in Sectors(missed)
    <3>1. CASE phase > p \/ (phase = p /\ x >= pos)
      <4>1. KindAt(lines, x) = "FINISHED" \/ x \in Sectors(missed)
        BY <3>1 DEF IInv, ReadDownward
      <4> QED
        BY <1>2, <1>3, <1>4, <4>1
    <3>2. CASE phase = p /\ x >= pos' /\ x < pos
      <4>1. x >= c.from
        BY <2>1, <3>2 DEF Turned
      <4>2. CASE x < c.to
        BY <1>2, <1>3, <1>4, <4>1, <4>2
      <4>3. CASE x >= c.to
        <5>1. Passed(c, x)
          BY <1>2, <2>1, <3>2, <4>3 DEF Passed
        <5> QED
          BY <1>2, <1>3, <1>4, <4>3, <5>1
      <4> QED
        BY <1>2, <4>2, <4>3
    <3> QED
      BY <1>2, <2>2, <3>1, <3>2
  <2> HIDE DEF p
  <2>3. p' = p
    BY <1>1 DEF p
  <2> QED
    BY <1>1, <2>2, <2>3 DEF ReadDownward, KindAt, p
<1> QED
  BY <1>5, <1>6, <1>7 DEF Reading

(* Sizes stay bounded.                                                     *)

LEMMA EndBounded ==
    ASSUME setup \in Setups, NEW s, Bounded(s)
    PROVE  Bounded([Reset(s) EXCEPT !.min = MinSkip, !.size = MinSkip])
<1> DEFINE r == Reset(s)
           e == [r EXCEPT !.min = MinSkip, !.size = MinSkip]
<1>1. r \in Sizes
  BY ResetBounded DEF Bounded
<1> HIDE DEF r
<1>2. e \in Sizes /\ e.min = MinSkip /\ e.size = MinSkip
  BY <1>1, Parameters DEF Sizes
<1>3. setup.max \in Nat /\ MinSkip <= setup.max
  BY Parameters DEF Setups
<1> HIDE DEF e
<1>4. Bounded(e)
  BY <1>2, <1>3, HalfFacts, Parameters DEF Bounded, Most
<1> QED
  BY <1>4 DEF e, r

LEMMA SizesNext ==
    ASSUME setup \in Setups, Bounded(skips), [Next]_vars
    PROVE  setup' = setup /\ Bounded(skips)'
<1>1. SUFFICES setup' = setup /\ Bounded(skips')
  BY DEF Bounded
<1>2. ASSUME NEW c PROVE Bounded(Current(c))
  BY ResetBounded DEF Current
<1>3. CASE Begin
  BY <1>3, ResetBounded DEF Begin
<1>4. CASE TurnGood
  BY <1>2, <1>4 DEF TurnGood
<1>5. CASE TurnSkip
  BY <1>2, <1>5, GrownBounded DEF TurnSkip, Skip
<1>6. CASE TurnUsedUp
  BY <1>2, <1>6, GrownBounded, ResetBounded DEF TurnUsedUp, Skip
<1>7. CASE PassEnd
  <2>1. Bounded(Reset(Reset(skips)))
    BY ResetBounded
  <2> QED
    BY <1>7, <2>1, EndBounded DEF PassEnd
<1>8. CASE TurnDeviceLost
  BY <1>2, <1>8, GrownBounded DEF TurnDeviceLost, Skip
<1>9. CASE Stop
  BY <1>9 DEF Stop
<1>10. CASE StopInRead
  BY <1>2, <1>10 DEF StopInRead
<1>11. CASE UNCHANGED vars
  BY <1>11 DEF vars
<1> QED
  BY <1>3, <1>4, <1>5, <1>6, <1>7, <1>8, <1>9, <1>10, <1>11 DEF Next, Turn, Terminating

LEMMA SetupsInit ==
    ASSUME Init
    PROVE  setup \in Setups
<1>1. ASSUME NEW s \in Stretches PROVE s \subseteq 0 .. Size - 1
  BY SkippingAssumption DEF Stretches
<1>2. PICK fast \in Fasts, reverse \in BOOLEAN, max \in MaxSkips, one \in Stretches,
           two \in Stretches :
        setup \in [fast : {fast}, reverse : {reverse}, max : {max},
                   bad : {one \cup two}, slow : {{}}]
                  \cup [fast : {fast}, reverse : {reverse}, max : {max},
                        bad : {one}, slow : {two}]
  BY DEF Init
<1>3. fast \in BOOLEAN /\ one \cup two \subseteq 0 .. Size - 1 /\ {} \subseteq 0 .. Size - 1
  BY <1>1, SkippingAssumption
<1> QED
  BY <1>1, <1>2, <1>3 DEF Setups

(* SizesBounded: whatever the skips of a pass and of the one after it.     *)
THEOREM SizesStayBounded == Spec => []SizesBounded
<1> DEFINE I == setup \in Setups /\ Bounded(skips)
<1>1. Init => I
  BY SetupsInit, FreshBounded DEF Init
<1>2. I /\ [Next]_vars => I'
  BY SizesNext
<1>3. I => SizesBounded
  BY HalfFacts, Parameters DEF Bounded, Sizes, SizesBounded, Setups
<1> QED
  BY <1>1, <1>2, <1>3, PTL DEF Spec

(* A step that moves no kind, and brings the position not on.              *)
LEMMA QuietReading ==
    ASSUME IInv, setup' = setup, phase' = phase, missed' = missed,
           \A x \in 0 .. Size - 1 : KindAt(lines', x) = KindAt(lines, x),
           Ahead(phase) => \A x \in 0 .. Size - 1 : x < pos' => x < pos,
           ~Ahead(phase) =>
             \A x \in 0 .. Size - 2 :
               (copying' \/ pos' > 0 \/ ~setup.reverse) /\ x >= pos'
                 => (copying \/ pos > 0 \/ ~setup.reverse) /\ x >= pos
    PROVE  Reading'
<1>1. Before' = Before /\ Behind' = Behind
  BY SidesKept
<1>2. Before \subseteq 0 .. Size - 1 /\ Behind \subseteq 0 .. Size - 1 /\ Size \in Nat
  BY Parameters DEF Before, Behind
<1>3. NoneFailed'
  BY <1>1, <1>2 DEF IInv, NoneFailed, KindAt
<1>4. ReadUpward'
  <2> DEFINE p == IF setup.reverse THEN 2 ELSE 1
  <2>1. Ahead(p)
    BY AheadFacts DEF IInv, TypeOK
  <2>2. ASSUME NEW x \in Before, phase > p \/ (phase = p /\ x < pos')
        PROVE  KindAt(lines', x) = "FINISHED"
    <3>1. phase > p \/ (phase = p /\ x < pos)
      BY <1>2, <2>1, <2>2
    <3> QED
      BY <1>2, <3>1 DEF IInv, ReadUpward
  <2> QED
    BY <1>1, <2>2 DEF ReadUpward, KindAt
<1>5. ReadDownward'
  <2> DEFINE p == IF setup.reverse THEN 1 ELSE 2
             begun == copying \/ pos > 0 \/ ~setup.reverse
             after == copying' \/ pos' > 0 \/ ~setup.reverse
  <2>1. ~Ahead(p)
    BY AheadFacts DEF IInv, TypeOK
  <2>2. ASSUME NEW x \in Behind \ {Size - 1}, phase > p \/ (phase = p /\ after /\ x >= pos')
        PROVE  KindAt(lines', x) = "FINISHED" \/ x \in Sectors(missed)
    <3>1. x \in 0 .. Size - 2
      BY <1>2
    <3>2. phase > p \/ (phase = p /\ begun /\ x >= pos)
      BY <2>1, <2>2, <3>1
    <3> QED
      BY <1>2, <3>2 DEF IInv, ReadDownward
  <2> QED
    BY <1>1, <2>2 DEF ReadDownward, KindAt, Sectors
<1> QED
  BY <1>3, <1>4, <1>5 DEF Reading

LEMMA TurnGoodStep == IInv /\ TurnGood => IInv'
<1> SUFFICES ASSUME IInv, TurnGood PROVE IInv'
  OBVIOUS
<1>1. PICK c \in Chunks :
        /\ lines' = Change(Marked(c), c, Status("FINISHED", 0))
        /\ pos' = IF Ahead(phase) THEN c.to ELSE c.from
        /\ skips' = Current(c)
  BY DEF TurnGood
<1>2. /\ copying /\ ~adjust' /\ adjust' \in BOOLEAN
      /\ setup' = setup /\ phase' = phase /\ copying' = copying /\ missed' = missed
  BY DEF TurnGood
<1>3. TypeOK /\ Placed
  BY DEF IInv
<1>4. NextChunk(c) /\ Touched(lines, lines', c, "FINISHED")
  BY <1>1, <1>2, <1>3, ChunkFacts, GoodLog
<1>5. c.from \in Nat /\ c.to \in Nat /\ Size \in Nat /\ pos \in Int
  BY <1>3, <1>4, Parameters DEF NextChunk, Chunk, TypeOK
<1>6. Turned(c, "FINISHED")
  BY <1>1, <1>2, <1>4, <1>5 DEF Turned
<1>7. Reading'
  BY <1>2, <1>4, <1>6, TurnedReading
<1>8. TypeOK'
  <2>1. Bounded(skips)'
    BY <1>3, SizesNext DEF Next, Turn, TypeOK
  <2>2. Log!Tiles(lines)'
    BY <1>4 DEF Touched
  <2> QED
    BY <1>1, <1>2, <1>3, <1>5, <2>1, <2>2 DEF TypeOK
<1>9. Placed'
  <2>1. phase < 3 /\ (Ahead(phase) => pos' >= 0) /\ (~Ahead(phase) => pos' <= Size - 1)
    BY <1>1, <1>2, <1>3, <1>4, <1>5 DEF Placed, NextChunk
  <2>2. Ahead(phase)' = Ahead(phase)
    BY <1>2 DEF Ahead
  <2> QED
    BY <1>2, <2>1, <2>2 DEF Placed
<1> QED
  BY <1>7, <1>8, <1>9 DEF IInv, Reading

(* Turns that make a skip: the log is that of SkipMarks, but for heads, and *)
(* the position jumps with or without the size of the chunk.               *)
LEMMA SkipTurned ==
    ASSUME IInv, NEW c \in Chunks, Skip(c), pos' \in {Onward(c), Target(c)},
           SameLines(SkipMarks(c), lines'), copying' \in BOOLEAN, Bounded(skips)'
    PROVE  IInv' /\ NextChunk(c) /\ Touched(lines, lines', c, KindOf(c))
<1>1. /\ copying /\ setup' = setup /\ phase' = phase /\ missed' = missed
      /\ adjust' = FALSE /\ adjust' \in BOOLEAN
      /\ Meets(c, setup.bad) \/ Meets(c, setup.slow)
  BY DEF Skip
<1>2. TypeOK /\ Placed
  BY DEF IInv
<1>3. NextChunk(c) /\ Touched(lines, SkipMarks(c), c, KindOf(c))
  BY <1>1, <1>2, ChunkFacts, SkipLog
<1>4. Touched(lines, lines', c, KindOf(c))
  BY <1>3, TouchedThenSame
<1>5. /\ \A x \in Before : x < c.from
      /\ \A x \in Behind : x >= c.to
  BY <1>1, <1>2, <1>3, HardChunk
<1>6. /\ c.from \in Nat /\ c.to \in Nat /\ c.from < c.to /\ Size \in Nat /\ pos \in Int
      /\ Current(c).size \in Nat /\ Before \subseteq Nat /\ Behind \subseteq Nat
  BY <1>2, <1>3, CurrentFacts, Parameters DEF NextChunk, Chunk, TypeOK, Before, Behind
<1>7. /\ pos' \in Int
      /\ Ahead(phase) => pos' >= 0
      /\ ~Ahead(phase) => pos' <= c.from
  <2>1. Target(c) = IF Ahead(phase) THEN c.from + Current(c).size
                    ELSE c.from - Current(c).size
    BY DEF Target
  <2>2. Onward(c) = IF Ahead(phase) THEN Target(c) + (c.to - c.from) ELSE Target(c)
    BY DEF Onward
  <2> QED
    BY <1>6, <2>1, <2>2
<1>8. Turned(c, KindOf(c))
  <2>1. KindOf(c) \in {"FINISHED", "NONTRIMMED"}
    BY DEF KindOf
  <2>2. \A x \in Before \cup Behind : ~(c.from <= x /\ x < c.to)
    BY <1>5, <1>6
  <2>3. \A x \in Before : x < c.to
    BY <1>5, <1>6
  <2>4. \A x \in Behind : x >= c.from
    BY <1>5, <1>6
  <2> QED
    BY <1>1, <1>4, <2>1, <2>2, <2>3, <2>4 DEF Turned
<1>9. Reading'
  BY <1>1, <1>3, <1>8, TurnedReading
<1>10. TypeOK'
  <2>1. Log!Tiles(lines)'
    BY <1>4 DEF Touched
  <2> QED
    BY <1>1, <1>2, <1>7, <2>1 DEF TypeOK
<1>11. Placed'
  <2>1. phase < 3 /\ (~Ahead(phase) => pos' <= Size - 1)
    BY <1>1, <1>2, <1>3, <1>6, <1>7 DEF Placed, NextChunk
  <2>2. Ahead(phase)' = Ahead(phase)
    BY <1>1 DEF Ahead
  <2> QED
    BY <1>1, <1>7, <2>1, <2>2 DEF Placed
<1> QED
  BY <1>3, <1>4, <1>9, <1>10, <1>11 DEF IInv, Reading

LEMMA BoundedNext == IInv /\ Next => setup' = setup /\ Bounded(skips)'
BY SizesNext DEF IInv, TypeOK

LEMMA SkipTiles ==
    ASSUME IInv, copying, NEW c \in Chunks
    PROVE  Log!Tiles(SkipMarks(c))
BY SkipLog DEF IInv, Touched

LEMMA TurnSkipStep == IInv /\ TurnSkip => IInv'
<1> SUFFICES ASSUME IInv, TurnSkip PROVE IInv'
  OBVIOUS
<1>1. PICK c \in Chunks : Skip(c) /\ lines' = SkipMarks(c) /\ pos' = Onward(c) /\ copying' = copying
  BY DEF TurnSkip
<1>2. copying /\ copying \in BOOLEAN
  BY <1>1 DEF Skip, IInv, TypeOK
<1>3. Bounded(skips)' /\ SameLines(SkipMarks(c), lines')
  BY <1>1, <1>2, BoundedNext, SkipTiles, SameLinesRefl DEF Next, Turn
<1> QED
  BY <1>1, <1>2, <1>3, SkipTurned

LEMMA TurnUsedUpStep == IInv /\ TurnUsedUp => IInv'
<1> SUFFICES ASSUME IInv, TurnUsedUp PROVE IInv'
  OBVIOUS
<1>1. PICK c \in Chunks :
        /\ Skip(c) /\ pos' \in {Onward(c), Target(c)} /\ copying' \in {copying, FALSE}
        /\ \E run, s, d : RunOver(SkipMarks(c), run, s, d)
  BY DEF TurnUsedUp
<1>2. copying /\ copying' \in BOOLEAN
  BY <1>1 DEF Skip, IInv, TypeOK
<1>3. Bounded(skips)' /\ SameLines(SkipMarks(c), lines')
  BY <1>1, <1>2, BoundedNext, SkipTiles, RunOverFacts DEF Next, Turn
<1> QED
  BY <1>1, <1>2, <1>3, SkipTurned

LEMMA TurnDeviceLostStep == IInv /\ TurnDeviceLost => IInv'
<1> SUFFICES ASSUME IInv, TurnDeviceLost PROVE IInv'
  OBVIOUS
<1>1. PICK c \in Chunks : Skip(c) /\ lines' = SkipMarks(c) /\ pos' = Target(c) /\ copying' = FALSE
  BY DEF TurnDeviceLost
<1>2. copying
  BY <1>1 DEF Skip
<1>3. Bounded(skips)' /\ SameLines(SkipMarks(c), lines')
  BY <1>1, <1>2, BoundedNext, SkipTiles, SameLinesRefl DEF Next
<1> QED
  BY <1>1, <1>2, <1>3, SkipTurned

LEMMA StopStep == IInv /\ Stop => IInv'
<1> SUFFICES ASSUME IInv, Stop PROVE IInv'
  OBVIOUS
<1>1. /\ copying /\ copying' = FALSE
      /\ UNCHANGED <<setup, lines, phase, pos, adjust, skips, missed>>
  BY DEF Stop, log
<1>2. Reading'
  BY <1>1, QuietReading
<1>3. TypeOK'
  <2>1. Bounded(skips)'
    BY BoundedNext DEF Next
  <2> QED
    BY <1>1, <2>1 DEF IInv, TypeOK
<1>4. Placed'
  BY <1>1 DEF Placed
<1> QED
  BY <1>2, <1>3, <1>4 DEF IInv, Reading

LEMMA StopInReadStep == IInv /\ StopInRead => IInv'
<1> SUFFICES ASSUME IInv, StopInRead PROVE IInv'
  OBVIOUS
<1>1. PICK c \in Chunks : /\ pos' = c.from /\ missed' = missed \cup {c} /\ lines' = Marked(c)
  BY DEF StopInRead
<1>2. /\ copying /\ copying' = FALSE /\ setup' = setup /\ phase' = phase /\ adjust' = adjust
  BY DEF StopInRead
<1>3. TypeOK /\ Placed /\ Log!Tiles(lines)
  BY DEF IInv, TypeOK
<1>4. NextChunk(c)
  BY <1>2, <1>3, ChunkFacts
<1>5. SameLines(lines, lines')
  BY <1>1, <1>3, MarkedFacts
<1>6. \A x \in 0 .. Size - 1 : KindAt(lines', x) = KindAt(lines, x)
  BY <1>3, <1>5, SameLinesFacts
<1>7. Before' = Before /\ Behind' = Behind
  BY <1>2, SidesKept
<1>8. /\ Before \subseteq 0 .. Size - 1 /\ Behind \subseteq 0 .. Size - 1
      /\ c.from \in Nat /\ c.to \in Nat /\ pos \in Int
  BY <1>3, <1>4 DEF Before, Behind, NextChunk, Chunk, TypeOK
<1>9. Sectors(missed') = Sectors(missed) \cup (c.from .. c.to - 1)
  BY <1>1 DEF Sectors
<1>10. ASSUME NEW x \in Before \cup Behind, Passed(c, x) PROVE KindAt(lines, x) = "FINISHED"
  BY <1>4, <1>8, <1>10 DEF NextChunk, IInv, NoneFailed
<1>11. NoneFailed'
  BY <1>6, <1>7, <1>8 DEF IInv, NoneFailed, KindAt
<1>12. ReadUpward'
  <2> DEFINE p == IF setup.reverse THEN 2 ELSE 1
  <2>1. Ahead(p)
    BY AheadFacts DEF IInv, TypeOK
  <2>2. ASSUME NEW x \in Before, phase > p \/ (phase = p /\ x < c.from)
        PROVE  KindAt(lines, x) = "FINISHED"
    <3>1. CASE phase > p \/ (phase = p /\ x < pos)
      BY <3>1 DEF IInv, ReadUpward
    <3>2. CASE phase = p /\ x >= pos /\ x < c.from
      <4>1. Passed(c, x)
        BY <2>1, <3>2 DEF Passed
      <4> QED
        BY <1>10, <4>1
    <3> QED
      BY <1>8, <2>2, <3>1, <3>2
  <2> HIDE DEF p
  <2>3. p' = p
    BY <1>2 DEF p
  <2>4. \A x \in Before : phase > p \/ (phase = p /\ x < c.from) => KindAt(lines', x) = "FINISHED"
    BY <1>6, <1>8, <2>2
  <2> QED
    BY <1>1, <1>2, <1>7, <2>3, <2>4 DEF ReadUpward, KindAt, p
<1>13. ReadDownward'
  <2> DEFINE p == IF setup.reverse THEN 1 ELSE 2
  <2>1. ~Ahead(p)
    BY AheadFacts DEF IInv, TypeOK
  <2>2. ASSUME NEW x \in Behind \ {Size - 1}, phase > p \/ (phase = p /\ x >= c.from)
        PROVE  KindAt(lines, x) = "FINISHED" \/ x \in Sectors(missed')
    <3>1. CASE phase > p \/ (phase = p /\ x >= pos)
      BY <1>2, <1>9, <3>1 DEF IInv, ReadDownward
    <3>2. CASE phase = p /\ x < pos /\ x >= c.to
      <4>1. Passed(c, x)
        BY <2>1, <3>2 DEF Passed
      <4> QED
        BY <1>10, <4>1
    <3>3. CASE x >= c.from /\ x < c.to
      BY <1>8, <1>9, <3>3
    <3> QED
      BY <1>8, <2>2, <3>1, <3>2, <3>3
  <2> HIDE DEF p
  <2>3. p' = p
    BY <1>2 DEF p
  <2>4. \A x \in Behind \ {Size - 1} :
          phase > p \/ (phase = p /\ x >= c.from)
            => KindAt(lines', x) = "FINISHED" \/ x \in Sectors(missed')
    BY <1>6, <1>8, <2>2
  <2>5. Sectors(missed)' = Sectors(missed')
    BY DEF Sectors
  <2> QED
    BY <1>1, <1>2, <1>7, <2>3, <2>4, <2>5 DEF ReadDownward, KindAt, p
<1>14. TypeOK'
  <2>1. Bounded(skips)'
    BY BoundedNext DEF Next
  <2>2. Log!Tiles(lines)' /\ pos' \in Int
    BY <1>1, <1>5, <1>8 DEF SameLines
  <2> QED
    BY <1>2, <1>3, <2>1, <2>2 DEF TypeOK
<1>15. Placed'
  BY <1>2 DEF Placed
<1> QED
  BY <1>11, <1>12, <1>13, <1>14, <1>15 DEF IInv

LEMMA BeginStep == IInv /\ Begin => IInv'
<1> SUFFICES ASSUME IInv, Begin PROVE IInv'
  OBVIOUS
<1> DEFINE q == Resumed
<1>1. /\ ~copying /\ phase < 3 /\ phase' = phase /\ copying' = TRUE
      /\ setup' = setup /\ missed' = missed
      /\ pos' = IF Ahead(phase) THEN q ELSE Least(q, Size - 1)
      /\ adjust' = (~Ahead(phase) /\ q >= Size)
  BY DEF Begin, StartPass
<1>2. Log!Tiles(lines) /\ setup \in Setups /\ pos \in Int /\ phase \in {1, 2} /\ Size \in Nat /\ Size > 0
  BY <1>1, Parameters DEF IInv, TypeOK
<1>3. SameLines(lines, lines')
  BY <1>2, RunOverFacts DEF Begin
<1>4. \A x \in 0 .. Size - 1 : KindAt(lines', x) = KindAt(lines, x)
  BY <1>2, <1>3, SameLinesFacts
<1>5. Ahead(phase) <=> ((phase = 1 /\ ~setup.reverse) \/ (phase = 2 /\ setup.reverse))
  BY <1>2, AheadFacts
<1>6. q = LET p == IF pos < 0 THEN 0
                   ELSE IF pos >= Size THEN (IF setup.reverse THEN Size ELSE Size - 1) ELSE pos
          IN  IF setup.reverse /\ phase = 1 /\ p = 0 THEN Size ELSE p
  BY DEF Resumed
<1> HIDE DEF q
<1>7. q \in 0 .. Size
  BY <1>2, <1>6
<1>8. /\ Ahead(phase) => pos' = q
      /\ ~Ahead(phase) => pos' = IF q < Size THEN q ELSE Size - 1
  BY <1>1, <1>2, <1>7 DEF Least
<1>9. Ahead(phase) => \A x \in 0 .. Size - 1 : x < pos' => x < pos
  BY <1>2, <1>5, <1>6, <1>8
<1>10. ~Ahead(phase) =>
         \A x \in 0 .. Size - 2 :
           (copying' \/ pos' > 0 \/ ~setup.reverse) /\ x >= pos'
             => (copying \/ pos > 0 \/ ~setup.reverse) /\ x >= pos
  BY <1>2, <1>5, <1>6, <1>8
<1>11. Reading'
  BY <1>1, <1>4, <1>9, <1>10, QuietReading
<1>12. Ahead(phase)' = Ahead(phase)
  BY <1>1 DEF Ahead
<1>13. Placed'
  <2>1. phase' < 3 /\ (Ahead(phase) => pos' >= 0) /\ (~Ahead(phase) => pos' <= Size - 1)
    BY <1>1, <1>2, <1>7, <1>8
  <2>2. adjust' => q >= Size
    BY <1>1
  <2>3. ~Ahead(phase) /\ adjust' => pos' = Size - 1
    BY <1>2, <1>7, <1>8, <2>2
  <2> QED
    BY <1>12, <2>1, <2>3 DEF Placed
<1>14. TypeOK'
  <2>1. Bounded(skips)'
    BY BoundedNext DEF Next
  <2>2. Log!Tiles(lines)'
    BY <1>3 DEF SameLines
  <2>3. pos' \in Int
    BY <1>2, <1>7, <1>8
  <2>4. adjust' \in BOOLEAN
    BY <1>1
  <2> QED
    BY <1>1, <1>2, <2>1, <2>2, <2>3, <2>4 DEF TypeOK
<1> QED
  BY <1>11, <1>13, <1>14 DEF IInv, Reading

(* A pass that finds no chunk any more has read its side of the bad        *)
(* sectors.                                                                *)
LEMMA PassDone ==
    ASSUME IInv, copying, Chunks = {}, phase = 1 \/ phase = 2
    PROVE  /\ Ahead(phase) => \A x \in Before : KindAt(lines, x) = "FINISHED"
           /\ ~Ahead(phase) => \A x \in Behind \ {Size - 1} :
                 KindAt(lines, x) = "FINISHED" \/ x \in Sectors(missed)
<1>1. /\ Before \subseteq 0 .. Size - 1 /\ Behind \subseteq 0 .. Size - 1 /\ pos \in Int
      /\ TypeOK /\ Placed /\ setup \in Setups
  BY DEF Before, Behind, IInv, TypeOK
<1>2. Ahead(phase) <=> phase = IF setup.reverse THEN 2 ELSE 1
  BY <1>1, AheadFacts
<1>3. ~Ahead(phase) <=> phase = IF setup.reverse THEN 1 ELSE 2
  BY <1>1, AheadFacts
<1>4. ASSUME Ahead(phase), NEW x \in Before PROVE KindAt(lines, x) = "FINISHED"
  <2>1. CASE x < pos
    BY <1>2, <1>4, <2>1 DEF IInv, ReadUpward
  <2>2. CASE x >= pos
    <3>1. KindAt(lines, x) # "NONTRIED"
      BY <1>1, <1>4, <2>2, NoChunkFacts
    <3> QED
      BY <3>1 DEF IInv, NoneFailed
  <2> QED
    BY <1>1, <2>1, <2>2
<1>5. ASSUME ~Ahead(phase), NEW x \in Behind \ {Size - 1}
      PROVE  KindAt(lines, x) = "FINISHED" \/ x \in Sectors(missed)
  <2>1. CASE x >= pos
    BY <1>3, <1>5, <2>1 DEF IInv, ReadDownward
  <2>2. CASE x < pos
    <3>1. KindAt(lines, x) # "NONTRIED"
      BY <1>1, <1>5, <2>2, NoChunkFacts
    <3> QED
      BY <3>1 DEF IInv, NoneFailed
  <2> QED
    BY <1>1, <2>1, <2>2
<1> QED
  BY <1>4, <1>5

LEMMA PassEndStep == IInv /\ PassEnd => IInv'
<1> SUFFICES ASSUME IInv, PassEnd PROVE IInv'
  OBVIOUS
<1> DEFINE q == IF setup.reverse THEN 0 ELSE Size - 1
<1>1. /\ copying /\ Chunks = {} /\ setup' = setup /\ missed' = missed
      /\ \/ /\ phase = 1 /\ phase' = 2 /\ copying' = TRUE
            /\ pos' = IF Ahead(2) THEN q ELSE Least(q, Size - 1)
            /\ adjust' = (~Ahead(2) /\ q >= Size)
         \/ phase = 2 /\ phase' = 3 /\ copying' = FALSE /\ pos' = pos /\ adjust' = adjust
  BY DEF PassEnd, StartPass
<1>2. /\ Log!Tiles(lines) /\ setup \in Setups /\ pos \in Int /\ Size \in Nat /\ Size > 0
      /\ adjust \in BOOLEAN
  BY <1>1, Parameters DEF IInv, TypeOK
<1>3. SameLines(lines, lines')
  BY <1>2, RunOverFacts DEF PassEnd
<1>4. \A x \in 0 .. Size - 1 : KindAt(lines', x) = KindAt(lines, x)
  BY <1>2, <1>3, SameLinesFacts
<1>5. /\ Ahead(2) <=> setup.reverse
      /\ Ahead(IF setup.reverse THEN 2 ELSE 1)
      /\ ~Ahead(IF setup.reverse THEN 1 ELSE 2)
  BY <1>2, AheadFacts
<1>6. phase = 1 =>
        /\ pos' = (IF setup.reverse THEN 0 ELSE Size - 1)
        /\ adjust' = FALSE
  <2>1. ~(q >= Size) /\ Least(q, Size - 1) = q /\ (setup.reverse => q = 0)
    BY <1>2 DEF Least
  <2> HIDE DEF q
  <2>2. phase = 1 => pos' = q
    BY <1>1, <1>5, <2>1
  <2>3. ASSUME phase = 1 PROVE adjust' = FALSE
    <3>1. adjust' = (~Ahead(2) /\ q >= Size)
      BY <1>1, <2>3
    <3>2. (~Ahead(2) /\ q >= Size) = FALSE
      BY <2>1
    <3> QED
      BY <3>1, <3>2
  <2> QED
    BY <2>2, <2>3 DEF q
<1> HIDE DEF q
<1>7. /\ Before' = Before /\ Behind' = Behind /\ Ahead(2)' = Ahead(2)
      /\ Before \subseteq 0 .. Size - 1 /\ Behind \subseteq 0 .. Size - 1
      /\ Sectors(missed)' = Sectors(missed)
  <2>1. Before' = Before /\ Behind' = Behind /\ Ahead(2)' = Ahead(2)
    BY <1>1, SidesKept
  <2> QED
    BY <1>1, <2>1 DEF Before, Behind, Sectors
<1>8. NoneFailed'
  BY <1>4, <1>7 DEF IInv, NoneFailed, KindAt
<1>9. ReadUpward'
  <2> DEFINE p == IF setup.reverse THEN 2 ELSE 1
  <2>1. ASSUME NEW x \in Before, phase' > p \/ (phase' = p /\ x < pos')
        PROVE  KindAt(lines, x) = "FINISHED"
    <3>1. x \in Nat
      BY <1>7
    <3>2. phase > p \/ phase = p
      BY <1>1, <1>2, <1>6, <2>1, <3>1
    <3>3. CASE phase > p
      BY <3>3 DEF IInv, ReadUpward
    <3>4. CASE phase = p
      BY <1>1, <1>5, <3>4, PassDone
    <3> QED
      BY <3>2, <3>3, <3>4
  <2> HIDE DEF p
  <2>2. p' = p
    BY <1>1 DEF p
  <2>3. \A x \in Before : phase' > p \/ (phase' = p /\ x < pos') => KindAt(lines', x) = "FINISHED"
    BY <1>4, <1>7, <2>1
  <2> QED
    BY <1>7, <2>2, <2>3 DEF ReadUpward, KindAt, p
<1>10. ReadDownward'
  <2> DEFINE p == IF setup.reverse THEN 1 ELSE 2
  <2>1. ASSUME NEW x \in Behind \ {Size - 1}, phase' > p \/ (phase' = p /\ x >= pos')
        PROVE  KindAt(lines, x) = "FINISHED" \/ x \in Sectors(missed)
    <3>1. x \in Nat /\ x < Size - 1
      BY <1>2, <1>7
    <3>2. phase > p \/ phase = p
      BY <1>1, <1>2, <1>6, <2>1, <3>1
    <3>3. CASE phase > p
      BY <3>3 DEF IInv, ReadDownward
    <3>4. CASE phase = p
      BY <1>1, <1>5, <3>4, PassDone
    <3> QED
      BY <3>2, <3>3, <3>4
  <2> HIDE DEF p
  <2>2. p' = p
    BY <1>1 DEF p
  <2>3. \A x \in Behind \ {Size - 1} :
          phase' > p \/ (phase' = p /\ x >= pos')
            => KindAt(lines', x) = "FINISHED" \/ x \in Sectors(missed)
    BY <1>4, <1>7, <2>1
  <2> QED
    BY <1>7, <2>2, <2>3 DEF ReadDownward, KindAt, p
<1>11. TypeOK'
  <2>1. Bounded(skips)'
    BY BoundedNext DEF Next, Turn
  <2>2. Log!Tiles(lines)'
    BY <1>3 DEF SameLines
  <2>3. pos' \in Int /\ phase' \in 1 .. 3
    BY <1>1, <1>2, <1>6
  <2>4. adjust' \in BOOLEAN
    BY <1>1, <1>2, <1>6
  <2>5. copying' \in BOOLEAN
    BY <1>1
  <2> QED
    BY <1>1, <1>2, <2>1, <2>2, <2>3, <2>4, <2>5 DEF TypeOK
<1>12. Placed'
  <2>1. CASE phase = 1
    <3>1. phase' = 2 /\ (Ahead(2)' <=> setup.reverse)
      BY <1>1, <1>5, <1>7, <2>1
    <3>2. Ahead(phase)' = Ahead(2)'
      BY <3>1 DEF Ahead
    <3> QED
      BY <1>2, <1>6, <2>1, <3>1, <3>2 DEF Placed
  <2>2. CASE phase # 1
    BY <1>1, <2>2 DEF Placed
  <2> QED
    BY <2>1, <2>2
<1> QED
  BY <1>8, <1>9, <1>10, <1>11, <1>12 DEF IInv

LEMMA InitFacts == Init => IInv
<1> SUFFICES ASSUME Init PROVE IInv
  OBVIOUS
<1>1. Facts!NewLog = Log!NewLog
  BY DEF Facts!NewLog, Log!NewLog, Facts!Block, Log!Block, Facts!Plain, Log!Plain
<1>2. Log!Tiles(lines)
  BY <1>1, LogParameters, Facts!NewLogFacts, SameTiles DEF Init
<1>3. \A x \in 0 .. Size - 1 : KindAt(lines, x) = "NONTRIED"
  <2>1. ASSUME NEW x \in 0 .. Size - 1 PROVE Log!StatusAt(lines, x) = Facts!Plain("NONTRIED")
    BY <1>1, LogParameters, Facts!NewLogFacts, SameStatusAt DEF Init, Facts!Sectors
  <2> QED
    BY <2>1 DEF KindAt, Facts!Plain
<1>4. setup \in Setups /\ Bounded(skips)
  BY SetupsInit, FreshBounded DEF Init
<1>5. phase = 1 /\ copying = FALSE /\ pos = 0 /\ adjust = FALSE
  BY DEF Init
<1>6. TypeOK /\ Placed
  <2>1. phase \in 1 .. 3 /\ pos \in Int
    BY <1>5
  <2>2. copying \in BOOLEAN /\ adjust \in BOOLEAN
    BY <1>5
  <2>3. Placed
    BY <1>5 DEF Placed
  <2> QED
    BY <1>2, <1>4, <2>1, <2>2, <2>3 DEF TypeOK
<1>7. NoneFailed
  BY <1>3 DEF NoneFailed, Before, Behind
<1>8. ReadUpward
  BY <1>5, Parameters DEF ReadUpward, Before
<1>9. ReadDownward
  BY <1>5, Parameters DEF ReadDownward
<1> QED
  BY <1>6, <1>7, <1>8, <1>9 DEF IInv

LEMMA Inductive == Spec => []IInv
<1>1. IInv /\ [Next]_vars => IInv'
  <2> SUFFICES ASSUME IInv, [Next]_vars PROVE IInv'
    OBVIOUS
  <2>1. CASE Begin
    BY <2>1, BeginStep
  <2>2. CASE TurnGood
    BY <2>2, TurnGoodStep
  <2>3. CASE TurnSkip
    BY <2>3, TurnSkipStep
  <2>4. CASE TurnUsedUp
    BY <2>4, TurnUsedUpStep
  <2>5. CASE PassEnd
    BY <2>5, PassEndStep
  <2>6. CASE TurnDeviceLost
    BY <2>6, TurnDeviceLostStep
  <2>7. CASE Stop
    BY <2>7, StopStep
  <2>8. CASE StopInRead
    BY <2>8, StopInReadStep
  <2>9. CASE UNCHANGED vars
    <3>1. UNCHANGED <<setup, lines, phase, copying, pos, adjust, skips, missed>>
      BY <2>9 DEF vars, log
    <3>2. Reading'
      BY <3>1, QuietReading
    <3>3. TypeOK'
      BY <3>1 DEF IInv, TypeOK, Bounded
    <3>4. Ahead(phase)' = Ahead(phase)
      BY <3>1 DEF Ahead
    <3>5. Placed'
      BY <3>1, <3>4 DEF IInv, Placed
    <3> QED
      BY <3>2, <3>3, <3>5 DEF IInv, Reading
  <2> QED
    BY <2>1, <2>2, <2>3, <2>4, <2>5, <2>6, <2>7, <2>8, <2>9 DEF Next, Turn, Terminating
<1> QED
  BY <1>1, InitFacts, PTL DEF Spec

(* The log stays a list of lines that covers the source, and the other     *)
(* variables keep their types.                                             *)
THEOREM TypeCorrect == Spec => []TypeOK
<1>1. IInv => TypeOK
  BY DEF IInv
<1> QED
  BY <1>1, Inductive, PTL

(* OutsideIsRead: the upward pass reads what is before the bad and slow    *)
(* sectors, the downward pass what is behind them.                         *)
THEOREM GoodDataFirst == Spec => []OutsideIsRead
<1>1. IInv => OutsideIsRead
  <2> SUFFICES ASSUME IInv, phase = 3,
                      NEW x \in 0 .. Size - 1,
                      \A y \in Hard : Most(x - y, y - x) >= Cluster,
                      (\A y \in Hard : x < y) \/ (\A y \in Hard : x > y),
                      x \notin Sectors(missed), x # Size - 1
               PROVE  KindAt(lines, x) = "FINISHED"
    BY DEF OutsideIsRead, Hard, KindAt
  <2>1. Hard \subseteq Nat /\ Size \in Nat
    BY Parameters DEF Hard, IInv, TypeOK, Setups
  <2>2. x \in Before \/ x \in Behind
    <3>1. CASE \A y \in Hard : x < y
      BY <2>1, <3>1 DEF Before, Most
    <3>2. CASE \A y \in Hard : x > y
      BY <2>1, <3>2 DEF Behind, Most
    <3> QED
      BY <3>1, <3>2
  <2>3. CASE x \in Before
    BY <2>3 DEF IInv, ReadUpward
  <2>4. CASE x \in Behind
    BY <2>4 DEF IInv, ReadDownward
  <2> QED
    BY <2>2, <2>3, <2>4
<1> QED
  BY <1>1, Inductive, PTL

LEMMA NonTriedFacts ==
    ASSUME NEW ls, Log!Tiles(ls), NEW x
    PROVE  x \in NonTried(ls) <=> x \in 0 .. Size - 1 /\ KindAt(ls, x) = "NONTRIED"
<1>1. /\ DOMAIN ls = 1 .. Len(ls)
      /\ x \in NonTried(ls)
           <=> \E k \in DOMAIN ls : /\ ls[k].status.kind = "NONTRIED"
                                    /\ x \in ls[k].pos .. Log!EndOf(ls[k]) - 1
  <2> DEFINE K == {k \in DOMAIN ls : ls[k].status.kind = "NONTRIED"}
             r(k) == [from |-> ls[k].pos, to |-> Log!EndOf(ls[k])]
  <2>1. DOMAIN ls = 1 .. Len(ls)
    BY DEF Log!Tiles
  <2>2. x \in NonTried(ls) <=> \E q \in {r(k) : k \in K} : x \in q.from .. q.to - 1
    BY Zenon DEF NonTried, Sectors
  <2>3. \A k : r(k).from = ls[k].pos /\ r(k).to = Log!EndOf(ls[k])
    OBVIOUS
  <2> HIDE DEF r
  <2>4. x \in NonTried(ls) <=> \E k \in K : x \in ls[k].pos .. Log!EndOf(ls[k]) - 1
    BY <2>2, <2>3
  <2> QED
    BY <2>1, <2>4
<1>2. ASSUME NEW k \in 1 .. Len(ls), ls[k].status.kind = "NONTRIED",
             x \in ls[k].pos .. Log!EndOf(ls[k]) - 1
      PROVE  x \in 0 .. Size - 1 /\ KindAt(ls, x) = "NONTRIED"
  <2>1. x \in Int /\ ls[k].pos <= x /\ x < Log!EndOf(ls[k])
    BY <1>2, LineFacts
  <2> QED
    BY <1>2, <2>1, KindFacts DEF KindAt
<1>3. ASSUME x \in 0 .. Size - 1, KindAt(ls, x) = "NONTRIED"
      PROVE  \E k \in 1 .. Len(ls) : /\ ls[k].status.kind = "NONTRIED"
                                     /\ x \in ls[k].pos .. Log!EndOf(ls[k]) - 1
  <2>1. PICK k \in 1 .. Len(ls) : /\ k = Log!FindBlock(ls, x)
                                  /\ ls[k].pos <= x /\ x < Log!EndOf(ls[k])
    BY <1>3, FindFacts
  <2>2. ls[k].status.kind = "NONTRIED" /\ ls[k].pos \in Nat /\ Log!EndOf(ls[k]) \in Nat
    BY <1>3, <2>1, LineFacts DEF KindAt, Log!StatusAt
  <2> QED
    BY <1>3, <2>1, <2>2
<1> QED
  BY <1>1, <1>2, <1>3

LEMMA FewerUntried ==
    ASSUME Log!Tiles(lines), NEW c, NextChunk(c), NEW k, Touched(lines, lines', c, k),
           k # "NONTRIED"
    PROVE  NonTried(lines') \subseteq NonTried(lines) /\ NonTried(lines') # NonTried(lines)
<1>1. \A x : /\ x \in NonTried(lines) <=> x \in 0 .. Size - 1 /\ KindAt(lines, x) = "NONTRIED"
             /\ x \in NonTried(lines') <=> x \in 0 .. Size - 1 /\ KindAt(lines', x) = "NONTRIED"
  BY NonTriedFacts DEF Touched
<1>2. /\ c.from \in 0 .. Size - 1 /\ c.from < c.to
      /\ KindAt(lines, c.from) = "NONTRIED"
  BY Parameters DEF NextChunk, Chunk
<1>3. KindAt(lines', c.from) # "NONTRIED"
  BY <1>2 DEF Touched
<1>4. c.from \in NonTried(lines) /\ c.from \notin NonTried(lines')
  BY <1>1, <1>2, <1>3
<1>5. ASSUME NEW x \in NonTried(lines') PROVE x \in NonTried(lines)
  BY <1>1, <1>5 DEF Touched
<1> QED
  BY <1>4, <1>5

(* TurnsProgress: a pass makes at most as many turns as there are sectors. *)
THEOREM NoTurnInVain == Spec => TurnsProgress
<1> DEFINE Progress ==
      copying /\ copying' =>
        phase' > phase \/ (NonTried(lines') \subseteq NonTried(lines)
                             /\ NonTried(lines') # NonTried(lines))
<1>1. IInv /\ [Next]_vars => [Progress]_vars
  <2> SUFFICES ASSUME IInv, Next, copying, copying' PROVE Progress
    BY DEF Terminating
  <2>1. Log!Tiles(lines) /\ TypeOK /\ Placed
    BY DEF IInv, TypeOK
  <2>2. CASE TurnGood
    <3>1. PICK c \in Chunks : lines' = Change(Marked(c), c, Status("FINISHED", 0))
      BY <2>2 DEF TurnGood
    <3>2. NextChunk(c) /\ Touched(lines, lines', c, "FINISHED")
      BY <2>1, <3>1, ChunkFacts, GoodLog
    <3> QED
      BY <2>1, <3>2, FewerUntried
  <2>3. CASE TurnSkip \/ TurnUsedUp
    <3>1. PICK c \in Chunks :
            \/ lines' = SkipMarks(c)
            \/ \E run, s, d : RunOver(SkipMarks(c), run, s, d)
      BY <2>3 DEF TurnSkip, TurnUsedUp
    <3>2. SameLines(SkipMarks(c), lines')
      BY <3>1, SkipTiles, RunOverFacts, SameLinesRefl
    <3>3. NextChunk(c) /\ Touched(lines, lines', c, KindOf(c))
      BY <2>1, <3>2, ChunkFacts, SkipLog, TouchedThenSame
    <3>4. KindOf(c) # "NONTRIED"
      BY DEF KindOf
    <3> QED
      BY <2>1, <3>3, <3>4, FewerUntried
  <2>4. CASE PassEnd
    BY <2>4 DEF PassEnd, StartPass
  <2>5. CASE Begin
    BY <2>5 DEF Begin
  <2>6. CASE TurnDeviceLost \/ Stop \/ StopInRead
    BY <2>6 DEF TurnDeviceLost, Stop, StopInRead
  <2>7. CASE Terminating
    BY <2>1, <2>7 DEF Terminating, Placed, vars
  <2> QED
    BY <2>2, <2>3, <2>4, <2>5, <2>6, <2>7 DEF Next, Turn
<1>2. [][Progress]_vars => TurnsProgress
  BY DEF TurnsProgress
<1> QED
  BY <1>1, <1>2, Inductive, PTL DEF Spec

-----------------------------------------------------------------------------
(* The walk along the log finds the skips of a run one by one.             *)

LEMMA NatInduct ==
    ASSUME NEW T, T \subseteq Nat, 0 \in T, \A k \in T : k + 1 \in T
    PROVE  \A k \in Nat : k \in T
<1>1. SUFFICES ASSUME Nat \ T # {} PROVE FALSE
  OBVIOUS
<1> DEFINE S == Nat \ T
<1>2. PICK x \in S : \A y \in S : x <= y
  <2>1. S \subseteq Nat /\ S # {}
    BY <1>1
  <2> HIDE DEF S
  <2> QED
    BY <2>1, MinFacts
<1>3. x - 1 \in Nat
  BY <1>2
<1>4. x - 1 \in T
  BY <1>2, <1>3
<1>5. x - 1 + 1 \in T
  BY <1>4
<1> QED
  BY <1>2, <1>5

(* The lines of path with the skips 2 to n of a run are at P[2] to P[n],   *)
(* and no other line of it has the direction d.                            *)
RunAlong(path, d, n, P) ==
    /\ Len(path) \in Nat /\ n \in 1 .. LastNumber + 1
    /\ P \in [1 .. n -> 0 .. Len(path)] /\ P[1] = 0
    /\ \A i, j \in 1 .. n : i < j => P[i] < P[j]
    /\ \A i \in 2 .. n : DirectionOf(path[P[i]]) = d /\ NumberOf(path[P[i]]) = i - 1
    /\ \A k \in 1 .. Len(path) :
         DirectionOf(path[k]) = d => \E i \in 2 .. n : P[i] = k

(* The walk has come to the i-th skip with line k.                         *)
At(n, P, k, i) == i \in 1 .. n /\ P[i] <= k /\ \A j \in 1 .. n : i < j => k < P[j]

Walked(P, k, i) ==
    [k |-> k, n |-> i - 1, at |-> P[i], before |-> IF i = 1 THEN 0 ELSE P[i - 1],
     end |-> P[i], over |-> FALSE]

LEMMA AtExists ==
    ASSUME NEW path, NEW d, NEW n, NEW P, RunAlong(path, d, n, P), NEW k \in Nat
    PROVE  \E i : At(n, P, k, i)
<1> DEFINE S == {i \in 1 .. n : P[i] <= k}
<1>1. n \in Nat /\ 1 \in S
  BY Parameters DEF RunAlong
<1>2. PICK i \in S : \A j \in S : j <= i
  <2>1. S \subseteq 1 .. n /\ S # {}
    BY <1>1
  <2> HIDE DEF S
  <2> QED
    BY <1>1, <2>1, MaxFacts
<1>3. ASSUME NEW j \in 1 .. n, i < j PROVE k < P[j]
  <2>1. j \notin S
    BY <1>2, <1>3
  <2>2. P[j] \in Nat
    BY DEF RunAlong
  <2> QED
    BY <2>1, <2>2
<1> QED
  BY <1>3 DEF At

LEMMA AtUnique ==
    ASSUME NEW n \in Nat, NEW P, NEW k, NEW i, NEW j, At(n, P, k, i), At(n, P, k, j),
           \A m \in 1 .. n : P[m] \in Nat, k \in Nat
    PROVE  i = j
<1>1. i \in 1 .. n /\ j \in 1 .. n /\ P[i] \in Nat /\ P[j] \in Nat
  BY DEF At
<1>2. ~(i < j) /\ ~(j < i)
  BY <1>1 DEF At
<1> QED
  BY <1>1, <1>2

(* One line more.                                                          *)
LEMMA WalkStep ==
    ASSUME NEW path, NEW d, NEW n, NEW P, RunAlong(path, d, n, P),
           NEW count \in Nat, n <= count + 1,
           NEW k \in 1 .. Len(path), NEW i, At(n, P, k - 1, i), NEW j, At(n, P, k, j)
    PROVE  Walk(Walked(P, k - 1, i), path[k], d, count) = Walked(P, k, j)
<1>1. /\ n \in Nat /\ n >= 1 /\ n <= LastNumber + 1 /\ LastNumber \in Nat /\ k \in Nat
      /\ k > 0 /\ k - 1 \in Nat
      /\ \A m \in 1 .. n : P[m] \in Nat
  BY Parameters DEF RunAlong
<1>2. i \in 1 .. n /\ j \in 1 .. n /\ P[i] <= k - 1 /\ P[j] <= k
  BY DEF At
<1> DEFINE w == Walked(P, k - 1, i)
<1>3. /\ w.k + 1 = k /\ w.over = FALSE /\ w.n = i - 1 /\ w.at = P[i] /\ w.end = P[i]
      /\ w.before = (IF i = 1 THEN 0 ELSE P[i - 1])
  BY <1>1, <1>2 DEF Walked
<1>4. CASE DirectionOf(path[k]) # d
  <2>1. \A m \in 1 .. n : P[m] # k
    <3>1. ASSUME NEW m \in 1 .. n, P[m] = k PROVE FALSE
      <4>1. m # 1
        BY <1>1, <3>1 DEF RunAlong
      <4>2. m \in 2 .. n
        BY <1>1, <4>1
      <4> QED
        BY <1>4, <3>1, <4>2 DEF RunAlong
    <3> QED
      BY <3>1
  <2>2. At(n, P, k, i)
    <3>1. ASSUME NEW m \in 1 .. n, i < m PROVE k < P[m]
      <4>1. k - 1 < P[m] /\ P[m] # k /\ P[m] \in Nat
        BY <1>1, <2>1, <3>1 DEF At
      <4> QED
        BY <1>1, <4>1
    <3>2. P[i] <= k
      BY <1>1, <1>2
    <3> QED
      BY <1>2, <3>1, <3>2 DEF At
  <2>3. i = j
    BY <1>1, <2>2, AtUnique
  <2>4. Walk(w, path[k], d, count) = [w EXCEPT !.k = k]
    BY <1>3, <1>4 DEF Walk
  <2> QED
    BY <2>3, <2>4 DEF Walked
<1>5. CASE DirectionOf(path[k]) = d
  <2>1. PICK m \in 2 .. n : P[m] = k
    BY <1>5 DEF RunAlong
  <2>2. m \in 1 .. n /\ m - 1 \in 1 .. n
    BY <1>1, <2>1
  <2>3. At(n, P, k, m)
    <3>1. ASSUME NEW l \in 1 .. n, m < l PROVE k < P[l]
      BY <2>1, <2>2, <3>1 DEF RunAlong
    <3> QED
      BY <1>1, <2>1, <2>2, <3>1 DEF At
  <2>4. At(n, P, k - 1, m - 1)
    <3>1. P[m - 1] <= k - 1
      <4>1. P[m - 1] < P[m] /\ P[m - 1] \in Nat
        BY <1>1, <2>2 DEF RunAlong
      <4> QED
        BY <1>1, <2>1, <4>1
    <3>2. ASSUME NEW l \in 1 .. n, m - 1 < l PROVE k - 1 < P[l]
      <4>1. l = m \/ m < l
        BY <1>1, <2>2, <3>2
      <4>2. P[l] >= k /\ P[l] \in Nat
        BY <1>1, <2>1, <2>2, <4>1 DEF RunAlong
      <4> QED
        BY <1>1, <4>2
    <3> QED
      BY <2>2, <3>1, <3>2 DEF At
  <2>5. j = m /\ i = m - 1
    BY <1>1, <2>3, <2>4, AtUnique
  <2>6. NumberOf(path[k]) = w.n + 1 /\ ~(w.n + 1 > count) /\ w.n + 1 = j - 1
    <3>1. NumberOf(path[k]) = m - 1
      BY <2>1 DEF RunAlong
    <3> QED
      BY <1>1, <1>3, <2>2, <2>5, <3>1
  <2>7. Walk(w, path[k], d, count) =
          [k |-> k, n |-> w.n + 1, at |-> k, before |-> w.at, end |-> k, over |-> w.n + 1 > count]
    <3> HIDE DEF w
    <3> QED
      BY <1>3, <1>5, <2>6 DEF Walk
  <2>8. j # 1 /\ P[j] = k /\ w.at = P[j - 1] /\ (w.n + 1 > count) = FALSE
    BY <1>1, <1>3, <2>1, <2>2, <2>5, <2>6
  <2> HIDE DEF w
  <2>9. Walk(w, path[k], d, count) = Walked(P, k, j)
    BY <2>6, <2>7, <2>8 DEF Walked
  <2> QED
    BY <2>9 DEF w
<1> QED
  BY <1>4, <1>5

IsWalk(path, d, count, w) ==
    w = [k \in 0 .. Len(path) |->
           IF k = 0
           THEN [k |-> 0, n |-> 0, at |-> 0, before |-> 0, end |-> 0, over |-> FALSE]
           ELSE Walk(w[k - 1], path[k], d, count)]

(* At the end of the walk all skips of the run were found.                 *)
LEMMA FoundFacts ==
    ASSUME NEW path, NEW d, NEW n, NEW P, RunAlong(path, d, n, P),
           NEW count \in Nat, n <= count + 1
    PROVE  /\ Found(path, d, count).n = n - 1
           /\ Found(path, d, count).at = P[n]
           /\ n > 1 => Found(path, d, count).before = P[n - 1]
<1> DEFINE none == [k |-> 0, n |-> 0, at |-> 0, before |-> 0, end |-> 0, over |-> FALSE]
           place(k) == CHOOSE i : At(n, P, k, i)
           f == [k \in 0 .. Len(path) |-> Walked(P, k, place(k))]
<1>1. /\ n \in Nat /\ n >= 1 /\ Len(path) \in Nat /\ P[1] = 0
      /\ \A m \in 1 .. n : P[m] \in Nat
  BY Parameters DEF RunAlong
<1>2. \A k \in Nat : At(n, P, k, place(k))
  BY AtExists
<1> HIDE DEF place
<1>3. Walked(P, 0, place(0)) = none
  <2>1. At(n, P, 0, 1)
    <3>1. ASSUME NEW j \in 1 .. n, 1 < j PROVE 0 < P[j]
      BY <1>1, <3>1 DEF RunAlong
    <3> QED
      BY <1>1, <3>1 DEF At
  <2>2. place(0) = 1
    BY <1>1, <1>2, <2>1, AtUnique
  <2>3. 1 - 1 = 0
    OBVIOUS
  <2>4. Walked(P, 0, 1) = none
    BY <1>1, <2>3, Zenon DEF Walked
  <2> QED
    BY <2>2, <2>4
<1>4. ASSUME NEW k \in 1 .. Len(path)
      PROVE  Walk(Walked(P, k - 1, place(k - 1)), path[k], d, count) = Walked(P, k, place(k))
  <2>1. k \in Nat /\ k - 1 \in Nat
    BY <1>1
  <2> QED
    BY <1>2, <2>1, WalkStep
<1>5. IsWalk(path, d, count, f)
  <2>1. ASSUME NEW k \in 0 .. Len(path)
        PROVE  Walked(P, k, place(k)) =
                 IF k = 0 THEN none ELSE Walk(f[k - 1], path[k], d, count)
    <3>1. CASE k = 0
      BY <1>3, <3>1
    <3>2. CASE k # 0
      <4>1. k \in 1 .. Len(path) /\ k - 1 \in 0 .. Len(path)
        BY <1>1, <3>2
      <4>2. f[k - 1] = Walked(P, k - 1, place(k - 1))
        BY <4>1
      <4> QED
        BY <1>4, <3>2, <4>1, <4>2
    <3> QED
      BY <3>1, <3>2
  <2> HIDE DEF none
  <2>2. f = [k \in 0 .. Len(path) |-> IF k = 0 THEN none ELSE Walk(f[k - 1], path[k], d, count)]
    BY <2>1
  <2> QED
    BY <2>2 DEF IsWalk, none
<1> HIDE DEF f
<1> DEFINE w == CHOOSE g : IsWalk(path, d, count, g)
<1>6. IsWalk(path, d, count, w)
  BY <1>5
<1>7. WalkAlong(path, d, count) = w
  BY DEF WalkAlong, IsWalk
<1> HIDE DEF w
<1>8. /\ w[0] = none
      /\ \A k \in 1 .. Len(path) : w[k] = Walk(w[k - 1], path[k], d, count)
  <2> HIDE DEF none
  <2>1. w = [k \in 0 .. Len(path) |-> IF k = 0 THEN none ELSE Walk(w[k - 1], path[k], d, count)]
    BY <1>6 DEF IsWalk, none
  <2>2. 0 \in 0 .. Len(path)
    BY <1>1
  <2>3. ASSUME NEW k \in 1 .. Len(path) PROVE k \in 0 .. Len(path) /\ k # 0
    BY <1>1
  <2>4. \A k \in 0 .. Len(path) :
          w[k] = IF k = 0 THEN none ELSE Walk(w[k - 1], path[k], d, count)
    BY <2>1, Zenon
  <2> QED
    BY <2>2, <2>3, <2>4
<1> HIDE DEF none
<1> DEFINE T == {k \in Nat : k <= Len(path) => w[k] = Walked(P, k, place(k))}
<1>9. Len(path) \in T
  <2>1. 0 \in T
    BY <1>3, <1>8
  <2>2. ASSUME NEW k \in T PROVE k + 1 \in T
    <3>1. SUFFICES ASSUME k + 1 <= Len(path)
                   PROVE  w[k + 1] = Walked(P, k + 1, place(k + 1))
      OBVIOUS
    <3>2. k + 1 \in 1 .. Len(path) /\ (k + 1) - 1 = k /\ k <= Len(path)
      BY <1>1, <3>1
    <3>3. w[k] = Walked(P, k, place(k))
      BY <3>2
    <3> QED
      BY <1>4, <1>8, <3>2, <3>3
  <2>3. T \subseteq Nat
    OBVIOUS
  <2> HIDE DEF T
  <2>4. \A k \in Nat : k \in T
    BY <2>1, <2>2, <2>3, NatInduct
  <2> QED
    BY <1>1, <2>4
<1>10. w[Len(path)] = Walked(P, Len(path), place(Len(path)))
  BY <1>1, <1>9
<1>11. place(Len(path)) = n
  <2>1. At(n, P, Len(path), n)
    BY <1>1 DEF At, RunAlong
  <2> QED
    BY <1>1, <1>2, <2>1, AtUnique
<1> QED
  BY <1>1, <1>7, <1>10, <1>11 DEF Found, Walked

-----------------------------------------------------------------------------
(* The marks of a run in the log.                                          *)

SkipAt(ls, x) == Log!StatusAt(ls, x).skip
HeadAt(ls, x) == Log!StatusAt(ls, x).head
Way(mark) == IF mark = 0 THEN 0 ELSE IF mark >= Backward THEN Backward ELSE Forward
Within(c, x) == c.from <= x /\ x < c.to

(* The log ls has the run of skips in direction d: its chunks are in the   *)
(* order of the direction, each in one line with its number, and from the  *)
(* sector next to the first chunk on they have the only marks of the       *)
(* direction.                                                              *)
KeptRun(ls, run, d) ==
    /\ \A i \in 1 .. Len(run) :
         /\ Chunk(run[i]) /\ InOneLine(ls, run[i])
         /\ \A x \in 0 .. Size - 1 : Within(run[i], x) => SkipAt(ls, x) = Field(d, i - 1)
    /\ \A i, j \in 1 .. Len(run) :
         i < j => IF d = Forward THEN run[i].to <= run[j].from ELSE run[j].to <= run[i].from
    /\ Len(run) > 0 =>
         \A x \in 0 .. Size - 1 :
           /\ Way(SkipAt(ls, x)) = d
           /\ IF d = Forward THEN x + 1 >= run[1].from ELSE x <= run[1].to
           => \E i \in 1 .. Len(run) : Within(run[i], x)

Ways == {Forward, Backward}
Runs == Seq([from : Nat, to : Nat])

LEMMA FieldFacts ==
    ASSUME NEW d \in Ways, NEW n \in 0 .. LastNumber
    PROVE  /\ Field(d, n) \in Marks /\ Field(d, n) # 0 /\ Way(Field(d, n)) = d
           /\ Field(d, n) - d = n
           /\ \A m \in 0 .. LastNumber : Field(d, n) = Field(d, m) => n = m
<1>1. LastNumber \in Nat /\ LastNumber <= 63 /\ n \in Nat /\ n <= LastNumber
  BY Parameters
<1>2. d = 128 \/ d = 192
  BY DEF Ways, Forward, Backward
<1>3. Field(d, n) \in Marks
  BY DEF Marks, Ways
<1>4. \A m \in 0 .. LastNumber : Field(d, n) = Field(d, m) => n = m
  BY <1>1, <1>2 DEF Field
<1> QED
  BY <1>1, <1>2, <1>3, <1>4 DEF Field, Way, Forward, Backward

LEMMA LineWay ==
    ASSUME NEW l
    PROVE  /\ DirectionOf(l) = Way(l.status.skip)
           /\ \A d \in Ways, n \in 0 .. LastNumber :
                l.status.skip = Field(d, n) => DirectionOf(l) = d /\ NumberOf(l) = n
<1>1. DirectionOf(l) = Way(l.status.skip)
  BY DEF DirectionOf, Way
<1>2. ASSUME NEW d \in Ways, NEW n \in 0 .. LastNumber, l.status.skip = Field(d, n)
      PROVE  DirectionOf(l) = d /\ NumberOf(l) = n
  <2>1. Way(l.status.skip) = d /\ l.status.skip # 0 /\ Field(d, n) - d = n
    BY <1>2, FieldFacts
  <2> QED
    BY <1>1, <1>2, <2>1 DEF NumberOf
<1> QED
  BY <1>1, <1>2

(* A chunk of the run is a line of the log.                                *)
LEMMA ChunkLine ==
    ASSUME NEW ls, Log!Tiles(ls), NEW run, Len(run) \in Nat, Len(run) <= LastNumber + 1,
           NEW d \in Ways, KeptRun(ls, run, d), NEW i \in 1 .. Len(run)
    PROVE  \E k \in 1 .. Len(ls) :
             /\ ls[k].pos = run[i].from /\ Log!EndOf(ls[k]) = run[i].to
             /\ ls[k].status.skip = Field(d, i - 1)
<1> DEFINE c == run[i]
<1>1. /\ c.from \in Nat /\ c.to \in Nat /\ c.from < c.to /\ c.to <= Size /\ Size \in Nat
      /\ \A x \in 0 .. Size - 1 : Within(c, x) => SkipAt(ls, x) = Field(d, i - 1)
  BY Parameters DEF KeptRun, Chunk
<1>2. PICK k \in 1 .. Len(ls) : ls[k].pos <= c.from /\ c.to <= Log!EndOf(ls[k])
  BY DEF KeptRun, InOneLine
<1>3. /\ ls[k].pos \in Nat /\ Log!EndOf(ls[k]) \in Nat /\ Log!EndOf(ls[k]) <= Size
  BY LineFacts
<1>4. LastNumber \in Nat /\ i - 1 \in 0 .. LastNumber
  BY Parameters
<1>5. ASSUME NEW x \in Int, ls[k].pos <= x, x < Log!EndOf(ls[k])
      PROVE  x \in 0 .. Size - 1 /\ SkipAt(ls, x) = ls[k].status.skip
  BY <1>5, KindFacts DEF SkipAt
<1>6. ls[k].status.skip = Field(d, i - 1)
  <2>1. c.from \in 0 .. Size - 1 /\ Within(c, c.from)
    BY <1>1 DEF Within
  <2>2. c.from \in Int /\ ls[k].pos <= c.from /\ c.from < Log!EndOf(ls[k])
    BY <1>1, <1>2, <1>3
  <2> QED
    BY <1>1, <1>5, <2>1, <2>2
(* A sector of the line with the mark is in this chunk, if it is where the *)
(* run is.                                                                 *)
<1>7. ASSUME NEW x \in Int, ls[k].pos <= x, x < Log!EndOf(ls[k]),
             IF d = Forward THEN x + 1 >= run[1].from ELSE x <= run[1].to
      PROVE  Within(c, x)
  <2>1. x \in 0 .. Size - 1 /\ SkipAt(ls, x) = Field(d, i - 1)
    BY <1>5, <1>6, <1>7
  <2>2. Way(SkipAt(ls, x)) = d
    BY <1>4, <2>1, FieldFacts
  <2>3. PICK j \in 1 .. Len(run) : Within(run[j], x)
    BY <1>7, <2>1, <2>2 DEF KeptRun
  <2>4. SkipAt(ls, x) = Field(d, j - 1)
    BY <2>1, <2>3 DEF KeptRun
  <2>5. j - 1 \in 0 .. LastNumber
    BY Parameters
  <2>6. i - 1 = j - 1
    BY <1>4, <2>1, <2>4, <2>5, FieldFacts
  <2> QED
    BY <2>3, <2>6
<1>8. /\ 1 \in 1 .. Len(run) /\ run[1].from \in Nat /\ run[1].to \in Nat
      /\ run[1].from < run[1].to
      /\ IF d = Forward THEN run[1].from <= c.from ELSE c.to <= run[1].to
  <2>1. 1 \in 1 .. Len(run)
    OBVIOUS
  <2>2. CASE i = 1
    BY <1>1, <2>1, <2>2
  <2>3. CASE i # 1
    <3>1. IF d = Forward THEN run[1].to <= c.from ELSE c.to <= run[1].from
      BY <2>1, <2>3 DEF KeptRun
    <3>2. /\ run[1].from \in Nat /\ run[1].to \in Nat /\ run[1].from < run[1].to
      BY <2>1 DEF KeptRun, Chunk
    <3> QED
      BY <1>1, <2>1, <3>1, <3>2
  <2> QED
    BY <2>2, <2>3
<1>9. ls[k].pos = c.from
  <2>1. SUFFICES ASSUME ls[k].pos < c.from PROVE FALSE
    BY <1>1, <1>2, <1>3
  <2>2. Within(c, c.from - 1)
    <3>1. /\ c.from - 1 \in Int /\ ls[k].pos <= c.from - 1 /\ c.from - 1 < Log!EndOf(ls[k])
          /\ IF d = Forward THEN (c.from - 1) + 1 >= run[1].from ELSE c.from - 1 <= run[1].to
      <4>1. /\ c.from \in Nat /\ c.to \in Nat /\ c.from < c.to /\ c.to <= Log!EndOf(ls[k])
            /\ Log!EndOf(ls[k]) \in Nat /\ ls[k].pos \in Nat /\ ls[k].pos < c.from
        BY <1>1, <1>2, <1>3, <2>1
      <4>2. IF d = Forward THEN run[1].from \in Nat /\ run[1].from <= c.from
            ELSE run[1].to \in Nat /\ c.to <= run[1].to
        BY <1>8
      <4> HIDE DEF c
      <4>3. c.from - 1 \in Int /\ ls[k].pos <= c.from - 1 /\ c.from - 1 < Log!EndOf(ls[k])
        BY <4>1
      <4> QED
        BY <4>1, <4>2, <4>3
    <3> QED
      BY <1>7, <3>1
  <2> QED
    BY <1>1, <2>2 DEF Within
<1>10. Log!EndOf(ls[k]) = c.to
  <2>1. SUFFICES ASSUME c.to < Log!EndOf(ls[k]) PROVE FALSE
    BY <1>1, <1>2, <1>3
  <2>2. Within(c, c.to)
    <3>1. /\ c.to \in Int /\ ls[k].pos <= c.to
          /\ IF d = Forward THEN c.to + 1 >= run[1].from ELSE c.to <= run[1].to
      BY <1>1, <1>2, <1>3, <1>8
    <3> QED
      BY <1>7, <2>1, <3>1
  <2> QED
    BY <1>1, <2>2 DEF Within
<1> QED
  BY <1>6, <1>9, <1>10

(* The lines of the run, one for each chunk; line L[1] is next to none with *)
(* a mark of its direction on the side the pass has come from.             *)
LinesOfRun(ls, run, d, L) ==
    /\ L \in [1 .. Len(run) -> 1 .. Len(ls)]
    /\ \A i \in 1 .. Len(run) :
         /\ ls[L[i]].pos = run[i].from /\ Log!EndOf(ls[L[i]]) = run[i].to
         /\ DirectionOf(ls[L[i]]) = d /\ NumberOf(ls[L[i]]) = i - 1
    /\ \A i, j \in 1 .. Len(run) : i < j => IF d = Forward THEN L[i] < L[j] ELSE L[j] < L[i]
    /\ \A k \in 1 .. Len(ls) :
         /\ DirectionOf(ls[k]) = d
         /\ IF d = Forward THEN k > L[1] ELSE k < L[1]
         => \E i \in 2 .. Len(run) : L[i] = k
    /\ d = Backward => \A k \in 1 .. Len(ls) : k = L[1] + 1 => DirectionOf(ls[k]) # d

LEMMA RunHasLines ==
    ASSUME NEW ls, Log!Tiles(ls), NEW run, Len(run) \in Nat, Len(run) <= LastNumber + 1,
           Len(run) > 0, NEW d \in Ways, KeptRun(ls, run, d)
    PROVE  \E L : LinesOfRun(ls, run, d, L)
<1> DEFINE n == Len(run)
           is(i, k) == /\ ls[k].pos = run[i].from /\ Log!EndOf(ls[k]) = run[i].to
                       /\ ls[k].status.skip = Field(d, i - 1)
           L == [i \in 1 .. n |-> CHOOSE k \in 1 .. Len(ls) : is(i, k)]
<1>1. ASSUME NEW i \in 1 .. n PROVE L[i] \in 1 .. Len(ls) /\ is(i, L[i])
  BY ChunkLine
<1>2. L \in [1 .. n -> 1 .. Len(ls)]
  BY <1>1
<1> HIDE DEF L
<1>3. /\ Len(ls) \in Nat /\ n \in Nat /\ 1 \in 1 .. n /\ LastNumber \in Nat
      /\ \A i \in 1 .. n : L[i] \in Nat /\ i - 1 \in 0 .. LastNumber
  BY <1>1, Parameters DEF Log!Tiles
<1>4. ASSUME NEW i \in 1 .. n
      PROVE  /\ ls[L[i]].pos = run[i].from /\ Log!EndOf(ls[L[i]]) = run[i].to
             /\ DirectionOf(ls[L[i]]) = d /\ NumberOf(ls[L[i]]) = i - 1
             /\ run[i].from \in Nat /\ run[i].to \in Nat /\ run[i].from < run[i].to
             /\ run[i].to <= Size
  <2>1. ls[L[i]].status.skip = Field(d, i - 1) /\ i - 1 \in 0 .. LastNumber
    BY <1>1, <1>3
  <2>2. DirectionOf(ls[L[i]]) = d /\ NumberOf(ls[L[i]]) = i - 1
    BY <2>1, LineWay
  <2> QED
    BY <1>1, <2>2 DEF KeptRun, Chunk
<1>5. ASSUME NEW i \in 1 .. n, NEW j \in 1 .. n, i < j
      PROVE  IF d = Forward THEN L[i] < L[j] ELSE L[j] < L[i]
  <2>1. IF d = Forward THEN run[i].to <= run[j].from ELSE run[j].to <= run[i].from
    BY <1>5 DEF KeptRun
  <2>2. /\ L[i] < L[j] => run[i].to <= run[j].from
        /\ L[j] < L[i] => run[j].to <= run[i].from
    BY <1>1, <1>4, LinesOrdered
  <2>3. /\ run[i].from < run[i].to /\ run[j].from < run[j].to
        /\ run[i].from \in Nat /\ run[i].to \in Nat /\ run[j].from \in Nat /\ run[j].to \in Nat
        /\ L[i] \in Nat /\ L[j] \in Nat
    BY <1>3, <1>4
  <2>4. L[i] # L[j]
    <3>1. L[i] = L[j] => run[i].from = run[j].from /\ run[i].to = run[j].to
      BY <1>4
    <3> QED
      BY <2>1, <2>3, <3>1
  <2> QED
    BY <2>1, <2>2, <2>3, <2>4
(* A line with a mark of the direction is a chunk's.                       *)
<1>6. ASSUME NEW k \in 1 .. Len(ls), DirectionOf(ls[k]) = d,
             IF d = Forward THEN ls[k].pos >= run[1].from ELSE ls[k].pos <= run[1].to
      PROVE  \E i \in 1 .. n : L[i] = k
  <2> DEFINE x == ls[k].pos
  <2>1. /\ x \in Nat /\ x < Log!EndOf(ls[k]) /\ Log!EndOf(ls[k]) \in Nat
        /\ run[1].from \in Nat /\ run[1].to \in Nat
    BY <1>3, <1>4, LineFacts
  <2>2. x \in 0 .. Size - 1 /\ Way(SkipAt(ls, x)) = d
    <3>1. x \in 0 .. Size - 1 /\ Log!StatusAt(ls, x) = ls[k].status
      BY <2>1, KindFacts
    <3> QED
      BY <1>6, <3>1, LineWay DEF SkipAt
  <2>3. IF d = Forward THEN x + 1 >= run[1].from ELSE x <= run[1].to
    BY <1>6, <2>1
  <2> HIDE DEF x
  <2>4. PICK i \in 1 .. n : Within(run[i], x)
    BY <1>3, <2>2, <2>3 DEF KeptRun
  <2>5. ls[L[i]].pos <= x /\ x < Log!EndOf(ls[L[i]]) /\ L[i] \in 1 .. Len(ls)
    BY <1>1, <1>4, <2>4 DEF Within
  <2>6. L[i] = k
    BY <2>1, <2>2, <2>5, FindFacts DEF x
  <2> QED
    BY <2>6
<1>7. ASSUME NEW k \in 1 .. Len(ls), DirectionOf(ls[k]) = d,
             IF d = Forward THEN k > L[1] ELSE k < L[1]
      PROVE  \E i \in 2 .. n : L[i] = k
  <2>1. /\ L[1] \in 1 .. Len(ls) /\ ls[L[1]].pos = run[1].from
        /\ Log!EndOf(ls[L[1]]) = run[1].to
        /\ run[1].from \in Nat /\ run[1].to \in Nat /\ run[1].from < run[1].to
    BY <1>1, <1>3, <1>4
  <2>2. ls[k].pos \in Nat /\ ls[k].pos < Log!EndOf(ls[k]) /\ Log!EndOf(ls[k]) \in Nat
    BY LineFacts
  <2>3. /\ L[1] < k => run[1].to <= ls[k].pos
        /\ k < L[1] => Log!EndOf(ls[k]) <= run[1].from
    BY <2>1, LinesOrdered
  <2>4. IF d = Forward THEN ls[k].pos >= run[1].from ELSE ls[k].pos <= run[1].to
    BY <1>7, <2>1, <2>2, <2>3
  <2>5. PICK i \in 1 .. n : L[i] = k
    BY <1>6, <1>7, <2>4
  <2>6. i # 1
    BY <1>3, <1>7, <2>5
  <2>7. i \in 2 .. n
    BY <1>3, <2>6
  <2> QED
    BY <2>5, <2>7
<1>8. ASSUME d = Backward, NEW k \in 1 .. Len(ls), k = L[1] + 1, DirectionOf(ls[k]) = d
      PROVE  FALSE
  <2>1. L[1] \in 1 .. Len(ls) - 1 /\ ls[L[1] + 1] = ls[k]
    BY <1>1, <1>3, <1>8
  <2>2. Facts!EndOf(ls[L[1]]) = ls[L[1] + 1].pos
    BY <2>1, SameTiles, LogParameters, Facts!Neighbours
  <2>3. ls[k].pos = run[1].to
    BY <1>3, <1>4, <2>1, <2>2, SameEnd
  <2>4. d # Forward
    BY <1>8 DEF Forward, Backward
  <2>7. run[1].to \in Nat
    BY <1>3, <1>4
  <2>8. ls[k].pos <= run[1].to
    BY ONLY <2>3, <2>7
  <2>5. PICK i \in 1 .. n : L[i] = k
    BY <1>6, <1>8, <2>4, <2>8
  <2>6. i = 1 \/ L[i] < L[1]
    BY <1>3, <1>5, <2>4
  <2> QED
    BY <1>3, <1>8, <2>5, <2>6
<1> QED
  BY <1>2, <1>4, <1>5, <1>7, <1>8 DEF LinesOfRun

(* The lookup starts at the line of the first chunk.                       *)
LEMMA StartLineFacts ==
    ASSUME NEW ls, Log!Tiles(ls), NEW run, Len(run) \in Nat, Len(run) > 0, NEW d \in Ways,
           KeptRun(ls, run, d), NEW L, LinesOfRun(ls, run, d, L), first = run[1].from
    PROVE  StartLine(ls, d) = L[1]
<1> DEFINE b == Log!FindBlock(ls, first)
           near == {k \in b .. Least(b + 2, Len(ls)) : DirectionOf(ls[k]) = d}
           isFirst(k) == DirectionOf(ls[k]) = d /\ NumberOf(ls[k]) = 0
           S == {k \in L[1] .. Len(ls) : \A j \in L[1] .. k : isFirst(j)}
<1>1. /\ 1 \in 1 .. Len(run) /\ L[1] \in 1 .. Len(ls) /\ Len(ls) \in Nat
      /\ ls[L[1]].pos = run[1].from /\ Log!EndOf(ls[L[1]]) = run[1].to
      /\ run[1].from \in Nat /\ run[1].to \in Nat /\ run[1].from < run[1].to
      /\ run[1].to <= Size /\ Size \in Nat
      /\ DirectionOf(ls[L[1]]) = d /\ NumberOf(ls[L[1]]) = 1 - 1
  BY Parameters DEF LinesOfRun, KeptRun, Chunk, Log!Tiles
<1>2. b = L[1]
  <2>1. /\ first \in 0 .. Size - 1 /\ ls[L[1]].pos <= first /\ first < Log!EndOf(ls[L[1]])
    BY <1>1
  <2> QED
    BY <1>1, <2>1, FindFacts
<1> HIDE DEF b
<1>3. isFirst(L[1])
  BY <1>1
<1>4. near # {} /\ Min(near) = L[1]
  <2>1. L[1] \in near /\ near \subseteq Nat /\ \A y \in near : L[1] <= y
    BY <1>1, <1>2 DEF Least
  <2> HIDE DEF near
  <2>2. Min(near) \in near /\ Min(near) <= L[1]
    BY <2>1, MinFacts
  <2>3. L[1] <= Min(near) /\ Min(near) \in Nat /\ L[1] \in Nat
    BY <2>1, <2>2, Zenon
  <2> HIDE DEF near
  <2>4. Min(near) = L[1]
    BY <2>2, <2>3
  <2> QED
    BY <2>1, <2>4
<1>5. StartLine(ls, d) = IF d = Forward THEN L[1] ELSE Max(S)
  <2> DEFINE a == Min(near)
  <2>1. StartLine(ls, d) =
          IF near = {} \/ ~isFirst(a) THEN 0
          ELSE IF d = Forward THEN a
          ELSE Max({k \in a .. Len(ls) : \A j \in a .. k : isFirst(j)})
    BY DEF StartLine, b
  <2>2. a = L[1]
    BY <1>4
  <2> HIDE DEF a, near, isFirst
  <2> QED
    BY <1>3, <1>4, <2>1, <2>2
<1>6. CASE d = Forward
  BY <1>5, <1>6
<1>7. CASE d # Forward
  <2>1. d = Backward
    BY <1>7 DEF Ways
  <2>2. L[1] \in S
    BY <1>1, <1>3
  <2>3. ASSUME NEW k \in S PROVE k = L[1]
    <3>1. SUFFICES ASSUME k # L[1] PROVE FALSE
      OBVIOUS
    <3>2. L[1] + 1 \in L[1] .. k /\ L[1] + 1 \in 1 .. Len(ls)
      BY <1>1, <2>3, <3>1
    <3>3. DirectionOf(ls[L[1] + 1]) = d
      BY <3>2
    <3> QED
      BY <2>1, <3>2, <3>3 DEF LinesOfRun
  <2>4. Max(S) \in S
    <3>1. S \subseteq 1 .. Len(ls) /\ S # {}
      BY <1>1, <2>2
    <3> HIDE DEF S
    <3> QED
      BY <1>1, <3>1, MaxFacts
  <2> QED
    BY <1>5, <1>7, <2>3, <2>4
<1> QED
  BY <1>6, <1>7

(* What the walk goes along: the lines behind the first one, in order.     *)
Path(ls, d, b) ==
    IF d = Forward THEN SubSeq(ls, b + 1, Len(ls)) ELSE Reverse(SubSeq(ls, 1, b - 1))

LEMMA PathFacts ==
    ASSUME NEW ls, Log!Tiles(ls), NEW d \in Ways, NEW b \in 1 .. Len(ls)
    PROVE  /\ Len(Path(ls, d, b)) = IF d = Forward THEN Len(ls) - b ELSE b - 1
           /\ \A k \in 1 .. Len(Path(ls, d, b)) :
                Path(ls, d, b)[k] = IF d = Forward THEN ls[b + k] ELSE ls[b - k]
<1>1. ls \in Seq(Log!Line) /\ Len(ls) \in Nat /\ b \in Nat /\ 1 <= b /\ b <= Len(ls)
  BY DEF Log!Tiles
<1>2. CASE d = Forward
  <2> DEFINE s == SubSeq(ls, b + 1, Len(ls))
  <2>1. \A i \in b + 1 .. Len(ls) : ls[i] \in Log!Line
    BY <1>1
  <2>2. /\ Len(s) = IF b + 1 <= Len(ls) THEN Len(ls) - (b + 1) + 1 ELSE 0
        /\ \A i \in 1 .. Len(ls) - (b + 1) + 1 : s[i] = ls[b + 1 + i - 1]
    BY <1>1, <2>1, SubSeqProperties
  <2>3. Path(ls, d, b) = s
    BY <1>2 DEF Path
  <2> HIDE DEF s
  <2>4. Len(s) = Len(ls) - b /\ \A i \in 1 .. Len(s) : s[i] = ls[b + i]
    <3>1. Len(s) = Len(ls) - b
      BY <1>1, <2>2
    <3>2. ASSUME NEW i \in 1 .. Len(s) PROVE s[i] = ls[b + i]
      <4>1. i \in 1 .. Len(ls) - (b + 1) + 1 /\ b + 1 + i - 1 = b + i
        BY <1>1, <3>1
      <4> QED
        BY <2>2, <4>1
    <3> QED
      BY <3>1, <3>2
  <2> QED
    BY <1>2, <2>3, <2>4
<1>3. CASE d # Forward
  <2> DEFINE s == SubSeq(ls, 1, b - 1)
             r == [i \in 1 .. Len(s) |-> s[(Len(s) - i) + 1]]
  <2>1. \A i \in 1 .. b - 1 : ls[i] \in Log!Line
    BY <1>1
  <2>2. /\ s \in Seq(Log!Line)
        /\ Len(s) = IF 1 <= b - 1 THEN b - 1 - 1 + 1 ELSE 0
        /\ \A i \in 1 .. b - 1 - 1 + 1 : s[i] = ls[1 + i - 1]
    BY <1>1, <2>1, SubSeqProperties
  <2>3. Path(ls, d, b) = r
    BY <1>3 DEF Path, Reverse
  <2> HIDE DEF s
  <2>4. Len(s) = b - 1 /\ \A i \in 1 .. b - 1 : s[i] = ls[i]
    <3>1. Len(s) = b - 1
      BY <1>1, <2>2
    <3>2. ASSUME NEW i \in 1 .. b - 1 PROVE s[i] = ls[i]
      <4>1. i \in 1 .. b - 1 - 1 + 1 /\ 1 + i - 1 = i
        BY <1>1
      <4> QED
        BY <2>2, <4>1
    <3> QED
      BY <3>1, <3>2
  <2>5. Len(r) = b - 1 /\ \A k \in 1 .. b - 1 : r[k] = ls[b - k]
    <3>1. ASSUME NEW i \in 1 .. Len(s) PROVE s[(Len(s) - i) + 1] \in Log!Line
      <4>1. (Len(s) - i) + 1 \in 1 .. Len(s) /\ Len(s) \in Nat
        BY <1>1, <2>4
      <4> QED
        BY <2>2, <4>1
    <3>2. r \in Seq(Log!Line) /\ Len(r) = Len(s)
      <4>1. Len(s) \in Nat
        BY <1>1, <2>4
      <4> QED
        BY <3>1, <4>1
    <3>3. ASSUME NEW k \in 1 .. b - 1 PROVE r[k] = ls[b - k]
      <4>1. k \in 1 .. Len(s) /\ (Len(s) - k) + 1 = b - k /\ b - k \in 1 .. b - 1
        BY <1>1, <2>4
      <4> QED
        BY <2>4, <4>1
    <3> QED
      BY <2>4, <3>2, <3>3
  <2> HIDE DEF r
  <2> QED
    BY <1>3, <2>3, <2>5
<1> QED
  BY <1>2, <1>3

LEMMA RunAlongPath ==
    ASSUME NEW ls, Log!Tiles(ls), NEW run, Len(run) \in Nat, Len(run) > 0,
           Len(run) <= LastNumber + 1, NEW d \in Ways, NEW L, LinesOfRun(ls, run, d, L)
    PROVE  RunAlong(Path(ls, d, L[1]), d, Len(run),
                    [i \in 1 .. Len(run) |-> IF d = Forward THEN L[i] - L[1] ELSE L[1] - L[i]])
<1> DEFINE b == L[1]
           n == Len(run)
           path == Path(ls, d, b)
           P == [i \in 1 .. n |-> IF d = Forward THEN L[i] - L[1] ELSE L[1] - L[i]]
<1>1. /\ Len(ls) \in Nat /\ n \in Nat /\ n >= 1 /\ 1 \in 1 .. n /\ b \in 1 .. Len(ls)
      /\ \A i \in 1 .. n : L[i] \in 1 .. Len(ls) /\ L[i] \in Nat
  BY DEF LinesOfRun, Log!Tiles
<1>2. /\ Len(path) = IF d = Forward THEN Len(ls) - b ELSE b - 1
      /\ \A k \in 1 .. Len(path) : path[k] = IF d = Forward THEN ls[b + k] ELSE ls[b - k]
  BY <1>1, PathFacts
<1>3. Len(path) \in Nat
  BY <1>1, <1>2
<1> HIDE DEF path
<1>4. ASSUME NEW i \in 1 .. n
      PROVE  /\ P[i] \in 0 .. Len(path) /\ (i = 1 => P[i] = 0)
             /\ i # 1 => P[i] > 0 /\ path[P[i]] = ls[L[i]]
  <2>1. /\ i # 1 => 1 < i
        /\ P[i] = IF d = Forward THEN L[i] - b ELSE b - L[i]
    BY <1>1
  <2>2. CASE i = 1
    BY <1>1, <1>3, <2>1, <2>2
  <2>3. CASE i # 1
    <3>1. IF d = Forward THEN b < L[i] ELSE L[i] < b
      BY <1>1, <2>1, <2>3 DEF LinesOfRun
    <3>2. P[i] \in 1 .. Len(path)
      BY <1>1, <1>2, <2>1, <3>1
    <3>3. (IF d = Forward THEN b + P[i] ELSE b - P[i]) = L[i]
      BY <1>1, <2>1
    <3> HIDE DEF P, b
    <3> QED
      BY <1>2, <1>3, <2>3, <3>2, <3>3
  <2> QED
    BY <2>2, <2>3
<1>5. ASSUME NEW i \in 1 .. n, NEW j \in 1 .. n, i < j PROVE P[i] < P[j]
  <2>1. IF d = Forward THEN L[i] < L[j] ELSE L[j] < L[i]
    BY <1>5 DEF LinesOfRun
  <2> QED
    BY <1>1, <2>1
<1>6. ASSUME NEW i \in 2 .. n
      PROVE  DirectionOf(path[P[i]]) = d /\ NumberOf(path[P[i]]) = i - 1
  <2>1. i \in 1 .. n /\ i # 1
    BY <1>1
  <2> QED
    BY <1>4, <2>1 DEF LinesOfRun
<1>7. ASSUME NEW k \in 1 .. Len(path), DirectionOf(path[k]) = d
      PROVE  \E i \in 2 .. n : P[i] = k
  <2> DEFINE m == IF d = Forward THEN b + k ELSE b - k
  <2>0. k \in Nat /\ 1 <= k /\ k <= Len(path) /\ b \in Nat
    BY <1>1, <1>3
  <2>1. /\ m \in 1 .. Len(ls)
        /\ IF d = Forward THEN m > b /\ m - b = k ELSE m < b /\ b - m = k
        /\ m \in Nat /\ path[k] = ls[m]
    <3>1. CASE d = Forward
      <4>1. k <= Len(ls) - b /\ path[k] = ls[b + k]
        BY <1>2, <2>0, <3>1
      <4>2. m = b + k
        BY <3>1
      <4>3. b + k \in 1 .. Len(ls) /\ b + k \in Nat
        BY <1>1, <2>0, <4>1
      <4> HIDE DEF m, b
      <4>4. m \in 1 .. Len(ls) /\ m \in Nat /\ path[k] = ls[m]
        BY <4>1, <4>2, <4>3
      <4>5. m > b /\ m - b = k
        BY <2>0, <4>2
      <4> QED
        BY <3>1, <4>4, <4>5
    <3>2. CASE d # Forward
      <4>1. k <= b - 1 /\ path[k] = ls[b - k]
        BY <1>2, <2>0, <3>2
      <4>2. m = b - k
        BY <3>2
      <4>3. b - k \in 1 .. Len(ls) /\ b - k \in Nat
        BY <1>1, <2>0, <4>1
      <4> HIDE DEF m, b
      <4>4. m \in 1 .. Len(ls) /\ m \in Nat /\ path[k] = ls[m]
        BY <4>1, <4>2, <4>3
      <4>5. m < b /\ b - m = k
        BY <2>0, <4>2
      <4> QED
        BY <3>2, <4>4, <4>5
    <3> QED
      BY <3>1, <3>2
  <2> HIDE DEF m
  <2>2. DirectionOf(ls[m]) = d
    BY <1>7, <2>1
  <2>3. PICK i \in 2 .. n : L[i] = m
    BY <2>1, <2>2 DEF LinesOfRun
  <2>4. P[i] = k
    <3>1. i \in 1 .. n
      BY <1>1
    <3>2. P[i] = IF d = Forward THEN m - b ELSE b - m
      BY <2>3, <3>1
    <3> HIDE DEF P
    <3> QED
      BY <2>1, <3>2
  <2> QED
    BY <2>4
<1>8. P \in [1 .. n -> 0 .. Len(path)] /\ P[1] = 0
  BY <1>1, <1>4
<1>9. n \in 1 .. LastNumber + 1
  BY <1>1, Parameters
<1> HIDE DEF P
<1>10. RunAlong(path, d, n, P)
  BY <1>3, <1>5, <1>6, <1>7, <1>8, <1>9 DEF RunAlong
<1> QED
  BY <1>10 DEF path, P

(* A run that is looked up is marked from its first line to its last, or to *)
(* the last but one.                                                       *)
LEMMA MarkRunLines ==
    ASSUME setup \in Setups, NEW ls, Log!Tiles(ls), NEW run, Len(run) \in Nat,
           Len(run) >= Limit, Len(run) <= LastNumber + 1, NEW d \in Ways,
           KeptRun(ls, run, d), NEW L, LinesOfRun(ls, run, d, L), first = run[1].from,
           NEW count \in Nat, Len(run) <= count + 1
    PROVE  LET last == L[IF setup.fast THEN Len(run) ELSE Len(run) - 1]
           IN  MarkRun(ls, d, count) =
                 IF d = Forward THEN WithHeads(ls, L[1], last) ELSE WithHeads(ls, last, L[1])
<1> DEFINE n == Len(run)
           m == IF setup.fast THEN n ELSE n - 1
           b == L[1]
           P == [i \in 1 .. n |-> IF d = Forward THEN L[i] - L[1] ELSE L[1] - L[i]]
           found == Found(Path(ls, d, b), d, count)
           reach == IF setup.fast THEN found.at ELSE found.before
<1>1. n \in Nat /\ n >= 3 /\ Limit \in Nat /\ n >= Limit /\ 1 \in 1 .. n /\ m \in 1 .. n
  BY DEF Limit, Setups
<1>2. StartLine(ls, d) = b
  BY <1>1, StartLineFacts
<1>3. RunAlong(Path(ls, d, b), d, n, P)
  BY <1>1, RunAlongPath
<1>4. found.n = n - 1 /\ found.at = P[n] /\ found.before = P[n - 1]
  <2> HIDE DEF P, b
  <2> QED
    BY <1>1, <1>3, FoundFacts
<1> HIDE DEF found
<1>5. reach = P[m]
  <2> HIDE DEF P
  <2> QED
    BY <1>4
<1> HIDE DEF m
<1>6. /\ L[m] \in 1 .. Len(ls) /\ b \in 1 .. Len(ls) /\ Len(ls) \in Nat
      /\ P[m] = IF d = Forward THEN L[m] - b ELSE b - L[m]
  <2>1. L \in [1 .. n -> 1 .. Len(ls)]
    BY DEF LinesOfRun
  <2>2. Len(ls) \in Nat
    BY DEF Log!Tiles
  <2>3. L[m] \in 1 .. Len(ls) /\ b \in 1 .. Len(ls)
    BY <1>1, <2>1
  <2>4. P[m] = IF d = Forward THEN L[m] - b ELSE b - L[m]
    BY <1>1
  <2> QED
    BY <2>2, <2>3, <2>4
<1>7. /\ d = Forward => b + reach = L[m]
      /\ d # Forward => b - reach = L[m]
  BY <1>5, <1>6
<1>8. b # 0 /\ ~(found.n + 1 < Limit)
  BY <1>1, <1>4, <1>6
<1> HIDE DEF reach
<1>9. MarkRun(ls, d, count) =
        IF b = 0 \/ found.n + 1 < Limit THEN ls
        ELSE IF d = Forward THEN WithHeads(ls, b, b + reach) ELSE WithHeads(ls, b - reach, b)
  <2> HIDE DEF b
  <2> QED
    BY <1>2 DEF MarkRun, Path, found, reach
<1> HIDE DEF b
<1>10. MarkRun(ls, d, count) = IF d = Forward THEN WithHeads(ls, b, L[m]) ELSE WithHeads(ls, L[m], b)
  BY <1>7, <1>8, <1>9
<1> QED
  BY <1>10 DEF b, m

LEMMA LeastIs ==
    ASSUME NEW S, S \subseteq Nat, NEW x \in S, \A y \in S : x <= y
    PROVE  Min(S) = x
<1>1. Min(S) \in S /\ Min(S) <= x
  BY MinFacts
<1>2. Min(S) \in Nat /\ x \in Nat /\ x <= Min(S)
  BY <1>1
<1> QED
  BY <1>1, <1>2

LEMMA MostIs ==
    ASSUME NEW n \in Nat, NEW S, S \subseteq 1 .. n, NEW x \in S, \A y \in S : y <= x
    PROVE  Max(S) = x
<1>1. Max(S) \in S /\ x <= Max(S)
  BY MaxFacts
<1>2. Max(S) \in 1 .. n /\ x \in 1 .. n /\ Max(S) <= x
  BY <1>1, Zenon
<1> QED
  BY <1>1, <1>2

(* The chunks of a run in its direction.                                   *)
InOrder(run, d) ==
    /\ \A i \in 1 .. Len(run) : Chunk(run[i])
    /\ \A i, j \in 1 .. Len(run) :
         i < j => IF d = Forward THEN run[i].to <= run[j].from ELSE run[j].to <= run[i].from

(* The number of chunks of a run that are marked as a head.                *)
HeadLength(run) == IF setup.fast THEN Len(run) ELSE Len(run) - 1

LEMMA StretchFacts ==
    ASSUME setup \in Setups, NEW run \in Runs, Len(run) >= Limit, NEW d \in Ways,
           InOrder(run, d)
    PROVE  /\ HeadLength(run) \in 1 .. Len(run)
           /\ Stretch(run).from = IF d = Forward THEN run[1].from ELSE run[HeadLength(run)].from
           /\ Stretch(run).to = IF d = Forward THEN run[HeadLength(run)].to ELSE run[1].to
<1> DEFINE n == Len(run)
           m == HeadLength(run)
           part == IF setup.fast THEN run ELSE Front(run)
           F == {c.from : c \in ToSet(part)}
           T == {c.to : c \in ToSet(part)}
<1>1. n \in Nat /\ n >= 3 /\ m \in 1 .. n /\ m \in Nat /\ m >= 1 /\ 1 \in 1 .. m
  BY DEF Limit, Setups, HeadLength, Runs
<1>2. DOMAIN part = 1 .. m /\ \A i \in 1 .. m : part[i] = run[i]
  <2>1. CASE setup.fast
    BY <2>1 DEF HeadLength, Runs
  <2>2. CASE ~setup.fast
    <3> DEFINE s == SubSeq(run, 1, n - 1)
    <3>1. \A i \in 1 .. n - 1 : run[i] \in [from : Nat, to : Nat]
      <4> DEFINE R == [from : Nat, to : Nat]
      <4>1. run \in Seq(R)
        BY DEF Runs
      <4> HIDE DEF R
      <4>2. \A i \in 1 .. n : run[i] \in R
        BY <4>1
      <4>3. \A i \in 1 .. n - 1 : i \in 1 .. n
        BY <1>1
      <4>4. \A i \in 1 .. n - 1 : run[i] \in R
        BY <4>2, <4>3
      <4> QED
        BY <4>4 DEF R
    <3>2. /\ s \in Seq([from : Nat, to : Nat])
          /\ Len(s) = IF 1 <= n - 1 THEN n - 1 - 1 + 1 ELSE 0
          /\ \A i \in 1 .. n - 1 - 1 + 1 : s[i] = run[1 + i - 1]
      BY <1>1, <3>1, SubSeqProperties
    <3>3. part = s /\ m = n - 1
      BY <2>2 DEF Front, HeadLength
    <3> HIDE DEF s, part, m
    <3>4. DOMAIN s = 1 .. m
      BY <1>1, <3>2, <3>3
    <3>5. ASSUME NEW i \in 1 .. m PROVE s[i] = run[i]
      <4>1. i \in 1 .. n - 1 - 1 + 1 /\ 1 + i - 1 = i
        BY <1>1, <3>3
      <4> QED
        BY <3>2, <4>1
    <3> QED
      BY <3>3, <3>4, <3>5
  <2> QED
    BY <2>1, <2>2
<1>3. Stretch(run) = [from |-> Min(F), to |-> Max(T)]
  BY DEF Stretch
<1> HIDE DEF part, m
<1>4. ToSet(part) = {run[i] : i \in 1 .. m}
  BY <1>2 DEF ToSet
<1>5. F = {run[i].from : i \in 1 .. m} /\ T = {run[i].to : i \in 1 .. m}
  BY <1>4
<1>6. ASSUME NEW i \in 1 .. m
      PROVE  /\ i \in 1 .. n /\ run[i].from \in Nat /\ run[i].to \in Nat
             /\ run[i].from < run[i].to /\ run[i].to <= Size
  BY <1>1 DEF InOrder, Chunk
<1>7. ASSUME NEW i \in 1 .. m, NEW j \in 1 .. m, i < j
      PROVE  IF d = Forward THEN run[i].from <= run[j].from /\ run[i].to <= run[j].to
             ELSE run[j].from <= run[i].from /\ run[j].to <= run[i].to
  <2>1. IF d = Forward THEN run[i].to <= run[j].from ELSE run[j].to <= run[i].from
    BY <1>6, <1>7 DEF InOrder
  <2> QED
    BY <1>6, <2>1
<1>8. 1 \in 1 .. m /\ m \in 1 .. m
  BY <1>1
<1>9. ASSUME NEW i \in 1 .. m
      PROVE  IF d = Forward THEN run[1].from <= run[i].from /\ run[i].to <= run[m].to
             ELSE run[m].from <= run[i].from /\ run[i].to <= run[1].to
  <2>1. (1 < i \/ 1 = i) /\ (i < m \/ i = m)
    BY <1>1
  <2>2. 1 = i \/ (1 < i /\ IF d = Forward THEN run[1].from <= run[i].from
                           ELSE run[i].to <= run[1].to)
    BY <1>7, <1>8, <2>1
  <2>3. i = m \/ (i < m /\ IF d = Forward THEN run[i].to <= run[m].to
                           ELSE run[m].from <= run[i].from)
    BY <1>7, <1>8, <2>1
  <2>4. run[i].from \in Nat /\ run[i].to \in Nat
    BY <1>6
  <2>5. run[1].from <= run[1].from /\ run[m].from <= run[m].from
        /\ run[1].to <= run[1].to /\ run[m].to <= run[m].to
    BY <1>6, <1>8
  <2> QED
    BY <2>2, <2>3, <2>5
<1>10. F \subseteq Nat /\ T \subseteq 1 .. Size /\ Size \in Nat
  <2>1. Size \in Nat
    BY Parameters
  <2>2. ASSUME NEW i \in 1 .. m PROVE run[i].from \in Nat /\ run[i].to \in 1 .. Size
    <3>1. /\ run[i].from \in Nat /\ run[i].to \in Nat
          /\ run[i].from < run[i].to /\ run[i].to <= Size
      BY <1>6
    <3> QED
      BY <2>1, <3>1
  <2> HIDE DEF F, T
  <2> QED
    BY <1>5, <2>1, <2>2
<1>11. Min(F) = IF d = Forward THEN run[1].from ELSE run[m].from
  <2> DEFINE v == IF d = Forward THEN run[1].from ELSE run[m].from
  <2>1. v \in F
    BY <1>5, <1>8
  <2>2. \A y \in F : v <= y
    BY <1>5, <1>9
  <2> HIDE DEF F, v
  <2>3. Min(F) = v
    BY <1>10, <2>1, <2>2, LeastIs
  <2> QED
    BY <2>3 DEF v
<1>12. Max(T) = IF d = Forward THEN run[m].to ELSE run[1].to
  <2> DEFINE v == IF d = Forward THEN run[m].to ELSE run[1].to
  <2>1. v \in T
    BY <1>5, <1>8
  <2>2. \A y \in T : y <= v
    BY <1>5, <1>9
  <2> HIDE DEF T, v
  <2>3. Max(T) = v
    BY <1>10, <2>1, <2>2, MostIs
  <2> QED
    BY <2>3 DEF v
<1> HIDE DEF F, T
<1> QED
  BY <1>1, <1>3, <1>11, <1>12 DEF m

LEMMA WithHeadsSectors ==
    ASSUME NEW ls, Log!Tiles(ls), NEW a \in 1 .. Len(ls), NEW b \in 1 .. Len(ls),
           NEW x \in 0 .. Size - 1
    PROVE  HeadAt(WithHeads(ls, a, b), x)
             <=> HeadAt(ls, x) \/ (ls[a].pos <= x /\ x < Log!EndOf(ls[b]))
<1> DEFINE ms == WithHeads(ls, a, b)
<1>1. PICK k \in 1 .. Len(ls) : /\ k = Log!FindBlock(ls, x)
                                /\ ls[k].pos <= x /\ x < Log!EndOf(ls[k])
  BY FindFacts
<1>2. /\ SameLines(ls, ms)
      /\ ms[k].status.head <=> ls[k].status.head \/ k \in a .. b
  BY WithHeadsFacts
<1> HIDE DEF ms
<1>3. Log!FindBlock(ms, x) = k
  <2>1. k \in 1 .. Len(ms) /\ ms[k].pos <= x /\ x < Log!EndOf(ms[k]) /\ Log!Tiles(ms)
    BY <1>1, <1>2 DEF SameLines
  <2> QED
    BY <2>1, FindFacts
<1>4. HeadAt(ms, x) <=> HeadAt(ls, x) \/ k \in a .. b
  BY <1>1, <1>2, <1>3 DEF HeadAt, Log!StatusAt
<1>5. k \in a .. b <=> ls[a].pos <= x /\ x < Log!EndOf(ls[b])
  <2>1. /\ ls[k].pos \in Nat /\ Log!EndOf(ls[k]) \in Nat
        /\ ls[a].pos \in Nat /\ Log!EndOf(ls[a]) \in Nat /\ ls[a].pos < Log!EndOf(ls[a])
        /\ ls[b].pos \in Nat /\ Log!EndOf(ls[b]) \in Nat /\ ls[b].pos < Log!EndOf(ls[b])
    BY LineFacts
  <2>2. /\ k < a => Log!EndOf(ls[k]) <= ls[a].pos
        /\ a < k => Log!EndOf(ls[a]) <= ls[k].pos
        /\ k < b => Log!EndOf(ls[k]) <= ls[b].pos
        /\ b < k => Log!EndOf(ls[b]) <= ls[k].pos
    BY LinesOrdered
  <2>3. Len(ls) \in Nat /\ k \in Nat /\ a \in Nat /\ b \in Nat
    BY DEF Log!Tiles
  <2> QED
    BY SMTT(30), <1>1, <2>1, <2>2, <2>3
<1> QED
  BY <1>4, <1>5 DEF ms

(* A run that is over has its stretch marked as a head, and nothing else.  *)
LEMMA MarkRunHeads ==
    ASSUME setup \in Setups, NEW ls, Log!Tiles(ls), NEW run \in Runs,
           Len(run) >= Limit, Len(run) <= LastNumber + 1, NEW d \in Ways,
           KeptRun(ls, run, d), first = run[1].from,
           NEW count \in Nat, Len(run) <= count + 1, NEW x \in 0 .. Size - 1
    PROVE  HeadAt(MarkRun(ls, d, count), x)
             <=> HeadAt(ls, x) \/ x \in Stretch(run).from .. Stretch(run).to - 1
<1> DEFINE m == HeadLength(run)
<1>1. Len(run) \in Nat /\ Len(run) > 0 /\ 1 \in 1 .. Len(run)
  BY DEF Limit, Setups, Runs
<1>2. PICK L : LinesOfRun(ls, run, d, L)
  BY <1>1, RunHasLines
<1>3. MarkRun(ls, d, count) =
        IF d = Forward THEN WithHeads(ls, L[1], L[m]) ELSE WithHeads(ls, L[m], L[1])
  BY <1>1, <1>2, MarkRunLines DEF HeadLength
<1>4. InOrder(run, d)
  BY DEF KeptRun, InOrder
<1>5. /\ m \in 1 .. Len(run)
      /\ Stretch(run).from = IF d = Forward THEN run[1].from ELSE run[m].from
      /\ Stretch(run).to = IF d = Forward THEN run[m].to ELSE run[1].to
  BY <1>4, StretchFacts
<1> HIDE DEF m
<1>6. /\ L[1] \in 1 .. Len(ls) /\ L[m] \in 1 .. Len(ls)
      /\ ls[L[1]].pos = run[1].from /\ Log!EndOf(ls[L[1]]) = run[1].to
      /\ ls[L[m]].pos = run[m].from /\ Log!EndOf(ls[L[m]]) = run[m].to
      /\ run[1].from \in Nat /\ run[1].to \in Nat /\ run[m].from \in Nat /\ run[m].to \in Nat
  BY <1>1, <1>2, <1>5 DEF LinesOfRun, KeptRun, Chunk
<1>7. x \in Stretch(run).from .. Stretch(run).to - 1
        <=> Stretch(run).from <= x /\ x < Stretch(run).to
  BY <1>5, <1>6
<1>8. CASE d = Forward
  BY <1>3, <1>5, <1>6, <1>7, <1>8, WithHeadsSectors
<1>9. CASE d # Forward
  BY <1>3, <1>5, <1>6, <1>7, <1>9, WithHeadsSectors
<1> QED
  BY <1>8, <1>9

(* Marking a head keeps the skips and the lines of chunks.                 *)
LEMMA SameMarks ==
    ASSUME NEW ls, Log!Tiles(ls), NEW ms, SameLines(ls, ms)
    PROVE  \A x \in 0 .. Size - 1 : SkipAt(ms, x) = SkipAt(ls, x)
<1>1. ASSUME NEW x \in 0 .. Size - 1 PROVE SkipAt(ms, x) = SkipAt(ls, x)
  <2>1. PICK b \in 1 .. Len(ls) : b = Log!FindBlock(ls, x) /\ ls[b].pos <= x /\ x < Log!EndOf(ls[b])
    BY FindFacts
  <2>2. b \in 1 .. Len(ms) /\ ms[b].pos <= x /\ x < Log!EndOf(ms[b])
    BY <2>1 DEF SameLines
  <2>3. Log!FindBlock(ms, x) = b
    BY <2>2, FindFacts DEF SameLines
  <2> QED
    BY <2>1, <2>3 DEF SameLines, SkipAt, Log!StatusAt
<1> QED
  BY <1>1

LEMMA SameRun ==
    ASSUME NEW ls, Log!Tiles(ls), NEW ms, SameLines(ls, ms), NEW run, NEW d,
           KeptRun(ls, run, d)
    PROVE  KeptRun(ms, run, d)
<1>1. /\ \A x \in 0 .. Size - 1 : SkipAt(ms, x) = SkipAt(ls, x)
      /\ \A c : InOneLine(ls, c) => InOneLine(ms, c)
  BY SameMarks, SameLinesFacts
<1> QED
  BY <1>1, Zenon DEF KeptRun

(* The log ms is ls with the mark on chunk c, unless it is 0: heads and    *)
(* other marks are kept, and chunks of other marks are in one line still.  *)
Written(ls, ms, c, mark) ==
    /\ Log!Tiles(ms)
    /\ \A x \in 0 .. Size - 1 :
         /\ HeadAt(ms, x) <=> HeadAt(ls, x)
         /\ SkipAt(ms, x) = IF Within(c, x) /\ mark # 0 THEN mark ELSE SkipAt(ls, x)
    /\ \A e : Chunk(e) /\ InOneLine(ls, e) /\ SkipAt(ls, e.from) # SkipAt(ls, c.from)
                => InOneLine(ms, e)

LEMMA ChangeWrites ==
    ASSUME NEW ls, Log!Tiles(ls), NEW c, Chunk(c), InOneLine(ls, c), NEW s \in Log!Status,
           s.head = FALSE
    PROVE  Written(ls, Change(ls, c, s), c, s.skip)
<1> DEFINE b == Log!FindBlock(ls, c.from)
           n == c.to - c.from
           new == Log!Keep(ls[b].status, s)
           ms == Log!Marked(ls, b, c.from, n, new)
<1>0. Size \in Nat /\ c.from \in 0 .. Size - 1 /\ n \in Nat \ {0} /\ c.from + n = c.to
      /\ c.from \in Nat /\ c.to \in Nat /\ c.to <= Size
  BY Parameters DEF Chunk
<1>1. /\ b \in 1 .. Len(ls) /\ ls[b].pos <= c.from /\ c.to <= Log!EndOf(ls[b])
  <2>1. PICK k \in 1 .. Len(ls) : ls[k].pos <= c.from /\ c.to <= Log!EndOf(ls[k])
    BY DEF InOneLine
  <2>2. c.from < Log!EndOf(ls[k])
    BY <2>1, LineFacts DEF Chunk
  <2>3. k = b
    BY <1>0, <2>1, <2>2, FindFacts
  <2> QED
    BY <2>1, <2>3
<1>2. ls[b].status \in Log!Status
  BY <1>1, LineFacts
<1>3. /\ new \in Log!Status /\ new.head = ls[b].status.head
      /\ new.skip = IF s.skip = 0 THEN ls[b].status.skip ELSE s.skip
  BY <1>2 DEF Log!Keep, Log!Status, Marks
<1>4. ASSUME NEW x \in 0 .. Size - 1, Within(c, x) PROVE Log!StatusAt(ls, x) = ls[b].status
  <2>1. x \in Int /\ ls[b].pos <= x /\ x < Log!EndOf(ls[b])
    BY <1>0, <1>1, <1>4, LineFacts DEF Within
  <2> QED
    BY <1>1, <2>1, KindFacts
<1>5. CASE ls[b].status = s
  <2>1. Change(ls, c, s) = ls
    BY <1>5 DEF Change
  <2> QED
    BY <1>4, <1>5, <2>1 DEF Written, SkipAt, HeadAt
<1>6. CASE ls[b].status # s
  <2>1. Change(ls, c, s) = ms
    BY <1>6 DEF Change
  <2>2. /\ Facts!Tiles(ls) /\ new \in Facts!Status
        /\ ls[b].pos <= c.from /\ c.from + n <= Facts!EndOf(ls[b])
    BY <1>0, <1>1, <1>3, SameTiles, SameEnd DEF Facts!Status, Log!Status
  <2>3. Facts!Marked(ls, b, c.from, n, new) = ms
    BY SameMarked
  <2> HIDE DEF ms, new, n
  <2>5. Facts!MarksChunk(ls, ms, c.from, n, new) /\ Facts!Others(ls, ms, b)
    <3> HIDE DEF b
    <3> QED
      BY <1>0, <1>1, <2>2, <2>3, LogParameters, Facts!MarkedMarks, Facts!MarkedOthers
  <2>6. Log!Tiles(ms)
    BY <2>5, SameTiles DEF Facts!MarksChunk
  <2>7. ASSUME NEW x \in 0 .. Size - 1
        PROVE  /\ HeadAt(ms, x) <=> HeadAt(ls, x)
               /\ SkipAt(ms, x) = IF Within(c, x) /\ s.skip # 0 THEN s.skip ELSE SkipAt(ls, x)
    <3>1. Log!StatusAt(ms, x) = IF Within(c, x) THEN new ELSE Log!StatusAt(ls, x)
      BY <1>0, <2>5, SameStatusAt DEF Facts!MarksChunk, Facts!Sectors, Within
    <3> QED
      BY <1>3, <1>4, <3>1 DEF HeadAt, SkipAt
  <2>8. ASSUME NEW e, Chunk(e), InOneLine(ls, e), SkipAt(ls, e.from) # SkipAt(ls, c.from)
        PROVE  InOneLine(ms, e)
    <3>1. PICK j \in 1 .. Len(ls) : ls[j].pos <= e.from /\ e.to <= Log!EndOf(ls[j])
      BY <2>8 DEF InOneLine
    <3>2. e.from \in Int /\ ls[j].pos <= e.from /\ e.from < Log!EndOf(ls[j])
      BY <2>8, <3>1, LineFacts DEF Chunk
    <3>3. Log!StatusAt(ls, e.from) = ls[j].status
      BY <3>2, KindFacts
    <3>4. Log!StatusAt(ls, c.from) = ls[b].status
      BY <1>0, <1>4 DEF Within, Chunk
    <3>5. j # b
      BY <2>8, <3>3, <3>4 DEF SkipAt
    <3>6. PICK k \in 1 .. Len(ms) : /\ ms[k].pos <= ls[j].pos
                                    /\ ls[j].pos + ls[j].size <= Facts!EndOf(ms[k])
      BY <2>5, <3>5 DEF Facts!Others, Facts!InLine
    <3>7. /\ ms[k].pos \in Nat /\ Log!EndOf(ms[k]) \in Nat
          /\ ls[j].pos \in Nat /\ Log!EndOf(ls[j]) \in Nat
      BY <2>6, LineFacts
    <3>8. ls[j].pos + ls[j].size = Log!EndOf(ls[j]) /\ Facts!EndOf(ms[k]) = Log!EndOf(ms[k])
      BY SameEnd DEF Log!EndOf
    <3>9. ms[k].pos <= e.from /\ e.to <= Log!EndOf(ms[k])
      BY <2>8, <3>1, <3>6, <3>7, <3>8 DEF Chunk
    <3> QED
      BY <3>9 DEF InOneLine
  <2> QED
    BY <2>1, <2>6, <2>7, <2>8 DEF Written
<1> QED
  BY <1>5, <1>6

LEMMA WrittenTwice ==
    ASSUME NEW ls, NEW ms, NEW ns, NEW c, NEW mark, Chunk(c),
           Written(ls, ms, c, 0), Written(ms, ns, c, mark)
    PROVE  Written(ls, ns, c, mark)
<1>1. ASSUME NEW e, Chunk(e), InOneLine(ls, e), SkipAt(ls, e.from) # SkipAt(ls, c.from)
      PROVE  InOneLine(ns, e)
  <2>1. InOneLine(ms, e)
    BY <1>1 DEF Written
  <2>2. e.from \in 0 .. Size - 1 /\ c.from \in 0 .. Size - 1
    BY <1>1, Parameters DEF Chunk
  <2>3. SkipAt(ms, e.from) = SkipAt(ls, e.from) /\ SkipAt(ms, c.from) = SkipAt(ls, c.from)
    BY <2>2 DEF Written
  <2> QED
    BY <1>1, <2>1, <2>3 DEF Written
<1> QED
  BY <1>1 DEF Written

(* A read that works keeps the run, and one that fails goes on with it.    *)
LEMMA GoodKeepsRun ==
    ASSUME NEW ls, Log!Tiles(ls), NEW ms, NEW c, Written(ls, ms, c, 0),
           SkipAt(ls, c.from) = 0,
           NEW run, Len(run) \in Nat, Len(run) <= LastNumber + 1, NEW d \in Ways,
           KeptRun(ls, run, d)
    PROVE  KeptRun(ms, run, d)
<1>1. \A x \in 0 .. Size - 1 : SkipAt(ms, x) = SkipAt(ls, x)
  BY DEF Written
<1>2. ASSUME NEW i \in 1 .. Len(run) PROVE InOneLine(ms, run[i])
  <2>1. Chunk(run[i]) /\ InOneLine(ls, run[i])
    BY DEF KeptRun
  <2>2. run[i].from \in 0 .. Size - 1 /\ Within(run[i], run[i].from)
    BY <2>1, Parameters DEF Chunk, Within
  <2>3. SkipAt(ls, run[i].from) = Field(d, i - 1)
    BY <2>2, Zenon DEF KeptRun
  <2>5. i - 1 \in 0 .. LastNumber
    BY Parameters
  <2>4. SkipAt(ls, run[i].from) # 0
    BY <2>3, <2>5, FieldFacts
  <2> QED
    BY <2>1, <2>4 DEF Written
<1> QED
  BY <1>1, <1>2, Zenon DEF KeptRun

LEMMA SkipExtendsRun ==
    ASSUME NEW ls, Log!Tiles(ls), NEW ms, NEW c \in [from : Nat, to : Nat], Chunk(c),
           NEW run \in Runs, Len(run) <= LastNumber, NEW d \in Ways, KeptRun(ls, run, d),
           Written(ls, ms, c, Field(d, Len(run))), InOneLine(ms, c),
           \A x \in 0 .. Size - 1 : Within(c, x) => SkipAt(ls, x) = 0,
           \A x \in 0 .. Size - 1 :
             Way(SkipAt(ls, x)) = d => IF d = Forward THEN x + 1 < c.from ELSE x > c.to
    PROVE  KeptRun(ms, Append(run, c), d)
<1> DEFINE n == Len(run)
           new == Append(run, c)
<1>1. /\ n \in Nat /\ LastNumber \in Nat /\ new \in Runs /\ Len(new) = n + 1
      /\ new[n + 1] = c /\ \A i \in 1 .. n : new[i] = run[i]
  BY Parameters DEF Runs
<1>2. /\ c.from \in Nat /\ c.to \in Nat /\ c.from < c.to /\ c.to <= Size /\ Size \in Nat
      /\ c.from \in 0 .. Size - 1 /\ Within(c, c.from)
  BY Parameters DEF Chunk, Within
<1>3. n \in 0 .. LastNumber /\ \A i \in 1 .. n : i - 1 \in 0 .. LastNumber
  BY <1>1
<1>4. Field(d, n) # 0 /\ Way(Field(d, n)) = d
  BY <1>3, FieldFacts
<1>5. \A x \in 0 .. Size - 1 :
        SkipAt(ms, x) = IF Within(c, x) THEN Field(d, n) ELSE SkipAt(ls, x)
  BY <1>4 DEF Written
<1>6. ASSUME NEW i \in 1 .. n
      PROVE  /\ Chunk(run[i]) /\ InOneLine(ls, run[i])
             /\ \A x \in 0 .. Size - 1 : Within(run[i], x) => SkipAt(ls, x) = Field(d, i - 1)
             /\ Field(d, i - 1) # 0 /\ Way(Field(d, i - 1)) = d
  <2>1. Field(d, i - 1) # 0 /\ Way(Field(d, i - 1)) = d
    BY <1>3, FieldFacts
  <2> QED
    BY <2>1, Zenon DEF KeptRun
<1>7. ASSUME NEW i \in 1 .. n
      PROVE  /\ IF d = Forward THEN run[i].to <= c.from ELSE c.to <= run[i].from
             /\ InOneLine(ms, run[i])
             /\ \A x \in 0 .. Size - 1 : Within(run[i], x) => SkipAt(ms, x) = Field(d, i - 1)
  <2>1. /\ run[i].from \in Nat /\ run[i].to \in Nat /\ run[i].from < run[i].to
        /\ run[i].to <= Size
    BY <1>6 DEF Chunk
  <2>2. /\ run[i].from \in 0 .. Size - 1 /\ run[i].to - 1 \in 0 .. Size - 1
        /\ Within(run[i], run[i].from) /\ Within(run[i], run[i].to - 1)
    BY <1>2, <2>1 DEF Within
  <2>3. SkipAt(ls, run[i].from) # 0 /\ Way(SkipAt(ls, run[i].from)) = d
        /\ Way(SkipAt(ls, run[i].to - 1)) = d
    BY <1>6, <2>2
  <2>4. IF d = Forward THEN (run[i].to - 1) + 1 < c.from ELSE run[i].from > c.to
    BY <2>2, <2>3
  <2>5. IF d = Forward THEN run[i].to <= c.from ELSE c.to <= run[i].from
    BY <1>2, <2>1, <2>4
  <2>6. SkipAt(ls, c.from) = 0
    BY <1>2
  <2>7. InOneLine(ms, run[i])
    BY <1>6, <2>3, <2>6 DEF Written
  <2>8. ASSUME NEW x \in 0 .. Size - 1, Within(run[i], x)
        PROVE  SkipAt(ms, x) = Field(d, i - 1)
    <3>1. ~Within(c, x)
      BY <1>2, <2>1, <2>5, <2>8 DEF Within
    <3> QED
      BY <1>5, <1>6, <2>8, <3>1
  <2> QED
    BY <2>5, <2>7, <2>8
<1> HIDE DEF new
<1>8. ASSUME NEW i \in 1 .. n + 1
      PROVE  /\ Chunk(new[i]) /\ InOneLine(ms, new[i])
             /\ \A x \in 0 .. Size - 1 : Within(new[i], x) => SkipAt(ms, x) = Field(d, i - 1)
  <2>1. CASE i = n + 1
    <3>1. new[i] = c /\ i - 1 = n
      BY <1>1, <2>1
    <3> QED
      BY <1>5, <3>1
  <2>2. CASE i # n + 1
    <3>1. i \in 1 .. n
      BY <1>1, <2>2
    <3> QED
      BY <1>1, <1>6, <1>7, <3>1
  <2> QED
    BY <2>1, <2>2
<1>9. ASSUME NEW i \in 1 .. n + 1, NEW j \in 1 .. n + 1, i < j
      PROVE  IF d = Forward THEN new[i].to <= new[j].from ELSE new[j].to <= new[i].from
  <2>1. i \in 1 .. n
    BY <1>1, <1>9
  <2>2. CASE j = n + 1
    <3>1. new[j] = c /\ new[i] = run[i]
      BY <1>1, <2>1, <2>2
    <3> QED
      BY <1>7, <2>1, <3>1
  <2>3. CASE j # n + 1
    <3>1. j \in 1 .. n
      BY <1>1, <2>3
    <3>2. new[j] = run[j] /\ new[i] = run[i]
      BY <1>1, <2>1, <3>1
    <3>3. IF d = Forward THEN run[i].to <= run[j].from ELSE run[j].to <= run[i].from
      BY <1>9, <2>1, <3>1 DEF KeptRun
    <3> QED
      BY <3>2, <3>3
  <2> QED
    BY <2>2, <2>3
<1>10. ASSUME NEW x \in 0 .. Size - 1, Way(SkipAt(ms, x)) = d,
              IF d = Forward THEN x + 1 >= new[1].from ELSE x <= new[1].to
       PROVE  \E i \in 1 .. n + 1 : Within(new[i], x)
  <2>1. CASE Within(c, x)
    <3>1. n + 1 \in 1 .. n + 1
      BY <1>1
    <3> QED
      BY <1>1, <2>1, <3>1
  <2>2. CASE ~Within(c, x)
    <3>1. Way(SkipAt(ls, x)) = d
      BY <1>5, <1>10, <2>2
    <3>2. IF d = Forward THEN x + 1 < c.from ELSE x > c.to
      BY <3>1
    <3>3. n # 0
      <4>1. ASSUME n = 0 PROVE FALSE
        <5>1. new[1] = c
          BY <1>1, <4>1
        <5> QED
          BY <1>2, <1>10, <3>2, <5>1
      <4> QED
        BY <4>1
    <3>4. n > 0 /\ 1 \in 1 .. n
      BY <1>1, <3>3
    <3>5. new[1] = run[1]
      BY <1>1, <3>4
    <3>6. IF d = Forward THEN x + 1 >= run[1].from ELSE x <= run[1].to
      BY <1>10, <3>5
    <3>7. PICK i \in 1 .. n : Within(run[i], x)
      BY <3>1, <3>4, <3>6, Zenon DEF KeptRun
    <3>8. i \in 1 .. n + 1 /\ new[i] = run[i]
      BY <1>1
    <3> QED
      BY <3>7, <3>8
  <2> QED
    BY <2>1, <2>2
<1>11. KeptRun(ms, new, d)
  <2>1. Len(new) = n + 1
    BY <1>1
  <2> HIDE DEF n
  <2> QED
    BY <1>8, <1>9, <1>10, <2>1, Zenon DEF KeptRun
<1> QED
  BY <1>11 DEF new

-----------------------------------------------------------------------------
(* The invariant of the marks of heads.                                   *)
(* The parts of the invariant.                                             *)
HeadsOf(ls, stretches) ==
    \A x \in 0 .. Size - 1 : HeadAt(ls, x) <=> x \in Sectors(stretches)

UntriedUnmarked ==
    \A x \in 0 .. Size - 1 : KindAt(lines, x) = "NONTRIED" => SkipAt(lines, x) = 0

(* Phase 1 leaves no marks of phase 2.                                     *)
OneDirection ==
    phase = 1 => \A x \in 0 .. Size - 1 : Way(SkipAt(lines, x)) # Direction(2)

(* The marks of direction d are behind the position p of the pass.         *)
MarksBehind(ls, d, p) ==
    \A x \in 0 .. Size - 1 :
      Way(SkipAt(ls, x)) = d => IF d = Forward THEN x + 1 < p ELSE x > p + Cluster

(* Except at the edges of the source: the last sector can be where the     *)
(* pass was taken back to, and the pass can be beyond either end.          *)
Behindhand ==
    phase < 3 =>
      \/ MarksBehind(lines, Direction(phase), pos)
      \/ Ahead(phase) /\ pos >= Size - 1 /\ chunks = <<>>
      \/ Ahead(phase) /\ pos >= Size /\ Len(chunks) <= 1
      \/ ~Ahead(phase) /\ pos <= 0

RunKept ==
    /\ Len(chunks) = skips.count
    /\ \/ Ahead(phase) /\ pos >= Size /\ Len(chunks) <= 1
       \/ /\ KeptRun(lines, chunks, Direction(phase))
          /\ Len(chunks) > 0 => first = chunks[1].from

HeadsInv ==
    /\ chunks \in Runs
    /\ ~again => /\ HeadsOf(lines, ended) /\ UntriedUnmarked /\ OneDirection
                 /\ Behindhand /\ RunKept

LEMMA DirectionFacts ==
    /\ \A p : Direction(p) \in Ways
    /\ \A p : Direction(p) = Forward <=> Ahead(p)
    /\ setup \in Setups => Direction(1) # Direction(2)
<1>1. Forward # Backward
  BY DEF Forward, Backward
<1>2. setup \in Setups => (Ahead(1) <=> ~Ahead(2))
  BY AheadFacts
<1> QED
  BY <1>1, <1>2 DEF Direction, Ways

LEMMA EmptyRun == ASSUME NEW ls, NEW d PROVE KeptRun(ls, <<>>, d)
<1>1. Len(<<>>) = 0 /\ 1 .. 0 = {}
  OBVIOUS
<1> QED
  BY <1>1 DEF KeptRun

(* The end of a run, or what is not one, marks what is to be marked.       *)
LEMMA RunEndHeads ==
    ASSUME setup \in Setups, NEW ls, Log!Tiles(ls), NEW run \in Runs,
           NEW d \in Ways, NEW es, HeadsOf(ls, es), NEW count \in 0 .. LastNumber,
           \/ count < Limit
           \/ /\ Len(run) = count \/ (Len(run) = count + 1 /\ count = LastNumber)
              /\ KeptRun(ls, run, d) /\ first = run[1].from
    PROVE  HeadsOf(IF count < Limit THEN ls ELSE MarkRun(ls, d, count),
                   IF count < Limit THEN es ELSE es \cup {Stretch(run)})
<1>1. CASE count < Limit
  BY <1>1
<1>2. CASE ~(count < Limit)
  <2>1. /\ count \in Nat /\ Limit \in Nat /\ LastNumber \in Nat /\ Len(run) \in Nat
        /\ Len(run) >= Limit /\ Len(run) <= LastNumber + 1 /\ Len(run) <= count + 1
    BY <1>2, Parameters DEF Limit, Setups, Runs
  <2>2. ASSUME NEW x \in 0 .. Size - 1
        PROVE  HeadAt(MarkRun(ls, d, count), x) <=> x \in Sectors(es \cup {Stretch(run)})
    <3>1. HeadAt(MarkRun(ls, d, count), x)
            <=> HeadAt(ls, x) \/ x \in Stretch(run).from .. Stretch(run).to - 1
      BY <1>2, <2>1, MarkRunHeads
    <3>2. HeadAt(ls, x) <=> x \in Sectors(es)
      BY DEF HeadsOf
    <3>3. x \in Sectors(es \cup {Stretch(run)})
            <=> x \in Sectors(es) \/ x \in Stretch(run).from .. Stretch(run).to - 1
      <4> DEFINE r == Stretch(run)
      <4> HIDE DEF r
      <4>1. x \in Sectors(es \cup {r}) <=> x \in Sectors(es) \/ x \in r.from .. r.to - 1
        BY DEF Sectors
      <4> QED
        BY <4>1 DEF r
    <3> QED
      BY <3>1, <3>2, <3>3
  <2> QED
    BY <1>2, <2>2 DEF HeadsOf
<1> QED
  BY <1>1, <1>2

LEMMA RunOverHeads ==
    ASSUME setup \in Setups, NEW ls, Log!Tiles(ls), NEW run \in Runs,
           NEW d \in Ways, HeadsOf(ls, ended), NEW s, s.count \in 0 .. LastNumber,
           \/ s.count < Limit
           \/ /\ Len(run) = s.count \/ (Len(run) = s.count + 1 /\ s.count = LastNumber)
              /\ KeptRun(ls, run, d) /\ first = run[1].from,
           RunOver(ls, run, s, d)
    PROVE  HeadsOf(lines', ended')
<1>1. /\ lines' = IF s.count < Limit THEN ls ELSE MarkRun(ls, d, s.count)
      /\ ended' = IF s.count < Limit THEN ended ELSE ended \cup {Stretch(run)}
  BY DEF RunOver
<1> QED
  BY <1>1, RunEndHeads

(* The skips and the kinds of lines' are those of ls.                      *)
LEMMA HeadsKeepRest ==
    ASSUME Log!Tiles(lines), SameLines(lines, lines'), UntriedUnmarked
    PROVE  /\ UntriedUnmarked'
           /\ \A x \in 0 .. Size - 1 : SkipAt(lines', x) = SkipAt(lines, x)
           /\ \A d, p : MarksBehind(lines, d, p) => MarksBehind(lines', d, p)
<1>1. \A x \in 0 .. Size - 1 : SkipAt(lines', x) = SkipAt(lines, x)
  BY SameMarks
<1>2. \A x \in 0 .. Size - 1 : KindAt(lines', x) = KindAt(lines, x)
  BY SameLinesFacts
<1>3. UntriedUnmarked'
  BY <1>1, <1>2 DEF UntriedUnmarked, KindAt, SkipAt
<1>4. \A d, p : MarksBehind(lines, d, p) => MarksBehind(lines', d, p)
  BY <1>1 DEF MarksBehind
<1> QED
  BY <1>1, <1>3, <1>4

-----------------------------------------------------------------------------
(* The turns keep it.                                                      *)
(* What the read of chunk c finds, after the run was ended or not.         *)
LEMMA FoundByRead ==
    ASSUME IInv, HeadsInv, ~again, copying, NEW c \in Chunks
    PROVE  LET d == Direction(phase) IN
             /\ d \in Ways /\ NextChunk(c) /\ SameLines(lines, Marked(c))
             /\ HeadsOf(Marked(c), Ended(c))
             /\ Run(c) \in Runs /\ Len(Run(c)) = Current(c).count
             /\ Len(Run(c)) <= LastNumber
             /\ KeptRun(Marked(c), Run(c), d)
             /\ Len(Run(c)) > 0 => first = Run(c)[1].from
             /\ \A x \in 0 .. Size - 1 : SkipAt(Marked(c), x) = SkipAt(lines, x)
             /\ \A x \in 0 .. Size - 1 : Within(c, x) => SkipAt(lines, x) = 0
             /\ \/ MarksBehind(lines, d, pos)
                \/ Ahead(phase) /\ pos = Size - 1 /\ Run(c) = <<>>
<1> DEFINE d == Direction(phase)
<1>1. d \in Ways /\ (d = Forward <=> Ahead(phase))
  BY DirectionFacts
<1> HIDE DEF d
<1>2. /\ TypeOK /\ Placed /\ setup \in Setups /\ Log!Tiles(lines) /\ Bounded(skips)
      /\ skips.count \in 0 .. LastNumber /\ pos \in Int /\ Size \in Nat /\ LastNumber \in Nat
  BY Parameters DEF IInv, TypeOK, Bounded, Sizes
<1>3. NextChunk(c) /\ InRange
  BY <1>2, ChunkFacts DEF Chunks
<1>4. /\ chunks \in Runs /\ HeadsOf(lines, ended) /\ UntriedUnmarked
      /\ Behindhand /\ RunKept
  BY DEF HeadsInv
<1>5. /\ Len(chunks) = skips.count
      /\ KeptRun(lines, chunks, d) /\ (Len(chunks) > 0 => first = chunks[1].from)
  BY <1>2, <1>3, <1>4 DEF RunKept, InRange, d
<1>6. SameLines(lines, Marked(c))
  BY <1>2, MarkedFacts
<1>7. \A x \in 0 .. Size - 1 : SkipAt(Marked(c), x) = SkipAt(lines, x)
  BY <1>2, <1>6, SameMarks
<1>8. HeadsOf(Marked(c), Ended(c))
  <2>1. CASE Past(c) /\ skips.count >= Limit
    <3>1. Limit \in Nat /\ Limit > 0 /\ skips.count \in Nat
      BY <1>2 DEF Limit, Setups
    <3>2. ~(skips.count < Limit) /\ Len(chunks) > 0
      BY <1>5, <2>1, <3>1
    <3>3. HeadsOf(MarkRun(lines, d, skips.count), ended \cup {Stretch(chunks)})
      BY <1>1, <1>2, <1>4, <1>5, <3>2, RunEndHeads
    <3> QED
      BY <2>1, <3>3 DEF Marked, Ended, d
  <2>2. CASE ~(Past(c) /\ skips.count >= Limit)
    BY <1>4, <2>2 DEF Marked, Ended
  <2> QED
    BY <2>1, <2>2
<1>9. /\ Run(c) \in Runs /\ Len(Run(c)) = Current(c).count /\ Len(Run(c)) <= LastNumber
      /\ KeptRun(Marked(c), Run(c), d)
      /\ Len(Run(c)) > 0 => first = Run(c)[1].from
  <2>1. CASE Past(c)
    <3>1. Run(c) = <<>> /\ Current(c) = Reset(skips)
      BY <2>1 DEF Run, Current
    <3>2. Reset(skips).count = 0
      BY <1>2, ResetBounded
    <3>3. Len(<<>>) = 0 /\ <<>> \in Runs
      BY DEF Runs
    <3> QED
      BY <1>2, <3>1, <3>2, <3>3, EmptyRun
  <2>2. CASE ~Past(c)
    <3>1. Run(c) = chunks /\ Current(c) = skips
      BY <2>2 DEF Run, Current
    <3>2. KeptRun(Marked(c), chunks, d)
      BY <1>2, <1>5, <1>6, SameRun
    <3>3. skips.count <= LastNumber
      BY <1>2
    <3> QED
      BY <1>4, <1>5, <3>1, <3>2, <3>3
  <2> QED
    BY <2>1, <2>2
<1>10. \A x \in 0 .. Size - 1 : Within(c, x) => SkipAt(lines, x) = 0
  BY <1>3, <1>4 DEF NextChunk, UntriedUnmarked, Within
<1>11. MarksBehind(lines, d, pos) \/ (Ahead(phase) /\ pos = Size - 1 /\ Run(c) = <<>>)
  <2>1. phase < 3
    BY <1>2 DEF Placed
  <2>2. chunks = <<>> => Run(c) = <<>>
    BY DEF Run
  <2> QED
    BY <1>2, <1>3, <1>4, <2>1, <2>2 DEF Behindhand, InRange, d
<1> QED
  BY <1>1, <1>3, <1>6, <1>7, <1>8, <1>9, <1>10, <1>11 DEF d

(* When chunk c is written with a mark, and lines' is that but for heads.  *)
LEMMA WrittenLines ==
    ASSUME IInv, HeadsInv, ~again, copying, NEW c \in Chunks, NEW ms, NEW k,
           NEW mark, mark = 0 \/ Way(mark) = Direction(phase), k # "NONTRIED",
           Written(Marked(c), ms, c, mark), Touched(lines, ms, c, k),
           SameLines(ms, lines'), phase' = phase, setup' = setup
    PROVE  /\ HeadsOf(ms, Ended(c))
           /\ UntriedUnmarked' /\ OneDirection'
           /\ \A x \in 0 .. Size - 1 :
                SkipAt(lines', x) = IF Within(c, x) /\ mark # 0 THEN mark ELSE SkipAt(lines, x)
<1>1. /\ HeadsOf(Marked(c), Ended(c))
      /\ \A x \in 0 .. Size - 1 : SkipAt(Marked(c), x) = SkipAt(lines, x)
      /\ \A x \in 0 .. Size - 1 : Within(c, x) => SkipAt(lines, x) = 0
  BY FoundByRead
<1>2. HeadsOf(ms, Ended(c))
  BY <1>1 DEF HeadsOf, Written
<1>3. Log!Tiles(ms)
  BY DEF Written
<1>4. /\ \A x \in 0 .. Size - 1 : SkipAt(lines', x) = SkipAt(ms, x)
      /\ \A x \in 0 .. Size - 1 : KindAt(lines', x) = KindAt(ms, x)
  BY <1>3, SameMarks, SameLinesFacts
<1>5. \A x \in 0 .. Size - 1 :
        SkipAt(lines', x) = IF Within(c, x) /\ mark # 0 THEN mark ELSE SkipAt(lines, x)
  BY <1>1, <1>4 DEF Written
<1>6. \A x \in 0 .. Size - 1 :
        KindAt(lines', x) = "NONTRIED" => ~Within(c, x) /\ KindAt(lines, x) = "NONTRIED"
  BY <1>4 DEF Touched, Within
<1>7. \A x \in 0 .. Size - 1 : KindAt(lines', x) = "NONTRIED" => SkipAt(lines', x) = 0
  BY <1>5, <1>6 DEF HeadsInv, UntriedUnmarked
<1>8. UntriedUnmarked'
  BY <1>7 DEF UntriedUnmarked, KindAt, SkipAt
<1>9. Direction(1) # Direction(2)
  BY DirectionFacts DEF IInv, TypeOK
<1>10. ASSUME phase = 1, NEW x \in 0 .. Size - 1
       PROVE  Way(SkipAt(lines', x)) # Direction(2)
  <2>1. Way(SkipAt(lines, x)) # Direction(2)
    BY <1>10 DEF HeadsInv, OneDirection
  <2>2. mark # 0 => Way(mark) # Direction(2)
    BY <1>9, <1>10
  <2> QED
    BY <1>5, <2>1, <2>2
<1>11. Direction(2)' = Direction(2)
  BY DEF Direction, Ahead
<1>12. OneDirection'
  BY <1>10, <1>11 DEF OneDirection, SkipAt
<1> QED
  BY <1>2, <1>5, <1>8, <1>12

LEMMA SkipWrites ==
    ASSUME IInv, HeadsInv, ~again, copying, NEW c \in Chunks
    PROVE  /\ Written(Marked(c), SkipMarks(c), c, Field(Direction(phase), Len(Run(c))))
           /\ Touched(lines, SkipMarks(c), c, KindOf(c))
<1> DEFINE mark == Field(Direction(phase), Current(c).count)
           read == Change(Marked(c), c, Status("FINISHED", 0))
<1>1. /\ NextChunk(c) /\ Len(Run(c)) = Current(c).count /\ SameLines(lines, Marked(c))
  BY FoundByRead
<1>2. TypeOK /\ Placed /\ Log!Tiles(lines)
  BY DEF IInv, TypeOK
<1>3. Touched(lines, SkipMarks(c), c, KindOf(c)) /\ Touched(lines, read, c, "FINISHED")
  BY <1>2, SkipLog, GoodLog
<1>4. Current(c).count \in 0 .. LastNumber
  BY <1>2, CurrentFacts
<1>5. Chunk(c) /\ Log!Tiles(Marked(c)) /\ InOneLine(Marked(c), c)
  BY <1>1, <1>2, SameLinesFacts DEF NextChunk, SameLines
<1>6. ASSUME NEW k \in Kinds
      PROVE  /\ Status(k, mark) \in Log!Status /\ Status(k, mark).head = FALSE
             /\ Status(k, mark).skip = mark
             /\ Status(k, 0) \in Log!Status /\ Status(k, 0).head = FALSE
             /\ Status(k, 0).skip = 0
  BY <1>4, StatusFacts DEF Status
<1>7. "FINISHED" \in Kinds /\ "NONTRIMMED" \in Kinds
  BY DEF Kinds
<1> HIDE DEF mark
<1>8. CASE Meets(c, setup.bad)
  <2>1. SkipMarks(c) = Change(Marked(c), c, Status("NONTRIMMED", mark))
    BY <1>8 DEF SkipMarks, mark
  <2>2. Written(Marked(c), SkipMarks(c), c, mark)
    BY <1>5, <1>6, <1>7, <2>1, ChangeWrites
  <2> QED
    BY <1>1, <1>3, <2>2 DEF mark
<1>9. CASE ~Meets(c, setup.bad)
  <2>1. SkipMarks(c) = Change(read, c, Status("FINISHED", mark))
    BY <1>9 DEF SkipMarks, mark
  <2>2. Written(Marked(c), read, c, 0)
    BY <1>5, <1>6, <1>7, ChangeWrites
  <2>3. Log!Tiles(read) /\ InOneLine(read, c)
    BY <1>3 DEF Touched
  <2> HIDE DEF read
  <2>4. Written(read, SkipMarks(c), c, mark)
    BY <1>5, <1>6, <1>7, <2>1, <2>3, ChangeWrites
  <2>5. Written(Marked(c), SkipMarks(c), c, mark)
    BY <1>5, <2>2, <2>4, WrittenTwice
  <2> QED
    BY <1>1, <1>3, <2>5 DEF mark
<1> QED
  BY <1>8, <1>9

LEMMA TurnGoodHeads == IInv /\ HeadsInv /\ TurnGood => HeadsInv'
<1> SUFFICES ASSUME IInv, HeadsInv, TurnGood PROVE HeadsInv'
  OBVIOUS
<1> DEFINE d == Direction(phase)
<1>1. PICK c \in Chunks :
        /\ lines' = Change(Marked(c), c, Status("FINISHED", 0))
        /\ pos' = IF Ahead(phase) THEN c.to ELSE c.from
        /\ skips' = Current(c) /\ ended' = Ended(c) /\ chunks' = Run(c)
  BY DEF TurnGood
<1>2. /\ copying /\ setup' = setup /\ phase' = phase /\ first' = first /\ again' = again
  BY DEF TurnGood
<1>3. TypeOK /\ Placed /\ Log!Tiles(lines)
  BY DEF IInv, TypeOK
<1>4. chunks' \in Runs
  BY <1>1 DEF Run, HeadsInv, Runs
<1>5. SUFFICES ASSUME ~again
               PROVE  HeadsOf(lines, ended)' /\ UntriedUnmarked' /\ OneDirection'
                      /\ Behindhand' /\ RunKept'
  BY <1>2, <1>4 DEF HeadsInv
<1>6. /\ d \in Ways /\ NextChunk(c) /\ SameLines(lines, Marked(c))
      /\ HeadsOf(Marked(c), Ended(c))
      /\ Run(c) \in Runs /\ Len(Run(c)) = Current(c).count
      /\ Len(Run(c)) <= LastNumber
      /\ KeptRun(Marked(c), Run(c), d)
      /\ Len(Run(c)) > 0 => first = Run(c)[1].from
      /\ \A x \in 0 .. Size - 1 : SkipAt(Marked(c), x) = SkipAt(lines, x)
      /\ \A x \in 0 .. Size - 1 : Within(c, x) => SkipAt(lines, x) = 0
      /\ \/ MarksBehind(lines, d, pos)
         \/ Ahead(phase) /\ pos = Size - 1 /\ Run(c) = <<>>
  BY <1>2, <1>5, FoundByRead
<1>7. Touched(lines, lines', c, "FINISHED")
  BY <1>1, <1>2, <1>3, GoodLog
<1>8. /\ Log!Tiles(Marked(c)) /\ Log!Tiles(lines') /\ Chunk(c) /\ InOneLine(Marked(c), c)
  BY <1>3, <1>6, <1>7, SameLinesFacts DEF SameLines, Touched, NextChunk
<1>9. Written(Marked(c), lines', c, 0)
  <2>1. Status("FINISHED", 0) \in Log!Status
    BY StatusFacts DEF Kinds
  <2>2. Status("FINISHED", 0).head = FALSE /\ Status("FINISHED", 0).skip = 0
    BY DEF Status
  <2> QED
    BY <1>1, <1>8, <2>1, <2>2, ChangeWrites
<1>10. SameLines(lines', lines')
  BY <1>8, SameLinesRefl
<1>11. /\ HeadsOf(lines', Ended(c)) /\ UntriedUnmarked' /\ OneDirection'
       /\ \A x \in 0 .. Size - 1 : SkipAt(lines', x) = SkipAt(lines, x)
  <2>1. "FINISHED" # "NONTRIED"
    OBVIOUS
  <2> QED
    BY <1>2, <1>5, <1>7, <1>9, <1>10, <2>1, WrittenLines
<1>12. HeadsOf(lines, ended)'
  BY <1>1, <1>11 DEF HeadsOf, HeadAt, Sectors
<1>13. KeptRun(lines', chunks', d)
  <2>1. c.from \in 0 .. Size - 1 /\ Within(c, c.from)
    BY <1>8, Parameters DEF Chunk, Within
  <2>2. SkipAt(Marked(c), c.from) = 0
    BY <1>6, <2>1
  <2>3. Len(Run(c)) \in Nat /\ Len(Run(c)) <= LastNumber + 1
    BY <1>6, Parameters DEF Runs
  <2> QED
    BY <1>1, <1>6, <1>8, <1>9, <2>2, <2>3, GoodKeepsRun
<1>14. d' = d /\ Ahead(phase)' = Ahead(phase) /\ (d = Forward <=> Ahead(phase))
  BY <1>2, DirectionFacts DEF Direction, Ahead
<1>15. RunKept'
  <2>1. Len(chunks') = skips'.count
    BY <1>1, <1>6
  <2>2. Len(chunks') > 0 => first' = chunks'[1].from
    BY <1>1, <1>2, <1>6
  <2>3. KeptRun(lines, chunks, Direction(phase))'
    BY <1>13, <1>14 DEF KeptRun, InOneLine, SkipAt
  <2> QED
    BY <2>1, <2>2, <2>3 DEF RunKept
<1>16. Behindhand'
  <2>1. /\ pos \in Int /\ c.from \in Nat /\ c.to \in Nat /\ c.from < c.to
        /\ Size \in Nat /\ Cluster \in Nat
        /\ Ahead(phase) => pos <= c.from
        /\ ~Ahead(phase) => c.from <= pos
    BY <1>3, <1>6, Parameters DEF TypeOK, NextChunk, Chunk
  <2>2. CASE MarksBehind(lines, d, pos)
    <3>1. MarksBehind(lines', d, pos')
      <4> HIDE DEF d
      <4>1. ASSUME NEW x \in 0 .. Size - 1, Way(SkipAt(lines', x)) = d
            PROVE  IF d = Forward THEN x + 1 < pos' ELSE x > pos' + Cluster
        <5>1. IF d = Forward THEN x + 1 < pos ELSE x > pos + Cluster
          BY <1>11, <2>2, <4>1 DEF MarksBehind
        <5> QED
          BY <1>1, <1>14, <2>1, <5>1
      <4> QED
        BY <4>1 DEF MarksBehind
    <3>2. MarksBehind(lines, Direction(phase), pos)'
      BY <1>14, <3>1 DEF MarksBehind, SkipAt
    <3> QED
      BY <3>2 DEF Behindhand
  <2>3. CASE Ahead(phase) /\ pos = Size - 1 /\ Run(c) = <<>>
    <3>1. pos' >= Size /\ Len(chunks') <= 1
      BY <1>1, <2>1, <2>3
    <3> QED
      BY <1>14, <2>3, <3>1 DEF Behindhand
  <2> QED
    BY <1>6, <2>2, <2>3
<1> QED
  BY <1>11, <1>12, <1>15, <1>16

LEMMA ChunkRecord ==
    ASSUME TypeOK, Placed, copying, NEW c \in Chunks
    PROVE  c \in [from : Nat, to : Nat]
<1>1. c.from \in Nat /\ c.to \in Nat
  BY ChunkFacts DEF NextChunk, Chunk
<1>2. PICK k, b : c = ChunkIn(k, b)
  BY DEF Chunks
<1>3. \E f, t : c = [from |-> f, to |-> t]
  BY <1>2 DEF ChunkIn
<1>4. PICK f, t : c = [from |-> f, to |-> t]
  BY <1>3
<1> QED
  BY <1>1, <1>4

(* What a skip leaves, when a skip is longer than a chunk.                 *)
LEMMA SkipHeads ==
    ASSUME Cluster < MinSkip \div 2, IInv, HeadsInv, ~again, NEW c \in Chunks, Skip(c),
           pos' \in {Onward(c), Target(c)}, SameLines(SkipMarks(c), lines')
    PROVE  LET d == Direction(phase)
               run == Append(Run(c), c)
           IN  /\ HeadsOf(SkipMarks(c), Ended(c)) /\ UntriedUnmarked' /\ OneDirection'
               /\ run \in Runs /\ Len(run) = Current(c).count + 1 /\ first' = run[1].from
               /\ Len(Run(c)) > 0 => first = run[1].from
               /\ \/ MarksBehind(lines', d, pos') /\ KeptRun(SkipMarks(c), run, d)
                  \/ Ahead(phase) /\ pos' >= Size /\ Run(c) = <<>>
<1> DEFINE d == Direction(phase)
           n == Len(Run(c))
           mark == Field(d, n)
           run == Append(Run(c), c)
<1>1. /\ copying /\ setup' = setup /\ phase' = phase
      /\ first' = IF Current(c).count = 0 THEN c.from ELSE first
  BY DEF Skip
<1>2. TypeOK /\ Placed /\ Log!Tiles(lines)
  BY DEF IInv, TypeOK
<1>3. /\ d \in Ways /\ NextChunk(c) /\ SameLines(lines, Marked(c))
      /\ Run(c) \in Runs /\ n = Current(c).count /\ n <= LastNumber
      /\ KeptRun(Marked(c), Run(c), d)
      /\ n > 0 => first = Run(c)[1].from
      /\ \A x \in 0 .. Size - 1 : SkipAt(Marked(c), x) = SkipAt(lines, x)
      /\ \A x \in 0 .. Size - 1 : Within(c, x) => SkipAt(lines, x) = 0
      /\ \/ MarksBehind(lines, d, pos)
         \/ Ahead(phase) /\ pos = Size - 1 /\ Run(c) = <<>>
  BY <1>1, FoundByRead
<1>4. /\ Written(Marked(c), SkipMarks(c), c, mark)
      /\ Touched(lines, SkipMarks(c), c, KindOf(c))
  BY <1>1, SkipWrites
<1>5. c \in [from : Nat, to : Nat]
  BY <1>1, <1>2, ChunkRecord
<1>6. /\ n \in Nat /\ n \in 0 .. LastNumber /\ run \in Runs /\ Len(run) = n + 1
      /\ run[n + 1] = c /\ \A i \in 1 .. n : run[i] = Run(c)[i]
  <2>1. LastNumber \in Nat
    BY Parameters
  <2>2. n \in Nat /\ run \in Runs /\ Len(run) = n + 1
        /\ run[n + 1] = c /\ \A i \in 1 .. n : run[i] = Run(c)[i]
    BY <1>3, <1>5 DEF Runs
  <2> QED
    BY <1>3, <2>1, <2>2
<1>7. mark # 0 /\ Way(mark) = d
  BY <1>3, <1>6, FieldFacts
<1>8. d = Forward <=> Ahead(phase)
  BY DirectionFacts
<1>9. /\ HeadsOf(SkipMarks(c), Ended(c)) /\ UntriedUnmarked' /\ OneDirection'
      /\ \A x \in 0 .. Size - 1 :
           SkipAt(lines', x) = IF Within(c, x) THEN mark ELSE SkipAt(lines, x)
  <2> HIDE DEF mark
  <2>1. KindOf(c) # "NONTRIED"
    BY DEF KindOf
  <2> QED
    BY <1>1, <1>4, <1>7, <2>1, WrittenLines
<1>10. first' = run[1].from /\ (n > 0 => first = run[1].from)
  <2>1. CASE n = 0
    BY <1>1, <1>3, <1>6, <2>1
  <2>2. CASE n # 0
    <3>1. n > 0 /\ run[1] = Run(c)[1]
      BY <1>6, <2>2
    <3> QED
      BY <1>1, <1>3, <2>2, <3>1
  <2> QED
    BY <2>1, <2>2
<1>11. /\ pos \in Int /\ c.from \in Nat /\ c.to \in Nat /\ c.from < c.to
       /\ c.to <= c.from + Cluster /\ c.to <= Size /\ Size \in Nat /\ Cluster \in Nat
       /\ Current(c).size \in Nat /\ Current(c).size > Cluster
       /\ Ahead(phase) => pos <= c.from
       /\ ~Ahead(phase) => c.from <= pos
  <2>1. Current(c).size \in Nat /\ Current(c).size >= MinSkip \div 2
    BY <1>2, CurrentFacts DEF Bounded
  <2> QED
    BY <1>2, <1>3, <2>1, HalfFacts, Parameters DEF TypeOK, NextChunk, Chunk
<1>12. /\ Ahead(phase) => pos' >= c.from + Current(c).size
       /\ ~Ahead(phase) => pos' = c.from - Current(c).size
       /\ pos' \in Int
  BY <1>11 DEF Onward, Target
<1> HIDE DEF d, mark, n, run
<1>13. CASE MarksBehind(lines, d, pos)
  <2>1. ASSUME NEW x \in 0 .. Size - 1, Way(SkipAt(lines, x)) = d
        PROVE  IF d = Forward THEN x + 1 < c.from ELSE x > c.to
    <3>1. IF d = Forward THEN x + 1 < pos ELSE x > pos + Cluster
      BY <1>13, <2>1 DEF MarksBehind
    <3> QED
      BY <1>8, <1>11, <3>1
  <2>2. MarksBehind(lines', d, pos')
    <3>1. ASSUME NEW x \in 0 .. Size - 1, Way(SkipAt(lines', x)) = d
          PROVE  IF d = Forward THEN x + 1 < pos' ELSE x > pos' + Cluster
      <4>0. PICK size \in Nat : size = Current(c).size
        BY <1>11
      <4>3. /\ x \in Int /\ c.from \in Int /\ c.to \in Int /\ size > Cluster
            /\ c.to <= c.from + Cluster /\ Cluster \in Nat /\ pos' \in Int
            /\ d = Forward => pos' >= c.from + size
            /\ d # Forward => pos' = c.from - size
        BY <1>8, <1>11, <1>12, <4>0
      <4>1. CASE Within(c, x)
        <5>1. c.from <= x /\ x < c.to
          BY <4>1 DEF Within
        <5>2. d = Forward => x + 1 < pos'
          BY <4>3, <5>1
        <5>3. ASSUME d # Forward PROVE x > pos' + Cluster
          <6>1. pos' = c.from - size
            BY <4>3, <5>3
          <6>2. x > (c.from - size) + Cluster
            BY <4>3, <5>1
          <6> QED
            BY <6>1, <6>2
        <5> QED
          BY <5>2, <5>3
      <4>2. CASE ~Within(c, x)
        <5>1. IF d = Forward THEN x + 1 < c.from ELSE x > c.to
          BY <1>9, <2>1, <3>1, <4>2
        <5>2. c.from < c.to
          BY <1>11
        <5>3. d = Forward => x + 1 < pos'
          BY <4>3, <5>1
        <5>4. ASSUME d # Forward PROVE x > pos' + Cluster
          <6>1. pos' = c.from - size
            BY <4>3, <5>4
          <6>2. x > c.to
            BY <5>1, <5>4
          <6>3. x > (c.from - size) + Cluster
            BY <4>3, <5>2, <6>2
          <6> QED
            BY <6>1, <6>3
        <5> QED
          BY <5>3, <5>4
      <4> QED
        BY <4>1, <4>2
    <3> QED
      BY <3>1 DEF MarksBehind
  <2>3. KeptRun(SkipMarks(c), run, d)
    <3>1. Log!Tiles(Marked(c)) /\ Chunk(c) /\ InOneLine(SkipMarks(c), c)
      BY <1>3, <1>4 DEF SameLines, NextChunk, Touched
    <3>2. Written(Marked(c), SkipMarks(c), c, Field(d, Len(Run(c))))
      BY <1>4 DEF mark, n
    <3>3. \A x \in 0 .. Size - 1 : Within(c, x) => SkipAt(Marked(c), x) = 0
      BY <1>3
    <3>4. \A x \in 0 .. Size - 1 :
            Way(SkipAt(Marked(c), x)) = d => IF d = Forward THEN x + 1 < c.from ELSE x > c.to
      BY <1>3, <2>1
    <3>5. Len(Run(c)) <= LastNumber
      BY <1>3 DEF n
    <3> QED
      BY <1>3, <1>5, <3>1, <3>2, <3>3, <3>4, <3>5, SkipExtendsRun DEF run
  <2> QED
    BY <1>3, <1>6, <1>9, <1>10, <2>2, <2>3 DEF d, run, n
<1>14. CASE Ahead(phase) /\ pos = Size - 1 /\ Run(c) = <<>>
  <2>1. pos' >= Size
    BY <1>11, <1>12, <1>14
  <2> QED
    BY <1>3, <1>6, <1>9, <1>10, <1>14, <2>1 DEF d, run, n
<1> QED
  BY <1>3, <1>13, <1>14

(* A turn that makes a skip and goes on with the run.                      *)
LEMMA SkipGoesOn ==
    ASSUME Cluster < MinSkip \div 2, IInv, HeadsInv, NEW c \in Chunks, Skip(c),
           ~UsedUp(Current(c)), pos' \in {Onward(c), Target(c)}, lines' = SkipMarks(c),
           chunks' = Append(Run(c), c), ended' = Ended(c), skips' = Grown(Current(c))
    PROVE  HeadsInv'
<1> DEFINE d == Direction(phase)
           run == Append(Run(c), c)
<1>1. /\ copying /\ setup' = setup /\ phase' = phase /\ again' = again
  BY DEF Skip
<1>2. TypeOK /\ Placed
  BY DEF IInv, TypeOK
<1>3. run \in Runs
  <2>1. c \in [from : Nat, to : Nat]
    BY <1>1, <1>2, ChunkRecord
  <2>2. Run(c) \in Runs
    BY DEF Run, HeadsInv, Runs
  <2> QED
    BY <2>1, <2>2 DEF Runs
<1>4. SUFFICES ASSUME ~again
               PROVE  HeadsOf(lines, ended)' /\ UntriedUnmarked' /\ OneDirection'
                      /\ Behindhand' /\ RunKept'
  BY <1>1, <1>3 DEF HeadsInv
<1>5. SameLines(SkipMarks(c), lines')
  BY <1>1, SkipTiles, SameLinesRefl
<1>6. /\ HeadsOf(SkipMarks(c), Ended(c)) /\ UntriedUnmarked' /\ OneDirection'
      /\ Len(run) = Current(c).count + 1 /\ first' = run[1].from
      /\ \/ MarksBehind(lines', d, pos') /\ KeptRun(SkipMarks(c), run, d)
         \/ Ahead(phase) /\ pos' >= Size /\ Run(c) = <<>>
  BY <1>4, <1>5, SkipHeads
<1>7. Current(c).count \in 0 .. LastNumber /\ LastNumber \in Nat
  BY <1>2, CurrentFacts, Parameters
<1>8. Grown(Current(c)).count = Current(c).count + 1
  BY <1>7 DEF Grown, Least, UsedUp
<1>9. HeadsOf(lines, ended)'
  BY <1>6 DEF HeadsOf, HeadAt, Sectors
<1>10. d' = d /\ Ahead(phase)' = Ahead(phase)
  BY <1>1 DEF Direction, Ahead
<1>11. Len(chunks') = skips'.count
  BY <1>6, <1>8
<1>12. Run(c) = <<>> => Len(chunks') <= 1
  <2>1. Run(c) = <<>> => Len(Run(c)) = 0
    OBVIOUS
  <2>2. Len(chunks') = Len(Run(c)) + 1 /\ Len(Run(c)) \in Nat
    <3>1. Len(Run(c)) = Current(c).count
      BY <1>1, <1>4, FoundByRead
    <3> QED
      BY <1>6, <1>7, <3>1
  <2> QED
    BY <2>1, <2>2
<1> HIDE DEF d, run
<1>13. CASE MarksBehind(lines', d, pos') /\ KeptRun(SkipMarks(c), run, d)
  <2>1. MarksBehind(lines, Direction(phase), pos)'
    BY <1>10, <1>13 DEF MarksBehind, SkipAt, d
  <2>2. KeptRun(lines', chunks', d) /\ first' = chunks'[1].from
    BY <1>6, <1>13 DEF run
  <2>3. KeptRun(lines, chunks, Direction(phase))'
    BY <1>10, <2>2 DEF KeptRun, InOneLine, SkipAt, d
  <2> QED
    BY <1>6, <1>9, <1>11, <2>1, <2>2, <2>3 DEF Behindhand, RunKept
<1>14. CASE Ahead(phase) /\ pos' >= Size /\ Run(c) = <<>>
  <2>1. Ahead(phase)' /\ (pos >= Size)' /\ (Len(chunks) <= 1)'
    BY <1>10, <1>12, <1>14
  <2> QED
    BY <1>6, <1>9, <1>11, <2>1 DEF Behindhand, RunKept
<1> QED
  BY <1>6, <1>13, <1>14

LEMMA TurnUsedUpHeads ==
    Cluster < MinSkip \div 2 /\ IInv /\ HeadsInv /\ TurnUsedUp => HeadsInv'
<1> SUFFICES ASSUME Cluster < MinSkip \div 2, IInv, HeadsInv, TurnUsedUp PROVE HeadsInv'
  OBVIOUS
<1>1. PICK c \in Chunks :
        /\ Skip(c) /\ UsedUp(Current(c)) /\ chunks' = <<>>
        /\ LET last == [Grown(Current(c)) EXCEPT !.min = MinSkip] IN
             /\ RunOver(SkipMarks(c), Append(Run(c), c), last, Direction(phase))
             /\ skips' = Reset(last)
        /\ pos' \in {Onward(c), Target(c)}
  BY DEF TurnUsedUp
<1> DEFINE d == Direction(phase)
           run == Append(Run(c), c)
           last == [Grown(Current(c)) EXCEPT !.min = MinSkip]
<1>2. /\ copying /\ setup' = setup /\ phase' = phase /\ again' = again
  BY <1>1 DEF Skip
<1>3. TypeOK /\ Placed /\ setup \in Setups
  BY DEF IInv, TypeOK
<1>4. chunks' \in Runs /\ Len(chunks') = 0
  BY <1>1 DEF Runs
<1>5. SUFFICES ASSUME ~again
               PROVE  HeadsOf(lines, ended)' /\ UntriedUnmarked' /\ OneDirection'
                      /\ Behindhand' /\ RunKept'
  BY <1>2, <1>4 DEF HeadsInv
<1>6. Log!Tiles(SkipMarks(c)) /\ SameLines(SkipMarks(c), lines')
  <2>1. Log!Tiles(SkipMarks(c))
    BY <1>2, SkipTiles
  <2> QED
    BY <1>1, <2>1, RunOverFacts
<1>7. /\ HeadsOf(SkipMarks(c), Ended(c)) /\ UntriedUnmarked' /\ OneDirection'
      /\ run \in Runs /\ Len(run) = Current(c).count + 1
      /\ Len(Run(c)) > 0 => first = run[1].from
      /\ \/ MarksBehind(lines', d, pos') /\ KeptRun(SkipMarks(c), run, d)
         \/ Ahead(phase) /\ pos' >= Size /\ Run(c) = <<>>
  BY <1>1, <1>5, <1>6, SkipHeads
<1>8. /\ Current(c).count = LastNumber /\ LastNumber \in Nat /\ LastNumber > 0
      /\ Len(Run(c)) = Current(c).count /\ d \in Ways
  <2>1. Len(Run(c)) = Current(c).count /\ d \in Ways
    BY <1>2, <1>5, FoundByRead
  <2> QED
    BY <1>1, <2>1, Parameters DEF UsedUp
<1>9. Run(c) # <<>>
  <2>1. Run(c) = <<>> => Len(Run(c)) = 0
    OBVIOUS
  <2> QED
    BY <1>8, <2>1
<1>10. /\ MarksBehind(lines', d, pos') /\ KeptRun(SkipMarks(c), run, d)
       /\ first = run[1].from
  BY <1>7, <1>8, <1>9
<1>11. ~Past(c)
  <2>1. Bounded(skips) /\ (Past(c) => Current(c) = Reset(skips))
    BY DEF Current, IInv, TypeOK
  <2>2. Reset(skips).count = 0
    BY <1>3, <2>1, ResetBounded
  <2> QED
    BY <1>8, <2>1, <2>2
<1>12. Ended(c) = ended
  BY <1>11 DEF Ended
<1>13. last.count = LastNumber /\ Bounded(last)
  <2>1. Bounded(Current(c))
    BY <1>3, CurrentFacts
  <2>2. Bounded(last)
    BY <1>3, <2>1, GrownBounded
  <2>3. last.count = Grown(Current(c)).count
    BY DEF Grown
  <2>4. Grown(Current(c)).count = LastNumber
    BY <1>8 DEF Grown, Least
  <2> QED
    BY <2>2, <2>3, <2>4
<1>14. RunOver(SkipMarks(c), run, last, d) /\ skips' = Reset(last)
  BY <1>1
<1> HIDE DEF last, run, d
<1>15. HeadsOf(lines', ended')
  <2>1. HeadsOf(SkipMarks(c), ended)
    BY <1>7, <1>12
  <2>2. last.count \in 0 .. LastNumber
    BY <1>8, <1>13
  <2>3. Len(run) = last.count + 1 /\ last.count = LastNumber
    BY <1>7, <1>8, <1>13
  <2> QED
    BY <1>3, <1>6, <1>7, <1>8, <1>10, <1>14, <2>1, <2>2, <2>3, RunOverHeads
<1>16. HeadsOf(lines, ended)'
  BY <1>15 DEF HeadsOf, HeadAt, Sectors
<1>17. d' = d
  BY <1>2 DEF Direction, Ahead, d
<1>18. Behindhand'
  <2>1. MarksBehind(lines, Direction(phase), pos)'
    BY <1>10, <1>17 DEF MarksBehind, SkipAt, d
  <2> QED
    BY <2>1 DEF Behindhand
<1>19. RunKept'
  <2>1. skips'.count = 0
    BY <1>3, <1>13, <1>14, ResetBounded
  <2>2. KeptRun(lines', <<>>, d')
    BY EmptyRun
  <2>3. KeptRun(lines, chunks, Direction(phase))'
    BY <1>1, <2>2 DEF KeptRun, InOneLine, SkipAt, d
  <2> QED
    BY <1>4, <2>1, <2>3 DEF RunKept
<1> QED
  BY <1>7, <1>16, <1>18, <1>19

(* The run that ends with a pass, or before one begins.                    *)
LEMMA RunEndsHere ==
    ASSUME IInv, HeadsInv, ~again, RunOver(lines, chunks, skips, Direction(phase))
    PROVE  /\ SameLines(lines, lines') /\ HeadsOf(lines, ended)'
           /\ UntriedUnmarked'
           /\ \A x \in 0 .. Size - 1 : SkipAt(lines', x) = SkipAt(lines, x)
           /\ \A d, p : MarksBehind(lines, d, p) => MarksBehind(lines', d, p)
<1>1. /\ Log!Tiles(lines) /\ setup \in Setups /\ skips.count \in 0 .. LastNumber
  BY DEF IInv, TypeOK, Bounded, Sizes
<1>2. SameLines(lines, lines')
  BY <1>1, RunOverFacts
<1>3. HeadsOf(lines, ended) /\ UntriedUnmarked /\ RunKept /\ chunks \in Runs
  BY DEF HeadsInv
<1> DEFINE d == Direction(phase)
<1>4. d \in Ways
  BY DirectionFacts
<1>5. \/ skips.count < Limit
      \/ /\ Len(chunks) = skips.count
         /\ KeptRun(lines, chunks, d) /\ first = chunks[1].from
  <2>1. Limit \in Nat /\ Limit > 1 /\ skips.count \in Nat
    BY <1>1 DEF Limit, Setups
  <2> HIDE DEF d
  <2> QED
    BY <1>3, <2>1 DEF RunKept, d
<1>6. RunOver(lines, chunks, skips, d)
  OBVIOUS
<1> HIDE DEF d
<1>7. HeadsOf(lines', ended')
  BY <1>1, <1>3, <1>4, <1>5, <1>6, RunOverHeads
<1>8. HeadsOf(lines, ended)'
  BY <1>7 DEF HeadsOf, HeadAt, Sectors
<1> QED
  BY <1>1, <1>2, <1>3, <1>8, HeadsKeepRest

LEMMA NoRun ==
    ASSUME chunks' = <<>>, skips'.count = 0
    PROVE  chunks' \in Runs /\ RunKept'
<1>1. chunks' \in Runs /\ Len(chunks') = 0
  BY DEF Runs
<1>2. KeptRun(lines', <<>>, Direction(phase)')
  BY EmptyRun
<1>3. KeptRun(lines, chunks, Direction(phase))'
  BY <1>2 DEF KeptRun, InOneLine, SkipAt
<1> QED
  BY <1>1, <1>3 DEF RunKept

LEMMA PassEndHeads == IInv /\ HeadsInv /\ PassEnd => HeadsInv'
<1> SUFFICES ASSUME IInv, HeadsInv, PassEnd PROVE HeadsInv'
  OBVIOUS
<1>1. /\ setup' = setup /\ again' = again /\ chunks' = <<>>
      /\ RunOver(lines, chunks, skips, Direction(phase))
      /\ \/ phase = 1 /\ phase' = 2 /\ skips' = Reset(Reset(skips))
         \/ /\ phase' = 3
            /\ skips' = [Reset(skips) EXCEPT !.min = MinSkip, !.size = MinSkip]
  BY DEF PassEnd, StartPass
<1>2. setup \in Setups /\ Bounded(skips)
  BY DEF IInv, TypeOK
<1>3. skips'.count = 0
  <2>1. Bounded(Reset(skips)) /\ Reset(skips).count = 0 /\ Reset(Reset(skips)).count = 0
    BY <1>2, ResetBounded
  <2>2. [Reset(skips) EXCEPT !.min = MinSkip, !.size = MinSkip].count = 0
    <3> DEFINE r == Reset(skips)
    <3>1. r \in Sizes /\ r.count = 0
      BY <2>1 DEF Bounded
    <3> HIDE DEF r
    <3>2. [r EXCEPT !.min = MinSkip, !.size = MinSkip].count = 0
      BY <3>1 DEF Sizes
    <3> QED
      BY <3>2 DEF r
  <2> QED
    BY <1>1, <2>1, <2>2
<1>4. chunks' \in Runs /\ RunKept'
  BY <1>1, <1>3, NoRun
<1>5. SUFFICES ASSUME ~again
               PROVE  HeadsOf(lines, ended)' /\ UntriedUnmarked' /\ OneDirection' /\ Behindhand'
  BY <1>1, <1>4 DEF HeadsInv
<1>6. /\ HeadsOf(lines, ended)' /\ UntriedUnmarked'
      /\ \A x \in 0 .. Size - 1 : SkipAt(lines', x) = SkipAt(lines, x)
  BY <1>1, <1>5, RunEndsHere
<1>7. OneDirection'
  <2>1. phase' # 1
    BY <1>1
  <2> QED
    BY <2>1 DEF OneDirection
<1>8. Behindhand'
  <2>1. CASE phase = 1 /\ phase' = 2
    <3>1. \A x \in 0 .. Size - 1 : Way(SkipAt(lines', x)) # Direction(2)
      BY <1>5, <1>6, <2>1 DEF HeadsInv, OneDirection
    <3>2. Direction(phase)' = Direction(2)
      BY <1>1, <2>1 DEF Direction, Ahead
    <3>3. MarksBehind(lines', Direction(2), pos')
      BY <3>1 DEF MarksBehind
    <3>4. MarksBehind(lines, Direction(phase), pos)'
      BY <3>2, <3>3 DEF MarksBehind, SkipAt
    <3> QED
      BY <3>4 DEF Behindhand
  <2>2. CASE phase' = 3
    BY <2>2 DEF Behindhand
  <2> QED
    BY <1>1, <2>1, <2>2
<1> QED
  BY <1>6, <1>7, <1>8

(* A pass that begins is where it was, at an edge of the source, or starts *)
(* over.                                                                   *)
LEMMA ResumedFacts ==
    ASSUME IInv, phase < 3
    PROVE  LET at == IF Ahead(phase) THEN Resumed ELSE Least(Resumed, Size - 1) IN
             IF Ahead(phase)
             THEN at = pos \/ (pos >= Size /\ at >= Size - 1) \/ (pos < 0 /\ at = 0)
             ELSE at <= pos \/ at <= 0 \/ Resumed = Size
<1>1. /\ pos \in Int /\ setup \in Setups /\ Size \in Nat /\ Size > 0
      /\ phase = 1 \/ phase = 2
  BY Parameters DEF IInv, TypeOK
<1>2. /\ Ahead(1) <=> ~setup.reverse
      /\ Ahead(2) <=> setup.reverse
      /\ setup.reverse \in BOOLEAN
  BY <1>1, AheadFacts DEF Setups
<1> DEFINE p == IF pos < 0 THEN 0
                ELSE IF pos >= Size THEN (IF setup.reverse THEN Size ELSE Size - 1) ELSE pos
<1>3. /\ p \in Int
      /\ pos < 0 => p = 0
      /\ pos >= Size => p = Size \/ p = Size - 1
      /\ pos >= 0 /\ pos < Size => p = pos
      /\ p = Size => setup.reverse
  BY <1>1
<1>4. Resumed = IF setup.reverse /\ phase = 1 /\ p = 0 THEN Size ELSE p
  BY DEF Resumed
<1> HIDE DEF p
<1>5. CASE Ahead(phase)
  <2>1. ~(setup.reverse /\ phase = 1)
    BY <1>2, <1>5
  <2>2. Resumed = p
    BY <1>4, <2>1
  <2> QED
    BY <1>1, <1>3, <1>5, <2>2
<1>6. CASE ~Ahead(phase)
  <2>1. CASE Resumed = Size
    BY <1>6, <2>1
  <2>2. CASE Resumed # Size
    <3>1. Resumed = p /\ p # Size
      BY <1>4, <2>2
    <3>2. Least(p, Size - 1) <= pos \/ Least(p, Size - 1) <= 0
      BY <1>1, <1>3, <3>1 DEF Least
    <3> QED
      BY <1>6, <3>1, <3>2
  <2> QED
    BY <2>1, <2>2
<1> QED
  BY <1>5, <1>6

LEMMA NewLogHeads ==
    /\ \A x \in 0 .. Size - 1 : SkipAt(Log!NewLog, x) = 0 /\ HeadAt(Log!NewLog, x) = FALSE
    /\ \A d \in Ways : \A p : MarksBehind(Log!NewLog, d, p)
<1>1. Facts!NewLog = Log!NewLog
  BY DEF Facts!NewLog, Log!NewLog, Facts!Block, Log!Block, Facts!Plain, Log!Plain
<1>2. ASSUME NEW x \in 0 .. Size - 1
      PROVE  SkipAt(Log!NewLog, x) = 0 /\ HeadAt(Log!NewLog, x) = FALSE
  <2>1. Log!StatusAt(Log!NewLog, x) = Facts!Plain("NONTRIED")
    BY <1>1, LogParameters, Facts!NewLogFacts, SameStatusAt DEF Facts!Sectors
  <2> QED
    BY <2>1 DEF SkipAt, HeadAt, Facts!Plain
<1>3. \A d \in Ways : Way(0) # d
  BY DEF Way, Ways, Forward, Backward
<1> QED
  BY <1>2, <1>3 DEF MarksBehind

(* Marks stay behind a pass that goes on.                                  *)
LEMMA BehindFurther ==
    ASSUME NEW ls, NEW d, NEW p \in Int, NEW q \in Int, MarksBehind(ls, d, p),
           IF d = Forward THEN p <= q ELSE q <= p
    PROVE  MarksBehind(ls, d, q)
<1>1. ASSUME NEW x \in 0 .. Size - 1, Way(SkipAt(ls, x)) = d
      PROVE  IF d = Forward THEN x + 1 < q ELSE x > q + Cluster
  <2>1. IF d = Forward THEN x + 1 < p ELSE x > p + Cluster
    BY <1>1 DEF MarksBehind
  <2>2. x \in Int /\ Cluster \in Int
    BY Parameters
  <2>3. CASE d = Forward
    <3>1. x + 1 < q
      BY <2>1, <2>2, <2>3
    <3> QED
      BY <2>3, <3>1
  <2>4. CASE d # Forward
    <3>1. x > q + Cluster
      BY <2>1, <2>2, <2>4
    <3> QED
      BY <2>4, <3>1
  <2> QED
    BY <2>3, <2>4
<1> QED
  BY <1>1 DEF MarksBehind

LEMMA BeginHeads == IInv /\ HeadsInv /\ Begin => HeadsInv'
<1> SUFFICES ASSUME IInv, HeadsInv, Begin PROVE HeadsInv'
  OBVIOUS
<1> DEFINE d == Direction(phase)
<1>1. /\ setup' = setup /\ phase' = phase /\ chunks' = <<>> /\ skips' = Reset(skips)
      /\ RunOver(lines, chunks, skips, d) /\ phase < 3
      /\ again' = (again \/ (Resumed = Size /\ lines # Log!NewLog))
      /\ pos' = IF Ahead(phase) THEN Resumed ELSE Least(Resumed, Size - 1)
  BY DEF Begin, StartPass
<1>2. setup \in Setups /\ Bounded(skips) /\ pos \in Int /\ Size \in Nat /\ Cluster \in Nat
  BY Parameters DEF IInv, TypeOK
<1>3. skips'.count = 0
  BY <1>1, <1>2, ResetBounded
<1>4. chunks' \in Runs /\ RunKept'
  BY <1>1, <1>3, NoRun
<1>5. SUFFICES ASSUME ~again, Resumed = Size => lines = Log!NewLog
               PROVE  HeadsOf(lines, ended)' /\ UntriedUnmarked' /\ OneDirection' /\ Behindhand'
  BY <1>1, <1>4 DEF HeadsInv
<1>6. /\ HeadsOf(lines, ended)' /\ UntriedUnmarked'
      /\ \A x \in 0 .. Size - 1 : SkipAt(lines', x) = SkipAt(lines, x)
      /\ \A e, p : MarksBehind(lines, e, p) => MarksBehind(lines', e, p)
  BY <1>1, <1>5, RunEndsHere
<1>7. /\ d \in Ways /\ d' = d /\ Ahead(phase)' = Ahead(phase) /\ Direction(2)' = Direction(2)
      /\ d = Forward <=> Ahead(phase)
  BY <1>1, DirectionFacts DEF Direction, Ahead
<1>8. OneDirection'
  <2>1. ASSUME phase = 1, NEW x \in 0 .. Size - 1
        PROVE  Way(SkipAt(lines', x)) # Direction(2)
    BY <1>5, <1>6, <2>1 DEF HeadsInv, OneDirection
  <2> QED
    BY <1>1, <1>7, <2>1 DEF OneDirection, SkipAt
<1> HIDE DEF d
<1>9. Behindhand'
  <2>1. SUFFICES \/ MarksBehind(lines, d, pos')
                 \/ Ahead(phase) /\ pos' >= Size - 1
                 \/ ~Ahead(phase) /\ pos' <= 0
    <3>1. MarksBehind(lines', d, pos') => MarksBehind(lines, Direction(phase), pos)'
      BY <1>7 DEF MarksBehind, SkipAt, d
    <3> QED
      BY <1>1, <1>6, <1>7, <3>1 DEF Behindhand
  <2>2. \/ MarksBehind(lines, d, pos)
        \/ Ahead(phase) /\ pos >= Size - 1
        \/ ~Ahead(phase) /\ pos <= 0
    BY <1>1, <1>2, <1>5 DEF HeadsInv, Behindhand, d
  <2>3. IF Ahead(phase)
        THEN pos' = pos \/ (pos >= Size /\ pos' >= Size - 1) \/ (pos < 0 /\ pos' = 0)
        ELSE pos' <= pos \/ pos' <= 0 \/ Resumed = Size
    BY <1>1, ResumedFacts
  <2>4. CASE Ahead(phase)
    <3>1. CASE pos < 0 /\ pos' = 0
      <4>1. MarksBehind(lines, d, pos)
        BY <1>2, <2>2, <2>4, <3>1, Parameters
      <4>2. MarksBehind(lines, d, pos')
        <5>1. ASSUME NEW x \in 0 .. Size - 1, Way(SkipAt(lines, x)) = d
              PROVE  FALSE
          <6>1. x + 1 < pos
            BY <1>7, <2>4, <4>1, <5>1 DEF MarksBehind
          <6> QED
            BY <1>2, <3>1, <6>1
        <5> QED
          BY <5>1 DEF MarksBehind
      <4> QED
        BY <4>2
    <3>2. CASE pos' = pos
      BY <2>2, <2>4, <3>2
    <3>3. CASE pos' >= Size - 1
      BY <2>4, <3>3
    <3> QED
      BY <2>3, <2>4, <3>1, <3>2, <3>3
  <2>5. CASE ~Ahead(phase)
    <3>1. CASE Resumed = Size
      BY <1>5, <1>7, <3>1, NewLogHeads
    <3>2. CASE pos' <= 0
      BY <2>5, <3>2
    <3>3. CASE Resumed # Size /\ pos' <= pos /\ ~(pos' <= 0)
      <4>0. pos' \in Int
        BY <1>1, <1>2, <2>5, <3>3 DEF Least, Resumed
      <4>1. MarksBehind(lines, d, pos)
        BY <1>2, <2>2, <2>5, <3>3, <4>0
      <4>2. MarksBehind(lines, d, pos')
        BY <1>2, <1>7, <2>5, <3>3, <4>0, <4>1, BehindFurther
      <4> QED
        BY <4>2
    <3> QED
      BY <2>3, <2>5, <3>1, <3>2, <3>3
  <2> QED
    BY <2>4, <2>5
<1> QED
  BY <1>6, <1>8, <1>9

LEMMA StopInReadHeads == IInv /\ HeadsInv /\ StopInRead => HeadsInv'
<1> SUFFICES ASSUME IInv, HeadsInv, StopInRead PROVE HeadsInv'
  OBVIOUS
<1> DEFINE d == Direction(phase)
<1>1. PICK c \in Chunks : /\ pos' = c.from /\ lines' = Marked(c) /\ skips' = Current(c)
                          /\ ended' = Ended(c) /\ chunks' = Run(c)
  BY DEF StopInRead
<1>2. /\ copying /\ setup' = setup /\ phase' = phase /\ first' = first /\ again' = again
  BY DEF StopInRead
<1>3. chunks' \in Runs
  BY <1>1 DEF Run, HeadsInv, Runs
<1>4. SUFFICES ASSUME ~again
               PROVE  HeadsOf(lines, ended)' /\ UntriedUnmarked' /\ OneDirection'
                      /\ Behindhand' /\ RunKept'
  BY <1>2, <1>3 DEF HeadsInv
<1>5. /\ NextChunk(c) /\ SameLines(lines, Marked(c))
      /\ HeadsOf(Marked(c), Ended(c))
      /\ Len(Run(c)) = Current(c).count
      /\ KeptRun(Marked(c), Run(c), d)
      /\ Len(Run(c)) > 0 => first = Run(c)[1].from
      /\ \/ MarksBehind(lines, d, pos)
         \/ Ahead(phase) /\ pos = Size - 1 /\ Run(c) = <<>>
  BY <1>2, <1>4, FoundByRead
<1>6. /\ UntriedUnmarked'
      /\ \A x \in 0 .. Size - 1 : SkipAt(lines', x) = SkipAt(lines, x)
      /\ \A e, p : MarksBehind(lines, e, p) => MarksBehind(lines', e, p)
  BY <1>1, <1>4, <1>5, HeadsKeepRest DEF HeadsInv, IInv, TypeOK
<1>7. /\ d' = d /\ Ahead(phase)' = Ahead(phase) /\ Direction(2)' = Direction(2)
      /\ d = Forward <=> Ahead(phase)
  BY <1>2, DirectionFacts DEF Direction, Ahead
<1>8. HeadsOf(lines, ended)'
  BY <1>1, <1>5 DEF HeadsOf, HeadAt, Sectors
<1>9. OneDirection'
  <2>1. ASSUME phase = 1, NEW x \in 0 .. Size - 1
        PROVE  Way(SkipAt(lines', x)) # Direction(2)
    BY <1>4, <1>6, <2>1 DEF HeadsInv, OneDirection
  <2> QED
    BY <1>2, <1>7, <2>1 DEF OneDirection, SkipAt
<1>10. /\ pos \in Int /\ pos' \in Nat /\ Size \in Nat /\ Cluster \in Nat
       /\ Ahead(phase) => pos <= pos'
       /\ ~Ahead(phase) => pos' <= pos
  BY <1>1, <1>5, Parameters DEF IInv, TypeOK, NextChunk, Chunk
<1>11. RunKept'
  <2>1. Len(chunks') = skips'.count /\ (Len(chunks') > 0 => first' = chunks'[1].from)
    BY <1>1, <1>2, <1>5
  <2>2. KeptRun(lines, chunks, Direction(phase))'
    BY <1>1, <1>5, <1>7 DEF KeptRun, InOneLine, SkipAt
  <2> QED
    BY <2>1, <2>2 DEF RunKept
<1>12. Behindhand'
  <2>1. CASE MarksBehind(lines, d, pos)
    <3>1. MarksBehind(lines', d, pos')
      <4>1. MarksBehind(lines', d, pos)
        BY <1>6, <2>1
      <4> HIDE DEF d
      <4>2. IF d = Forward THEN pos <= pos' ELSE pos' <= pos
        BY <1>7, <1>10
      <4>3. pos' \in Int /\ pos \in Int
        BY <1>10
      <4> QED
        BY <4>1, <4>2, <4>3, BehindFurther
    <3>2. MarksBehind(lines, Direction(phase), pos)'
      BY <1>7, <3>1 DEF MarksBehind, SkipAt
    <3> QED
      BY <3>2 DEF Behindhand
  <2>2. CASE Ahead(phase) /\ pos = Size - 1 /\ Run(c) = <<>>
    <3>1. pos' >= Size - 1 /\ chunks' = <<>>
      BY <1>1, <1>10, <2>2
    <3> QED
      BY <1>7, <2>2, <3>1 DEF Behindhand
  <2> QED
    BY <1>5, <2>1, <2>2
<1> QED
  BY <1>6, <1>8, <1>9, <1>11, <1>12

LEMMA QuietHeads ==
    ASSUME HeadsInv, UNCHANGED <<setup, lines, chunks, ended, phase, pos, skips, first, again>>
    PROVE  HeadsInv'
BY DEF HeadsInv, HeadsOf, HeadAt, SkipAt, KindAt, Sectors, UntriedUnmarked, OneDirection,
   Behindhand, MarksBehind, RunKept, KeptRun, InOneLine, Direction, Ahead

LEMMA InitHeads == Init => HeadsInv
<1> SUFFICES ASSUME Init PROVE HeadsInv
  OBVIOUS
<1>1. /\ lines = Log!NewLog /\ chunks = <<>> /\ ended = {} /\ skips = Fresh
  BY DEF Init
<1>2. chunks \in Runs /\ Len(chunks) = 0
  BY <1>1 DEF Runs
<1>3. \A x \in 0 .. Size - 1 : SkipAt(lines, x) = 0 /\ HeadAt(lines, x) = FALSE
  BY <1>1, NewLogHeads
<1>4. HeadsOf(lines, ended)
  BY <1>1, <1>3 DEF HeadsOf, Sectors
<1>5. \A p : Direction(p) \in Ways /\ Way(0) # Direction(p)
  BY DirectionFacts DEF Way, Ways, Forward, Backward
<1>6. UntriedUnmarked /\ OneDirection
  BY <1>3, <1>5 DEF UntriedUnmarked, OneDirection
<1>7. Behindhand
  BY <1>1, <1>5, NewLogHeads DEF Behindhand
<1>8. RunKept
  <2>1. skips.count = 0
    BY <1>1 DEF Fresh
  <2>2. KeptRun(lines, chunks, Direction(phase))
    BY <1>1, EmptyRun
  <2> QED
    BY <1>2, <2>1, <2>2 DEF RunKept
<1> QED
  BY <1>2, <1>4, <1>6, <1>7, <1>8 DEF HeadsInv

LEMMA HeadsInductive == Cluster < MinSkip \div 2 => (Spec => []HeadsInv)
<1> SUFFICES ASSUME Cluster < MinSkip \div 2 PROVE Spec => []HeadsInv
  OBVIOUS
<1>1. IInv /\ HeadsInv /\ [Next]_vars => HeadsInv'
  <2> SUFFICES ASSUME IInv, HeadsInv, [Next]_vars PROVE HeadsInv'
    OBVIOUS
  <2>1. CASE Begin
    BY <2>1, BeginHeads
  <2>2. CASE TurnGood
    BY <2>2, TurnGoodHeads
  <2>3. CASE TurnSkip \/ TurnDeviceLost
    <3>1. PICK c \in Chunks :
            /\ Skip(c) /\ ~UsedUp(Current(c)) /\ lines' = SkipMarks(c)
            /\ chunks' = Append(Run(c), c) /\ ended' = Ended(c) /\ skips' = Grown(Current(c))
            /\ pos' \in {Onward(c), Target(c)}
      BY <2>3 DEF TurnSkip, TurnDeviceLost
    <3> QED
      BY <3>1, SkipGoesOn
  <2>4. CASE TurnUsedUp
    BY <2>4, TurnUsedUpHeads
  <2>5. CASE PassEnd
    BY <2>5, PassEndHeads
  <2>6. CASE Stop
    BY <2>6, QuietHeads DEF Stop, log
  <2>7. CASE StopInRead
    BY <2>7, StopInReadHeads
  <2>8. CASE UNCHANGED vars
    BY <2>8, QuietHeads DEF vars, log
  <2> QED
    BY <2>1, <2>2, <2>3, <2>4, <2>5, <2>6, <2>7, <2>8 DEF Next, Turn, Terminating
<1> QED
  BY <1>1, InitHeads, Inductive, PTL DEF Spec

(* HeadsAreRuns, for the settings under which it holds: the smallest skip  *)
(* the program can come to is longer than a chunk. A run that ends is found *)
(* whole in the log, and nothing but it is marked.                         *)
THEOREM HeadsMarkRuns == Cluster < MinSkip \div 2 => (Spec => []HeadsAreRuns)
<1>1. IInv /\ HeadsInv => HeadsAreRuns
  <2> SUFFICES ASSUME IInv, HeadsInv, ~again, NEW k \in DOMAIN lines
               PROVE  lines[k].status.head
                        <=> (lines[k].pos .. Log!EndOf(lines[k]) - 1) \cap Sectors(ended) # {}
    BY DEF HeadsAreRuns
  <2>1. Log!Tiles(lines) /\ k \in 1 .. Len(lines)
    BY DEF IInv, TypeOK, Log!Tiles
  <2>2. ASSUME NEW x \in lines[k].pos .. Log!EndOf(lines[k]) - 1
        PROVE  lines[k].status.head <=> x \in Sectors(ended)
    <3>1. x \in Int /\ lines[k].pos <= x /\ x < Log!EndOf(lines[k])
      BY <2>1, <2>2, LineFacts
    <3>2. x \in 0 .. Size - 1 /\ HeadAt(lines, x) = lines[k].status.head
      BY <2>1, <3>1, KindFacts DEF HeadAt
    <3> QED
      BY <3>2 DEF HeadsInv, HeadsOf
  <2>3. lines[k].pos \in lines[k].pos .. Log!EndOf(lines[k]) - 1
    BY <2>1, LineFacts
  <2> QED
    BY <2>2, <2>3
<1> QED
  BY <1>1, HeadsInductive, Inductive, PTL
=============================================================================
