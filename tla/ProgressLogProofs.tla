-------------------------- MODULE ProgressLogProofs --------------------------
(***************************************************************************)
(* What the progress log guarantees for every size of the source and every *)
(* set of statuses: type correctness, that it covers the source, that the  *)
(* merging loop leaves no equal neighbours behind it, that a reset leaves  *)
(* a log without complaints, and that it implements SectorMap.             *)
(***************************************************************************)
EXTENDS ProgressLog, SequenceTheorems, TLAPS

-----------------------------------------------------------------------------
(* What the operators on the list of lines do: inserting, removing, marking, *)
(* merging, resetting. None of it speaks of a state of the log.              *)

LEMMA InsertAtFacts ==
  ASSUME NEW S, NEW s \in Seq(S), NEW b \in 1 .. Len(s) + 1, NEW e \in S
  PROVE  /\ InsertAt(s, b, e) \in Seq(S)
         /\ Len(InsertAt(s, b, e)) = Len(s) + 1
         /\ \A k \in 1 .. Len(s) + 1 :
              InsertAt(s, b, e)[k] = IF k < b THEN s[k] ELSE IF k = b THEN e ELSE s[k - 1]
<1> DEFINE above == SubSeq(s, 1, b - 1)
           below == SubSeq(s, b, Len(s))
           upper == above \o <<e>>
<1>0. Len(s) \in Nat
  OBVIOUS
<1>1. /\ above \in Seq(S) /\ Len(above) = b - 1
      /\ \A k \in 1 .. b - 1 : above[k] = s[k]
  BY SubSeqProperties, LenProperties, ElementOfSeq
<1>2. /\ below \in Seq(S) /\ Len(below) = Len(s) - b + 1
      /\ \A k \in 1 .. Len(s) - b + 1 : below[k] = s[b + k - 1]
  BY SubSeqProperties, LenProperties, ElementOfSeq
<1>3. <<e>> \in Seq(S) /\ Len(<<e>>) = 1 /\ <<e>>[1] = e
  OBVIOUS
<1> HIDE DEF above, below
<1>4. /\ upper \in Seq(S) /\ Len(upper) = Len(above) + Len(<<e>>)
      /\ \A k \in 1 .. Len(above) + Len(<<e>>) :
           upper[k] = IF k <= Len(above) THEN above[k] ELSE <<e>>[k - Len(above)]
  BY <1>1, <1>3, ConcatProperties
<1>5. /\ upper \in Seq(S) /\ Len(upper) = b
      /\ \A k \in 1 .. b - 1 : upper[k] = s[k]
      /\ upper[b] = e
  BY <1>1, <1>3, <1>4
<1> HIDE DEF upper
<1>6. /\ upper \o below \in Seq(S)
      /\ Len(upper \o below) = Len(upper) + Len(below)
      /\ \A k \in 1 .. Len(upper) + Len(below) :
           (upper \o below)[k] = IF k <= Len(upper) THEN upper[k] ELSE below[k - Len(upper)]
  BY <1>2, <1>5, ConcatProperties
<1>7. InsertAt(s, b, e) = upper \o below
  BY DEF InsertAt, above, below, upper
<1>8. \A k \in 1 .. Len(s) + 1 : k > b => below[k - b] = s[k - 1]
  <2>1. TAKE k \in 1 .. Len(s) + 1
  <2>2. HAVE k > b
  <2>3. k - b \in 1 .. Len(s) - b + 1 /\ b + (k - b) - 1 = k - 1
    BY <1>0, <2>2
  <2> QED
    BY <1>2, <2>3
<1> QED
  BY <1>0, <1>2, <1>5, <1>6, <1>7, <1>8

LEMMA RemoveAtFacts ==
  ASSUME NEW S, NEW s \in Seq(S), NEW b \in 1 .. Len(s)
  PROVE  /\ RemoveAt(s, b) \in Seq(S)
         /\ Len(RemoveAt(s, b)) = Len(s) - 1
         /\ \A k \in 1 .. Len(s) - 1 :
              RemoveAt(s, b)[k] = IF k < b THEN s[k] ELSE s[k + 1]
<1> DEFINE above == SubSeq(s, 1, b - 1)
           below == SubSeq(s, b + 1, Len(s))
<1>0. Len(s) \in Nat
  OBVIOUS
<1>1. /\ above \in Seq(S) /\ Len(above) = b - 1
      /\ \A k \in 1 .. b - 1 : above[k] = s[k]
  BY SubSeqProperties, LenProperties, ElementOfSeq
<1>2. /\ below \in Seq(S) /\ Len(below) = Len(s) - b
      /\ \A k \in 1 .. Len(s) - b : below[k] = s[b + k]
  BY SubSeqProperties, LenProperties, ElementOfSeq
<1> HIDE DEF above, below
<1>3. /\ above \o below \in Seq(S)
      /\ Len(above \o below) = Len(above) + Len(below)
      /\ \A k \in 1 .. Len(above) + Len(below) :
           (above \o below)[k] = IF k <= Len(above) THEN above[k] ELSE below[k - Len(above)]
  BY <1>1, <1>2, ConcatProperties
<1>4. RemoveAt(s, b) = above \o below
  BY DEF RemoveAt, above, below
<1>5. \A k \in 1 .. Len(s) - 1 : k >= b => below[k - (b - 1)] = s[k + 1]
  <2>1. TAKE k \in 1 .. Len(s) - 1
  <2>2. HAVE k >= b
  <2>3. k - (b - 1) \in 1 .. Len(s) - b /\ b + (k - (b - 1)) = k + 1
    BY <1>0, <2>2
  <2> QED
    BY <1>2, <2>3
<1>6. /\ Len(above \o below) = Len(s) - 1
      /\ \A k \in 1 .. Len(s) - 1 :
           (above \o below)[k] = IF k < b THEN above[k] ELSE below[k - (b - 1)]
  BY <1>0, <1>1, <1>2, <1>3
<1>7. \A k \in 1 .. Len(s) - 1 : k < b => above[k] = s[k]
  BY <1>1
<1> QED
  BY <1>3, <1>4, <1>5, <1>6, <1>7

-----------------------------------------------------------------------------
LEMMA LineFacts ==
  ASSUME NEW l \in Line
  PROVE  l.pos \in Nat /\ l.size \in Nat /\ l.size > 0 /\ l.status \in Status
         /\ EndOf(l) \in Nat /\ l.pos < EndOf(l) /\ EndOf(l) = l.pos + l.size
BY DEF Line, EndOf

LEMMA TileFacts ==
  ASSUME NEW ls, Tiles(ls), NEW k \in 1 .. Len(ls)
  PROVE  /\ ls[k] \in Line
         /\ ls[k].pos \in Nat /\ ls[k].size \in Nat /\ ls[k].size > 0
         /\ ls[k].status \in Status
         /\ EndOf(ls[k]) \in Nat /\ EndOf(ls[k]) = ls[k].pos + ls[k].size
         /\ EndOf(ls[k]) <= Size
<1>1. ls[k] \in Line
  BY ElementOfSeq DEF Tiles
<1> QED
  BY <1>1, LineFacts DEF Tiles

LEMMA Neighbours ==
  ASSUME NEW ls, Tiles(ls)
  PROVE  /\ Len(ls) \in Nat /\ Len(ls) > 0
         /\ ls[1].pos = 0
         /\ \A k \in 1 .. Len(ls) - 1 : EndOf(ls[k]) = ls[k + 1].pos
         /\ EndOf(ls[Len(ls)]) = Size
<1>1. Len(ls) \in Nat /\ Size \in Nat /\ Size > 0
  BY LogSizeAssumption DEF Tiles
<1>2. PICK z \in 1 .. Len(ls) : Holds(ls[z], 0)
  BY <1>1 DEF Tiles, Sectors
<1>3. Len(ls) > 0
  BY <1>1, <1>2
<1>4. ls[1].pos = 0
  <2>1. ls[z].pos = 0
    BY <1>2, TileFacts DEF Holds
  <2>2. CASE z = 1
    BY <2>1, <2>2
  <2>3. CASE z > 1
    <3>1. EndOf(ls[1]) <= 0
      BY <1>3, <2>1, <2>3 DEF Tiles
    <3> QED
      BY SMTT(30), <1>1, <1>3, <3>1, TileFacts
  <2> QED
    BY <1>2, <2>2, <2>3
<1>5. ASSUME NEW k \in 1 .. Len(ls) - 1
      PROVE  EndOf(ls[k]) = ls[k + 1].pos
  <2>0. k \in 1 .. Len(ls) /\ k + 1 \in 1 .. Len(ls) /\ k < k + 1
    BY <1>1
  <2>1. EndOf(ls[k]) <= ls[k + 1].pos
    BY <2>0 DEF Tiles
  <2>3. /\ EndOf(ls[k]) \in Nat /\ ls[k + 1].pos \in Nat
        /\ ls[k + 1].pos < EndOf(ls[k + 1]) /\ EndOf(ls[k + 1]) <= Size
        /\ EndOf(ls[k + 1]) \in Nat
    BY <2>0, TileFacts
  <2>2. ASSUME EndOf(ls[k]) < ls[k + 1].pos
        PROVE  FALSE
    <3> DEFINE x == EndOf(ls[k])
    <3>1. x \in Sectors
      BY <1>1, <2>2, <2>3 DEF Sectors
    <3>2. PICK m \in 1 .. Len(ls) : Holds(ls[m], x)
      BY <3>1 DEF Tiles
    <3>3. CASE m = k
      BY <3>2, <3>3, TileFacts DEF Holds
    <3>4. CASE m < k
      <4>1. EndOf(ls[m]) <= ls[k].pos
        BY <2>0, <3>4 DEF Tiles
      <4> QED
        BY SMTT(30), <2>0, <3>2, <4>1, TileFacts DEF Holds
    <3>5. CASE m = k + 1
      BY <2>0, <2>2, <3>2, <3>5, TileFacts DEF Holds
    <3>6. CASE m > k + 1
      <4>1. EndOf(ls[k + 1]) <= ls[m].pos
        BY <2>0, <3>6 DEF Tiles
      <4> QED
        <5>1. ls[m].pos \in Nat /\ ls[m].pos <= EndOf(ls[k])
          BY <3>2, TileFacts DEF Holds
        <5> QED
          BY <2>2, <2>3, <4>1, <5>1
    <3> QED
      BY <2>0, <3>2, <3>3, <3>4, <3>5, <3>6
  <2> QED
    BY <2>1, <2>2, <2>3
<1>6. EndOf(ls[Len(ls)]) = Size
  <2> DEFINE x == EndOf(ls[Len(ls)])
  <2>1. Len(ls) \in 1 .. Len(ls)
    BY <1>1, <1>3
  <2>3. x \in Nat /\ x <= Size
    BY <2>1, TileFacts
  <2>2. ASSUME x < Size
        PROVE  FALSE
    <3>1. x \in Sectors
      BY <1>1, <2>2, <2>3 DEF Sectors
    <3>2. PICK m \in 1 .. Len(ls) : Holds(ls[m], x)
      BY <3>1 DEF Tiles
    <3>3. m # Len(ls)
      BY <2>1, <3>2, TileFacts DEF Holds
    <3>4. EndOf(ls[m]) <= ls[Len(ls)].pos
      BY <2>1, <3>3, <1>1 DEF Tiles
    <3>5. x < EndOf(ls[m])
      BY <3>2 DEF Holds
    <3>6. ls[Len(ls)].pos \in Nat /\ ls[Len(ls)].size \in Nat
          /\ ls[Len(ls)].size > 0 /\ x = ls[Len(ls)].pos + ls[Len(ls)].size
      BY <2>1, TileFacts
    <3>7. EndOf(ls[m]) \in Nat
      BY <3>2, TileFacts
    <3> HIDE DEF x
    <3> QED
      BY <3>4, <3>5, <3>6, <3>7
  <2> QED
    BY <1>1, <2>2, <2>3
<1> QED
  BY <1>1, <1>3, <1>4, <1>5, <1>6

(* A sector is in one line only, the one find_block_ccc returns.           *)
LEMMA FindBlockFacts ==
  ASSUME NEW ls, Tiles(ls), NEW x \in Sectors
  PROVE  /\ FindBlock(ls, x) \in 1 .. Len(ls)
         /\ Holds(ls[FindBlock(ls, x)], x)
         /\ \A k \in 1 .. Len(ls) : Holds(ls[k], x) => k = FindBlock(ls, x)
<1>1. \E k \in 1 .. Len(ls) : Holds(ls[k], x)
  BY DEF Tiles
<1>2. FindBlock(ls, x) \in 1 .. Len(ls) /\ Holds(ls[FindBlock(ls, x)], x)
  BY <1>1 DEF FindBlock
<1>3. ASSUME NEW j \in 1 .. Len(ls), NEW k \in 1 .. Len(ls),
             Holds(ls[j], x), Holds(ls[k], x), j < k
      PROVE  FALSE
  <2>1. EndOf(ls[j]) <= ls[k].pos
    BY <1>3 DEF Tiles
  <2>2. x \in Int /\ Len(ls) \in Nat
    BY LogSizeAssumption DEF Sectors, Tiles
  <2> QED
    BY <1>3, <2>1, <2>2, TileFacts DEF Holds
<1>4. ASSUME NEW k \in 1 .. Len(ls), Holds(ls[k], x)
      PROVE  k = FindBlock(ls, x)
  <2>1. Len(ls) \in Nat
    BY DEF Tiles
  <2>2. ~(k < FindBlock(ls, x)) /\ ~(FindBlock(ls, x) < k)
    BY <1>2, <1>3, <1>4
  <2> QED
    BY <1>2, <2>1, <2>2
<1> QED
  BY <1>2, <1>4

LEMMA StatusAtFacts ==
  ASSUME NEW ls, Tiles(ls), NEW k \in 1 .. Len(ls), NEW x \in Sectors, Holds(ls[k], x)
  PROVE  StatusAt(ls, x) = ls[k].status
BY FindBlockFacts DEF StatusAt

-----------------------------------------------------------------------------
(* A line cut in two.                                                      *)
LEMMA SplitLine ==
  ASSUME NEW ls, Tiles(ls), NEW b \in 1 .. Len(ls),
         NEW n \in Nat \ {0}, n < ls[b].size,
         NEW s1 \in Status, NEW s2 \in Status,
         NEW ms \in Seq(Line), Len(ms) = Len(ls) + 1,
         \A k \in 1 .. b - 1 : ms[k] = ls[k],
         ms[b] = [pos |-> ls[b].pos, size |-> n, status |-> s1],
         ms[b + 1] = [pos |-> ls[b].pos + n, size |-> ls[b].size - n, status |-> s2],
         \A k \in b + 2 .. Len(ls) + 1 : ms[k] = ls[k - 1]
  PROVE  /\ Tiles(ms)
         /\ \A x \in Sectors :
              StatusAt(ms, x) = IF Holds(ls[b], x)
                                THEN IF x < ls[b].pos + n THEN s1 ELSE s2
                                ELSE StatusAt(ls, x)
<1> DEFINE old(k) == IF k <= b THEN k ELSE k - 1
<1>1. /\ Len(ls) \in Nat /\ b \in Nat /\ b > 0 /\ b <= Len(ls) /\ Size \in Nat
      /\ Len(ms) = Len(ls) + 1
  BY LogSizeAssumption DEF Tiles
<1>2. /\ ls[b].pos \in Nat /\ ls[b].size \in Nat /\ n < ls[b].size
      /\ EndOf(ls[b]) = ls[b].pos + ls[b].size
  BY TileFacts
<1>3. ms[b].pos = ls[b].pos /\ EndOf(ms[b]) = ls[b].pos + n /\ ms[b].status = s1
  BY DEF EndOf
<1>4. /\ ms[b + 1].pos = ls[b].pos + n /\ EndOf(ms[b + 1]) = EndOf(ls[b])
      /\ ms[b + 1].status = s2
  BY <1>2 DEF EndOf
<1>5. \A k \in 1 .. b - 1 : ms[k] = ls[k]
  OBVIOUS
<1>6. \A k \in b + 2 .. Len(ls) + 1 : ms[k] = ls[k - 1]
  OBVIOUS
<1> DEFINE Same(k) == ms[k] = ls[old(k)]
           Part(k) == k = b \/ k = b + 1
<1>7. ASSUME NEW k \in 1 .. Len(ls) + 1
      PROVE  /\ old(k) \in 1 .. Len(ls)
             /\ Same(k) \/ Part(k)
  <2>1. CASE k < b
    BY <1>1, <1>5, <2>1
  <2>2. CASE k > b + 1
    BY <1>1, <1>6, <2>2
  <2>3. CASE k = b \/ k = b + 1
    BY <1>1, <2>3
  <2> QED
    BY <1>1, <2>1, <2>2, <2>3
<1>8. ASSUME NEW k \in 1 .. Len(ls) + 1
      PROVE  /\ ms[k].pos \in Nat /\ EndOf(ms[k]) \in Nat
             /\ ls[old(k)].pos <= ms[k].pos /\ EndOf(ms[k]) <= EndOf(ls[old(k)])
  <2>1. CASE Same(k)
    <3>1. ls[old(k)].pos \in Nat /\ EndOf(ls[old(k)]) \in Nat
      BY <1>7, TileFacts
    <3> HIDE DEF old
    <3> QED
      BY <2>1, <3>1
  <2>2. CASE Part(k)
    <3>1. old(k) = b
      BY <1>1, <2>2
    <3> QED
      BY SMTT(30), <1>2, <1>3, <1>4, <2>2, <3>1
  <2> QED
    BY <1>7, <2>1, <2>2
<1>9. ASSUME NEW j \in 1 .. Len(ls) + 1, NEW k \in 1 .. Len(ls) + 1, j < k
      PROVE  EndOf(ms[j]) <= ms[k].pos
  <2>1. CASE old(j) < old(k)
    <3>1. EndOf(ls[old(j)]) <= ls[old(k)].pos
      BY <1>7, <2>1 DEF Tiles
    <3>2. ls[old(k)].pos \in Nat /\ EndOf(ls[old(j)]) \in Nat
      BY <1>7, TileFacts
    <3>3. /\ EndOf(ms[j]) \in Nat /\ ms[k].pos \in Nat
          /\ EndOf(ms[j]) <= EndOf(ls[old(j)]) /\ ls[old(k)].pos <= ms[k].pos
      BY <1>8
    <3> HIDE DEF old
    <3> QED
      BY <3>1, <3>2, <3>3
  <2>2. CASE ~(old(j) < old(k))
    <3>1. j = b /\ k = b + 1
      BY <1>1, <1>9, <2>2
    <3> QED
      BY <1>2, <1>3, <1>4, <3>1
  <2> QED
    BY <2>1, <2>2
<1>10. ASSUME NEW x \in Sectors
       PROVE  \E k \in 1 .. Len(ls) + 1 :
                /\ Holds(ms[k], x)
                /\ ms[k].status = IF Holds(ls[b], x)
                                  THEN IF x < ls[b].pos + n THEN s1 ELSE s2
                                  ELSE StatusAt(ls, x)
  <2>1. PICK q \in 1 .. Len(ls) : Holds(ls[q], x) /\ q = FindBlock(ls, x)
    BY FindBlockFacts
  <2>2. x \in Int
    BY <1>1 DEF Sectors
  <2>3. CASE q = b /\ x < ls[b].pos + n
    <3>1. Holds(ms[b], x) /\ b \in 1 .. Len(ls) + 1
      BY <1>1, <1>2, <1>3, <2>1, <2>2, <2>3 DEF Holds
    <3> QED
      BY <1>3, <2>1, <2>3, <3>1
  <2>4. CASE q = b /\ ~(x < ls[b].pos + n)
    <3>1. Holds(ms[b + 1], x) /\ b + 1 \in 1 .. Len(ls) + 1
      BY <1>1, <1>2, <1>4, <2>1, <2>2, <2>4 DEF Holds
    <3> QED
      BY <1>4, <2>1, <2>4, <3>1
  <2>5. CASE q # b
    <3>1. ~Holds(ls[b], x)
      BY <2>1, <2>5, FindBlockFacts
    <3>2. PICK k \in 1 .. Len(ls) + 1 : ms[k] = ls[q]
      <4>1. CASE q < b
        BY <1>1, <1>5, <4>1
      <4>2. CASE q > b
        <5>1. q + 1 \in b + 2 .. Len(ls) + 1 /\ (q + 1) - 1 = q
          BY <1>1, <4>2
        <5>2. ms[q + 1] = ls[q]
          BY <1>6, <5>1
        <5>3. q + 1 \in 1 .. Len(ls) + 1
          BY <1>1, <5>1
        <5> QED
          BY <5>2, <5>3
      <4> QED
        BY <1>1, <2>5, <4>1, <4>2
    <3> QED
      BY <2>1, <3>1, <3>2 DEF StatusAt
  <2> QED
    BY <2>3, <2>4, <2>5
<1>11. Tiles(ms)
  <2>1. ASSUME NEW k \in 1 .. Len(ls) + 1
        PROVE  EndOf(ms[k]) <= Size
    <3>1. EndOf(ls[old(k)]) \in Nat /\ EndOf(ls[old(k)]) <= Size
      BY <1>7, TileFacts
    <3>2. EndOf(ms[k]) \in Nat /\ EndOf(ms[k]) <= EndOf(ls[old(k)])
      BY <1>8
    <3> HIDE DEF old
    <3> QED
      BY <1>1, <3>1, <3>2
  <2>2. \A x \in Sectors : \E k \in 1 .. Len(ls) + 1 : Holds(ms[k], x)
    BY <1>10
  <2> QED
    BY <1>1, <1>9, <2>1, <2>2 DEF Tiles
<1> QED
  BY SMTT(30), <1>1, <1>10, <1>11, StatusAtFacts

(* Two neighbouring lines made one.                                        *)
LEMMA JoinLines ==
  ASSUME NEW ls, Tiles(ls), NEW b \in 1 .. Len(ls) - 1, NEW st \in Status,
         NEW ms \in Seq(Line), Len(ms) = Len(ls) - 1,
         \A k \in 1 .. b - 1 : ms[k] = ls[k],
         ms[b] = [pos |-> ls[b].pos, size |-> ls[b].size + ls[b + 1].size, status |-> st],
         \A k \in b + 1 .. Len(ls) - 1 : ms[k] = ls[k + 1]
  PROVE  /\ Tiles(ms)
         /\ \A x \in Sectors :
              StatusAt(ms, x) = IF Holds(ls[b], x) \/ Holds(ls[b + 1], x)
                                THEN st ELSE StatusAt(ls, x)
<1> DEFINE first(k) == IF k <= b THEN k ELSE k + 1
           last(k) == IF k < b THEN k ELSE k + 1
<1>1. /\ Len(ls) \in Nat /\ b \in Nat /\ b > 0 /\ b < Len(ls) /\ Size \in Nat
      /\ Len(ms) = Len(ls) - 1
      /\ b \in 1 .. Len(ls) /\ b + 1 \in 1 .. Len(ls)
  BY LogSizeAssumption DEF Tiles
<1>2. /\ ls[b].pos \in Nat /\ ls[b].size \in Nat /\ ls[b].size > 0
      /\ EndOf(ls[b]) = ls[b].pos + ls[b].size
      /\ ls[b + 1].size \in Nat /\ ls[b + 1].size > 0
      /\ EndOf(ls[b + 1]) = ls[b + 1].pos + ls[b + 1].size
      /\ EndOf(ls[b]) = ls[b + 1].pos
  BY <1>1, TileFacts, Neighbours
<1>3. ms[b].pos = ls[b].pos /\ EndOf(ms[b]) = EndOf(ls[b + 1]) /\ ms[b].status = st
  BY <1>2 DEF EndOf
<1>4. \A k \in 1 .. b - 1 : ms[k] = ls[k]
  OBVIOUS
<1>5. \A k \in b + 1 .. Len(ls) - 1 : ms[k] = ls[k + 1]
  OBVIOUS
<1>6. ASSUME NEW k \in 1 .. Len(ls) - 1
      PROVE  /\ first(k) \in 1 .. Len(ls) /\ last(k) \in 1 .. Len(ls)
             /\ ms[k].pos = ls[first(k)].pos /\ EndOf(ms[k]) = EndOf(ls[last(k)])
  <2>1. CASE k < b
    BY <1>1, <1>4, <2>1
  <2>2. CASE k > b
    <3>1. first(k) = k + 1 /\ last(k) = k + 1 /\ k + 1 \in 1 .. Len(ls)
      BY <1>1, <2>2
    <3>2. ms[k] = ls[k + 1]
      BY <1>1, <1>5, <2>2
    <3> QED
      BY <3>1, <3>2
  <2>3. CASE k = b
    BY <1>1, <1>3, <2>3
  <2> QED
    BY <1>1, <2>1, <2>2, <2>3
<1>7. ASSUME NEW j \in 1 .. Len(ls) - 1, NEW k \in 1 .. Len(ls) - 1, j < k
      PROVE  EndOf(ms[j]) <= ms[k].pos
  <2>1. last(j) < first(k)
    BY <1>1, <1>7
  <2>2. EndOf(ls[last(j)]) <= ls[first(k)].pos
    BY <1>6, <2>1 DEF Tiles
  <2> HIDE DEF first, last
  <2> QED
    BY <1>6, <2>2
<1>8. ASSUME NEW x \in Sectors
      PROVE  \E k \in 1 .. Len(ls) - 1 :
                /\ Holds(ms[k], x)
                /\ ms[k].status = IF Holds(ls[b], x) \/ Holds(ls[b + 1], x)
                                  THEN st ELSE StatusAt(ls, x)
  <2>1. PICK q \in 1 .. Len(ls) : Holds(ls[q], x) /\ q = FindBlock(ls, x)
    BY FindBlockFacts
  <2>2. x \in Int
    BY <1>1 DEF Sectors
  <2>3. CASE q = b \/ q = b + 1
    <3>1. ls[b].pos <= x /\ x < EndOf(ls[b + 1])
      <4>1. CASE q = b
        BY <1>2, <2>1, <2>2, <4>1 DEF Holds
      <4>2. CASE q = b + 1
        BY <1>2, <2>1, <2>2, <4>2 DEF Holds
      <4> QED
        BY <2>3, <4>1, <4>2
    <3>2. Holds(ms[b], x) /\ b \in 1 .. Len(ls) - 1
      BY <1>1, <1>3, <3>1 DEF Holds
    <3> QED
      BY <1>3, <2>1, <2>3, <3>2
  <2>4. CASE q # b /\ q # b + 1
    <3>1. ~Holds(ls[b], x) /\ ~Holds(ls[b + 1], x)
      BY <1>1, <2>1, <2>4, FindBlockFacts
    <3>2. PICK k \in 1 .. Len(ls) - 1 : ms[k] = ls[q]
      <4>1. CASE q < b
        BY <1>1, <1>4, <4>1
      <4>2. CASE q > b + 1
        <5>1. q - 1 \in b + 1 .. Len(ls) - 1 /\ (q - 1) + 1 = q
          BY <1>1, <4>2
        <5>2. ms[q - 1] = ls[q]
          BY <1>5, <5>1
        <5>3. q - 1 \in 1 .. Len(ls) - 1
          BY <1>1, <5>1
        <5> QED
          BY <5>2, <5>3
      <4> QED
        BY <1>1, <2>4, <4>1, <4>2
    <3> QED
      BY <2>1, <3>1, <3>2 DEF StatusAt
  <2> QED
    BY <2>3, <2>4
<1>9. Tiles(ms)
  <2>1. ASSUME NEW k \in 1 .. Len(ls) - 1
        PROVE  EndOf(ms[k]) <= Size
    <3> HIDE DEF last
    <3> QED
      BY <1>6, TileFacts
  <2>2. \A x \in Sectors : \E k \in 1 .. Len(ls) - 1 : Holds(ms[k], x)
    BY <1>8
  <2> QED
    BY <1>1, <1>7, <2>1, <2>2 DEF Tiles
<1> QED
  BY <1>1, <1>8, <1>9, StatusAtFacts

(* The border of two neighbouring lines moved.                             *)
BorderMoved(ls, ms, b, m, r) ==
  /\ Tiles(ls) /\ b \in 1 .. Len(ls) - 1
  /\ m \in Nat \ {0} /\ r \in Nat \ {0} /\ m + r = ls[b].size + ls[b + 1].size
  /\ ms \in Seq(Line) /\ Len(ms) = Len(ls)
  /\ \A k \in 1 .. Len(ls) : k # b /\ k # b + 1 => ms[k] = ls[k]
  /\ ms[b].pos = ls[b].pos /\ ms[b].size = m /\ ms[b].status = ls[b].status
  /\ ms[b + 1].pos = ls[b].pos + m /\ ms[b + 1].size = r
  /\ ms[b + 1].status = ls[b + 1].status

LEMMA MoveBorder ==
  ASSUME NEW ls, NEW b, NEW m, NEW r, NEW ms, BorderMoved(ls, ms, b, m, r)
  PROVE  /\ Tiles(ms)
         /\ \A x \in Sectors :
              StatusAt(ms, x) = IF Holds(ls[b], x) \/ Holds(ls[b + 1], x)
                                THEN IF x < ls[b].pos + m
                                     THEN ls[b].status ELSE ls[b + 1].status
                                ELSE StatusAt(ls, x)
<1>0. /\ Tiles(ls) /\ b \in 1 .. Len(ls) - 1
      /\ m \in Nat \ {0} /\ r \in Nat \ {0} /\ m + r = ls[b].size + ls[b + 1].size
      /\ ms \in Seq(Line) /\ Len(ms) = Len(ls)
      /\ \A k \in 1 .. Len(ls) : k # b /\ k # b + 1 => ms[k] = ls[k]
      /\ ms[b].pos = ls[b].pos /\ ms[b].size = m /\ ms[b].status = ls[b].status
      /\ ms[b + 1].pos = ls[b].pos + m /\ ms[b + 1].size = r
      /\ ms[b + 1].status = ls[b + 1].status
  BY DEF BorderMoved
<1> USE <1>0
<1> DEFINE border == ls[b].pos + m
<1>1. /\ Len(ls) \in Nat /\ b \in Nat /\ b > 0 /\ b < Len(ls) /\ Size \in Nat
      /\ b \in 1 .. Len(ls) /\ b + 1 \in 1 .. Len(ls)
  BY LogSizeAssumption DEF Tiles
<1>2. /\ ls[b].pos \in Nat /\ ls[b].size \in Nat /\ ls[b].size > 0
      /\ EndOf(ls[b]) = ls[b].pos + ls[b].size
      /\ ls[b + 1].size \in Nat /\ ls[b + 1].size > 0
      /\ EndOf(ls[b + 1]) = ls[b + 1].pos + ls[b + 1].size
      /\ EndOf(ls[b + 1]) \in Nat
      /\ EndOf(ls[b]) = ls[b + 1].pos /\ ls[b + 1].pos \in Nat
  BY <1>1, TileFacts, Neighbours
<1>3. /\ border \in Int /\ ls[b].pos < border /\ border < EndOf(ls[b + 1])
      /\ ms[b].pos = ls[b].pos /\ EndOf(ms[b]) = border
      /\ ms[b + 1].pos = border /\ EndOf(ms[b + 1]) = EndOf(ls[b + 1])
  <2>1. EndOf(ms[b]) = ls[b].pos + m
    BY DEF EndOf
  <2>2. EndOf(ms[b + 1]) = (ls[b].pos + m) + r
    BY DEF EndOf
  <2>3. EndOf(ls[b + 1]) = ls[b].pos + (ls[b].size + ls[b + 1].size)
    BY SMTT(30), <1>2
  <2>4. EndOf(ls[b + 1]) = (ls[b].pos + m) + r
    BY SMTT(30), <1>2, <2>3
  <2>5. border \in Int /\ ls[b].pos < border
    BY ONLY <1>2, m \in Nat \ {0} DEF border
  <2>6. border < EndOf(ls[b + 1])
    BY <1>2, <2>4
  <2> QED
    BY <2>1, <2>2, <2>4, <2>5, <2>6
<1> HIDE DEF border
<1>4. ASSUME NEW j \in 1 .. Len(ls), NEW k \in 1 .. Len(ls), j < k
      PROVE  EndOf(ms[j]) <= ms[k].pos
  <2>1. EndOf(ls[j]) <= ls[k].pos /\ EndOf(ls[j]) \in Nat /\ ls[k].pos \in Nat
    BY <1>4, TileFacts DEF Tiles
  <2>2. CASE j = b /\ k = b + 1
    BY <1>3, <2>2
  <2>3. CASE j = b /\ k > b + 1
    <3>1. EndOf(ls[b + 1]) <= ls[k].pos
      BY <1>1, <2>3 DEF Tiles
    <3>2. ms[k] = ls[k] /\ ms[k].pos \in Nat
      BY <1>1, <2>1, <2>3
    <3>3. EndOf(ms[j]) = border
      BY <1>3, <2>3
    <3> QED
      BY ONLY <1>2, <1>3, <3>1, <3>2, <3>3
  <2>4. CASE j = b + 1
    <3>0. k # b /\ k # b + 1
      BY <1>1, <1>4, <2>4
    <3>1. ms[k] = ls[k]
      BY <3>0
    <3> QED
      BY <1>3, <2>1, <2>4, <3>1
  <2>5. CASE k = b
    <3>0. j # b /\ j # b + 1
      BY <1>1, <1>4, <2>5
    <3>1. ms[j] = ls[j] /\ ms[k].pos = ls[k].pos
      BY <2>5, <3>0
    <3> QED
      BY ONLY <2>1, <3>1
  <2>6. CASE j < b /\ k = b + 1
    <3>1. EndOf(ls[j]) <= ls[b].pos
      BY <1>1, <2>6 DEF Tiles
    <3> QED
      BY <1>1, <1>2, <1>3, <2>1, <2>6, <3>1
  <2>7. CASE j \notin {b, b + 1} /\ k \notin {b, b + 1}
    BY <2>1, <2>7
  <2> QED
    BY <1>1, <1>4, <2>2, <2>3, <2>4, <2>5, <2>6, <2>7
<1>5. ASSUME NEW x \in Sectors
      PROVE  \E k \in 1 .. Len(ls) :
                /\ Holds(ms[k], x)
                /\ ms[k].status = IF Holds(ls[b], x) \/ Holds(ls[b + 1], x)
                                  THEN IF x < border
                                       THEN ls[b].status ELSE ls[b + 1].status
                                  ELSE StatusAt(ls, x)
  <2>1. PICK q \in 1 .. Len(ls) : Holds(ls[q], x) /\ q = FindBlock(ls, x)
    BY FindBlockFacts
  <2>2. x \in Int
    BY <1>1 DEF Sectors
  <2>3. CASE q = b \/ q = b + 1
    <3>1. ls[b].pos <= x /\ x < EndOf(ls[b + 1])
      <4>1. CASE q = b
        BY SMTT(30), <1>2, <2>1, <2>2, <4>1 DEF Holds
      <4>2. CASE q = b + 1
        BY SMTT(30), <1>2, <2>1, <2>2, <4>2 DEF Holds
      <4> QED
        BY <2>3, <4>1, <4>2
    <3>2. CASE x < border
      <4>1. Holds(ms[b], x)
        BY <1>3, <3>1, <3>2 DEF Holds
      <4> QED
        BY <1>1, <2>1, <2>3, <3>2, <4>1
    <3>3. CASE ~(x < border)
      <4>1. Holds(ms[b + 1], x)
        BY <1>3, <2>2, <3>1, <3>3 DEF Holds
      <4> QED
        BY <1>1, <2>1, <2>3, <3>3, <4>1
    <3> QED
      BY <3>2, <3>3
  <2>4. CASE q # b /\ q # b + 1
    <3>1. ~Holds(ls[b], x) /\ ~Holds(ls[b + 1], x)
      BY <1>1, <2>1, <2>4, FindBlockFacts
    <3> QED
      BY <2>1, <2>4, <3>1 DEF StatusAt
  <2> QED
    BY <2>3, <2>4
<1>6. Tiles(ms)
  <2>1. ASSUME NEW k \in 1 .. Len(ls)
        PROVE  EndOf(ms[k]) <= Size
    <3>1. EndOf(ls[k]) <= Size /\ EndOf(ls[b + 1]) <= Size
      BY <1>1, TileFacts
    <3>2. CASE k = b
      BY <1>1, <1>2, <1>3, <3>1, <3>2
    <3>3. CASE k = b + 1
      BY <1>3, <3>1, <3>3
    <3>4. CASE k # b /\ k # b + 1
      BY <3>1, <3>4
    <3> QED
      BY <3>2, <3>3, <3>4
  <2>2. \A x \in Sectors : \E k \in 1 .. Len(ls) : Holds(ms[k], x)
    BY <1>5
  <2> QED
    BY <1>1, <1>4, <2>1, <2>2 DEF Tiles
<1> QED
  BY <1>1, <1>5, <1>6, StatusAtFacts DEF border

-----------------------------------------------------------------------------
(* What it means for the log ms to be ls with n sectors from p marked st.  *)
MarksChunk(ls, ms, p, n, st) ==
  /\ Tiles(ms)
  /\ \A x \in Sectors :
       StatusAt(ms, x) = IF p <= x /\ x < p + n THEN st ELSE StatusAt(ls, x)

LEMMA ExceptLine ==
  ASSUME NEW s \in Seq(Line), NEW b \in 1 .. Len(s), NEW l \in Line
  PROVE  /\ [s EXCEPT ![b] = l] \in Seq(Line)
         /\ Len([s EXCEPT ![b] = l]) = Len(s)
         /\ \A k \in 1 .. Len(s) : [s EXCEPT ![b] = l][k] = IF k = b THEN l ELSE s[k]
BY ExceptSeq

LEMMA InsertLine ==
  ASSUME NEW s \in Seq(Line), NEW b \in 1 .. Len(s) + 1, NEW l \in Line
  PROVE  /\ InsertAt(s, b, l) \in Seq(Line)
         /\ Len(InsertAt(s, b, l)) = Len(s) + 1
         /\ \A k \in 1 .. Len(s) + 1 :
              InsertAt(s, b, l)[k] = IF k < b THEN s[k] ELSE IF k = b THEN l ELSE s[k - 1]
BY InsertAtFacts

LEMMA RemoveLine ==
  ASSUME NEW s \in Seq(Line), NEW b \in 1 .. Len(s)
  PROVE  /\ RemoveAt(s, b) \in Seq(Line)
         /\ Len(RemoveAt(s, b)) = Len(s) - 1
         /\ \A k \in 1 .. Len(s) - 1 :
              RemoveAt(s, b)[k] = IF k < b THEN s[k] ELSE s[k + 1]
BY RemoveAtFacts

LEMMA BlockFacts ==
  ASSUME NEW p \in Nat, NEW n \in Nat \ {0}, NEW st \in Status
  PROVE  /\ Block(p, n, st) \in Line
         /\ Block(p, n, st).pos = p /\ Block(p, n, st).size = n
         /\ Block(p, n, st).status = st
BY DEF Block, Line

(* A line's status changed.                                                *)
LEMMA Restatus ==
  ASSUME NEW ls, Tiles(ls), NEW b \in 1 .. Len(ls), NEW st \in Status,
         NEW ms, ms = [ls EXCEPT ![b] = Block(ls[b].pos, ls[b].size, st)]
  PROVE  /\ ms \in Seq(Line) /\ Len(ms) = Len(ls)
         /\ ms[b] = Block(ls[b].pos, ls[b].size, st)
         /\ \A k \in 1 .. Len(ls) : k # b => ms[k] = ls[k]
         /\ MarksChunk(ls, ms, ls[b].pos, ls[b].size, st)
<1> DEFINE l == Block(ls[b].pos, ls[b].size, st)
<1>1. ls \in Seq(Line) /\ ls[b] \in Line /\ ls[b].pos \in Nat /\ ls[b].size \in Nat \ {0}
      /\ EndOf(ls[b]) = ls[b].pos + ls[b].size
  BY TileFacts DEF Tiles
<1>2. l \in Line /\ l.pos = ls[b].pos /\ EndOf(l) = EndOf(ls[b]) /\ l.status = st
  BY <1>1, BlockFacts DEF EndOf
<1>3. /\ ms \in Seq(Line) /\ Len(ms) = Len(ls)
      /\ \A k \in 1 .. Len(ls) : ms[k] = IF k = b THEN l ELSE ls[k]
  <2> HIDE DEF l
  <2>1. ms = [ls EXCEPT ![b] = l]
    BY DEF l
  <2> QED
    BY <1>1, <1>2, <2>1, ExceptLine
<1> HIDE DEF l
<1>4. \A k \in 1 .. Len(ls) : ms[k].pos = ls[k].pos /\ EndOf(ms[k]) = EndOf(ls[k])
  BY <1>2, <1>3
<1>5. Tiles(ms)
  BY <1>3, <1>4 DEF Tiles, Holds
<1>6. ASSUME NEW x \in Sectors
      PROVE  StatusAt(ms, x) = IF ls[b].pos <= x /\ x < ls[b].pos + ls[b].size
                               THEN st ELSE StatusAt(ls, x)
  <2>1. PICK q \in 1 .. Len(ls) : Holds(ls[q], x) /\ q = FindBlock(ls, x)
    BY FindBlockFacts
  <2>2. Holds(ms[q], x) /\ q \in 1 .. Len(ms)
    BY <1>3, <1>4, <2>1 DEF Holds
  <2>3. StatusAt(ms, x) = ms[q].status
    BY <1>5, <2>2, StatusAtFacts
  <2>4. Holds(ls[b], x) <=> q = b
    BY <2>1, FindBlockFacts
  <2>5. Holds(ls[b], x) <=> ls[b].pos <= x /\ x < ls[b].pos + ls[b].size
    BY <1>1 DEF Holds
  <2> QED
    BY <1>2, <1>3, <2>1, <2>3, <2>4, <2>5 DEF StatusAt
<1> QED
  BY <1>3, <1>5, <1>6 DEF MarksChunk, l

-----------------------------------------------------------------------------
(* One of two neighbouring lines of equal status holds both.               *)
TwoInOne(ls, e, b, d, st) ==
  /\ Tiles(ls) /\ b \in 1 .. Len(ls) - 1 /\ st \in Status
  /\ ls[b].status = st /\ ls[b + 1].status = st
  /\ e \in Seq(Line) /\ Len(e) = Len(ls) /\ d \in {b, b + 1}
  /\ \A k \in 1 .. Len(ls) : k # b /\ k # b + 1 => e[k] = ls[k]
  /\ \A c \in {b, b + 1} :
       c # d => e[c] = Block(ls[b].pos, ls[b].size + ls[b + 1].size, st)

(* Neighbours with the same status become one line.                        *)
LEMMA JoinEqual ==
  ASSUME NEW ls, NEW e, NEW b, NEW d, NEW st, TwoInOne(ls, e, b, d, st)
  PROVE  /\ RemoveAt(e, d) \in Seq(Line)
         /\ Len(RemoveAt(e, d)) = Len(ls) - 1
         /\ \A k \in 1 .. b - 1 : RemoveAt(e, d)[k] = ls[k]
         /\ RemoveAt(e, d)[b] = Block(ls[b].pos, ls[b].size + ls[b + 1].size, st)
         /\ Tiles(RemoveAt(e, d))
         /\ \A x \in Sectors : StatusAt(RemoveAt(e, d), x) = StatusAt(ls, x)
<1>0. /\ Tiles(ls) /\ b \in 1 .. Len(ls) - 1 /\ st \in Status
      /\ ls[b].status = st /\ ls[b + 1].status = st
      /\ e \in Seq(Line) /\ Len(e) = Len(ls) /\ d \in {b, b + 1}
      /\ \A k \in 1 .. Len(ls) : k # b /\ k # b + 1 => e[k] = ls[k]
      /\ \A c \in {b, b + 1} :
           c # d => e[c] = Block(ls[b].pos, ls[b].size + ls[b + 1].size, st)
  BY DEF TwoInOne
<1> USE <1>0
<1> DEFINE ms == RemoveAt(e, d)
<1>1. /\ Len(ls) \in Nat /\ b \in Nat /\ b > 0 /\ b < Len(ls)
      /\ Len(e) = Len(ls) /\ d \in 1 .. Len(e)
  BY DEF Tiles
<1>2. /\ ms \in Seq(Line) /\ Len(ms) = Len(ls) - 1
      /\ \A k \in 1 .. Len(ls) - 1 : ms[k] = IF k < d THEN e[k] ELSE e[k + 1]
  <2>1. /\ ms \in Seq(Line) /\ Len(ms) = Len(e) - 1
        /\ \A k \in 1 .. Len(e) - 1 : ms[k] = IF k < d THEN e[k] ELSE e[k + 1]
    BY <1>1, RemoveLine
  <2> QED
    BY <1>1, <2>1
<1> HIDE DEF ms
<1>3. \A k \in 1 .. b - 1 : ms[k] = ls[k]
  <2>1. TAKE k \in 1 .. b - 1
  <2>2. k < d /\ k \in 1 .. Len(ls) - 1 /\ k \in 1 .. Len(ls) /\ k # b /\ k # b + 1
    BY <1>1
  <2> QED
    BY <1>2, <2>2
<1>4. ms[b] = Block(ls[b].pos, ls[b].size + ls[b + 1].size, st)
  <2> DEFINE l == Block(ls[b].pos, ls[b].size + ls[b + 1].size, st)
  <2>0. b \in 1 .. Len(ls) - 1 /\ \A c \in {b, b + 1} : c # d => e[c] = l
    OBVIOUS
  <2> HIDE DEF l
  <2>1. CASE d = b
    <3>1. e[b + 1] = l
      BY <1>1, <2>0, <2>1
    <3> QED
      BY <1>1, <1>2, <2>0, <2>1, <3>1 DEF l
  <2>2. CASE d = b + 1
    <3>1. e[b] = l
      BY <1>1, <2>0, <2>2
    <3> QED
      BY <1>1, <1>2, <2>0, <2>2, <3>1 DEF l
  <2> QED
    BY <2>1, <2>2
<1>5. \A k \in b + 1 .. Len(ls) - 1 : ms[k] = ls[k + 1]
  <2>1. TAKE k \in b + 1 .. Len(ls) - 1
  <2>2. ~(k < d) /\ k \in 1 .. Len(ls) - 1
        /\ k + 1 \in 1 .. Len(ls) /\ k + 1 # b /\ k + 1 # b + 1
    BY <1>1
  <2> QED
    BY <1>2, <2>2
<1>6. ms[b] = [pos |-> ls[b].pos, size |-> ls[b].size + ls[b + 1].size, status |-> st]
  BY <1>4 DEF Block
<1>7. /\ Tiles(ms)
      /\ \A x \in Sectors :
           StatusAt(ms, x) =
             IF Holds(ls[b], x) \/ Holds(ls[b + 1], x) THEN st ELSE StatusAt(ls, x)
  BY <1>2, <1>3, <1>5, <1>6, JoinLines
<1>8. \A x \in Sectors : StatusAt(ms, x) = StatusAt(ls, x)
  <2>1. TAKE x \in Sectors
  <2>2. Holds(ls[b], x) \/ Holds(ls[b + 1], x) => StatusAt(ls, x) = st
    <3>1. b \in 1 .. Len(ls) /\ b + 1 \in 1 .. Len(ls)
      BY <1>1
    <3> QED
      BY <3>1, StatusAtFacts
  <2> QED
    BY <1>7, <2>2
<1> QED
  BY <1>2, <1>3, <1>4, <1>7, <1>8 DEF ms

(* The whole block: the block takes the status, then joins its neighbours. *)
LEMMA WholeBlockMarks ==
  ASSUME NEW ls, Tiles(ls), NEW b \in 1 .. Len(ls), NEW st \in Status
  PROVE  MarksChunk(ls, WholeBlock(ls, b, st), ls[b].pos, ls[b].size, st)
<1> DEFINE n == ls[b].size
           marked == [ls EXCEPT ![b] = Block(@.pos, @.size, st)]
           joined == [marked EXCEPT ![b + 1] =
                         Block(@.pos - ls[b].size, @.size + ls[b].size, st)]
           below == IF b < Len(ls) /\ ls[b + 1].status = st
                    THEN RemoveAt(joined, b) ELSE marked
           raised == [below EXCEPT ![b - 1] = Block(@.pos, @.size + below[b].size, st)]
           whole == IF b > 1 /\ ls[b - 1].status = st
                    THEN RemoveAt(raised, b) ELSE below
<1>0. /\ Len(ls) \in Nat /\ b \in Nat /\ b > 0 /\ b <= Len(ls)
      /\ ls[b].pos \in Nat /\ n \in Nat \ {0}
  BY TileFacts DEF Tiles
<1>1. /\ marked \in Seq(Line) /\ Len(marked) = Len(ls)
      /\ marked[b] = Block(ls[b].pos, n, st)
      /\ \A k \in 1 .. Len(ls) : k # b => marked[k] = ls[k]
      /\ MarksChunk(ls, marked, ls[b].pos, n, st)
  BY Restatus
<1>2. marked[b].pos = ls[b].pos /\ marked[b].size = n /\ marked[b].status = st
  BY <1>0, <1>1, BlockFacts
<1> HIDE DEF marked
<1>3. /\ below \in Seq(Line) /\ b <= Len(below)
      /\ below[b].status = st
      /\ \A k \in 1 .. b - 1 : below[k] = ls[k]
      /\ MarksChunk(ls, below, ls[b].pos, n, st)
  <2>1. CASE ~(b < Len(ls) /\ ls[b + 1].status = st)
    <3>1. below = marked
      BY <2>1
    <3>2. \A k \in 1 .. b - 1 : marked[k] = ls[k]
      BY <1>0, <1>1
    <3> HIDE DEF below
    <3> QED
      BY <1>0, <1>1, <1>2, <3>1, <3>2
  <2>2. CASE b < Len(ls) /\ ls[b + 1].status = st
    <3>0. below = RemoveAt(joined, b)
      BY <2>2
    <3>1. /\ b + 1 \in 1 .. Len(marked) /\ b \in 1 .. Len(marked) - 1
          /\ marked[b + 1] = ls[b + 1] /\ Tiles(marked) /\ b \in 1 .. Len(ls) - 1
          /\ b + 1 \in 1 .. Len(ls)
      BY <1>0, <1>1, <2>2 DEF MarksChunk
    <3> DEFINE sum == marked[b].size + marked[b + 1].size
               l == Block(marked[b].pos, sum, st)
    <3>2. /\ ls[b + 1].pos - n = ls[b].pos
          /\ sum \in Nat \ {0}
          /\ ls[b + 1].size + n = sum
      <4>1. EndOf(ls[b]) = ls[b].pos + n /\ EndOf(ls[b]) = ls[b + 1].pos
        BY <3>1, TileFacts, Neighbours
      <4>2. ls[b + 1].size \in Nat /\ ls[b + 1].pos \in Nat
        BY <3>1, TileFacts
      <4> QED
        BY SMTT(30), <1>0, <1>2, <3>1, <4>1, <4>2
    <3>3. joined = [marked EXCEPT ![b + 1] = l]
      BY <1>2, <3>1, <3>2
    <3>4. l \in Line
      BY <1>0, <1>2, <3>2, BlockFacts
    <3> HIDE DEF joined, l, n, sum
    <3>5. /\ joined \in Seq(Line) /\ Len(joined) = Len(marked)
          /\ \A k \in 1 .. Len(marked) : joined[k] = IF k = b + 1 THEN l ELSE marked[k]
      BY <1>1, <3>1, <3>3, <3>4, ExceptLine
    <3>6. /\ \A c \in {b, b + 1} : c # b => joined[c] = l
          /\ \A k \in 1 .. Len(marked) : k # b /\ k # b + 1 => joined[k] = marked[k]
      BY <3>1, <3>5
    <3>7. marked[b + 1].status = st
      BY <2>2, <3>1
    <3>8. /\ below \in Seq(Line)
          /\ Len(below) = Len(marked) - 1
          /\ \A k \in 1 .. b - 1 : below[k] = marked[k]
          /\ below[b] = l
          /\ Tiles(below)
          /\ \A x \in Sectors : StatusAt(below, x) = StatusAt(marked, x)
      <4>1. l = Block(marked[b].pos, marked[b].size + marked[b + 1].size, st)
        BY DEF l, sum
      <4>2. TwoInOne(marked, joined, b, b, st)
        BY ONLY <1>2, <3>1, <3>5, <3>6, <3>7, <4>1, st \in Status DEF TwoInOne
      <4>3. /\ RemoveAt(joined, b) \in Seq(Line)
            /\ Len(RemoveAt(joined, b)) = Len(marked) - 1
            /\ \A k \in 1 .. b - 1 : RemoveAt(joined, b)[k] = marked[k]
            /\ RemoveAt(joined, b)[b] =
                 Block(marked[b].pos, marked[b].size + marked[b + 1].size, st)
            /\ Tiles(RemoveAt(joined, b))
            /\ \A x \in Sectors :
                 StatusAt(RemoveAt(joined, b), x) = StatusAt(marked, x)
        <5> HIDE DEF marked, joined
        <5> QED
          BY ONLY <4>2, JoinEqual
      <4> HIDE DEF l, below, marked, joined
      <4> QED
        BY ONLY <3>0, <4>1, <4>3
    <3> HIDE DEF below
    <3>9. below[b].status = st
      BY <1>0, <1>2, <3>2, <3>8, BlockFacts DEF l
    <3>10. \A k \in 1 .. b - 1 : below[k] = ls[k]
      BY <1>0, <1>1, <3>8
    <3>11. b <= Len(below)
      BY <1>0, <1>1, <2>2, <3>8
    <3> QED
      BY <1>1, <3>8, <3>9, <3>10, <3>11 DEF MarksChunk
  <2> QED
    BY <2>1, <2>2
<1> HIDE DEF below
<1>4. MarksChunk(ls, whole, ls[b].pos, n, st)
  <2>1. CASE ~(b > 1 /\ ls[b - 1].status = st)
    BY <1>3, <2>1
  <2>2. CASE b > 1 /\ ls[b - 1].status = st
    <3> DEFINE a == b - 1
    <3>0. a \in Nat /\ a > 0 /\ a + 1 = b
      BY <1>0, <2>2
    <3>1. /\ a \in 1 .. Len(below) - 1 /\ a \in 1 .. Len(below)
          /\ a + 1 \in 1 .. Len(below) /\ Tiles(below)
      <4>1. Len(below) \in Nat
        BY <1>3 DEF MarksChunk, Tiles
      <4> QED
        BY <1>0, <1>3, <2>2, <4>1 DEF MarksChunk
    <3>2. whole = RemoveAt(raised, a + 1)
      BY <2>2, <3>0
    <3>3. below[a].status = st /\ below[a + 1].status = st
      BY <1>0, <1>3, <2>2, <3>0
    <3>4. /\ below[a].pos \in Nat /\ below[a].size \in Nat /\ below[a].size > 0
          /\ below[a + 1].size \in Nat /\ below[a + 1].size > 0
      BY <3>1, TileFacts
    <3> DEFINE sum == below[a].size + below[a + 1].size
               l == Block(below[a].pos, sum, st)
    <3>5. sum \in Nat \ {0}
      BY <3>4
    <3>6. l \in Line
      BY <3>4, <3>5, BlockFacts
    <3>7. raised = [below EXCEPT ![a] = l]
      BY <3>0, <3>1
    <3> HIDE DEF raised, l, sum, a
    <3>8. /\ raised \in Seq(Line) /\ Len(raised) = Len(below)
          /\ \A k \in 1 .. Len(below) : raised[k] = IF k = a THEN l ELSE below[k]
      BY <1>3, <3>1, <3>6, <3>7, ExceptLine
    <3>9. /\ \A c \in {a, a + 1} : c # a + 1 => raised[c] = l
          /\ \A k \in 1 .. Len(below) : k # a /\ k # a + 1 => raised[k] = below[k]
      BY <3>1, <3>8
    <3>10. /\ Tiles(whole)
           /\ \A x \in Sectors : StatusAt(whole, x) = StatusAt(below, x)
      <4>1. TwoInOne(below, raised, a, a + 1, st)
        <5> HIDE DEF whole
        <5> QED
          BY <3>1, <3>3, <3>8, <3>9 DEF l, sum, TwoInOne
      <4> QED
        BY ONLY <3>2, <4>1, JoinEqual
    <3> HIDE DEF whole
    <3> QED
      BY <1>3, <3>10 DEF MarksChunk
  <2> QED
    BY <2>1, <2>2
<1>5. WholeBlock(ls, b, st) = whole
  BY DEF WholeBlock, whole, below, joined, marked
<1> QED
  BY <1>4, <1>5

-----------------------------------------------------------------------------
(* A line put above what is left of a line, and one put below it.          *)
Replaced(ls, ms, b, upper, lower) ==
  /\ ms \in Seq(Line) /\ Len(ms) = Len(ls) + 1
  /\ \A k \in 1 .. b - 1 : ms[k] = ls[k]
  /\ ms[b] = upper /\ ms[b + 1] = lower
  /\ \A k \in b + 2 .. Len(ls) + 1 : ms[k] = ls[k - 1]

LEMMA InsertedAbove ==
  ASSUME NEW ls \in Seq(Line), NEW b \in 1 .. Len(ls),
         NEW upper \in Line, NEW lower \in Line
  PROVE  Replaced(ls, InsertAt([ls EXCEPT ![b] = lower], b, upper), b, upper, lower)
<1> DEFINE e == [ls EXCEPT ![b] = lower]
           ms == InsertAt(e, b, upper)
<1>0. Len(ls) \in Nat /\ b \in Nat /\ b > 0 /\ b <= Len(ls)
  OBVIOUS
<1>1. /\ e \in Seq(Line) /\ Len(e) = Len(ls)
      /\ \A k \in 1 .. Len(ls) : e[k] = IF k = b THEN lower ELSE ls[k]
  BY ExceptLine
<1> HIDE DEF e
<1>2. b \in 1 .. Len(e) + 1
  BY <1>0, <1>1
<1>3. /\ ms \in Seq(Line) /\ Len(ms) = Len(e) + 1
      /\ \A k \in 1 .. Len(e) + 1 :
           ms[k] = IF k < b THEN e[k] ELSE IF k = b THEN upper ELSE e[k - 1]
  <2>1. e \in Seq(Line) /\ upper \in Line
    BY <1>1
  <2> QED
    BY <1>2, <2>1, InsertLine
<1> HIDE DEF ms
<1>4. \A k \in 1 .. b - 1 : ms[k] = ls[k]
  BY <1>0, <1>1, <1>3
<1>5. ms[b] = upper
  BY <1>0, <1>1, <1>3
<1>6. ms[b + 1] = lower
  <2>1. b + 1 \in 1 .. Len(e) + 1 /\ (b + 1) - 1 = b
    BY <1>0, <1>1
  <2> QED
    BY <1>0, <1>1, <1>3, <2>1
<1>7. \A k \in b + 2 .. Len(ls) + 1 : ms[k] = ls[k - 1]
  <2>1. TAKE k \in b + 2 .. Len(ls) + 1
  <2>2. k \in 1 .. Len(e) + 1 /\ ~(k < b) /\ k # b /\ k - 1 \in 1 .. Len(ls) /\ k - 1 # b
    BY <1>0, <1>1
  <2> QED
    BY <1>1, <1>3, <2>2
<1> QED
  BY <1>1, <1>3, <1>4, <1>5, <1>6, <1>7 DEF Replaced, ms, e

LEMMA InsertedBelow ==
  ASSUME NEW ls \in Seq(Line), NEW b \in 1 .. Len(ls),
         NEW upper \in Line, NEW lower \in Line
  PROVE  Replaced(ls, InsertAt([ls EXCEPT ![b] = upper], b + 1, lower), b, upper, lower)
<1> DEFINE e == [ls EXCEPT ![b] = upper]
           c == b + 1
           ms == InsertAt(e, c, lower)
<1>0. Len(ls) \in Nat /\ b \in Nat /\ b > 0 /\ b <= Len(ls)
  OBVIOUS
<1>1. /\ e \in Seq(Line) /\ Len(e) = Len(ls)
      /\ \A k \in 1 .. Len(ls) : e[k] = IF k = b THEN upper ELSE ls[k]
  BY ExceptLine
<1> HIDE DEF e
<1>2. c \in 1 .. Len(e) + 1 /\ c = b + 1
  BY <1>0, <1>1
<1> HIDE DEF c
<1>3. /\ ms \in Seq(Line) /\ Len(ms) = Len(e) + 1
      /\ \A k \in 1 .. Len(e) + 1 :
           ms[k] = IF k < c THEN e[k] ELSE IF k = c THEN lower ELSE e[k - 1]
  <2>1. e \in Seq(Line) /\ lower \in Line /\ c \in 1 .. Len(e) + 1
    BY <1>1, <1>2
  <2> QED
    BY <2>1, InsertLine
<1> HIDE DEF ms
<1>4. \A k \in 1 .. b - 1 : ms[k] = ls[k]
  <2>1. TAKE k \in 1 .. b - 1
  <2>2. k \in 1 .. Len(e) + 1 /\ k < c /\ k \in 1 .. Len(ls) /\ k # b
    BY <1>0, <1>1, <1>2
  <2> QED
    BY <1>1, <1>3, <2>2
<1>5. ms[b] = upper
  <2>1. b \in 1 .. Len(e) + 1 /\ b < c
    BY <1>0, <1>1, <1>2
  <2> QED
    BY <1>1, <1>3, <2>1
<1>6. ms[b + 1] = lower
  BY <1>2, <1>3
<1>7. \A k \in b + 2 .. Len(ls) + 1 : ms[k] = ls[k - 1]
  <2>1. TAKE k \in b + 2 .. Len(ls) + 1
  <2>2. k \in 1 .. Len(e) + 1 /\ ~(k < c) /\ k # c /\ k - 1 \in 1 .. Len(ls) /\ k - 1 # b
    BY <1>0, <1>1, <1>2
  <2> QED
    BY <1>1, <1>3, <2>2
<1> QED
  BY <1>1, <1>3, <1>4, <1>5, <1>6, <1>7 DEF Replaced, ms, e, c

(* Both give a log again when the two lines share the old line's sectors.  *)
LEMMA CutBlock ==
  ASSUME NEW ls, Tiles(ls), NEW b \in 1 .. Len(ls),
         NEW n \in Nat \ {0}, n < ls[b].size,
         NEW s1 \in Status, NEW s2 \in Status,
         NEW ms, Replaced(ls, ms, b, Block(ls[b].pos, n, s1),
                          Block(ls[b].pos + n, ls[b].size - n, s2))
  PROVE  /\ Tiles(ms)
         /\ \A x \in Sectors :
              StatusAt(ms, x) = IF Holds(ls[b], x)
                                THEN IF x < ls[b].pos + n THEN s1 ELSE s2
                                ELSE StatusAt(ls, x)
<1>1. /\ ms \in Seq(Line) /\ Len(ms) = Len(ls) + 1
      /\ \A k \in 1 .. b - 1 : ms[k] = ls[k]
      /\ \A k \in b + 2 .. Len(ls) + 1 : ms[k] = ls[k - 1]
  BY DEF Replaced
<1>2. /\ ms[b] = [pos |-> ls[b].pos, size |-> n, status |-> s1]
      /\ ms[b + 1] = [pos |-> ls[b].pos + n, size |-> ls[b].size - n, status |-> s2]
  BY DEF Replaced, Block
<1> QED
  BY <1>1, <1>2, SplitLine

-----------------------------------------------------------------------------
(* The chunk starts the block.                                             *)
LEMMA StartOfBlockMarks ==
  ASSUME NEW ls, Tiles(ls), NEW b \in 1 .. Len(ls), NEW st \in Status,
         NEW n \in Nat \ {0}, n < ls[b].size
  PROVE  MarksChunk(ls, StartOfBlock(ls, b, n, st), ls[b].pos, n, st)
<1> DEFINE rest == Block(ls[b].pos + n, ls[b].size - n, ls[b].status)
           ms == StartOfBlock(ls, b, n, st)
<1>1. /\ Len(ls) \in Nat /\ b \in Nat /\ b > 0 /\ b <= Len(ls) /\ ls \in Seq(Line)
      /\ ls[b].pos \in Nat /\ ls[b].size \in Nat /\ ls[b].status \in Status
      /\ EndOf(ls[b]) = ls[b].pos + ls[b].size
  BY TileFacts DEF Tiles
<1>2. ls[b].pos + n \in Nat /\ ls[b].size - n \in Nat \ {0}
  BY <1>1
<1>3. rest \in Line
  BY <1>1, <1>2, BlockFacts
<1>4. CASE b > 1 /\ ls[b - 1].status = st
  <2> DEFINE a == b - 1
             m == ls[a].size + n
             r == ls[b].size - n
             l == Block(ls[a].pos, m, st)
  <2>1. a \in 1 .. Len(ls) - 1 /\ a \in 1 .. Len(ls) /\ a + 1 = b /\ a # b
        /\ a \in Nat
    BY <1>1, <1>4
  <2>0. ls[a].status = st
    BY <1>4
  <2> HIDE DEF a
  <2>2. /\ ls[a].pos \in Nat /\ ls[a].size \in Nat /\ ls[a].size > 0
        /\ EndOf(ls[a]) = ls[a].pos + ls[a].size
    BY <2>1, TileFacts
  <2>3. EndOf(ls[a]) = ls[b].pos
    BY <2>1, Neighbours
  <2>4. /\ m \in Nat \ {0} /\ r \in Nat \ {0} /\ m + r = ls[a].size + ls[b].size
        /\ ls[b].pos + n = ls[a].pos + m
    <3>1. r \in Nat \ {0} /\ m \in Nat \ {0}
      BY SMTT(30), <1>1, <2>2
    <3>2. m + r = ls[a].size + ls[b].size
      BY SMTT(30), <1>1, <2>2
    <3>3. ls[b].pos + n = ls[a].pos + m
      BY SMTT(30), <1>1, <2>2, <2>3
    <3> QED
      BY <3>1, <3>2, <3>3
  <2>5. l \in Line
    BY <2>2, <2>4, BlockFacts
  <2>6. ms = [[ls EXCEPT ![a] = l] EXCEPT ![b] = rest]
    BY <1>4, <2>1 DEF StartOfBlock, a
  <2> HIDE DEF ms, l, rest, m, r
  <2>7. /\ ms \in Seq(Line) /\ Len(ms) = Len(ls)
        /\ \A k \in 1 .. Len(ls) :
             ms[k] = IF k = b THEN rest ELSE IF k = a THEN l ELSE ls[k]
    <3> DEFINE e == [ls EXCEPT ![a] = l]
    <3>1. /\ e \in Seq(Line) /\ Len(e) = Len(ls)
          /\ \A k \in 1 .. Len(ls) : e[k] = IF k = a THEN l ELSE ls[k]
      BY <1>1, <2>1, <2>5, ExceptLine
    <3> HIDE DEF e
    <3>2. ms = [e EXCEPT ![b] = rest] /\ b \in 1 .. Len(e)
      BY <2>6, <3>1 DEF e
    <3>3. /\ ms \in Seq(Line) /\ Len(ms) = Len(e)
          /\ \A k \in 1 .. Len(e) : ms[k] = IF k = b THEN rest ELSE e[k]
      BY <1>3, <3>1, <3>2, ExceptLine
    <3> QED
      BY <3>1, <3>3
  <2>8. /\ ms[a].pos = ls[a].pos /\ ms[a].size = m /\ ms[a].status = st
        /\ ms[b].pos = ls[a].pos + m /\ ms[b].size = r /\ ms[b].status = ls[b].status
    <3>1. ms[a] = l /\ ms[b] = rest
      BY <2>1, <2>7
    <3>2. ms[a].pos = ls[a].pos /\ ms[a].size = m /\ ms[a].status = st
      BY <3>1 DEF l, Block
    <3>3. /\ ms[b].pos = ls[b].pos + n /\ ms[b].size = r
          /\ ms[b].status = ls[b].status
      BY <3>1 DEF rest, r, Block
    <3> QED
      BY <2>4, <3>2, <3>3
  <2>9. \A k \in 1 .. Len(ls) : k # a /\ k # b => ms[k] = ls[k]
    BY <2>7
  <2>10. /\ Tiles(ms)
         /\ \A x \in Sectors :
              StatusAt(ms, x) = IF Holds(ls[a], x) \/ Holds(ls[b], x)
                                THEN IF x < ls[a].pos + m THEN st ELSE ls[b].status
                                ELSE StatusAt(ls, x)
    <3>1. m \in Nat \ {0} /\ r \in Nat \ {0} /\ m + r = ls[a].size + ls[a + 1].size
      BY <2>1, <2>4
    <3>2. BorderMoved(ls, ms, a, m, r)
      BY <2>0, <2>1, <2>7, <2>8, <2>9, <3>1 DEF BorderMoved
    <3>3. /\ Tiles(ms)
          /\ \A x \in Sectors :
               StatusAt(ms, x) = IF Holds(ls[a], x) \/ Holds(ls[a + 1], x)
                                 THEN IF x < ls[a].pos + m
                                      THEN ls[a].status ELSE ls[a + 1].status
                                 ELSE StatusAt(ls, x)
      BY ONLY <3>2, MoveBorder
    <3> QED
      BY <2>0, <2>1, <3>3
  <2>11. ASSUME NEW x \in Sectors
         PROVE  StatusAt(ms, x) = IF ls[b].pos <= x /\ x < ls[b].pos + n
                                  THEN st ELSE StatusAt(ls, x)
    <3>1. x \in Int
      BY LogSizeAssumption DEF Sectors
    <3>2. Holds(ls[a], x) => StatusAt(ls, x) = st
      BY <2>1, <2>0, StatusAtFacts
    <3>3. Holds(ls[b], x) => StatusAt(ls, x) = ls[b].status
      BY StatusAtFacts
    <3>4. Holds(ls[a], x) <=> ls[a].pos <= x /\ x < ls[b].pos
      BY <2>3 DEF Holds
    <3>5. Holds(ls[b], x) <=> ls[b].pos <= x /\ x < ls[b].pos + ls[b].size
      BY <1>1 DEF Holds
    <3>6. /\ StatusAt(ms, x) = IF Holds(ls[a], x) \/ Holds(ls[b], x)
                               THEN IF x < ls[b].pos + n THEN st ELSE ls[b].status
                               ELSE StatusAt(ls, x)
      BY <2>4, <2>10
    <3> QED
      BY <1>1, <3>1, <3>2, <3>3, <3>4, <3>5, <3>6
  <2> QED
    BY <2>10, <2>11 DEF MarksChunk, ms
<1>5. CASE ~(b > 1 /\ ls[b - 1].status = st)
  <2> DEFINE l == Block(ls[b].pos, n, st)
  <2>1. ms = InsertAt([ls EXCEPT ![b] = rest], b, l)
    BY <1>5 DEF StartOfBlock
  <2>2. l \in Line
    BY <1>1, BlockFacts
  <2> HIDE DEF ms
  <2>3. Replaced(ls, ms, b, l, rest)
    <3> HIDE DEF l, rest
    <3> QED
      BY <1>1, <1>3, <2>1, <2>2, InsertedAbove
  <2>4. /\ Tiles(ms)
        /\ \A x \in Sectors :
             StatusAt(ms, x) = IF Holds(ls[b], x)
                               THEN IF x < ls[b].pos + n THEN st ELSE ls[b].status
                               ELSE StatusAt(ls, x)
    <3>1. ls[b].status \in Status
      BY <1>1
    <3>2. Replaced(ls, ms, b, Block(ls[b].pos, n, st),
                   Block(ls[b].pos + n, ls[b].size - n, ls[b].status))
      BY <2>3
    <3> QED
      BY <3>1, <3>2, CutBlock
  <2>5. ASSUME NEW x \in Sectors
        PROVE  StatusAt(ms, x) = IF ls[b].pos <= x /\ x < ls[b].pos + n
                                 THEN st ELSE StatusAt(ls, x)
    <3>1. x \in Int
      BY LogSizeAssumption DEF Sectors
    <3>2. Holds(ls[b], x) => StatusAt(ls, x) = ls[b].status
      BY StatusAtFacts
    <3>3. Holds(ls[b], x) <=> ls[b].pos <= x /\ x < ls[b].pos + ls[b].size
      BY <1>1 DEF Holds
    <3> QED
      BY <1>1, <2>4, <3>1, <3>2, <3>3
  <2> QED
    BY <2>4, <2>5 DEF MarksChunk, ms
<1> QED
  BY <1>4, <1>5

(* The chunk ends the block.                                               *)
LEMMA EndOfBlockMarks ==
  ASSUME NEW ls, Tiles(ls), NEW b \in 1 .. Len(ls), NEW st \in Status,
         NEW n \in Nat \ {0}, n < ls[b].size
  PROVE  MarksChunk(ls, EndOfBlock(ls, b, n, st), EndOf(ls[b]) - n, n, st)
<1> DEFINE m == ls[b].size - n
           rest == Block(ls[b].pos, m, ls[b].status)
           ms == EndOfBlock(ls, b, n, st)
<1>1. /\ Len(ls) \in Nat /\ b \in Nat /\ b > 0 /\ b <= Len(ls) /\ ls \in Seq(Line)
      /\ ls[b].pos \in Nat /\ ls[b].size \in Nat /\ ls[b].status \in Status
      /\ EndOf(ls[b]) = ls[b].pos + ls[b].size
  BY TileFacts DEF Tiles
<1>2. /\ m \in Nat \ {0} /\ m < ls[b].size /\ ls[b].size - m = n
      /\ EndOf(ls[b]) - n = ls[b].pos + m
  BY <1>1
<1>3. rest \in Line
  BY <1>1, <1>2, BlockFacts
<1> HIDE DEF m
<1>4. ASSUME NEW x \in Sectors
      PROVE  /\ x \in Int
             /\ EndOf(ls[b]) - n <= x /\ x < (EndOf(ls[b]) - n) + n
                  <=> ls[b].pos + m <= x /\ x < ls[b].pos + ls[b].size
             /\ Holds(ls[b], x) <=> ls[b].pos <= x /\ x < ls[b].pos + ls[b].size
             /\ Holds(ls[b], x) => StatusAt(ls, x) = ls[b].status
  <2>1. x \in Int
    BY LogSizeAssumption DEF Sectors
  <2>2. (EndOf(ls[b]) - n) + n = ls[b].pos + ls[b].size
    BY <1>1
  <2>3. Holds(ls[b], x) <=> ls[b].pos <= x /\ x < ls[b].pos + ls[b].size
    BY <1>1 DEF Holds
  <2> QED
    BY <1>2, <2>1, <2>2, <2>3, StatusAtFacts
<1>5. CASE b < Len(ls) /\ ls[b + 1].status = st
  <2> DEFINE c == b + 1
             r == ls[c].size + n
             l == Block(ls[c].pos - n, r, st)
  <2>1. b \in 1 .. Len(ls) - 1 /\ c \in 1 .. Len(ls) /\ c # b /\ c = b + 1 /\ c \in Nat
    BY <1>1, <1>5
  <2>2. ls[c].status = st
    BY <1>5
  <2> HIDE DEF c
  <2>3. /\ ls[c].pos \in Nat /\ ls[c].size \in Nat
        /\ EndOf(ls[c]) = ls[c].pos + ls[c].size
    BY <2>1, TileFacts
  <2>4. EndOf(ls[b]) = ls[c].pos
    BY <2>1, Neighbours
  <2>5. ls[c].pos - n = ls[b].pos + m /\ ls[c].pos - n \in Nat
    BY <1>1, <1>2, <2>4
  <2>6. r \in Nat \ {0} /\ m + r = ls[b].size + ls[c].size
    <3>1. r \in Nat \ {0}
      BY <2>3
    <3>2. ls[b].size = m + n
      BY <1>1 DEF m
    <3> QED
      BY <1>2, <2>3, <3>1, <3>2
  <2>7. l \in Line
    BY <2>5, <2>6, BlockFacts
  <2>8. ms = [[ls EXCEPT ![b] = rest] EXCEPT ![c] = l]
    BY <1>5, <2>1 DEF EndOfBlock, m
  <2> HIDE DEF ms, rest, l, r
  <2>9. /\ ms \in Seq(Line) /\ Len(ms) = Len(ls)
        /\ \A k \in 1 .. Len(ls) :
             ms[k] = IF k = c THEN l ELSE IF k = b THEN rest ELSE ls[k]
    <3> DEFINE e == [ls EXCEPT ![b] = rest]
    <3>1. /\ e \in Seq(Line) /\ Len(e) = Len(ls)
          /\ \A k \in 1 .. Len(ls) : e[k] = IF k = b THEN rest ELSE ls[k]
      BY <1>1, <1>3, ExceptLine
    <3> HIDE DEF e
    <3>2. ms = [e EXCEPT ![c] = l] /\ c \in 1 .. Len(e)
      BY <2>1, <2>8, <3>1 DEF e
    <3>3. /\ ms \in Seq(Line) /\ Len(ms) = Len(e)
          /\ \A k \in 1 .. Len(e) : ms[k] = IF k = c THEN l ELSE e[k]
      BY <2>7, <3>1, <3>2, ExceptLine
    <3> QED
      BY <3>1, <3>3
  <2>10. BorderMoved(ls, ms, b, m, r)
    <3>1. ms[b] = rest /\ ms[b + 1] = l
      BY <2>1, <2>9
    <3>2. ms[b].pos = ls[b].pos /\ ms[b].size = m /\ ms[b].status = ls[b].status
      BY <3>1 DEF rest, Block
    <3>3. /\ ms[b + 1].pos = ls[c].pos - n /\ ms[b + 1].size = r
          /\ ms[b + 1].status = st
      BY <3>1 DEF l, Block
    <3>4. ls[b + 1].status = st /\ ls[c].pos - n = ls[b].pos + m
      BY <2>1, <2>2, <2>5
    <3>5. \A k \in 1 .. Len(ls) : k # b /\ k # b + 1 => ms[k] = ls[k]
      BY <2>1, <2>9
    <3>6. m \in Nat \ {0} /\ r \in Nat \ {0} /\ m + r = ls[b].size + ls[b + 1].size
      BY <1>2, <2>1, <2>6
    <3> QED
      BY <2>1, <2>9, <3>2, <3>3, <3>4, <3>5, <3>6 DEF BorderMoved
  <2>11. /\ Tiles(ms)
         /\ \A x \in Sectors :
              StatusAt(ms, x) = IF Holds(ls[b], x) \/ Holds(ls[b + 1], x)
                                THEN IF x < ls[b].pos + m
                                     THEN ls[b].status ELSE ls[b + 1].status
                                ELSE StatusAt(ls, x)
    BY ONLY <2>10, MoveBorder
  <2>12. ASSUME NEW x \in Sectors
         PROVE  StatusAt(ms, x) = IF EndOf(ls[b]) - n <= x /\ x < (EndOf(ls[b]) - n) + n
                                  THEN st ELSE StatusAt(ls, x)
    <3>1. Holds(ls[c], x) => StatusAt(ls, x) = st
      BY <2>1, <2>2, StatusAtFacts
    <3>2. Holds(ls[c], x) <=> ls[b].pos + ls[b].size <= x /\ x < EndOf(ls[c])
      BY <1>1, <2>4 DEF Holds
    <3>3. /\ StatusAt(ms, x) = IF Holds(ls[b], x) \/ Holds(ls[c], x)
                               THEN IF x < ls[b].pos + m THEN ls[b].status ELSE st
                               ELSE StatusAt(ls, x)
      BY <2>1, <2>2, <2>11
    <3> QED
      BY <1>1, <1>2, <1>4, <3>1, <3>2, <3>3
  <2> QED
    BY <2>11, <2>12 DEF MarksChunk, ms
<1>6. CASE ~(b < Len(ls) /\ ls[b + 1].status = st)
  <2> DEFINE l == Block(ls[b].pos + m, ls[b].size - m, st)
  <2>1. ms = InsertAt([ls EXCEPT ![b] = rest], b + 1, l)
    BY <1>2, <1>6 DEF EndOfBlock, m
  <2>2. l \in Line
    <3>1. ls[b].pos + m \in Nat /\ ls[b].size - m \in Nat \ {0}
      BY <1>1, <1>2
    <3> QED
      BY <3>1, BlockFacts
  <2> HIDE DEF ms
  <2>3. Replaced(ls, ms, b, rest, l)
    <3> HIDE DEF l, rest
    <3> QED
      BY <1>1, <1>3, <2>1, <2>2, InsertedBelow
  <2>4. /\ Tiles(ms)
        /\ \A x \in Sectors :
             StatusAt(ms, x) = IF Holds(ls[b], x)
                               THEN IF x < ls[b].pos + m THEN ls[b].status ELSE st
                               ELSE StatusAt(ls, x)
    <3>1. ls[b].status \in Status /\ m \in Nat \ {0} /\ m < ls[b].size
      BY <1>1, <1>2
    <3>2. Replaced(ls, ms, b, Block(ls[b].pos, m, ls[b].status),
                   Block(ls[b].pos + m, ls[b].size - m, st))
      BY <2>3
    <3> QED
      BY <3>1, <3>2, CutBlock, SMTT(60)
  <2>5. ASSUME NEW x \in Sectors
        PROVE  StatusAt(ms, x) = IF EndOf(ls[b]) - n <= x /\ x < (EndOf(ls[b]) - n) + n
                                 THEN st ELSE StatusAt(ls, x)
    <3>1. ls[b].pos <= ls[b].pos + m
      BY <1>1, <1>2
    <3>2. CASE Holds(ls[b], x)
      <4>1. StatusAt(ms, x) = IF x < ls[b].pos + m THEN ls[b].status ELSE st
        BY <2>4, <3>2
      <4>2. CASE x < ls[b].pos + m
        BY <1>1, <1>2, <1>4, <3>2, <4>1, <4>2
      <4>3. CASE ~(x < ls[b].pos + m)
        BY <1>1, <1>2, <1>4, <3>2, <4>1, <4>3
      <4> QED
        BY <4>2, <4>3
    <3>3. CASE ~Holds(ls[b], x)
      <4>1. ~(ls[b].pos + m <= x /\ x < ls[b].pos + ls[b].size)
        BY <1>1, <1>2, <1>4, <3>1, <3>3
      <4>2. ~(EndOf(ls[b]) - n <= x /\ x < (EndOf(ls[b]) - n) + n)
        BY <1>4, <4>1
      <4>3. StatusAt(ms, x) = StatusAt(ls, x)
        BY <2>4, <3>3
      <4> QED
        BY <4>2, <4>3
    <3> QED
      BY <3>2, <3>3
  <2> QED
    BY <2>4, <2>5 DEF MarksChunk, ms
<1> QED
  BY <1>5, <1>6

(* The chunk is inside the block: the same as cutting twice.               *)
LEMMA InsideBlockMarks ==
  ASSUME NEW ls, Tiles(ls), NEW b \in 1 .. Len(ls), NEW st \in Status,
         NEW p \in Nat, NEW n \in Nat \ {0},
         ls[b].pos < p, p + n < EndOf(ls[b])
  PROVE  MarksChunk(ls, InsideBlock(ls, b, p, n, st), p, n, st)
<1> DEFINE old == ls[b].status
           m == p - ls[b].pos
           before == Block(ls[b].pos, m, old)
           tail == Block(p, EndOf(ls[b]) - p, old)
           mid == Block(p, n, st)
           after == Block(p + n, EndOf(ls[b]) - (p + n), old)
           cut == InsertAt([ls EXCEPT ![b] = tail], b, before)
           two == InsertAt([ls EXCEPT ![b] = after], b, mid)
           ms == InsertAt(two, b, before)
<1>1. /\ Len(ls) \in Nat /\ b \in Nat /\ b > 0 /\ b <= Len(ls) /\ ls \in Seq(Line)
      /\ ls[b].pos \in Nat /\ ls[b].size \in Nat /\ old \in Status
      /\ EndOf(ls[b]) = ls[b].pos + ls[b].size /\ EndOf(ls[b]) \in Nat
  BY TileFacts DEF Tiles
<1>2. /\ m \in Nat \ {0} /\ m < ls[b].size /\ ls[b].pos + m = p
      /\ ls[b].size - m = EndOf(ls[b]) - p
  BY SMTT(30), <1>1
<1>3. /\ EndOf(ls[b]) - p \in Nat \ {0} /\ n < EndOf(ls[b]) - p /\ p + n \in Nat
      /\ EndOf(ls[b]) - (p + n) \in Nat \ {0}
      /\ EndOf(ls[b]) - (p + n) = (EndOf(ls[b]) - p) - n
  BY <1>1
<1>4. before \in Line /\ tail \in Line /\ mid \in Line /\ after \in Line
  <2> HIDE DEF m, old
  <2> QED
    BY <1>1, <1>2, <1>3, BlockFacts
<1>5. Replaced(ls, cut, b, before, tail)
  <2> HIDE DEF before, tail
  <2> QED
    BY <1>1, <1>4, InsertedAbove
<1>6. Replaced(ls, two, b, mid, after)
  <2> HIDE DEF mid, after
  <2> QED
    BY <1>1, <1>4, InsertedAbove
<1>7. tail.pos = p /\ tail.size = EndOf(ls[b]) - p
  BY DEF Block
<1> HIDE DEF cut, two, old, m
<1>8. /\ Tiles(cut)
      /\ \A x \in Sectors : StatusAt(cut, x) = StatusAt(ls, x)
  <2>1. Replaced(ls, cut, b, Block(ls[b].pos, m, old),
                 Block(ls[b].pos + m, ls[b].size - m, old))
    BY <1>2, <1>5
  <2>2. /\ Tiles(cut)
        /\ \A x \in Sectors :
             StatusAt(cut, x) = IF Holds(ls[b], x)
                                THEN IF x < ls[b].pos + m THEN old ELSE old
                                ELSE StatusAt(ls, x)
    <3>1. m \in Nat \ {0} /\ m < ls[b].size /\ old \in Status
      BY <1>1, <1>2
    <3> QED
      BY <2>1, <3>1, CutBlock, SMTT(60)
  <2> QED
    BY <2>2, StatusAtFacts DEF old
<1> HIDE DEF before, tail, mid, after
<1>9. /\ cut \in Seq(Line) /\ Len(cut) = Len(ls) + 1
      /\ \A k \in 1 .. b - 1 : cut[k] = ls[k]
      /\ cut[b] = before /\ cut[b + 1] = tail
      /\ \A k \in b + 2 .. Len(ls) + 1 : cut[k] = ls[k - 1]
  BY <1>5 DEF Replaced
<1>10. /\ two \in Seq(Line) /\ Len(two) = Len(ls) + 1
       /\ \A k \in 1 .. b - 1 : two[k] = ls[k]
       /\ two[b] = mid /\ two[b + 1] = after
       /\ \A k \in b + 2 .. Len(ls) + 1 : two[k] = ls[k - 1]
  BY <1>6 DEF Replaced
<1>11. /\ ms \in Seq(Line) /\ Len(ms) = Len(two) + 1
       /\ \A k \in 1 .. Len(two) + 1 :
            ms[k] = IF k < b THEN two[k] ELSE IF k = b THEN before ELSE two[k - 1]
  <2>1. two \in Seq(Line) /\ before \in Line /\ b \in 1 .. Len(two) + 1
    BY <1>1, <1>4, <1>10
  <2> QED
    BY <2>1, InsertLine
<1>12. InsideBlock(ls, b, p, n, st) = ms
  BY DEF InsideBlock, ms, two, before, mid, after, m, old
<1> HIDE DEF ms
<1> DEFINE c == b + 1
<1>13. Replaced(cut, ms, c, mid, after)
  <2>1. ms \in Seq(Line) /\ Len(ms) = Len(cut) + 1
    BY <1>9, <1>10, <1>11
  <2>2. ASSUME NEW k \in 1 .. c - 1
        PROVE  ms[k] = cut[k]
    <3>1. k \in 1 .. Len(two) + 1 /\ (k = b \/ k \in 1 .. b - 1)
      BY <1>1, <1>10
    <3>2. CASE k = b
      BY <1>9, <1>11, <3>1, <3>2
    <3>3. CASE k \in 1 .. b - 1
      <4>1. k < b /\ k \in 1 .. Len(two) + 1
        BY <1>1, <3>1, <3>3
      <4>2. ms[k] = two[k]
        BY <1>11, <4>1
      <4> QED
        BY <1>9, <1>10, <3>3, <4>2
    <3> QED
      BY <3>1, <3>2, <3>3
  <2>3. ms[c] = mid
    <3>1. c \in 1 .. Len(two) + 1 /\ ~(c < b) /\ c # b /\ c - 1 = b
      BY <1>1, <1>10
    <3> QED
      BY <1>10, <1>11, <3>1
  <2>4. ms[c + 1] = after
    <3>1. c + 1 \in 1 .. Len(two) + 1 /\ ~(c + 1 < b) /\ c + 1 # b /\ (c + 1) - 1 = b + 1
      BY <1>1, <1>10
    <3> QED
      BY <1>10, <1>11, <3>1
  <2>5. ASSUME NEW k \in c + 2 .. Len(cut) + 1
        PROVE  ms[k] = cut[k - 1]
    <3>1. /\ k \in 1 .. Len(two) + 1 /\ ~(k < b) /\ k # b
          /\ k - 1 \in b + 2 .. Len(ls) + 1
      BY <1>1, <1>9, <1>10
    <3>2. ms[k] = two[k - 1]
      BY <1>11, <3>1
    <3>3. two[k - 1] = ls[(k - 1) - 1] /\ cut[k - 1] = ls[(k - 1) - 1]
      BY <1>9, <1>10, <3>1
    <3> QED
      BY <3>2, <3>3
  <2> QED
    BY <2>1, <2>2, <2>3, <2>4, <2>5 DEF Replaced
<1>14. /\ c \in 1 .. Len(cut) /\ cut[c] = tail
       /\ cut[c].pos = p /\ cut[c].size = EndOf(ls[b]) - p
  BY <1>1, <1>7, <1>9
<1> HIDE DEF c
<1>15. /\ Tiles(ms)
       /\ \A x \in Sectors :
            StatusAt(ms, x) = IF Holds(cut[c], x)
                              THEN IF x < p + n THEN st ELSE old
                              ELSE StatusAt(cut, x)
  <2>1. Replaced(cut, ms, c, Block(cut[c].pos, n, st),
                 Block(cut[c].pos + n, cut[c].size - n, old))
    BY <1>3, <1>13, <1>14 DEF mid, after
  <2>2. n < cut[c].size /\ old \in Status /\ c \in 1 .. Len(cut)
    BY <1>1, <1>3, <1>14
  <2>3. /\ Tiles(ms)
        /\ \A x \in Sectors :
             StatusAt(ms, x) = IF Holds(cut[c], x)
                               THEN IF x < cut[c].pos + n THEN st ELSE old
                               ELSE StatusAt(cut, x)
    BY <1>8, <2>1, <2>2, CutBlock, SMTT(60)
  <2> QED
    BY <1>14, <2>3
<1>16. ASSUME NEW x \in Sectors
       PROVE  StatusAt(ms, x) = IF p <= x /\ x < p + n THEN st ELSE StatusAt(ls, x)
  <2>1. x \in Int
    BY LogSizeAssumption DEF Sectors
  <2>2. Holds(cut[c], x) <=> p <= x /\ x < EndOf(ls[b])
    <3>1. EndOf(cut[c]) = EndOf(ls[b])
      BY <1>1, <1>14 DEF EndOf
    <3> QED
      BY <1>14, <3>1 DEF Holds
  <2>3. Holds(cut[c], x) => StatusAt(ls, x) = old
    <3>1. tail.status = old
      BY DEF tail, Block
    <3>2. Holds(cut[c], x) => StatusAt(cut, x) = old
      BY <1>8, <1>14, <3>1, StatusAtFacts
    <3> QED
      BY <1>8, <3>2
  <2>4. CASE Holds(cut[c], x)
    BY <1>1, <1>15, <2>1, <2>2, <2>3, <2>4
  <2>5. CASE ~Holds(cut[c], x)
    <3>1. ~(p <= x /\ x < p + n)
      BY <1>1, <2>1, <2>2, <2>5
    <3> QED
      BY <1>8, <1>15, <2>5, <3>1
  <2> QED
    BY <2>4, <2>5
<1> QED
  BY <1>12, <1>15, <1>16 DEF MarksChunk

(* change_chunk_status_ccc gives the status to the chunk and leaves every  *)
(* other sector alone, whatever the log around the chunk looks like.       *)
LEMMA MarkedMarks ==
  ASSUME NEW ls, Tiles(ls), NEW b \in 1 .. Len(ls), NEW st \in Status,
         NEW p \in Nat, NEW n \in Nat \ {0},
         ls[b].pos <= p, p + n <= EndOf(ls[b])
  PROVE  MarksChunk(ls, Marked(ls, b, p, n, st), p, n, st)
<1>1. /\ ls[b].pos \in Nat /\ ls[b].size \in Nat
      /\ EndOf(ls[b]) = ls[b].pos + ls[b].size
  BY TileFacts
<1>2. CASE p = ls[b].pos /\ n = ls[b].size
  BY <1>2, WholeBlockMarks DEF Marked
<1>3. CASE p = ls[b].pos /\ n # ls[b].size
  <2>1. n < ls[b].size
    BY <1>1, <1>3
  <2> QED
    BY <1>3, <2>1, StartOfBlockMarks DEF Marked
<1>4. CASE p # ls[b].pos /\ p + n = EndOf(ls[b])
  <2>1. n < ls[b].size /\ p = EndOf(ls[b]) - n
    BY <1>1, <1>4
  <2>2. Marked(ls, b, p, n, st) = EndOfBlock(ls, b, n, st)
    BY <1>4 DEF Marked
  <2> QED
    BY <2>1, <2>2, EndOfBlockMarks
<1>5. CASE p # ls[b].pos /\ p + n # EndOf(ls[b])
  <2>1. ls[b].pos < p /\ p + n < EndOf(ls[b])
    BY <1>1, <1>5
  <2> QED
    BY <1>5, <2>1, InsideBlockMarks DEF Marked
<1> QED
  BY <1>2, <1>3, <1>4, <1>5

-----------------------------------------------------------------------------
(* A chunk that fits in its block lies in the source and has one status.   *)
LEMMA ChunkFacts ==
  ASSUME NEW ls, Tiles(ls), NEW p \in 0 .. Size, NEW n \in 1 .. Size, NEW s \in Status,
         NEW b, b = FindBlock(ls, p), Fits(ls, b, p, n)
  PROVE  /\ b \in 1 .. Len(ls)
         /\ \A x \in p .. p + n - 1 : x \in Sectors /\ StatusAt(ls, x) = ls[b].status
         /\ Keep(ls[b].status, s) \in Status
         /\ MarksChunk(ls, Marked(ls, b, p, n, Keep(ls[b].status, s)), p, n,
                       Keep(ls[b].status, s))
<1>0. Size \in Nat /\ p \in Nat /\ n \in Nat \ {0}
  BY LogSizeAssumption
<1>1. b \in 1 .. Len(ls) /\ Holds(ls[b], p) /\ p + n <= EndOf(ls[b])
  BY DEF FindBlock, Fits
<1>2. /\ ls[b].pos \in Nat /\ EndOf(ls[b]) \in Nat /\ EndOf(ls[b]) <= Size
      /\ ls[b].status \in Status /\ ls[b].pos <= p
  BY <1>1, TileFacts DEF Holds
<1>3. ASSUME NEW x \in p .. p + n - 1
      PROVE  x \in Sectors /\ StatusAt(ls, x) = ls[b].status
  <2>1. x \in Sectors
    BY <1>0, <1>1, <1>2 DEF Sectors
  <2>2. Holds(ls[b], x)
    BY <1>0, <1>1, <1>2 DEF Holds
  <2> QED
    BY <1>1, <2>1, <2>2, StatusAtFacts
<1>4. Keep(ls[b].status, s) \in Status
  <2>1. /\ s.kind \in Kinds /\ s.head \in BOOLEAN /\ s.skip \in Skips
        /\ ls[b].status.head \in BOOLEAN /\ ls[b].status.skip \in Skips
    BY <1>2 DEF Status
  <2> QED
    BY <2>1 DEF Keep, Status
<1>5. MarksChunk(ls, Marked(ls, b, p, n, Keep(ls[b].status, s)), p, n,
                 Keep(ls[b].status, s))
  BY <1>0, <1>1, <1>2, <1>4, MarkedMarks
<1> QED
  BY <1>1, <1>3, <1>4, <1>5

(* A new log is one line.                                                  *)
LEMMA NewLogFacts ==
  Tiles(NewLog) /\ \A x \in Sectors : StatusAt(NewLog, x) = Plain("NONTRIED")
<1> DEFINE l == Block(0, Size, Plain("NONTRIED"))
<1>1. Plain("NONTRIED") \in Status
  BY LogKindsAssumption, LogSkipsAssumption DEF Plain, Status
<1>2. /\ l \in Line /\ l.pos = 0 /\ l.size = Size /\ l.status = Plain("NONTRIED")
      /\ Size \in Nat
  BY <1>1, LogSizeAssumption, BlockFacts
<1> HIDE DEF l
<1>3. NewLog = <<l>>
  BY DEF NewLog, l
<1>4. NewLog \in Seq(Line) /\ Len(NewLog) = 1 /\ NewLog[1] = l
  BY <1>2, <1>3
<1>5. EndOf(l) = Size
  BY <1>2 DEF EndOf
<1>6. \A x \in Sectors : Holds(NewLog[1], x)
  BY <1>2, <1>4, <1>5 DEF Holds, Sectors
<1>7. Tiles(NewLog)
  BY <1>2, <1>4, <1>5, <1>6 DEF Tiles
<1>8. ASSUME NEW x \in Sectors
      PROVE  StatusAt(NewLog, x) = Plain("NONTRIED")
  <2>1. 1 \in 1 .. Len(NewLog) /\ Holds(NewLog[1], x)
    BY <1>4, <1>6
  <2>2. StatusAt(NewLog, x) = NewLog[1].status
    BY <1>7, <2>1, StatusAtFacts
  <2> QED
    BY <1>2, <1>4, <2>2
<1> QED
  BY <1>7, <1>8

(* A reset changes the statuses line by line.                              *)
LEMMA ResetFacts ==
  ASSUME NEW ls, Tiles(ls),
         NEW ms, ms = [k \in 1 .. Len(ls) |->
                         Block(ls[k].pos, ls[k].size, Forget(ls[k].status))]
  PROVE  /\ Tiles(ms) /\ Len(ms) = Len(ls)
         /\ \A x \in Sectors : StatusAt(ms, x) = Forget(StatusAt(ls, x))
<1>0. Len(ls) \in Nat
  BY DEF Tiles
<1>1. ASSUME NEW k \in 1 .. Len(ls)
      PROVE  /\ Forget(ls[k].status) \in Status
             /\ ms[k] = Block(ls[k].pos, ls[k].size, Forget(ls[k].status))
             /\ ms[k] \in Line /\ ms[k].pos = ls[k].pos /\ EndOf(ms[k]) = EndOf(ls[k])
             /\ ms[k].status = Forget(ls[k].status)
  <2>1. Forget(ls[k].status) \in Status
    BY LogKindsAssumption, LogSkipsAssumption DEF Forget, Plain, Status
  <2>2. ms[k] = Block(ls[k].pos, ls[k].size, Forget(ls[k].status))
    OBVIOUS
  <2>3. ls[k].pos \in Nat /\ ls[k].size \in Nat \ {0}
    BY TileFacts
  <2> QED
    BY <2>1, <2>2, <2>3, BlockFacts DEF EndOf
<1>2. ms \in Seq(Line) /\ Len(ms) = Len(ls)
  <2>1. ms = [k \in 1 .. Len(ls) |-> ms[k]]
    OBVIOUS
  <2>2. ms \in [1 .. Len(ls) -> Line]
    BY <1>1, <2>1
  <2>3. ms \in Seq(Line)
    BY <1>0, <2>2, SeqDef
  <2> QED
    BY <1>0, <2>2, <2>3, LenProperties
<1>3. Tiles(ms)
  BY <1>1, <1>2 DEF Tiles, Holds
<1>4. ASSUME NEW x \in Sectors
      PROVE  StatusAt(ms, x) = Forget(StatusAt(ls, x))
  <2>1. PICK q \in 1 .. Len(ls) : Holds(ls[q], x) /\ q = FindBlock(ls, x)
    BY FindBlockFacts
  <2>2. Holds(ms[q], x) /\ q \in 1 .. Len(ms)
    BY <1>1, <1>2, <2>1 DEF Holds
  <2> QED
    BY <1>1, <1>3, <2>1, <2>2, StatusAtFacts DEF StatusAt
<1> QED
  BY <1>2, <1>3, <1>4

(* One merge of the merging loop.                                          *)
LEMMA MergeFacts ==
  ASSUME NEW ls, Tiles(ls), NEW b \in Nat \ {0}, b < Len(ls),
         ls[b].status = ls[b + 1].status,
         NEW ms, ms = RemoveAt([ls EXCEPT ![b] =
                                 Block(@.pos, @.size + ls[b + 1].size, @.status)], b + 1)
  PROVE  /\ Tiles(ms) /\ Len(ms) = Len(ls) - 1
         /\ \A k \in 1 .. b : ms[k].status = ls[k].status
         /\ \A k \in b + 1 .. Len(ls) - 1 : ms[k] = ls[k + 1]
         /\ \A x \in Sectors : StatusAt(ms, x) = StatusAt(ls, x)
<1> DEFINE st == ls[b].status
           sum == ls[b].size + ls[b + 1].size
           l == Block(ls[b].pos, sum, st)
           e == [ls EXCEPT ![b] = l]
           d == b + 1
<1>1. /\ Len(ls) \in Nat /\ b \in 1 .. Len(ls) - 1 /\ b \in 1 .. Len(ls)
      /\ d \in 1 .. Len(ls) /\ ls \in Seq(Line)
  BY DEF Tiles
<1>2. /\ ls[b].pos \in Nat /\ ls[b].size \in Nat /\ ls[b].size > 0 /\ st \in Status
      /\ ls[b + 1].size \in Nat /\ ls[b + 1].size > 0
  BY <1>1, TileFacts
<1>3. sum \in Nat \ {0}
  BY <1>2
<1>4. l \in Line
  BY <1>2, <1>3, BlockFacts
<1>5. ms = RemoveAt(e, d)
  BY <1>1
<1> HIDE DEF l, sum
<1>6. /\ e \in Seq(Line) /\ Len(e) = Len(ls)
      /\ \A k \in 1 .. Len(ls) : e[k] = IF k = b THEN l ELSE ls[k]
  BY <1>1, <1>4, ExceptLine
<1> HIDE DEF e, d
<1>7. /\ d \in {b, b + 1}
      /\ \A k \in 1 .. Len(ls) : k # b /\ k # b + 1 => e[k] = ls[k]
      /\ \A c \in {b, b + 1} : c # d => e[c] = l
  BY <1>1, <1>6 DEF d
<1>8. /\ Len(RemoveAt(e, d)) = Len(ls) - 1
      /\ \A k \in 1 .. b - 1 : RemoveAt(e, d)[k] = ls[k]
      /\ RemoveAt(e, d)[b] = l
      /\ Tiles(RemoveAt(e, d))
      /\ \A x \in Sectors : StatusAt(RemoveAt(e, d), x) = StatusAt(ls, x)
  <2>1. \A c \in {b, b + 1} : c # d =>
           e[c] = Block(ls[b].pos, ls[b].size + ls[b + 1].size, st)
    BY <1>7 DEF l, sum
  <2>2. ls[b].status = st /\ ls[b + 1].status = st
    OBVIOUS
  <2> HIDE DEF st
  <2>3. st \in Status /\ b \in 1 .. Len(ls) - 1 /\ d \in {b, b + 1}
    BY <1>1, <1>2, <1>7
  <2>4. e \in Seq(Line) /\ Len(e) = Len(ls)
    BY <1>6
  <2>5. \A k \in 1 .. Len(ls) : k # b /\ k # b + 1 => e[k] = ls[k]
    BY <1>7
  <2>6. TwoInOne(ls, e, b, d, st)
    BY ONLY <2>1, <2>2, <2>3, <2>4, <2>5, Tiles(ls) DEF TwoInOne
  <2>7. l = Block(ls[b].pos, ls[b].size + ls[b + 1].size, st)
    BY DEF l, sum
  <2> DEFINE m == RemoveAt(e, d)
  <2>8. /\ m \in Seq(Line) /\ Len(m) = Len(ls) - 1
        /\ \A k \in 1 .. b - 1 : m[k] = ls[k]
        /\ m[b] = Block(ls[b].pos, ls[b].size + ls[b + 1].size, st)
        /\ Tiles(m)
        /\ \A x \in Sectors : StatusAt(m, x) = StatusAt(ls, x)
    BY ONLY <2>6, JoinEqual
  <2> QED
    BY ONLY <2>7, <2>8
<1>9. \A k \in b + 1 .. Len(ls) - 1 : ms[k] = ls[k + 1]
  <2>1. \A k \in 1 .. Len(e) - 1 : RemoveAt(e, d)[k] = IF k < d THEN e[k] ELSE e[k + 1]
    <3>1. e \in Seq(Line)
      BY <1>6
    <3>2. d \in 1 .. Len(e)
      BY <1>1, <1>6, <1>7
    <3> QED
      BY ONLY <3>1, <3>2, RemoveLine
  <2>2. TAKE k \in b + 1 .. Len(ls) - 1
  <2>3. /\ k \in 1 .. Len(e) - 1 /\ ~(k < d) /\ k + 1 \in 1 .. Len(ls)
        /\ k + 1 # b
    BY <1>1, <1>6 DEF d
  <2> QED
    BY <1>5, <1>6, <2>1, <2>3
<1>10. \A k \in 1 .. b : ms[k].status = ls[k].status
  <2>1. TAKE k \in 1 .. b
  <2>2. CASE k = b
    BY <1>5, <1>8, <2>2 DEF l, Block
  <2>3. CASE k # b
    <3>1. k \in 1 .. b - 1
      BY <1>1, <2>3
    <3> QED
      BY <1>5, <1>8, <3>1
  <2> QED
    BY <2>2, <2>3
<1> QED
  BY <1>5, <1>8, <1>9, <1>10
-----------------------------------------------------------------------------
(* After a mark the chunk is in one line, whatever was joined.             *)
InLine(ls, p, n) == \E k \in 1 .. Len(ls) : ls[k].pos <= p /\ p + n <= EndOf(ls[k])

LEMMA StartOfBlockInLine ==
  ASSUME NEW ls, Tiles(ls), NEW b \in 1 .. Len(ls), NEW st \in Status,
         NEW n \in Nat \ {0}, n < ls[b].size
  PROVE  InLine(StartOfBlock(ls, b, n, st), ls[b].pos, n)
<1> DEFINE rest == Block(ls[b].pos + n, ls[b].size - n, ls[b].status)
           ms == StartOfBlock(ls, b, n, st)
<1>1. /\ Len(ls) \in Nat /\ b \in Nat /\ b > 0 /\ b <= Len(ls) /\ ls \in Seq(Line)
      /\ ls[b].pos \in Nat /\ ls[b].size \in Nat /\ ls[b].status \in Status
  BY TileFacts DEF Tiles
<1>2. rest \in Line
  <2>1. ls[b].pos + n \in Nat /\ ls[b].size - n \in Nat \ {0}
    BY <1>1
  <2> QED
    BY <1>1, <2>1, BlockFacts
<1>3. CASE b > 1 /\ ls[b - 1].status = st
  <2>1. PICK a \in 1 .. Len(ls) - 1 : a = b - 1
    BY <1>1, <1>3
  <2> DEFINE m == ls[a].size + n
             l == Block(ls[a].pos, m, st)
             e == [ls EXCEPT ![a] = l]
  <2>2. /\ ls[a].pos \in Nat /\ ls[a].size \in Nat /\ ls[a].size > 0
        /\ EndOf(ls[a]) = ls[a].pos + ls[a].size /\ EndOf(ls[a]) = ls[b].pos
    BY <1>1, <2>1, TileFacts, Neighbours
  <2>3. l \in Line /\ l.pos = ls[a].pos /\ l.size = m
    BY SMTT(30), <2>2, BlockFacts
  <2>4. ms = [e EXCEPT ![b] = rest]
    BY <1>3, <2>1 DEF StartOfBlock
  <2> HIDE DEF ms, l, rest
  <2>5. /\ e \in Seq(Line) /\ Len(e) = Len(ls)
        /\ \A k \in 1 .. Len(ls) : e[k] = IF k = a THEN l ELSE ls[k]
    BY <1>1, <2>1, <2>3, ExceptLine
  <2> HIDE DEF e
  <2>6. /\ Len(ms) = Len(e)
        /\ \A k \in 1 .. Len(e) : ms[k] = IF k = b THEN rest ELSE e[k]
    BY <1>2, <2>4, <2>5, ExceptLine
  <2>7. a \in 1 .. Len(ms) /\ ms[a] = l
    BY <1>1, <2>1, <2>5, <2>6
  <2>8. ms[a].pos <= ls[b].pos /\ ls[b].pos + n <= EndOf(ms[a])
    BY SMTT(30), <1>1, <2>2, <2>3, <2>7 DEF EndOf
  <2> QED
    BY <2>7, <2>8 DEF InLine, ms
<1>4. CASE ~(b > 1 /\ ls[b - 1].status = st)
  <2> DEFINE l == Block(ls[b].pos, n, st)
  <2>1. ms = InsertAt([ls EXCEPT ![b] = rest], b, l)
    BY <1>4 DEF StartOfBlock
  <2>2. l \in Line /\ l.pos = ls[b].pos /\ l.size = n
    BY <1>1, BlockFacts
  <2> HIDE DEF ms, l, rest
  <2>3. Replaced(ls, ms, b, l, rest)
    BY <1>1, <1>2, <2>1, <2>2, InsertedAbove
  <2>4. b \in 1 .. Len(ms) /\ ms[b] = l
    BY <1>1, <2>3 DEF Replaced
  <2>5. ms[b].pos <= ls[b].pos /\ ls[b].pos + n <= EndOf(ms[b])
    BY <1>1, <2>2, <2>4 DEF EndOf
  <2> QED
    BY <2>4, <2>5 DEF InLine, ms
<1> QED
  BY <1>3, <1>4

LEMMA EndOfBlockInLine ==
  ASSUME NEW ls, Tiles(ls), NEW b \in 1 .. Len(ls), NEW st \in Status,
         NEW n \in Nat \ {0}, n < ls[b].size
  PROVE  InLine(EndOfBlock(ls, b, n, st), EndOf(ls[b]) - n, n)
<1> DEFINE rest == Block(ls[b].pos, ls[b].size - n, ls[b].status)
           ms == EndOfBlock(ls, b, n, st)
<1>1. /\ Len(ls) \in Nat /\ b \in Nat /\ b > 0 /\ b <= Len(ls) /\ ls \in Seq(Line)
      /\ ls[b].pos \in Nat /\ ls[b].size \in Nat /\ ls[b].status \in Status
      /\ EndOf(ls[b]) = ls[b].pos + ls[b].size
  BY TileFacts DEF Tiles
<1>2. rest \in Line
  <2>1. ls[b].size - n \in Nat \ {0}
    BY <1>1
  <2> QED
    BY <1>1, <2>1, BlockFacts
<1>3. CASE b < Len(ls) /\ ls[b + 1].status = st
  <2>1. PICK d \in 2 .. Len(ls) : d = b + 1
    BY <1>1, <1>3
  <2> DEFINE m == ls[d].size + n
             l == Block(ls[d].pos - n, m, st)
             e == [ls EXCEPT ![b] = rest]
  <2>2. /\ ls[d].pos \in Nat /\ ls[d].size \in Nat /\ ls[d].size > 0
        /\ EndOf(ls[b]) = ls[d].pos /\ ls[d].pos - n \in Nat
    BY SMTT(30), <1>1, <2>1, TileFacts, Neighbours
  <2>3. l \in Line /\ l.pos = ls[d].pos - n /\ l.size = m
    BY SMTT(30), <2>2, BlockFacts
  <2>4. ms = [e EXCEPT ![d] = l]
    BY <1>1, <1>3, <2>1 DEF EndOfBlock
  <2> HIDE DEF ms, l, rest
  <2>5. /\ e \in Seq(Line) /\ Len(e) = Len(ls)
    BY <1>1, <1>2, ExceptLine
  <2> HIDE DEF e
  <2>6. /\ Len(ms) = Len(e)
        /\ \A k \in 1 .. Len(e) : ms[k] = IF k = d THEN l ELSE e[k]
    BY <2>1, <2>3, <2>4, <2>5, ExceptLine
  <2>7. d \in 1 .. Len(ms) /\ ms[d] = l
    BY <1>1, <2>1, <2>5, <2>6
  <2>8. ms[d].pos <= EndOf(ls[b]) - n /\ EndOf(ls[b]) - n + n <= EndOf(ms[d])
    BY SMTT(30), <1>1, <2>2, <2>3, <2>7 DEF EndOf
  <2> QED
    BY <2>7, <2>8 DEF InLine, ms
<1>4. CASE ~(b < Len(ls) /\ ls[b + 1].status = st)
  <2> DEFINE l == Block(EndOf(ls[b]) - n, n, st)
  <2>1. ms = InsertAt([ls EXCEPT ![b] = rest], b + 1, l)
    BY <1>4 DEF EndOfBlock
  <2>2. EndOf(ls[b]) - n \in Nat
    BY <1>1
  <2>3. l \in Line /\ l.pos = EndOf(ls[b]) - n /\ l.size = n
    BY <2>2, BlockFacts
  <2> HIDE DEF ms, l, rest
  <2>4. Replaced(ls, ms, b, rest, l)
    BY <1>1, <1>2, <2>1, <2>3, InsertedBelow
  <2>5. b + 1 \in 1 .. Len(ms) /\ ms[b + 1] = l
    BY <1>1, <2>4 DEF Replaced
  <2>6. ms[b + 1].pos <= EndOf(ls[b]) - n /\ EndOf(ls[b]) - n + n <= EndOf(ms[b + 1])
    BY <1>1, <2>2, <2>3, <2>5 DEF EndOf
  <2> QED
    BY <2>5, <2>6 DEF InLine, ms
<1> QED
  BY <1>3, <1>4
LEMMA InsideBlockInLine ==
  ASSUME NEW ls, Tiles(ls), NEW b \in 1 .. Len(ls), NEW st \in Status,
         NEW p \in Nat, NEW n \in Nat \ {0},
         ls[b].pos < p, p + n < EndOf(ls[b])
  PROVE  InLine(InsideBlock(ls, b, p, n, st), p, n)
<1> DEFINE before == Block(ls[b].pos, p - ls[b].pos, ls[b].status)
           mid == Block(p, n, st)
           after == Block(p + n, EndOf(ls[b]) - (p + n), ls[b].status)
           two == InsertAt([ls EXCEPT ![b] = after], b, mid)
           ms == InsertAt(two, b, before)
<1>1. /\ Len(ls) \in Nat /\ b \in Nat /\ b > 0 /\ b <= Len(ls) /\ ls \in Seq(Line)
      /\ ls[b].pos \in Nat /\ ls[b].size \in Nat /\ ls[b].status \in Status
      /\ EndOf(ls[b]) = ls[b].pos + ls[b].size
  BY TileFacts DEF Tiles
<1>2. before \in Line /\ after \in Line
  <2>1. /\ p - ls[b].pos \in Nat \ {0} /\ p + n \in Nat
        /\ EndOf(ls[b]) - (p + n) \in Nat \ {0}
    BY <1>1
  <2> QED
    BY <1>1, <2>1, BlockFacts
<1>3. mid \in Line /\ mid.pos = p /\ mid.size = n
  BY BlockFacts
<1>4. InsideBlock(ls, b, p, n, st) = ms
  BY DEF InsideBlock
<1> HIDE DEF before, mid, after
<1>5. Replaced(ls, two, b, mid, after)
  BY <1>1, <1>2, <1>3, InsertedAbove
<1> HIDE DEF two, ms
<1>6. two \in Seq(Line) /\ Len(two) = Len(ls) + 1 /\ two[b] = mid
  BY <1>5 DEF Replaced
<1>7. /\ Len(ms) = Len(ls) + 2
      /\ \A k \in 1 .. Len(ls) + 2 :
           ms[k] = IF k < b THEN two[k] ELSE IF k = b THEN before ELSE two[k - 1]
  <2>1. b \in 1 .. Len(two) + 1
    BY <1>1, <1>6
  <2>2. /\ Len(InsertAt(two, b, before)) = Len(two) + 1
        /\ \A k \in 1 .. Len(two) + 1 :
             InsertAt(two, b, before)[k] =
               IF k < b THEN two[k] ELSE IF k = b THEN before ELSE two[k - 1]
    <3>1. before \in Line /\ two \in Seq(Line)
      BY <1>2, <1>6
    <3> QED
      BY SMTT(30), <3>1, <2>1, InsertLine
  <2>3. ms = InsertAt(two, b, before)
    BY DEF ms
  <2> QED
    BY <1>1, <1>6, <2>2, <2>3
<1>8. b + 1 \in 1 .. Len(ms) /\ ms[b + 1] = mid
  BY SMTT(30), <1>1, <1>6, <1>7
<1>9. ms[b + 1].pos <= p /\ p + n <= EndOf(ms[b + 1])
  BY <1>3, <1>8 DEF EndOf
<1> QED
  BY <1>4, <1>8, <1>9 DEF InLine

(* Two lines joined in one: what was in a line still is.                   *)
LEMMA JoinedInLine ==
  ASSUME NEW s \in Seq(Line), NEW e \in 1 .. Len(s), NEW r \in 1 .. Len(s), e # r,
         NEW l \in Line, l.pos <= s[e].pos, EndOf(s[e]) <= EndOf(l),
         l.pos <= s[r].pos, EndOf(s[r]) <= EndOf(l),
         NEW p \in Nat, NEW n \in Nat, InLine(s, p, n)
  PROVE  InLine(RemoveAt([s EXCEPT ![e] = l], r), p, n)
<1> DEFINE x == [s EXCEPT ![e] = l]
           ms == RemoveAt(x, r)
<1>0. Len(s) \in Nat /\ e \in Nat /\ r \in Nat /\ 1 <= r /\ r <= Len(s) /\ 1 <= e /\ e <= Len(s)
  OBVIOUS
<1>1. /\ x \in Seq(Line) /\ Len(x) = Len(s)
      /\ \A k \in 1 .. Len(s) : x[k] = IF k = e THEN l ELSE s[k]
  BY ExceptLine
<1> HIDE DEF x
<1>2. /\ Len(ms) = Len(s) - 1
      /\ \A k \in 1 .. Len(s) - 1 : ms[k] = IF k < r THEN x[k] ELSE x[k + 1]
  BY <1>1, RemoveLine
<1> HIDE DEF ms
<1>3. PICK k \in 1 .. Len(s) : s[k].pos <= p /\ p + n <= EndOf(s[k])
  BY DEF InLine
<1>4. PICK j \in 1 .. Len(s) : j = IF k = r THEN e ELSE k
  <2>1. CASE k = r
    <3>1. e = IF k = r THEN e ELSE k
      BY <2>1
    <3> QED
      BY <3>1
  <2>2. CASE k # r
    <3>1. k = IF k = r THEN e ELSE k
      BY <2>2
    <3> QED
      BY <3>1
  <2> QED
    BY <2>1, <2>2
<1>5. x[j].pos <= p /\ p + n <= EndOf(x[j])
  <2>0. s[k] \in Line
    OBVIOUS
  <2>1. /\ s[k].pos \in Nat /\ EndOf(s[k]) \in Nat /\ l.pos \in Nat /\ EndOf(l) \in Nat
    BY <2>0, LineFacts
  <2>2. CASE k = r \/ k = e
    <3>1. x[j] = l
      BY <1>1, <1>4, <2>2
    <3>2. l.pos <= s[k].pos /\ EndOf(s[k]) <= EndOf(l)
      BY <2>2
    <3> QED
      BY <1>3, <2>1, <3>1, <3>2
  <2>3. CASE k # r /\ k # e
    <3>1. x[j] = s[k]
      BY <1>1, <1>4, <2>3
    <3> QED
      BY <1>3, <3>1
  <2> QED
    BY <2>2, <2>3
<1>6. PICK i0 \in 1 .. Len(s) - 1 : i0 = IF j < r THEN j ELSE j - 1
  BY <1>0, <1>4
<1>7. ms[i0] = x[j]
  <2>1. j # r
    BY <1>4
  <2> QED
    BY <1>0, <1>2, <1>6, <2>1
<1>8. i0 \in 1 .. Len(ms)
  BY <1>2, <1>6
<1>9. InLine(ms, p, n)
  BY <1>5, <1>7, <1>8 DEF InLine
<1> QED
  BY <1>9 DEF ms, x

(* The whole block: each line is in one afterwards, the block too.         *)
LEMMA WholeBlockLines ==
  ASSUME NEW ls, Tiles(ls), NEW b \in 1 .. Len(ls), NEW st \in Status,
         NEW i0 \in 1 .. Len(ls)
  PROVE  InLine(WholeBlock(ls, b, st), ls[i0].pos, ls[i0].size)
<1> DEFINE n == ls[b].size
           marked == [ls EXCEPT ![b] = Block(@.pos, @.size, st)]
           joined == [marked EXCEPT ![b + 1] =
                         Block(@.pos - ls[b].size, @.size + ls[b].size, st)]
           below == IF b < Len(ls) /\ ls[b + 1].status = st
                    THEN RemoveAt(joined, b) ELSE marked
           raised == [below EXCEPT ![b - 1] = Block(@.pos, @.size + below[b].size, st)]
           whole == IF b > 1 /\ ls[b - 1].status = st
                    THEN RemoveAt(raised, b) ELSE below
           p0 == ls[i0].pos
           n0 == ls[i0].size
<1>1. /\ Len(ls) \in Nat /\ b \in Nat /\ b > 0 /\ b <= Len(ls) /\ ls \in Seq(Line)
      /\ ls[b].pos \in Nat /\ n \in Nat \ {0} /\ EndOf(ls[b]) = ls[b].pos + n
      /\ p0 \in Nat /\ n0 \in Nat /\ EndOf(ls[i0]) = p0 + n0
  BY SMTT(30), TileFacts DEF Tiles
<1>2. WholeBlock(ls, b, st) = whole
  BY DEF WholeBlock
<1> HIDE DEF raised, whole
<1> DEFINE l == Block(ls[b].pos, n, st)
<1>3. l \in Line /\ l.pos = ls[b].pos /\ l.size = n
  BY <1>1, BlockFacts
<1>4. marked = [ls EXCEPT ![b] = l]
  BY <1>1
<1> HIDE DEF marked, l
<1>5. /\ marked \in Seq(Line) /\ Len(marked) = Len(ls)
      /\ \A k \in 1 .. Len(ls) : marked[k] = IF k = b THEN l ELSE ls[k]
  BY <1>1, <1>3, <1>4, ExceptLine
<1>9. InLine(marked, p0, n0)
  <2>1. i0 \in 1 .. Len(marked) /\ marked[i0].pos <= p0 /\ p0 + n0 <= EndOf(marked[i0])
    BY <1>1, <1>3, <1>5 DEF EndOf
  <2> QED
    BY <2>1 DEF InLine
<1>6. /\ below \in Seq(Line) /\ b \in 1 .. Len(below)
      /\ below[b].pos = ls[b].pos /\ below[b].size \in Nat /\ below[b].size >= n
      /\ \A k \in 1 .. b - 1 : below[k] = ls[k]
      /\ InLine(below, p0, n0)
  <2>1. CASE ~(b < Len(ls) /\ ls[b + 1].status = st)
    <3>1. below = marked
      BY <2>1
    <3>2. marked[b] = l /\ \A k \in 1 .. b - 1 : marked[k] = ls[k]
      BY <1>1, <1>5
    <3> HIDE DEF below, p0, n0
    <3> QED
      BY <1>1, <1>3, <1>5, <1>9, <3>1, <3>2
  <2>2. CASE b < Len(ls) /\ ls[b + 1].status = st
    <3>1. PICK d \in 2 .. Len(ls) : d = b + 1
      BY <1>1, <2>2
    <3> DEFINE m == ls[d].size + n
               j == Block(ls[d].pos - n, m, st)
    <3>2. /\ ls[d].pos \in Nat /\ ls[d].size \in Nat /\ ls[d].size > 0
          /\ ls[d].pos = ls[b].pos + n /\ marked[d] = ls[d]
      <4>1. EndOf(ls[b]) = ls[d].pos
        <5>1. b \in 1 .. Len(ls) - 1 /\ b + 1 = d
          BY <1>1, <3>1
        <5> QED
          BY <5>1, Neighbours
      <4>2. marked[d] = ls[d]
        BY <1>1, <1>5, <3>1
      <4>3. ls[d].pos \in Nat /\ ls[d].size \in Nat /\ ls[d].size > 0
        BY <1>1, <3>1, TileFacts
      <4> QED
        BY <1>1, <4>1, <4>2, <4>3
    <3>3. ls[d].pos - n = ls[b].pos
      BY <1>1, <3>2
    <3>4. j \in Line /\ j.pos = ls[b].pos /\ j.size = m
      <4>1. m \in Nat \ {0} /\ ls[d].pos - n \in Nat
        BY SMTT(30), <1>1, <3>2, <3>3
      <4> QED
        BY <3>3, <4>1, BlockFacts
    <3>5. joined = [marked EXCEPT ![d] = j]
      BY <1>1, <1>5, <3>1, <3>2
    <3> HIDE DEF j
    <3>6. /\ joined \in Seq(Line) /\ Len(joined) = Len(ls)
          /\ \A k \in 1 .. Len(ls) : joined[k] = IF k = d THEN j ELSE marked[k]
      BY <1>1, <1>5, <3>1, <3>4, <3>5, ExceptLine
    <3>11. InLine(RemoveAt(joined, b), p0, n0)
      <4>1. marked[b] = l /\ d \in 1 .. Len(marked) /\ b \in 1 .. Len(marked) /\ d # b
        <5>1. d \in 1 .. Len(ls) /\ b \in 1 .. Len(ls) /\ d # b
          BY <1>1, <3>1
        <5> QED
          BY ONLY <1>5, <5>1
      <4>2. /\ j.pos <= marked[d].pos /\ EndOf(marked[d]) <= EndOf(j)
            /\ j.pos <= marked[b].pos /\ EndOf(marked[b]) <= EndOf(j)
        BY SMTT(30), <1>1, <1>3, <3>2, <3>4, <4>1 DEF EndOf
      <4> HIDE DEF joined, p0, n0
      <4>3. marked \in Seq(Line) /\ j \in Line /\ p0 \in Nat /\ n0 \in Nat
        BY <1>1, <1>5, <3>4
      <4>4. InLine(RemoveAt([marked EXCEPT ![d] = j], b), p0, n0)
        BY <1>9, <4>1, <4>2, <4>3, JoinedInLine
      <4> QED
        BY <3>5, <4>4
    <3> HIDE DEF joined
    <3>7. /\ RemoveAt(joined, b) \in Seq(Line) /\ Len(RemoveAt(joined, b)) = Len(ls) - 1
          /\ \A k \in 1 .. Len(ls) - 1 :
               RemoveAt(joined, b)[k] = IF k < b THEN joined[k] ELSE joined[k + 1]
      BY <1>1, <3>6, RemoveLine
    <3>8. below = RemoveAt(joined, b)
      BY <2>2
    <3> HIDE DEF below, p0, n0
    <3>9. below[b] = j /\ b \in 1 .. Len(below)
      BY <1>1, <2>2, <3>1, <3>6, <3>7, <3>8
    <3>10. ASSUME NEW k \in 1 .. b - 1 PROVE below[k] = ls[k]
      <4>1. k \in Nat /\ k < b /\ k \in 1 .. Len(ls) - 1 /\ k \in 1 .. Len(ls) /\ k # b /\ k # d
        BY <1>1, <3>1, <3>10
      <4>2. RemoveAt(joined, b)[k] = joined[k]
        BY <3>7, <4>1
      <4>3. joined[k] = marked[k] /\ marked[k] = ls[k]
        BY <1>5, <3>6, <4>1
      <4> QED
        BY <3>8, <4>2, <4>3
    <3>12. j.size \in Nat /\ j.size >= n
      BY <1>1, <3>2, <3>4
    <3> QED
      BY <3>4, <3>7, <3>8, <3>9, <3>10, <3>11, <3>12
  <2> QED
    BY <2>1, <2>2
<1> HIDE DEF below
<1>7. CASE ~(b > 1 /\ ls[b - 1].status = st)
  <2>1. whole = below
    BY <1>7 DEF whole
  <2> QED
    BY <1>2, <1>6, <2>1
<1>8. CASE b > 1 /\ ls[b - 1].status = st
  <2>1. PICK a \in 1 .. Len(ls) - 1 : a = b - 1
    BY <1>1, <1>8
  <2> DEFINE m == ls[a].size + below[b].size
             j == Block(ls[a].pos, m, st)
  <2>2. /\ ls[a].pos \in Nat /\ ls[a].size \in Nat /\ ls[a].size > 0
        /\ ls[a].pos + ls[a].size = ls[b].pos
    <3>1. EndOf(ls[a]) = ls[b].pos /\ a \in 1 .. Len(ls) /\ a + 1 = b
      BY <1>1, <2>1, Neighbours
    <3> QED
      BY <3>1, TileFacts
  <2>3. below[a] = ls[a] /\ a \in 1 .. Len(below) /\ a # b
    BY <1>1, <1>6, <2>1
  <2>4. j \in Line /\ j.pos = ls[a].pos /\ j.size = m
    <3>1. m \in Nat \ {0}
      <4>1. below[b].size \in Nat
        BY <1>6
      <4> QED
        BY <2>2, <4>1
    <3> QED
      BY <2>2, <3>1, BlockFacts
  <2>5. raised = [below EXCEPT ![a] = j]
    BY <2>1, <2>3 DEF raised
  <2> HIDE DEF j
  <2>6. /\ j.pos <= below[a].pos /\ EndOf(below[a]) <= EndOf(j)
        /\ j.pos <= below[b].pos /\ EndOf(below[b]) <= EndOf(j)
    BY SMTT(30), <1>1, <1>6, <2>2, <2>3, <2>4 DEF EndOf
  <2> HIDE DEF p0, n0
  <2>7. InLine(RemoveAt([below EXCEPT ![a] = j], b), p0, n0)
    <3>1. /\ below \in Seq(Line) /\ b \in 1 .. Len(below) /\ InLine(below, p0, n0)
          /\ p0 \in Nat /\ n0 \in Nat
      BY <1>1, <1>6
    <3> QED
      BY <2>3, <2>4, <2>6, <3>1, JoinedInLine
  <2>8. whole = RemoveAt(raised, b)
    BY <1>8 DEF whole
  <2> QED
    BY <1>2, <2>5, <2>7, <2>8 DEF p0, n0
<1> QED
  BY <1>7, <1>8

LEMMA WholeBlockInLine ==
  ASSUME NEW ls, Tiles(ls), NEW b \in 1 .. Len(ls), NEW st \in Status
  PROVE  InLine(WholeBlock(ls, b, st), ls[b].pos, ls[b].size)
BY WholeBlockLines

LEMMA MarkedInLine ==
  ASSUME NEW ls, Tiles(ls), NEW b \in 1 .. Len(ls), NEW st \in Status,
         NEW p \in Nat, NEW n \in Nat \ {0},
         ls[b].pos <= p, p + n <= EndOf(ls[b])
  PROVE  InLine(Marked(ls, b, p, n, st), p, n)
<1>1. /\ ls[b].pos \in Nat /\ ls[b].size \in Nat
      /\ EndOf(ls[b]) = ls[b].pos + ls[b].size
  BY TileFacts
<1>2. CASE p = ls[b].pos /\ n = ls[b].size
  <2>1. Marked(ls, b, p, n, st) = WholeBlock(ls, b, st)
    BY <1>2 DEF Marked
  <2> QED
    BY <1>2, <2>1, WholeBlockInLine
<1>3. CASE p = ls[b].pos /\ n # ls[b].size
  <2>1. Marked(ls, b, p, n, st) = StartOfBlock(ls, b, n, st)
    BY <1>3 DEF Marked
  <2>2. n < ls[b].size
    BY <1>1, <1>3
  <2> QED
    BY <1>3, <2>1, <2>2, StartOfBlockInLine
<1>4. CASE p # ls[b].pos /\ p + n = EndOf(ls[b])
  <2>1. Marked(ls, b, p, n, st) = EndOfBlock(ls, b, n, st)
    BY <1>4 DEF Marked
  <2>2. n < ls[b].size /\ EndOf(ls[b]) - n = p
    BY <1>1, <1>4
  <2>3. InLine(EndOfBlock(ls, b, n, st), EndOf(ls[b]) - n, n)
    BY <2>2, EndOfBlockInLine
  <2> QED
    BY <2>1, <2>2, <2>3
<1>5. CASE p # ls[b].pos /\ p + n # EndOf(ls[b])
  <2>1. Marked(ls, b, p, n, st) = InsideBlock(ls, b, p, n, st)
    BY <1>5 DEF Marked
  <2>2. ls[b].pos < p /\ p + n < EndOf(ls[b])
    BY <1>1, <1>5
  <2> QED
    BY <2>1, <2>2, InsideBlockInLine
<1> QED
  BY <1>2, <1>3, <1>4, <1>5

(* A mark in block b leaves each other line, as it is or in a longer one.  *)
Others(ls, ms, b) ==
  \A j \in 1 .. Len(ls) : j # b => InLine(ms, ls[j].pos, ls[j].size)

LEMMA LineInLine ==
  ASSUME NEW ls, Tiles(ls), NEW j \in 1 .. Len(ls), NEW ms, NEW k \in 1 .. Len(ms),
         ms[k] = ls[j]
  PROVE  InLine(ms, ls[j].pos, ls[j].size)
<1>1. ls[j].pos \in Nat /\ ls[j].size \in Nat /\ EndOf(ls[j]) = ls[j].pos + ls[j].size
  BY TileFacts
<1> QED
  BY <1>1 DEF InLine

LEMMA ReplacedOthers ==
  ASSUME NEW ls, Tiles(ls), NEW b \in 1 .. Len(ls), NEW ms, NEW u, NEW l,
         Replaced(ls, ms, b, u, l)
  PROVE  Others(ls, ms, b)
<1>0. Len(ls) \in Nat /\ Len(ms) = Len(ls) + 1
  BY DEF Tiles, Replaced
<1>1. ASSUME NEW j \in 1 .. Len(ls), j < b
      PROVE  InLine(ms, ls[j].pos, ls[j].size)
  <2>1. j \in 1 .. Len(ms) /\ ms[j] = ls[j]
    BY <1>0, <1>1 DEF Replaced
  <2> QED
    BY <2>1, LineInLine
<1>2. ASSUME NEW j \in 1 .. Len(ls), j > b
      PROVE  InLine(ms, ls[j].pos, ls[j].size)
  <2>1. PICK k \in 1 .. Len(ms) : k = j + 1
    BY <1>0, <1>2
  <2>2. k \in b + 2 .. Len(ls) + 1 /\ k - 1 = j
    BY <1>0, <1>2, <2>1
  <2>3. ms[k] = ls[j]
    BY <2>2 DEF Replaced
  <2> QED
    BY <2>1, <2>3, LineInLine
<1> QED
  BY <1>1, <1>2 DEF Others

(* The neighbour c of block b took a part of it, the lines stay in place.  *)
LEMMA NeighbourOthers ==
  ASSUME NEW ls, Tiles(ls), NEW b \in 1 .. Len(ls), NEW c \in 1 .. Len(ls), NEW ms,
         Len(ms) = Len(ls),
         \A k \in 1 .. Len(ls) : k # b /\ k # c => ms[k] = ls[k],
         ms[c].pos <= ls[c].pos, EndOf(ls[c]) <= EndOf(ms[c])
  PROVE  Others(ls, ms, b)
<1>1. ASSUME NEW j \in 1 .. Len(ls), j # b
      PROVE  InLine(ms, ls[j].pos, ls[j].size)
  <2>1. CASE j = c
    <3>1. EndOf(ls[j]) = ls[j].pos + ls[j].size
      BY TileFacts
    <3> QED
      BY <2>1, <3>1 DEF InLine
  <2>2. CASE j # c
    BY <1>1, <2>2, LineInLine
  <2> QED
    BY <2>1, <2>2
<1> QED
  BY <1>1 DEF Others

LEMMA StartOfBlockOthers ==
  ASSUME NEW ls, Tiles(ls), NEW b \in 1 .. Len(ls), NEW st \in Status,
         NEW n \in Nat \ {0}, n < ls[b].size
  PROVE  Others(ls, StartOfBlock(ls, b, n, st), b)
<1> DEFINE rest == Block(ls[b].pos + n, ls[b].size - n, ls[b].status)
           ms == StartOfBlock(ls, b, n, st)
<1>1. /\ Len(ls) \in Nat /\ b \in Nat /\ b > 0 /\ b <= Len(ls) /\ ls \in Seq(Line)
      /\ ls[b].pos \in Nat /\ ls[b].size \in Nat /\ ls[b].status \in Status
  BY TileFacts DEF Tiles
<1>2. rest \in Line
  <2>1. ls[b].pos + n \in Nat /\ ls[b].size - n \in Nat \ {0}
    BY <1>1
  <2> QED
    BY <1>1, <2>1, BlockFacts
<1>3. CASE b > 1 /\ ls[b - 1].status = st
  <2>1. PICK a \in 1 .. Len(ls) - 1 : a = b - 1
    BY <1>1, <1>3
  <2> DEFINE m == ls[a].size + n
             l == Block(ls[a].pos, m, st)
             e == [ls EXCEPT ![a] = l]
  <2>2. /\ ls[a].pos \in Nat /\ ls[a].size \in Nat /\ ls[a].size > 0
        /\ EndOf(ls[a]) = ls[a].pos + ls[a].size
    BY <1>1, <2>1, TileFacts
  <2>3. l \in Line /\ l.pos = ls[a].pos /\ l.size = m
    BY SMTT(30), <2>2, BlockFacts
  <2>4. ms = [e EXCEPT ![b] = rest]
    BY <1>3, <2>1 DEF StartOfBlock
  <2> HIDE DEF ms, l, rest
  <2>5. /\ e \in Seq(Line) /\ Len(e) = Len(ls)
        /\ \A k \in 1 .. Len(ls) : e[k] = IF k = a THEN l ELSE ls[k]
    BY <1>1, <2>1, <2>3, ExceptLine
  <2> HIDE DEF e
  <2>6. /\ Len(ms) = Len(e)
        /\ \A k \in 1 .. Len(e) : ms[k] = IF k = b THEN rest ELSE e[k]
    BY <1>2, <2>4, <2>5, ExceptLine
  <2>7. /\ Len(ms) = Len(ls) /\ ms[a] = l /\ a \in 1 .. Len(ls)
        /\ \A k \in 1 .. Len(ls) : k # b /\ k # a => ms[k] = ls[k]
    BY <1>1, <2>1, <2>5, <2>6
  <2>8. ms[a].pos <= ls[a].pos /\ EndOf(ls[a]) <= EndOf(ms[a])
    BY SMTT(30), <1>1, <2>2, <2>3, <2>7 DEF EndOf
  <2>9. Others(ls, ms, b)
    BY <2>7, <2>8, NeighbourOthers
  <2> QED
    BY <2>9 DEF ms
<1>4. CASE ~(b > 1 /\ ls[b - 1].status = st)
  <2> DEFINE l == Block(ls[b].pos, n, st)
  <2>1. ms = InsertAt([ls EXCEPT ![b] = rest], b, l)
    BY <1>4 DEF StartOfBlock
  <2>2. l \in Line
    BY <1>1, BlockFacts
  <2> HIDE DEF ms, l, rest
  <2>3. Replaced(ls, ms, b, l, rest)
    BY <1>1, <1>2, <2>1, <2>2, InsertedAbove
  <2> QED
    BY <2>3, ReplacedOthers DEF ms
<1> QED
  BY <1>3, <1>4

LEMMA EndOfBlockOthers ==
  ASSUME NEW ls, Tiles(ls), NEW b \in 1 .. Len(ls), NEW st \in Status,
         NEW n \in Nat \ {0}, n < ls[b].size
  PROVE  Others(ls, EndOfBlock(ls, b, n, st), b)
<1> DEFINE rest == Block(ls[b].pos, ls[b].size - n, ls[b].status)
           ms == EndOfBlock(ls, b, n, st)
<1>1. /\ Len(ls) \in Nat /\ b \in Nat /\ b > 0 /\ b <= Len(ls) /\ ls \in Seq(Line)
      /\ ls[b].pos \in Nat /\ ls[b].size \in Nat /\ ls[b].status \in Status
      /\ EndOf(ls[b]) = ls[b].pos + ls[b].size
  BY TileFacts DEF Tiles
<1>2. rest \in Line
  <2>1. ls[b].size - n \in Nat \ {0}
    BY <1>1
  <2> QED
    BY <1>1, <2>1, BlockFacts
<1>3. CASE b < Len(ls) /\ ls[b + 1].status = st
  <2>1. PICK d \in 2 .. Len(ls) : d = b + 1
    BY <1>1, <1>3
  <2> DEFINE m == ls[d].size + n
             l == Block(ls[d].pos - n, m, st)
             e == [ls EXCEPT ![b] = rest]
  <2>2. /\ ls[d].pos \in Nat /\ ls[d].size \in Nat /\ ls[d].size > 0
        /\ EndOf(ls[b]) = ls[d].pos /\ ls[d].pos - n \in Nat
    BY SMTT(30), <1>1, <2>1, TileFacts, Neighbours
  <2>3. l \in Line /\ l.pos = ls[d].pos - n /\ l.size = m
    BY SMTT(30), <2>2, BlockFacts
  <2>4. ms = [e EXCEPT ![d] = l]
    BY <1>1, <1>3, <2>1 DEF EndOfBlock
  <2> HIDE DEF ms, l, rest
  <2>5. /\ e \in Seq(Line) /\ Len(e) = Len(ls)
        /\ \A k \in 1 .. Len(ls) : e[k] = IF k = b THEN rest ELSE ls[k]
    BY <1>1, <1>2, ExceptLine
  <2> HIDE DEF e
  <2>6. /\ Len(ms) = Len(e)
        /\ \A k \in 1 .. Len(e) : ms[k] = IF k = d THEN l ELSE e[k]
    BY <2>1, <2>3, <2>4, <2>5, ExceptLine
  <2>7. /\ Len(ms) = Len(ls) /\ ms[d] = l /\ d \in 1 .. Len(ls)
        /\ \A k \in 1 .. Len(ls) : k # b /\ k # d => ms[k] = ls[k]
    BY <1>1, <2>1, <2>5, <2>6
  <2>8. ms[d].pos <= ls[d].pos /\ EndOf(ls[d]) <= EndOf(ms[d])
    BY SMTT(30), <1>1, <2>2, <2>3, <2>7 DEF EndOf
  <2>9. Others(ls, ms, b)
    BY <2>7, <2>8, NeighbourOthers
  <2> QED
    BY <2>9 DEF ms
<1>4. CASE ~(b < Len(ls) /\ ls[b + 1].status = st)
  <2> DEFINE l == Block(EndOf(ls[b]) - n, n, st)
  <2>1. ms = InsertAt([ls EXCEPT ![b] = rest], b + 1, l)
    BY <1>4 DEF EndOfBlock
  <2>2. EndOf(ls[b]) - n \in Nat
    BY <1>1
  <2>3. l \in Line
    BY <2>2, BlockFacts
  <2> HIDE DEF ms, l, rest
  <2>4. Replaced(ls, ms, b, rest, l)
    BY <1>1, <1>2, <2>1, <2>3, InsertedBelow
  <2> QED
    BY <2>4, ReplacedOthers DEF ms
<1> QED
  BY <1>3, <1>4

LEMMA InsideBlockOthers ==
  ASSUME NEW ls, Tiles(ls), NEW b \in 1 .. Len(ls), NEW st \in Status,
         NEW p \in Nat, NEW n \in Nat \ {0},
         ls[b].pos < p, p + n < EndOf(ls[b])
  PROVE  Others(ls, InsideBlock(ls, b, p, n, st), b)
<1> DEFINE before == Block(ls[b].pos, p - ls[b].pos, ls[b].status)
           mid == Block(p, n, st)
           after == Block(p + n, EndOf(ls[b]) - (p + n), ls[b].status)
           two == InsertAt([ls EXCEPT ![b] = after], b, mid)
           ms == InsertAt(two, b, before)
<1>1. /\ Len(ls) \in Nat /\ b \in Nat /\ b > 0 /\ b <= Len(ls) /\ ls \in Seq(Line)
      /\ ls[b].pos \in Nat /\ ls[b].size \in Nat /\ ls[b].status \in Status
      /\ EndOf(ls[b]) = ls[b].pos + ls[b].size
  BY TileFacts DEF Tiles
<1>2. before \in Line /\ after \in Line /\ mid \in Line
  <2>1. /\ p - ls[b].pos \in Nat \ {0} /\ p + n \in Nat
        /\ EndOf(ls[b]) - (p + n) \in Nat \ {0}
    BY <1>1
  <2> QED
    BY <1>1, <2>1, BlockFacts
<1>4. InsideBlock(ls, b, p, n, st) = ms
  BY DEF InsideBlock
<1> HIDE DEF before, mid, after
<1>5. Replaced(ls, two, b, mid, after)
  BY <1>1, <1>2, InsertedAbove
<1> HIDE DEF two, ms
<1>6. Others(ls, two, b)
  BY <1>5, ReplacedOthers
<1>7. two \in Seq(Line) /\ Len(two) = Len(ls) + 1 /\ b \in 1 .. Len(two) + 1
  BY <1>1, <1>5 DEF Replaced
<1>8. /\ Len(ms) = Len(two) + 1
      /\ \A k \in 1 .. Len(two) + 1 :
           ms[k] = IF k < b THEN two[k] ELSE IF k = b THEN before ELSE two[k - 1]
  <2>1. b \in 1 .. Len(two) + 1
    BY <1>7
  <2>2. before \in Line /\ two \in Seq(Line)
    BY <1>2, <1>7
  <2>3. /\ Len(InsertAt(two, b, before)) = Len(two) + 1
        /\ \A k \in 1 .. Len(two) + 1 :
             InsertAt(two, b, before)[k] =
               IF k < b THEN two[k] ELSE IF k = b THEN before ELSE two[k - 1]
    BY ONLY <2>1, <2>2, InsertLine
  <2> QED
    BY <2>3 DEF ms
<1>9. ASSUME NEW j \in 1 .. Len(ls), j # b PROVE InLine(ms, ls[j].pos, ls[j].size)
  <2>1. PICK k \in 1 .. Len(two) : /\ two[k].pos <= ls[j].pos
                                   /\ ls[j].pos + ls[j].size <= EndOf(two[k])
    BY <1>6, <1>9 DEF Others, InLine
  <2>2. PICK i0 \in 1 .. Len(ms) : i0 = IF k < b THEN k ELSE k + 1
    BY <1>7, <1>8
  <2>3. ms[i0] = two[k]
    BY <1>7, <1>8, <2>2
  <2> QED
    BY <2>1, <2>3 DEF InLine
<1> QED
  BY <1>4, <1>9 DEF Others

LEMMA MarkedOthers ==
  ASSUME NEW ls, Tiles(ls), NEW b \in 1 .. Len(ls), NEW st \in Status,
         NEW p \in Nat, NEW n \in Nat \ {0},
         ls[b].pos <= p, p + n <= EndOf(ls[b])
  PROVE  Others(ls, Marked(ls, b, p, n, st), b)
<1>1. /\ ls[b].pos \in Nat /\ ls[b].size \in Nat
      /\ EndOf(ls[b]) = ls[b].pos + ls[b].size
  BY TileFacts
<1>2. CASE p = ls[b].pos /\ n = ls[b].size
  <2>1. Marked(ls, b, p, n, st) = WholeBlock(ls, b, st)
    BY <1>2 DEF Marked
  <2> QED
    BY <2>1, WholeBlockLines DEF Others
<1>3. CASE p = ls[b].pos /\ n # ls[b].size
  <2>1. Marked(ls, b, p, n, st) = StartOfBlock(ls, b, n, st)
    BY <1>3 DEF Marked
  <2>2. n < ls[b].size
    BY <1>1, <1>3
  <2> QED
    BY <2>1, <2>2, StartOfBlockOthers
<1>4. CASE p # ls[b].pos /\ p + n = EndOf(ls[b])
  <2>1. Marked(ls, b, p, n, st) = EndOfBlock(ls, b, n, st)
    BY <1>4 DEF Marked
  <2>2. n < ls[b].size
    BY <1>1, <1>4
  <2> QED
    BY <2>1, <2>2, EndOfBlockOthers
<1>5. CASE p # ls[b].pos /\ p + n # EndOf(ls[b])
  <2>1. Marked(ls, b, p, n, st) = InsideBlock(ls, b, p, n, st)
    BY <1>5 DEF Marked
  <2>2. ls[b].pos < p /\ p + n < EndOf(ls[b])
    BY <1>1, <1>5
  <2> QED
    BY <2>1, <2>2, InsideBlockOthers
<1> QED
  BY <1>2, <1>3, <1>4, <1>5

-----------------------------------------------------------------------------
(* The invariant and the theorems.                                           *)

(* What the merging loop starts from and keeps when it runs a second time, *)
(* in the repair after a reset or when connecting again after a refusal:   *)
(* only the first two lines may have the same status, and they are the     *)
(* first the loop looks at.                                                *)
SecondPass ==
  pc = "repair" \/ ret = "log_check_error" =>
    /\ \A k \in 2 .. Len(lines) - 1 : lines[k].status # lines[k + 1].status
    /\ pc \in Merging /\ i > 1 /\ Len(lines) > 1 => lines[1].status # lines[2].status

IInv == TypeOK /\ LogTiles /\ MergedBehind /\ SecondPass

LEMMA InitIInv == Init => IInv
<1> SUFFICES ASSUME Init PROVE IInv
  OBVIOUS
<1>1. Tiles(lines)
  BY NewLogFacts DEF Init
<1>2. lines \in Seq(Line)
  BY <1>1 DEF Tiles
<1> QED
  BY <1>1, <1>2 DEF Init, IInv, TypeOK, LogTiles, MergedBehind, SecondPass, Merging

(* A call of change_chunk_status_ccc that changes the log.                 *)
LEMMA ChangeChunkIInv ==
  ASSUME IInv, NEW p \in 0 .. Size, NEW n \in 1 .. Size, NEW s \in Status,
         ChangeChunk(p, n, s)
  PROVE  IInv'
<1> DEFINE b == FindBlock(lines, p)
<1>1. Tiles(lines) /\ Fits(lines, b, p, n)
  BY DEF IInv, LogTiles, ChangeChunk
<1>2. Tiles(lines')
  <2>1. MarksChunk(lines, lines', p, n, Keep(lines[b].status, s))
    BY <1>1, ChunkFacts DEF ChangeChunk
  <2> QED
    BY <2>1 DEF MarksChunk
<1>3. lines' \in Seq(Line)
  BY <1>2 DEF Tiles
<1>4. pc' = "cloning" /\ ret' = "ok" /\ i' = i
  BY DEF ChangeChunk
<1> QED
  BY <1>2, <1>3, <1>4 DEF IInv, TypeOK, LogTiles, MergedBehind, SecondPass, Merging

(* A turn of the merging loop.                                             *)
LEMMA MergeTurnIInv ==
  ASSUME IInv, MergeTurn
  PROVE  IInv'
<1>1. /\ Tiles(lines) /\ lines \in Seq(Line) /\ Len(lines) \in Nat
      /\ i \in Nat \ {0} /\ i < Len(lines) /\ pc \in Merging /\ pc' = pc /\ ret' = ret
  BY DEF IInv, TypeOK, LogTiles, MergeTurn, Tiles
<1>2. \A k \in 2 .. i - 1 : lines[k].status # lines[k + 1].status
  <2>1. TAKE k \in 2 .. i - 1
  <2>2. k < Len(lines)
    BY <1>1
  <2> QED
    BY <1>1, <2>2 DEF IInv, MergedBehind
<1>3. CASE /\ lines[i].status = lines[i + 1].status
           /\ lines' = RemoveAt([lines EXCEPT ![i] =
                         Block(@.pos, @.size + lines[i + 1].size, @.status)], i + 1)
           /\ i' = IF i > 1 THEN i ELSE 2
  <2>1. /\ Tiles(lines') /\ Len(lines') = Len(lines) - 1
        /\ \A k \in 1 .. i : lines'[k].status = lines[k].status
        /\ \A k \in i + 1 .. Len(lines) - 1 : lines'[k] = lines[k + 1]
    BY ZenonT(30), <1>1, <1>3, MergeFacts
  <2>2. ASSUME NEW k \in 2 .. i' - 1
        PROVE  lines'[k].status # lines'[k + 1].status
    <3>1. i > 1 /\ k \in 2 .. i - 1 /\ k \in 1 .. i /\ k + 1 \in 1 .. i
      BY <1>1, <1>3
    <3> QED
      BY <1>2, <2>1, <3>1
  <2>3. ASSUME pc = "repair" \/ ret = "log_check_error"
        PROVE  /\ \A k \in 2 .. Len(lines') - 1 : lines'[k].status # lines'[k + 1].status
               /\ Len(lines') > 1 => lines'[1].status # lines'[2].status
    <3>1. \A k \in 2 .. Len(lines) - 1 : lines[k].status # lines[k + 1].status
      BY <2>3 DEF IInv, SecondPass
    <3>2. i = 1
      <4>1. i > 1 => i \in 2 .. Len(lines) - 1
        BY <1>1
      <4> QED
        BY <1>1, <1>3, <3>1, <4>1
    <3>3. ASSUME NEW k \in 2 .. Len(lines') - 1
          PROVE  lines'[k].status # lines'[k + 1].status
      <4>1. /\ k \in i + 1 .. Len(lines) - 1 /\ k + 1 \in i + 1 .. Len(lines) - 1
            /\ k + 1 \in 2 .. Len(lines) - 1
        BY <1>1, <2>1, <3>2
      <4>2. lines'[k] = lines[k + 1] /\ lines'[k + 1] = lines[(k + 1) + 1]
        BY <2>1, <4>1
      <4> QED
        BY <3>1, <4>1, <4>2
    <3>4. ASSUME Len(lines') > 1
          PROVE  lines'[1].status # lines'[2].status
      <4>1. 2 \in 2 .. Len(lines) - 1 /\ 2 \in i + 1 .. Len(lines) - 1 /\ 1 \in 1 .. i
        BY <1>1, <2>1, <3>2, <3>4
      <4>2. lines'[1].status = lines[1].status /\ lines'[2] = lines[2 + 1]
        BY <2>1, <4>1
      <4>3. lines[1].status = lines[2].status
        BY <1>3, <3>2
      <4> QED
        BY <3>1, <4>1, <4>2, <4>3
    <3> QED
      BY <3>3, <3>4
  <2>4. lines' \in Seq(Line) /\ i' \in Nat \ {0}
    BY <1>1, <1>3, <2>1 DEF Tiles
  <2>5. TypeOK'
    BY <1>1, <2>4 DEF IInv, TypeOK
  <2> QED
    BY <1>1, <2>1, <2>2, <2>3, <2>5 DEF IInv, LogTiles, MergedBehind, SecondPass
<1>4. CASE /\ lines[i].status # lines[i + 1].status
           /\ i' = i + 1
           /\ UNCHANGED lines
  <2>1. i' \in Nat \ {0} /\ lines' = lines
    BY <1>1, <1>4
  <2>2. ASSUME NEW k \in 2 .. i' - 1
        PROVE  lines[k].status # lines[k + 1].status
    <3>1. k = i \/ k \in 2 .. i - 1
      BY <1>1, <1>4
    <3> QED
      BY <1>2, <1>4, <3>1
  <2>3. ASSUME pc = "repair" \/ ret = "log_check_error"
        PROVE  lines[1].status # lines[2].status
    <3>1. CASE i = 1
      BY <1>4, <3>1
    <3>2. CASE i > 1
      <4>1. Len(lines) > 1
        BY <1>1, <3>2
      <4> QED
        BY <1>1, <2>3, <3>2, <4>1 DEF IInv, SecondPass
    <3> QED
      BY <1>1, <3>1, <3>2
  <2>4. TypeOK'
    BY <1>1, <2>1 DEF IInv, TypeOK
  <2>5. MergedBehind'
    BY <2>1, <2>2 DEF MergedBehind
  <2>6. SecondPass'
    BY <1>1, <2>1, <2>3 DEF IInv, SecondPass
  <2> QED
    BY <1>1, <2>1, <2>4, <2>5, <2>6 DEF IInv, LogTiles
<1> QED
  BY <1>3, <1>4 DEF MergeTurn

(* The loop is entered at the first line and left past the last one.       *)
LEMMA LoopEntryIInv ==
  ASSUME IInv, ConnectRepair \/ RepairLog \/ ResetLogStatus
  PROVE  IInv'
<1>1. Tiles(lines) /\ lines \in Seq(Line)
  BY DEF IInv, LogTiles, TypeOK
<1>2. CASE ConnectRepair
  <2>1. TypeOK'
    BY <1>2 DEF ConnectRepair, IInv, TypeOK, Merging
  <2>2. LogTiles'
    BY <1>1, <1>2 DEF ConnectRepair, LogTiles
  <2>3. MergedBehind' /\ SecondPass'
    BY <1>2 DEF ConnectRepair, IInv, MergedBehind, SecondPass
  <2> QED
    BY <2>1, <2>2, <2>3 DEF IInv
<1>3. CASE RepairLog
  <2>1. TypeOK'
    BY <1>3 DEF RepairLog, IInv, TypeOK, Merging
  <2>2. LogTiles'
    BY <1>1, <1>3 DEF RepairLog, LogTiles
  <2>3. MergedBehind' /\ SecondPass'
    BY <1>3 DEF RepairLog, MergedBehind, SecondPass
  <2> QED
    BY <2>1, <2>2, <2>3 DEF IInv
<1>4. CASE ResetLogStatus
  <2>1. Tiles(lines')
    BY <1>1, <1>4, ResetFacts DEF ResetLogStatus
  <2>2. lines' \in Seq(Line)
    BY <2>1 DEF Tiles
  <2>3. TypeOK'
    BY <1>4, <2>2 DEF ResetLogStatus, TypeOK, Merging
  <2>4. MergedBehind' /\ SecondPass'
    BY <1>4 DEF ResetLogStatus, MergedBehind, SecondPass
  <2> QED
    BY <2>1, <2>3, <2>4 DEF IInv, LogTiles
<1> QED
  BY <1>2, <1>4, <1>3

LEMMA LoopExitIInv ==
  ASSUME IInv, ConnectRecheck \/ ResetRecheck \/ RepairEnd
  PROVE  IInv'
<1>1. /\ Tiles(lines) /\ Len(lines) \in Nat /\ lines' = lines
      /\ pc \in Merging /\ i \in Nat /\ i >= Len(lines)
  BY DEF IInv, LogTiles, TypeOK, Tiles, ConnectRecheck, ResetRecheck, RepairEnd, Merging
<1>2. \A k \in 2 .. Len(lines) - 1 : lines[k].status # lines[k + 1].status
  <2>1. TAKE k \in 2 .. Len(lines) - 1
  <2>2. k \in 2 .. i - 1 /\ k < Len(lines)
    BY <1>1
  <2> QED
    BY <1>1, <2>2 DEF IInv, MergedBehind
<1>3. TypeOK'
  BY DEF IInv, TypeOK, ConnectRecheck, OpenDrives, ResetRecheck, RepairEnd, Merging
<1>4. pc' \in Merging => i' = 1
  BY DEF ConnectRecheck, OpenDrives, ResetRecheck, RepairEnd, Merging
<1>5. MergedBehind' /\ SecondPass'
  BY <1>1, <1>2, <1>4 DEF MergedBehind, SecondPass
<1> QED
  BY <1>1, <1>3, <1>5 DEF IInv, LogTiles

(* Every step keeps the invariant.                                         *)
LEMMA NextIInv ==
  ASSUME IInv, [Next]_vars
  PROVE  IInv'
<1>1. CASE ChangeChunkStatus
  <2>1. PICK p \in 0 .. Size, n \in 1 .. Size :
          \/ ChangeRefused(p, n)
          \/ \E s \in Status : ChangeUnneeded(p, n, s) \/ ChangeChunk(p, n, s)
    BY <1>1 DEF ChangeChunkStatus
  <2>2. CASE \/ ChangeRefused(p, n)
             \/ \E s \in Status : ChangeUnneeded(p, n, s)
    <3>1. lines' = lines /\ pc' = "cloning" /\ i' = i /\ pc = "cloning"
          /\ ret' \in {"internal_error", "same"}
      BY <2>2 DEF ChangeRefused, ChangeUnneeded
    <3> QED
      BY <3>1 DEF IInv, TypeOK, LogTiles, MergedBehind, SecondPass, Merging
  <2>3. CASE \E s \in Status : ChangeChunk(p, n, s)
    BY <2>3, ChangeChunkIInv
  <2> QED
    BY <2>1, <2>2, <2>3
<1>2. CASE ConnectClean \/ Disconnect
  <2>1. lines' = lines /\ pc' \in {"idle", "cloning"} /\ i' = i
        /\ ret' \in {"none", "connected", "device_error"}
    BY <1>2 DEF ConnectClean, OpenDrives, Disconnect
  <2> QED
    BY <2>1 DEF IInv, TypeOK, LogTiles, MergedBehind, SecondPass, Merging
<1>3. CASE CompleteLogReset
  <2>1. Tiles(lines') /\ pc' = "cloning" /\ i' = i /\ ret' = "none"
    BY <1>3, NewLogFacts DEF CompleteLogReset
  <2>2. lines' \in Seq(Line)
    BY <2>1 DEF Tiles
  <2> QED
    BY <2>1, <2>2 DEF IInv, TypeOK, LogTiles, MergedBehind, SecondPass, Merging
<1>4. CASE ConnectRepair \/ RepairLog \/ ResetLogStatus
  BY <1>4, LoopEntryIInv
<1>5. CASE MergeTurn
  BY <1>5, MergeTurnIInv
<1>6. CASE ConnectRecheck \/ ResetRecheck \/ RepairEnd
  BY <1>6, LoopExitIInv
<1>7. CASE UNCHANGED vars
  BY <1>7 DEF vars, IInv, TypeOK, LogTiles, MergedBehind, SecondPass
<1> QED
  BY <1>1, <1>2, <1>3, <1>4, <1>5, <1>6, <1>7 DEF Next, MergeLoop

(* The invariant holds in every behaviour of the program.                  *)
THEOREM IInvHolds == Spec => []IInv
<1>1. Init => IInv
  BY InitIInv
<1>2. IInv /\ [Next]_vars => IInv'
  BY NextIInv
<1> QED
  BY <1>1, <1>2, PTL DEF Spec

(* The log keeps its type.                                                 *)
THEOREM TypeCorrect == Spec => []TypeOK
<1>1. IInv => TypeOK
  BY DEF IInv
<1> QED
  BY <1>1, IInvHolds, PTL

(* What the invariant says about the complaints of check_log_ccc.          *)
LEMMA NoComplaint ==
  ASSUME NEW ls, Tiles(ls)
  PROVE  /\ Len(ls) > 0 /\ CheckLog(ls) \subseteq {"same"}
         /\ (\A k \in 1 .. Len(ls) - 1 : ls[k].status # ls[k + 1].status) => CheckLog(ls) = {}
<1>1. /\ Len(ls) \in Nat /\ Len(ls) > 0 /\ ls[1].pos = 0
      /\ \A k \in 1 .. Len(ls) - 1 : EndOf(ls[k]) = ls[k + 1].pos
      /\ EndOf(ls[Len(ls)]) = Size
  BY Neighbours
<1>2. \A k \in 1 .. Len(ls) - 1 : EndOf(ls[k]) \in Nat /\ ls[k].size # 0
  <2>1. TAKE k \in 1 .. Len(ls) - 1
  <2>2. k \in 1 .. Len(ls)
    BY <1>1
  <2>3. EndOf(ls[k]) \in Nat /\ ls[k].size \in Nat /\ ls[k].size > 0
    BY <2>2, TileFacts
  <2> QED
    BY <2>3
<1>3. /\ ~(\E k \in 1 .. Len(ls) - 1 : EndOf(ls[k]) > ls[k + 1].pos)
      /\ ~(\E k \in 1 .. Len(ls) - 1 : ls[k].size = 0)
      /\ ~(\E k \in 1 .. Len(ls) - 1 : EndOf(ls[k]) < ls[k + 1].pos)
  BY <1>1, <1>2
<1>4. ASSUME NEW f \in CheckLog(ls)
      PROVE  f = "same" /\ \E k \in 1 .. Len(ls) - 1 : ls[k].status = ls[k + 1].status
  <2>1. f \in {"first", "overlap", "empty", "gap", "same", "last"}
    BY DEF CheckLog
  <2>2. f # "first"
    BY <1>1 DEF CheckLog
  <2>3. f # "last"
    BY <1>1 DEF CheckLog
  <2>4. f # "overlap" /\ f # "empty" /\ f # "gap"
    BY <1>3 DEF CheckLog
  <2>5. f = "same" => \E k \in 1 .. Len(ls) - 1 : ls[k].status = ls[k + 1].status
    BY DEF CheckLog
  <2> QED
    BY <2>1, <2>2, <2>3, <2>4, <2>5
<1> QED
  BY <1>1, <1>4

(* No sequence of changes, merges and resets leaves a gap, an overlap or   *)
(* an empty line: check_log_ccc never finds anything but equal neighbours. *)
THEOREM Covers == Spec => []LogCoversSource
<1>1. IInv => LogCoversSource
  BY NoComplaint DEF IInv, LogTiles, LogCoversSource
<1> QED
  BY <1>1, IInvHolds, PTL

(* The lines the merging loop has passed, except the first, differ from    *)
(* their neighbours below.                                                 *)
THEOREM MergesBehind == Spec => []MergedBehind
<1>1. IInv => MergedBehind
  BY DEF IInv
<1> QED
  BY <1>1, IInvHolds, PTL

(* A second pass of the loop that has come to the end leaves no complaint. *)
LEMMA SecondPassClean ==
  ASSUME IInv, pc \in Merging, pc = "repair" \/ ret = "log_check_error", i >= Len(lines)
  PROVE  CheckLog(lines) = {}
<1>1. /\ Tiles(lines) /\ Len(lines) \in Nat /\ i \in Nat
      /\ \A k \in 2 .. Len(lines) - 1 : lines[k].status # lines[k + 1].status
      /\ i > 1 /\ Len(lines) > 1 => lines[1].status # lines[2].status
  BY DEF IInv, LogTiles, Tiles, TypeOK, SecondPass
<1>2. ASSUME NEW k \in 1 .. Len(lines) - 1
      PROVE  lines[k].status # lines[k + 1].status
  <2>1. CASE k = 1
    BY <1>1, <2>1
  <2>2. CASE k # 1
    <3>1. k \in 2 .. Len(lines) - 1
      BY <1>1, <2>2
    <3> QED
      BY <1>1, <3>1
  <2> QED
    BY <2>1, <2>2
<1> QED
  BY <1>1, <1>2, NoComplaint

(* reset_log_status_ccc, with the repair that do_reset_log_status_ccc runs *)
(* after it, ends with a log check_log_ccc accepts.                        *)
THEOREM ResetsClean == Spec => ResetLeavesClean
<1>1. ASSUME IInv, [Next]_vars, pc \in {"reset", "repair"}, pc' = "idle"
      PROVE  CheckLog(lines') = {}
  <2>1. \/ ResetRecheck /\ pc = "reset"
        \/ RepairEnd /\ pc = "repair"
    BY <1>1 DEF Next, vars, ChangeChunkStatus, ChangeRefused, ChangeUnneeded, ChangeChunk,
                ConnectClean, ConnectRepair, Disconnect, ResetLogStatus, RepairLog,
                CompleteLogReset, MergeLoop, MergeTurn, ConnectRecheck, OpenDrives,
                ResetRecheck, RepairEnd
  <2>2. CASE ResetRecheck /\ pc = "reset"
    <3>1. CheckLog(lines) # {"same"} /\ lines' = lines
      BY <1>1, <2>2 DEF ResetRecheck
    <3>2. CheckLog(lines) \subseteq {"same"}
      BY <1>1, NoComplaint DEF IInv, LogTiles
    <3> QED
      BY <3>1, <3>2
  <2>3. CASE RepairEnd /\ pc = "repair"
    <3>1. i >= Len(lines) /\ lines' = lines /\ pc \in Merging
      BY <2>3 DEF RepairEnd, Merging
    <3> QED
      BY <1>1, <2>3, <3>1, SecondPassClean
  <2> QED
    BY <2>1, <2>2, <2>3
<1>2. IInv /\ [Next]_vars
      => ((pc \in {"reset", "repair"} /\ pc' = "idle") => CheckLog(lines') = {})
  BY <1>1
<1> QED
  BY <1>2, IInvHolds, PTL DEF Spec, ResetLeavesClean

(* Connecting is not refused twice because of the log.                     *)
THEOREM RefusesOnce == Spec => RefusedOnlyOnce
<1>1. ASSUME IInv, [Next]_vars, ret = "log_check_error", pc = "connect", pc' # "connect"
      PROVE  ret' # "log_check_error"
  <2>1. ConnectRecheck
    BY <1>1 DEF Next, vars, ChangeChunkStatus, ChangeRefused, ChangeUnneeded, ChangeChunk,
                ConnectClean, ConnectRepair, Disconnect, ResetLogStatus, RepairLog,
                CompleteLogReset, MergeLoop, MergeTurn, ConnectRecheck, OpenDrives,
                ResetRecheck, RepairEnd
  <2>2. CheckLog(lines) = {}
    BY <1>1, <2>1, SecondPassClean DEF ConnectRecheck, Merging
  <2> QED
    BY <2>1, <2>2 DEF ConnectRecheck, OpenDrives
<1>2. IInv /\ [Next]_vars
      => (ret = "log_check_error" /\ pc = "connect" /\ pc' # "connect"
          => ret' # "log_check_error")
  BY <1>1
<1> QED
  BY <1>2, IInvHolds, PTL DEF Spec, RefusedOnlyOnce

-----------------------------------------------------------------------------
(* The log, seen sector by sector, is the abstract map.                    *)
LEMMA InitRefines == Init => Abstract!Init
<1> SUFFICES ASSUME Init PROVE SectorStatus = [x \in Sectors |-> Plain("NONTRIED")]
  BY DEF Abstract!Init, Abstract!Sectors, Abstract!Plain, Sectors, Plain
<1>1. \A x \in Sectors : StatusAt(lines, x) = Plain("NONTRIED")
  BY NewLogFacts DEF Init
<1> QED
  BY <1>1 DEF SectorStatus

LEMMA ChangeRefines ==
  ASSUME IInv, NEW p \in 0 .. Size, NEW n \in 1 .. Size, NEW s \in Status,
         ChangeChunk(p, n, s)
  PROVE  Abstract!Next
<1> DEFINE b == FindBlock(lines, p)
           st == lines[b].status
<1>1. Tiles(lines) /\ Fits(lines, b, p, n) /\ st # s
      /\ lines' = Marked(lines, b, p, n, Keep(st, s))
  BY DEF IInv, LogTiles, ChangeChunk
<1>2. /\ \A x \in p .. p + n - 1 : x \in Sectors /\ StatusAt(lines, x) = st
      /\ MarksChunk(lines, lines', p, n, Keep(st, s))
  BY <1>1, ChunkFacts
<1> HIDE DEF st
<1>3. Size \in Nat /\ p \in Nat /\ n \in Nat /\ n > 0
  BY LogSizeAssumption
<1>4. \A x \in Sectors : x \in p .. p + n - 1 <=> p <= x /\ x < p + n
  BY <1>3 DEF Sectors
<1>5. \A x \in Sectors : StatusAt(lines', x) =
        IF x \in p .. p + n - 1 THEN Keep(StatusAt(lines, x), s) ELSE StatusAt(lines, x)
  BY <1>2, <1>4 DEF MarksChunk
<1>6. SectorStatus' = [x \in Sectors |->
        IF x \in p .. p + n - 1 THEN Keep(SectorStatus[x], s) ELSE SectorStatus[x]]
  BY <1>5 DEF SectorStatus
<1>7. \A x \in p .. p + n - 1 : x \in Sectors /\ SectorStatus[x] = st
  BY <1>2 DEF SectorStatus
<1>8. p \in Sectors
  BY <1>3, <1>7
<1>9. Abstract!Mark(p, n, s)
  <2>1. Abstract!Chunk(p, n) = p .. p + n - 1
    BY DEF Abstract!Chunk
  <2>2. p .. p + n - 1 \subseteq Sectors
    BY <1>7
  <2>3. \A x, y \in p .. p + n - 1 : SectorStatus[x] = SectorStatus[y]
    BY <1>7
  <2>4. \A x \in p .. p + n - 1 : SectorStatus[x] # s
    BY <1>1, <1>7
  <2>5. \A old : Abstract!Keep(old, s) = Keep(old, s)
    BY DEF Abstract!Keep, Keep
  <2>6. Abstract!Sectors = Sectors
    BY DEF Abstract!Sectors, Sectors
  <2> QED
    BY <1>6, <2>1, <2>2, <2>3, <2>4, <2>5, <2>6 DEF Abstract!Mark
<1> QED
  BY <1>8, <1>9 DEF Abstract!Next, Abstract!Sectors, Sectors, Abstract!Status, Status

LEMMA NextRefines ==
  ASSUME IInv, [Next]_vars
  PROVE  [Abstract!Next]_SectorStatus
<1>1. Tiles(lines)
  BY DEF IInv, LogTiles
<1>2. CASE lines' = lines
  BY <1>2 DEF SectorStatus, StatusAt, FindBlock, Holds, EndOf
<1>3. CASE \E p \in 0 .. Size, n \in 1 .. Size, s \in Status : ChangeChunk(p, n, s)
  BY <1>3, ChangeRefines
<1>4. CASE ResetLogStatus
  <2>1. \A x \in Sectors : StatusAt(lines', x) = Forget(StatusAt(lines, x))
    BY <1>1, <1>4, ResetFacts DEF ResetLogStatus
  <2>2. SectorStatus' = [x \in Sectors |-> Forget(SectorStatus[x])]
    BY <2>1 DEF SectorStatus
  <2>3. \A old : Abstract!Forget(old) = Forget(old)
    BY DEF Abstract!Forget, Forget, Abstract!Plain, Plain
  <2>4. Abstract!Sectors = Sectors
    BY DEF Abstract!Sectors, Sectors
  <2>5. Abstract!Reset
    BY <2>2, <2>3, <2>4 DEF Abstract!Reset
  <2> QED
    BY <2>5 DEF Abstract!Next
<1>5. CASE CompleteLogReset
  <2>1. lines' = NewLog
    BY <1>5 DEF CompleteLogReset
  <2>2. \A x \in Sectors : StatusAt(lines', x) = Plain("NONTRIED")
    BY <2>1, NewLogFacts
  <2>3. SectorStatus' = [x \in Sectors |-> Plain("NONTRIED")]
    BY <2>2 DEF SectorStatus
  <2>4. Abstract!CompleteReset
    BY <2>3 DEF Abstract!CompleteReset, Abstract!Sectors, Sectors, Abstract!Plain, Plain
  <2> QED
    BY <2>4 DEF Abstract!Next
<1>6. CASE MergeTurn /\ lines' # lines
  <2>1. /\ lines[i].status = lines[i + 1].status /\ i < Len(lines) /\ i \in Nat \ {0}
        /\ lines' = RemoveAt([lines EXCEPT ![i] =
                       Block(@.pos, @.size + lines[i + 1].size, @.status)], i + 1)
    BY <1>6 DEF MergeTurn, IInv, TypeOK
  <2>2. \A x \in Sectors : StatusAt(lines', x) = StatusAt(lines, x)
    BY <1>1, <2>1, MergeFacts
  <2>3. SectorStatus' = SectorStatus
    BY <2>2 DEF SectorStatus
  <2> QED
    BY <2>3
<1>7. \/ lines' = lines
      \/ \E p \in 0 .. Size, n \in 1 .. Size, s \in Status : ChangeChunk(p, n, s)
      \/ ResetLogStatus \/ CompleteLogReset
      \/ MergeTurn /\ lines' # lines
  <2>1. CASE ChangeChunkStatus
    BY <2>1 DEF ChangeChunkStatus, ChangeRefused, ChangeUnneeded
  <2>2. CASE ConnectClean \/ ConnectRepair \/ RepairLog \/ Disconnect
             \/ ConnectRecheck \/ ResetRecheck \/ RepairEnd \/ UNCHANGED vars
    BY <2>2 DEF ConnectClean, ConnectRepair, RepairLog, Disconnect, ConnectRecheck,
                ResetRecheck, RepairEnd, vars
  <2> QED
    BY <2>1, <2>2 DEF Next, MergeLoop
<1> QED
  BY <1>2, <1>3, <1>4, <1>5, <1>6, <1>7

(* Splitting, joining and merging blocks is invisible: every change of the *)
(* log gives the new status to the sectors of its chunk and to no others.  *)
THEOREM Refines == Spec => ImplementsSectorMap
<1>1. Init => Abstract!Init
  BY InitRefines
<1>2. IInv /\ [Next]_vars => [Abstract!Next]_SectorStatus
  BY NextRefines
<1> QED
  BY <1>1, <1>2, IInvHolds, PTL DEF Spec, ImplementsSectorMap, Abstract!Spec
=============================================================================
