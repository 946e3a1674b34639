---------------------------- MODULE DomainProofs ----------------------------
(***************************************************************************)
(* Proofs about Domain: for a source of any size and any number of         *)
(* requests the list stays gapless and marks just what was asked for, until *)
(* a request begins inside a line to be changed and runs past it; and in   *)
(* every ordered list the piece handed to a pass is of the domain, and     *)
(* there is one if the chunk has a sector of the domain.                   *)
(***************************************************************************)
EXTENDS Domain, SequenceTheorems, WellFoundedInduction, TLAPS

(* In a domain that is exact, what is still to be marked is the rest of    *)
(* the request.                                                            *)
RestIsOwed == exact => wanted = Marked(dlines) \cup Chunk(rest.pos, rest.size)

IInv == TypeOK /\ StaysGapless /\ RestIsOwed

USE DomainSizeAssumption, DomainBoundsAssumption

-----------------------------------------------------------------------------
(* Sets of numbers and lists.                                              *)

LEMMA LeastOf ==
  ASSUME NEW T, T \subseteq Nat, T # {}
  PROVE  \E x \in T : \A y \in T : x <= y
<1>1. PICK x \in T : \A y \in T : <<y, x>> \notin OpToRel(<, Nat)
  BY NatLessThanWellFounded, WFMin
<1>2. ASSUME NEW y \in T
      PROVE  x <= y
  <2>1. x \in Nat /\ y \in Nat
    OBVIOUS
  <2>2. <<y, x>> \notin OpToRel(<, Nat)
    BY <1>1
  <2>3. ~(y < x)
    BY <2>1, <2>2 DEF OpToRel
  <2> QED
    BY <2>1, <2>3
<1> QED
  BY <1>2

LEMMA GreatestOf ==
  ASSUME NEW N \in Nat, NEW T, T \subseteq 1 .. N, T # {}
  PROVE  \E x \in T : \A y \in T : y <= x
<1> DEFINE S == {d \in Nat : N - d \in T}
<1>1. PICK t \in T : TRUE
  OBVIOUS
<1>2. N - t \in S
  <2>1. t \in 1 .. N
    OBVIOUS
  <2> QED
    BY <2>1
<1>3. PICK d \in S : \A e \in S : d <= e
  BY <1>2, LeastOf
<1>4. ASSUME NEW y \in T
      PROVE  y <= N - d
  <2>1. y \in 1 .. N /\ N - (N - y) = y /\ N - y \in Nat
    OBVIOUS
  <2>2. N - y \in S
    BY <2>1
  <2>3. d <= N - y /\ d \in Nat
    BY <1>3, <2>2
  <2> QED
    BY <2>1, <2>3
<1> QED
  BY <1>4

LEMMA LowestFacts ==
  ASSUME NEW T, T \subseteq Nat, T # {}
  PROVE  Lowest(T) \in T
BY LeastOf DEF Lowest

LEMMA HighestFacts ==
  ASSUME NEW N \in Nat, NEW T, T \subseteq 1 .. N, T # {}
  PROVE  Highest(T) \in T
BY GreatestOf DEF Highest

LEMMA InsertAtFacts ==
  ASSUME NEW S, NEW s \in Seq(S), NEW b \in 1 .. Len(s) + 1, NEW e \in S
  PROVE  /\ InsertAt(s, b, e) \in Seq(S)
         /\ Len(InsertAt(s, b, e)) = Len(s) + 1
         /\ \A k \in 1 .. Len(s) + 1 :
              InsertAt(s, b, e)[k] = IF k < b THEN s[k] ELSE IF k = b THEN e ELSE s[k - 1]
<1> DEFINE above == SubSeq(s, 1, b - 1)
           below == SubSeq(s, b, Len(s))
           upper == above \o <<e>>
<1>0. Len(s) \in Nat
  OBVIOUS
<1>1. /\ above \in Seq(S) /\ Len(above) = b - 1
      /\ \A k \in 1 .. b - 1 : above[k] = s[k]
  BY SubSeqProperties, LenProperties, ElementOfSeq
<1>2. /\ below \in Seq(S) /\ Len(below) = Len(s) - b + 1
      /\ \A k \in 1 .. Len(s) - b + 1 : below[k] = s[b + k - 1]
  BY SubSeqProperties, LenProperties, ElementOfSeq
<1>3. <<e>> \in Seq(S) /\ Len(<<e>>) = 1 /\ <<e>>[1] = e
  OBVIOUS
<1> HIDE DEF above, below
<1>4. /\ upper \in Seq(S) /\ Len(upper) = Len(above) + Len(<<e>>)
      /\ \A k \in 1 .. Len(above) + Len(<<e>>) :
           upper[k] = IF k <= Len(above) THEN above[k] ELSE <<e>>[k - Len(above)]
  BY ZenonT(30), <1>1, <1>3, ConcatProperties
<1>5. /\ upper \in Seq(S) /\ Len(upper) = b
      /\ \A k \in 1 .. b - 1 : upper[k] = s[k]
      /\ upper[b] = e
  BY SMTT(30), <1>1, <1>3, <1>4
<1> HIDE DEF upper
<1>6. /\ upper \o below \in Seq(S)
      /\ Len(upper \o below) = Len(upper) + Len(below)
      /\ \A k \in 1 .. Len(upper) + Len(below) :
           (upper \o below)[k] = IF k <= Len(upper) THEN upper[k] ELSE below[k - Len(upper)]
  BY <1>2, <1>5, ConcatProperties
<1>7. InsertAt(s, b, e) = upper \o below
  BY DEF InsertAt, above, below, upper
<1>8. \A k \in 1 .. Len(s) + 1 : k > b => below[k - b] = s[k - 1]
  <2>1. TAKE k \in 1 .. Len(s) + 1
  <2>2. HAVE k > b
  <2>3. k - b \in 1 .. Len(s) - b + 1 /\ b + (k - b) - 1 = k - 1
    BY <1>0, <2>2
  <2> QED
    BY <1>2, <2>3
<1> QED
  BY <1>0, <1>2, <1>5, <1>6, <1>7, <1>8

LEMMA RemoveAtFacts ==
  ASSUME NEW S, NEW s \in Seq(S), NEW b \in 1 .. Len(s)
  PROVE  /\ RemoveAt(s, b) \in Seq(S)
         /\ Len(RemoveAt(s, b)) = Len(s) - 1
         /\ \A k \in 1 .. Len(s) - 1 :
              RemoveAt(s, b)[k] = IF k < b THEN s[k] ELSE s[k + 1]
<1> DEFINE above == SubSeq(s, 1, b - 1)
           below == SubSeq(s, b + 1, Len(s))
<1>0. Len(s) \in Nat
  OBVIOUS
<1>1. /\ above \in Seq(S) /\ Len(above) = b - 1
      /\ \A k \in 1 .. b - 1 : above[k] = s[k]
  BY SubSeqProperties, LenProperties, ElementOfSeq
<1>2. /\ below \in Seq(S) /\ Len(below) = Len(s) - b
      /\ \A k \in 1 .. Len(s) - b : below[k] = s[b + k]
  BY SubSeqProperties, LenProperties, ElementOfSeq
<1> HIDE DEF above, below
<1>3. /\ above \o below \in Seq(S)
      /\ Len(above \o below) = Len(above) + Len(below)
      /\ \A k \in 1 .. Len(above) + Len(below) :
           (above \o below)[k] = IF k <= Len(above) THEN above[k] ELSE below[k - Len(above)]
  BY <1>1, <1>2, ConcatProperties
<1>4. RemoveAt(s, b) = above \o below
  BY DEF RemoveAt, above, below
<1>5. \A k \in 1 .. Len(s) - 1 : k >= b => below[k - (b - 1)] = s[k + 1]
  <2>1. TAKE k \in 1 .. Len(s) - 1
  <2>2. HAVE k >= b
  <2>3. k - (b - 1) \in 1 .. Len(s) - b /\ b + (k - (b - 1)) = k + 1
    BY <1>0, <2>2
  <2> QED
    BY <1>2, <2>3
<1>6. /\ Len(above \o below) = Len(s) - 1
      /\ \A k \in 1 .. Len(s) - 1 :
           (above \o below)[k] = IF k < b THEN above[k] ELSE below[k - (b - 1)]
  BY <1>0, <1>1, <1>2, <1>3
<1>7. \A k \in 1 .. Len(s) - 1 : k < b => above[k] = s[k]
  BY <1>1
<1> QED
  BY <1>3, <1>4, <1>5, <1>6, <1>7

-----------------------------------------------------------------------------
LEMMA NatInduct ==
  ASSUME NEW T, T \subseteq Nat, 0 \in T, \A k \in T : k + 1 \in T
  PROVE  \A k \in Nat : k \in T
<1>1. SUFFICES ASSUME Nat \ T # {} PROVE FALSE
  OBVIOUS
<1>2. PICK x \in Nat \ T : \A y \in Nat \ T : x <= y
  BY <1>1, LeastOf
<1>3. x - 1 \in Nat
  BY <1>2
<1>4. x - 1 \in T
  BY <1>2, <1>3
<1>5. x - 1 + 1 \in T
  BY <1>4
<1> QED
  BY <1>2, <1>5

-----------------------------------------------------------------------------
(* Lines.                                                                  *)

LEMMA LineFacts ==
  ASSUME NEW ls \in Seq(DLine), NEW k \in 1 .. Len(ls)
  PROVE  /\ ls[k] \in DLine
         /\ ls[k].pos \in Int /\ ls[k].size \in Int
         /\ ls[k].status \in {"NONTRIED", "FINISHED"}
         /\ EndOf(ls[k]) \in Int /\ EndOf(ls[k]) = ls[k].pos + ls[k].size
<1>1. ls[k] \in DLine
  BY ElementOfSeq
<1> QED
  BY <1>1 DEF DLine, EndOf

LEMMA BlockFacts ==
  ASSUME NEW p \in Int, NEW n \in Int, NEW st \in {"NONTRIED", "FINISHED"}
  PROVE  /\ Block(p, n, st) \in DLine
         /\ Block(p, n, st).pos = p /\ Block(p, n, st).size = n
         /\ Block(p, n, st).status = st /\ EndOf(Block(p, n, st)) = p + n
BY DEF Block, DLine, EndOf

LEMMA OrderedPairs ==
  ASSUME NEW ls \in Seq(DLine), Ordered(ls),
         NEW j \in 1 .. Len(ls), NEW k \in 1 .. Len(ls), j < k
  PROVE  EndOf(ls[j]) <= ls[k].pos
<1> DEFINE T == {d \in Nat : j + 1 + d <= Len(ls) => EndOf(ls[j]) <= ls[j + 1 + d].pos}
<1>0. Len(ls) \in Nat
  OBVIOUS
<1>1. 0 \in T
  BY <1>0 DEF Ordered
<1>2. ASSUME NEW d \in T
      PROVE  d + 1 \in T
  <2>1. SUFFICES ASSUME j + 1 + (d + 1) <= Len(ls)
                 PROVE  EndOf(ls[j]) <= ls[j + 1 + (d + 1)].pos
    OBVIOUS
  <2> DEFINE m == j + 1 + d
  <2>2. m \in 1 .. Len(ls) - 1 /\ m \in 1 .. Len(ls) /\ m + 1 \in 1 .. Len(ls)
    BY <1>0, <2>1
  <2>3. EndOf(ls[j]) <= ls[m].pos
    BY <2>2
  <2>4. ls[m].size > 0 /\ EndOf(ls[m]) <= ls[m + 1].pos
    BY <2>2 DEF Ordered, HasSectors
  <2>5. m + 1 = j + 1 + (d + 1)
    OBVIOUS
  <2> HIDE DEF m
  <2>6. /\ EndOf(ls[j]) \in Int /\ ls[m + 1].pos \in Int
        /\ ls[m].pos \in Int /\ ls[m].size \in Int /\ EndOf(ls[m]) = ls[m].pos + ls[m].size
    BY <2>2, LineFacts
  <2>7. EndOf(ls[j]) <= ls[m + 1].pos
    BY SMTT(30), <2>3, <2>4, <2>6
  <2> QED
    BY <2>5, <2>7
<1> HIDE DEF T
<1>3. \A d \in Nat : d \in T
  <2>1. T \subseteq Nat
    BY DEF T
  <2> QED
    BY <1>1, <1>2, <2>1, NatInduct
<1>4. k - j - 1 \in Nat /\ j + 1 + (k - j - 1) = k
  BY <1>0
<1>5. k - j - 1 \in T
  BY <1>3, <1>4
<1> QED
  BY <1>0, <1>4, <1>5 DEF T

LEMMA GaplessIsOrdered ==
  ASSUME NEW ls \in Seq(DLine), Gapless(ls)
  PROVE  Ordered(ls)
<1>1. ASSUME NEW k \in 1 .. Len(ls) - 1
      PROVE  EndOf(ls[k]) <= ls[k + 1].pos
  <2>1. EndOf(ls[k]) = ls[k + 1].pos
    BY DEF Gapless
  <2>2. k \in 1 .. Len(ls)
    OBVIOUS
  <2> QED
    BY <2>1, <2>2, LineFacts
<1> QED
  BY <1>1 DEF Gapless, Ordered

(* A gapless list has a line for each sector.                              *)
LEMMA GaplessCovers ==
  ASSUME NEW ls \in Seq(DLine), Gapless(ls), NEW x \in Sectors
  PROVE  \E k \in 1 .. Len(ls) : Meets(ls[k], x, 1)
<1> DEFINE T == {k \in 1 .. Len(ls) : x < EndOf(ls[k])}
<1>0. Len(ls) \in Nat /\ Len(ls) > 0 /\ x \in Nat /\ x < Size /\ Size \in Nat
  BY DEF Gapless, Sectors
<1>1. Len(ls) \in T
  BY <1>0 DEF Gapless
<1>2. PICK k \in T : \A j \in T : k <= j
  <2>1. T \subseteq Nat /\ T # {}
    BY <1>0, <1>1
  <2> QED
    BY <2>1, LeastOf
<1>3. ls[k].pos <= x
  <2>1. CASE k = 1
    BY <1>0, <2>1 DEF Gapless
  <2>2. CASE k > 1
    <3>1. k - 1 \in 1 .. Len(ls) - 1 /\ k - 1 \in 1 .. Len(ls) /\ (k - 1) + 1 = k
      BY <1>0, <2>2
    <3>2. k - 1 \notin T
      BY <1>2, <3>1
    <3>3. EndOf(ls[k - 1]) = ls[k].pos
      BY <3>1 DEF Gapless
    <3> QED
      BY <1>0, <3>1, <3>2, <3>3, LineFacts
  <2> QED
    BY <1>0, <1>2, <2>1, <2>2
<1>4. ls[k].pos \in Int
  BY <1>2, LineFacts
<1> QED
  BY <1>0, <1>2, <1>3, <1>4 DEF Meets

LEMMA MeetsIsShared ==
  ASSUME NEW ls \in Seq(DLine), NEW k \in 1 .. Len(ls), NEW p \in Int, NEW n \in Int,
         ls[k].size > 0, n > 0
  PROVE  Meets(ls[k], p, n) <=> Chunk(p, n) \cap Chunk(ls[k].pos, ls[k].size) # {}
<1>0. /\ ls[k].pos \in Int /\ ls[k].size \in Int
      /\ EndOf(ls[k]) = ls[k].pos + ls[k].size
  BY LineFacts
<1>1. ASSUME Meets(ls[k], p, n)
      PROVE  Chunk(p, n) \cap Chunk(ls[k].pos, ls[k].size) # {}
  <2>1. CASE p <= ls[k].pos
    <3>1. ls[k].pos \in Chunk(p, n) /\ ls[k].pos \in Chunk(ls[k].pos, ls[k].size)
      BY <1>0, <1>1, <2>1 DEF Meets, Chunk
    <3> QED
      BY <3>1
  <2>2. CASE p > ls[k].pos
    <3>1. p \in Chunk(p, n) /\ p \in Chunk(ls[k].pos, ls[k].size)
      BY SMTT(30), <1>0, <1>1, <2>2 DEF Meets, Chunk
    <3> QED
      BY <3>1
  <2> QED
    BY <1>0, <2>1, <2>2
<1>2. ASSUME NEW x \in Chunk(p, n), x \in Chunk(ls[k].pos, ls[k].size)
      PROVE  Meets(ls[k], p, n)
  BY <1>0, <1>2 DEF Meets, Chunk
<1> QED
  BY <1>1, <1>2

-----------------------------------------------------------------------------
(* The binary search.                                                      *)

(* Its windows, those of at most k lines, one turn of it, and the function *)
(* the turns define.                                                       *)
Windows(ls) == (1 .. Len(ls) + 1) \X (0 .. Len(ls))
Narrow(ls, k) == {w \in Windows(ls) : w[2] + 1 - w[1] <= k}
Halving(ls, p, n, look, w) ==
  IF w[1] > w[2] THEN 0
  ELSE IF Meets(ls[Middle(w)], p, n) THEN Middle(w)
  ELSE IF p > ls[Middle(w)].pos THEN look[<<Middle(w) + 1, w[2]>>]
  ELSE look[<<w[1], Middle(w) - 1>>]
IsLook(ls, p, n, f) == f = [w \in Windows(ls) |-> Halving(ls, p, n, f, w)]

LEMMA Halves ==
  ASSUME NEW ls, Len(ls) \in Nat, NEW w \in Windows(ls), w[1] <= w[2]
  PROVE  /\ Middle(w) \in 1 .. Len(ls) /\ w[1] <= Middle(w) /\ Middle(w) <= w[2]
         /\ w[1] \in 1 .. Len(ls) + 1 /\ w[2] \in 0 .. Len(ls)
         /\ <<Middle(w) + 1, w[2]>> \in Windows(ls)
         /\ <<w[1], Middle(w) - 1>> \in Windows(ls)
<1>1. w[1] \in 1 .. Len(ls) + 1 /\ w[2] \in 0 .. Len(ls)
  BY DEF Windows
<1>2. /\ Middle(w) \in Int /\ w[1] <= Middle(w) /\ Middle(w) <= w[2]
  BY <1>1 DEF Middle
<1> QED
  BY <1>1, <1>2 DEF Windows

LEMMA HalvesAreNarrow ==
  ASSUME NEW ls, Len(ls) \in Nat, NEW k \in Nat, NEW w \in Narrow(ls, k + 1), w[1] <= w[2]
  PROVE  /\ <<Middle(w) + 1, w[2]>> \in Narrow(ls, k)
         /\ <<w[1], Middle(w) - 1>> \in Narrow(ls, k)
<1>1. w \in Windows(ls) /\ w[2] + 1 - w[1] <= k + 1
  BY DEF Narrow
<1>2. /\ Middle(w) \in 1 .. Len(ls) /\ w[1] <= Middle(w) /\ Middle(w) <= w[2]
      /\ w[1] \in 1 .. Len(ls) + 1 /\ w[2] \in 0 .. Len(ls)
      /\ <<Middle(w) + 1, w[2]>> \in Windows(ls)
      /\ <<w[1], Middle(w) - 1>> \in Windows(ls)
  BY <1>1, Halves
<1>3. w[2] + 1 - (Middle(w) + 1) <= k /\ (Middle(w) - 1) + 1 - w[1] <= k
  BY SMTT(30), <1>1, <1>2
<1> QED
  BY <1>2, <1>3 DEF Narrow

(* That function exists: it is made from the narrow windows up.            *)
LEMMA LookExists ==
  ASSUME NEW ls, Len(ls) \in Nat, NEW p, NEW n
  PROVE  \E f : IsLook(ls, p, n, f)
<1> DEFINE Works(k) == \E f : \A w \in Narrow(ls, k) : f[w] = Halving(ls, p, n, f, w)
           T == {k \in Nat : Works(k)}
<1>1. 0 \in T
  <2> DEFINE f == [w \in Windows(ls) |-> 0]
  <2>1. ASSUME NEW w \in Narrow(ls, 0)
        PROVE  f[w] = Halving(ls, p, n, f, w)
    <3>1. w \in Windows(ls) /\ w[2] + 1 - w[1] <= 0
      BY DEF Narrow
    <3>2. w[1] > w[2]
      BY <3>1 DEF Windows
    <3> QED
      BY <3>1, <3>2 DEF Halving
  <2> QED
    BY <2>1
<1>2. ASSUME NEW k \in T
      PROVE  k + 1 \in T
  <2>1. PICK f : \A w \in Narrow(ls, k) : f[w] = Halving(ls, p, n, f, w)
    OBVIOUS
  <2> DEFINE g == [w \in Windows(ls) |->
                     IF w \in Narrow(ls, k) THEN f[w] ELSE Halving(ls, p, n, f, w)]
  <2>2. \A w \in Narrow(ls, k) : g[w] = f[w]
    BY DEF Narrow
  <2>3. ASSUME NEW w \in Narrow(ls, k + 1)
        PROVE  Halving(ls, p, n, g, w) = Halving(ls, p, n, f, w)
    <3>1. CASE w[1] > w[2]
      BY <3>1 DEF Halving
    <3>2. CASE ~(w[1] > w[2])
      <4>1. w[1] <= w[2]
        <5>1. w \in Windows(ls)
          BY DEF Narrow
        <5> QED
          BY <3>2, <5>1 DEF Windows
      <4>2. /\ <<Middle(w) + 1, w[2]>> \in Narrow(ls, k)
            /\ <<w[1], Middle(w) - 1>> \in Narrow(ls, k)
        BY <4>1, HalvesAreNarrow
      <4>3. /\ g[<<Middle(w) + 1, w[2]>>] = f[<<Middle(w) + 1, w[2]>>]
            /\ g[<<w[1], Middle(w) - 1>>] = f[<<w[1], Middle(w) - 1>>]
        BY <2>2, <4>2
      <4> HIDE DEF g
      <4> QED
        BY <4>3 DEF Halving
    <3> QED
      BY <3>1, <3>2
  <2>4. ASSUME NEW w \in Narrow(ls, k + 1)
        PROVE  g[w] = Halving(ls, p, n, g, w)
    <3>1. w \in Windows(ls)
      BY DEF Narrow
    <3>2. g[w] = Halving(ls, p, n, f, w)
      BY <2>1, <3>1
    <3> QED
      BY <2>3, <3>2
  <2> HIDE DEF g
  <2>5. Works(k + 1)
    BY <2>4
  <2> QED
    BY <2>5
<1>3. Len(ls) \in T
  <2> HIDE DEF T
  <2>1. T \subseteq Nat
    BY DEF T
  <2>2. \A k \in Nat : k \in T
    BY <1>1, <1>2, <2>1, NatInduct
  <2> QED
    BY <2>2
<1>4. PICK f : \A w \in Narrow(ls, Len(ls)) : f[w] = Halving(ls, p, n, f, w)
  BY <1>3
<1> DEFINE g == [w \in Windows(ls) |-> f[w]]
<1>5. ASSUME NEW w \in Windows(ls)
      PROVE  f[w] = Halving(ls, p, n, g, w)
  <2>1. w \in Narrow(ls, Len(ls))
    BY DEF Narrow, Windows
  <2>2. f[w] = Halving(ls, p, n, f, w)
    BY <1>4, <2>1
  <2>3. CASE w[1] > w[2]
    BY <2>2, <2>3 DEF Halving
  <2>4. CASE ~(w[1] > w[2])
    <3>1. w[1] <= w[2]
      BY <2>4 DEF Windows
    <3>2. /\ g[<<Middle(w) + 1, w[2]>>] = f[<<Middle(w) + 1, w[2]>>]
          /\ g[<<w[1], Middle(w) - 1>>] = f[<<w[1], Middle(w) - 1>>]
      BY <3>1, Halves
    <3> HIDE DEF g
    <3> QED
      BY <2>2, <3>2 DEF Halving
  <2> QED
    BY <2>3, <2>4
<1>6. g = [w \in Windows(ls) |-> Halving(ls, p, n, g, w)]
  <2> HIDE DEF g
  <2>1. g = [w \in Windows(ls) |-> f[w]]
    BY DEF g
  <2> QED
    BY <1>5, <2>1
<1> QED
  BY <1>6 DEF IsLook

LEMMA SearchIsLook ==
  ASSUME NEW ls, Len(ls) \in Nat, NEW p, NEW n
  PROVE  \E f : /\ \A w \in Windows(ls) : f[w] = Halving(ls, p, n, f, w)
                /\ Search(ls, p, n) = f[<<1, Len(ls)>>]
<1> DEFINE f == CHOOSE g : IsLook(ls, p, n, g)
<1>1. IsLook(ls, p, n, f)
  BY LookExists
<1>2. Search(ls, p, n) = f[<<1, Len(ls)>>]
  BY DEF Search, IsLook, Halving, Windows
<1> HIDE DEF f
<1>3. \A w \in Windows(ls) : f[w] = Halving(ls, p, n, f, w)
  BY <1>1 DEF IsLook
<1> QED
  BY <1>2, <1>3

(* What the search returns is a line that meets the chunk, or 0; in an      *)
(* ordered list it is 0 only when no line does.                            *)
LEMMA SearchFacts ==
  ASSUME NEW ls \in Seq(DLine), NEW p \in Int, NEW n \in Int
  PROVE  /\ Search(ls, p, n) \in 0 .. Len(ls)
         /\ Search(ls, p, n) # 0 => Meets(ls[Search(ls, p, n)], p, n)
         /\ Ordered(ls) /\ (\E j \in 1 .. Len(ls) : Meets(ls[j], p, n)) =>
              Search(ls, p, n) # 0
<1>0. Len(ls) \in Nat
  OBVIOUS
<1>1. PICK f : /\ \A w \in Windows(ls) : f[w] = Halving(ls, p, n, f, w)
               /\ Search(ls, p, n) = f[<<1, Len(ls)>>]
  BY <1>0, SearchIsLook
<1> DEFINE Good(w) ==
             /\ f[w] \in 0 .. Len(ls)
             /\ f[w] # 0 => Meets(ls[f[w]], p, n)
             /\ Ordered(ls) /\ (\E j \in 1 .. Len(ls) :
                                  w[1] <= j /\ j <= w[2] /\ Meets(ls[j], p, n)) => f[w] # 0
           T == {k \in Nat : \A w \in Narrow(ls, k) : Good(w)}
<1>2. ASSUME NEW w \in Windows(ls), w[1] > w[2]
      PROVE  Good(w)
  <2>1. f[w] = 0
    BY <1>1, <1>2 DEF Halving
  <2>2. w[1] \in Int /\ w[2] \in Int
    BY DEF Windows
  <2> QED
    BY <1>0, <1>2, <2>1, <2>2
<1>3. 0 \in T
  <2>1. ASSUME NEW w \in Narrow(ls, 0)
        PROVE  Good(w)
    <3>1. w \in Windows(ls) /\ w[2] + 1 - w[1] <= 0
      BY DEF Narrow
    <3>2. w[1] > w[2]
      BY <3>1 DEF Windows
    <3> QED
      BY <1>2, <3>1, <3>2
  <2> QED
    BY <2>1
<1>4. ASSUME NEW k \in T, NEW w \in Narrow(ls, k + 1)
      PROVE  Good(w)
  <2>1. w \in Windows(ls)
    BY DEF Narrow
  <2>2. CASE w[1] > w[2]
    BY <1>2, <2>1, <2>2
  <2>3. CASE w[1] <= w[2]
    <3> DEFINE m == Middle(w)
               low == <<m + 1, w[2]>>
               high == <<w[1], m - 1>>
    <3>1. /\ m \in 1 .. Len(ls) /\ w[1] <= m /\ m <= w[2]
          /\ w[1] \in 1 .. Len(ls) + 1 /\ w[2] \in 0 .. Len(ls)
      BY <1>0, <2>1, <2>3, Halves
    <3>2. low \in Narrow(ls, k) /\ high \in Narrow(ls, k)
      BY <1>0, <2>3, HalvesAreNarrow
    <3>3. Good(low) /\ Good(high)
      BY <3>2
    <3>4. low[1] = m + 1 /\ low[2] = w[2] /\ high[1] = w[1] /\ high[2] = m - 1
      OBVIOUS
    <3>5. f[w] = IF Meets(ls[m], p, n) THEN m
                 ELSE IF p > ls[m].pos THEN f[low] ELSE f[high]
      <4>1. ~(w[1] > w[2])
        BY <2>3, <3>1
      <4> QED
        BY <1>1, <2>1, <4>1 DEF Halving
    <3> HIDE DEF m, low, high
    <3>6. ls[m].pos \in Int /\ EndOf(ls[m]) \in Int /\ EndOf(ls[m]) = ls[m].pos + ls[m].size
          /\ ls[m].size \in Int
      BY <3>1, LineFacts
    <3>7. CASE Meets(ls[m], p, n)
      BY <3>1, <3>5, <3>7
    <3>8. CASE ~Meets(ls[m], p, n) /\ p > ls[m].pos
      <4>1. f[w] = f[low]
        BY <3>5, <3>8
      <4>2. ASSUME Ordered(ls), NEW j \in 1 .. Len(ls), w[1] <= j, j <= w[2], Meets(ls[j], p, n)
            PROVE  m + 1 <= j
        <5>1. SUFFICES ASSUME j <= m PROVE FALSE
          BY <3>1
        <5>2. j # m
          BY <3>8, <4>2
        <5>3. j < m
          BY <3>1, <5>1, <5>2
        <5>4. EndOf(ls[j]) <= ls[m].pos
          BY <3>1, <4>2, <5>3, OrderedPairs
        <5>5. EndOf(ls[j]) \in Int
          BY LineFacts
        <5> QED
          BY <3>6, <3>8, <4>2, <5>4, <5>5 DEF Meets
      <4>3. ASSUME Ordered(ls), \E j \in 1 .. Len(ls) : w[1] <= j /\ j <= w[2] /\ Meets(ls[j], p, n)
            PROVE  \E j \in 1 .. Len(ls) : low[1] <= j /\ j <= low[2] /\ Meets(ls[j], p, n)
        BY <3>4, <4>2, <4>3
      <4> QED
        BY <3>3, <4>1, <4>3
    <3>9. CASE ~Meets(ls[m], p, n) /\ ~(p > ls[m].pos)
      <4>1. f[w] = f[high]
        BY <3>5, <3>9
      <4>2. ASSUME Ordered(ls), NEW j \in 1 .. Len(ls), w[1] <= j, j <= w[2], Meets(ls[j], p, n)
            PROVE  j <= m - 1
        <5>1. SUFFICES ASSUME m <= j PROVE FALSE
          BY <3>1
        <5>2. j # m
          BY <3>9, <4>2
        <5>3. m < j
          BY <3>1, <5>1, <5>2
        <5>4. EndOf(ls[m]) <= ls[j].pos
          BY <3>1, <4>2, <5>3, OrderedPairs
        <5>5. ls[m].size > 0
          BY <3>1, <4>2 DEF Ordered, HasSectors
        <5>6. ls[j].pos \in Int
          BY LineFacts
        <5> QED
          BY SMTT(30), <3>6, <3>9, <4>2, <5>4, <5>5, <5>6 DEF Meets
      <4>3. ASSUME Ordered(ls), \E j \in 1 .. Len(ls) : w[1] <= j /\ j <= w[2] /\ Meets(ls[j], p, n)
            PROVE  \E j \in 1 .. Len(ls) : high[1] <= j /\ j <= high[2] /\ Meets(ls[j], p, n)
        BY <3>4, <4>2, <4>3
      <4> QED
        BY <3>3, <4>1, <4>3
    <3> QED
      BY <3>7, <3>8, <3>9
  <2>4. w[1] > w[2] \/ w[1] <= w[2]
    BY <2>1 DEF Windows
  <2> QED
    BY <2>2, <2>3, <2>4
<1>5. Len(ls) \in T
  <2>1. \A k \in T : k + 1 \in T
    BY <1>4
  <2>2. T \subseteq Nat
    OBVIOUS
  <2> HIDE DEF T
  <2>3. \A k \in Nat : k \in T
    BY <1>3, <2>1, <2>2, NatInduct
  <2> QED
    BY <1>0, <2>3
<1>6. <<1, Len(ls)>> \in Narrow(ls, Len(ls))
  BY <1>0 DEF Narrow, Windows
<1>7. Good(<<1, Len(ls)>>)
  BY <1>5, <1>6
<1>8. <<1, Len(ls)>>[1] = 1 /\ <<1, Len(ls)>>[2] = Len(ls)
  OBVIOUS
<1> QED
  BY <1>0, <1>1, <1>7, <1>8

-----------------------------------------------------------------------------
(* The piece of a chunk that is handed to a pass.                          *)

LEMMA MarkedFacts ==
  ASSUME NEW ls, NEW x
  PROVE  x \in Marked(ls) <=>
           \E k \in 1 .. Len(ls) :
             ls[k].status = "FINISHED" /\ x \in Chunk(ls[k].pos, ls[k].size)
BY DEF Marked, Finished

(* The line taken meets the chunk, and is FINISHED if one that meets it is. *)
LEMMA BestFacts ==
  ASSUME NEW ls \in Seq(DLine), Ordered(ls), NEW p \in Int, NEW n \in Int, n > 0,
         NEW forward \in BOOLEAN,
         NEW m \in 1 .. Len(ls), Meets(ls[m], p, n)
  PROVE  /\ Best(ls, m, p, n, forward) \in 1 .. Len(ls)
         /\ Meets(ls[Best(ls, m, p, n, forward)], p, n)
         /\ (\E k \in 1 .. Len(ls) : Meets(ls[k], p, n) /\ Finished(ls, k)) =>
              Finished(ls, Best(ls, m, p, n, forward))
<1> DEFINE inRow(k) == \A j \in (k .. m) \cup (m .. k) : Meets(ls[j], p, n)
           before == {k \in 1 .. m - 1 : inRow(k) /\ Finished(ls, k)}
           behind == {k \in m + 1 .. Len(ls) : inRow(k) /\ Finished(ls, k)}
           fits == ls[m].pos <= p /\ p + n < EndOf(ls[m])
           first == IF (forward /\ before # {}) \/ (~forward /\ behind = {})
                    THEN before ELSE behind
           b == Best(ls, m, p, n, forward)
<1>0. Len(ls) \in Nat /\ m \in Nat /\ m > 0 /\ m <= Len(ls)
  OBVIOUS
<1>1. b = IF fits \/ first = {} THEN m ELSE IF forward THEN Lowest(first) ELSE Highest(first)
  BY DEF Best
<1>2. before \subseteq 1 .. Len(ls) /\ behind \subseteq 1 .. Len(ls)
  BY <1>0
<1>3. \A k \in before \cup behind : Meets(ls[k], p, n) /\ Finished(ls, k)
  <2>1. ASSUME NEW k \in before
        PROVE  Meets(ls[k], p, n) /\ Finished(ls, k)
    <3>1. k \in k .. m
      BY <1>0
    <3> QED
      BY <3>1
  <2>2. ASSUME NEW k \in behind
        PROVE  Meets(ls[k], p, n) /\ Finished(ls, k)
    <3>1. k \in m .. k
      BY <1>0
    <3> QED
      BY <3>1
  <2> QED
    BY <2>1, <2>2
<1>4. first \subseteq before \cup behind /\ first \subseteq 1 .. Len(ls)
  BY <1>2
<1>5. before = {} /\ behind = {} <=> first = {}
  OBVIOUS
<1>6. ASSUME first # {}
      PROVE  Lowest(first) \in first /\ Highest(first) \in first
  <2> HIDE DEF first
  <2>1. first \subseteq Nat
    BY <1>4
  <2> QED
    BY <1>0, <1>4, <1>6, <2>1, LowestFacts, HighestFacts
\* A FINISHED line that meets the chunk is the line hit or in a row with it.
<1>7. ASSUME NEW k \in 1 .. Len(ls), Meets(ls[k], p, n), Finished(ls, k), k # m
      PROVE  k \in before \cup behind
  <2>0. k \in Nat /\ k > 0 /\ k <= Len(ls)
    BY <1>0
  <2>1. CASE k < m
    <3>1. ASSUME NEW j \in k .. m
          PROVE  Meets(ls[j], p, n)
      <4>1. j \in 1 .. Len(ls)
        BY <1>0
      <4>2. CASE j = k \/ j = m
        BY <1>7, <4>2
      <4>3. CASE k < j /\ j < m
        <5>1. EndOf(ls[k]) <= ls[j].pos /\ EndOf(ls[j]) <= ls[m].pos /\ ls[j].size > 0
          BY <4>1, <4>3, OrderedPairs DEF Ordered, HasSectors
        <5>2. /\ ls[j].pos \in Int /\ ls[j].size \in Int /\ EndOf(ls[j]) = ls[j].pos + ls[j].size
              /\ EndOf(ls[k]) \in Int /\ ls[m].pos \in Int
          BY <4>1, LineFacts
        <5>3. p < EndOf(ls[k]) /\ ls[m].pos < p + n
          BY <1>7 DEF Meets
        <5> HIDE DEF inRow, before, behind, fits, first, b
        <5>4. ls[j].pos < EndOf(ls[j]) /\ EndOf(ls[j]) \in Int
          BY SMTT(30), <5>1, <5>2
        <5>5. ls[j].pos < p + n
          BY SMTT(30), <5>1, <5>2, <5>3, <5>4
        <5>6. p < EndOf(ls[j])
          BY SMTT(30), <5>1, <5>2, <5>3, <5>4
        <5> QED
          BY <5>5, <5>6 DEF Meets
      <4> QED
        BY <1>0, <2>0, <4>2, <4>3
    <3>2. k \in 1 .. m - 1 /\ m .. k = {}
      BY <1>0, <2>0, <2>1
    <3>3. inRow(k)
      BY <3>1, <3>2
    <3> QED
      BY <1>7, <3>2, <3>3
  <2>2. CASE k > m
    <3>1. ASSUME NEW j \in m .. k
          PROVE  Meets(ls[j], p, n)
      <4>1. j \in 1 .. Len(ls)
        BY <1>0
      <4>2. CASE j = k \/ j = m
        BY <1>7, <4>2
      <4>3. CASE m < j /\ j < k
        <5>1. EndOf(ls[m]) <= ls[j].pos /\ EndOf(ls[j]) <= ls[k].pos /\ ls[j].size > 0
          BY <4>1, <4>3, OrderedPairs DEF Ordered, HasSectors
        <5>2. /\ ls[j].pos \in Int /\ ls[j].size \in Int /\ EndOf(ls[j]) = ls[j].pos + ls[j].size
              /\ EndOf(ls[m]) \in Int /\ ls[k].pos \in Int
          BY <4>1, LineFacts
        <5>3. p < EndOf(ls[m]) /\ ls[k].pos < p + n
          BY <1>7 DEF Meets
        <5> HIDE DEF inRow, before, behind, fits, first, b
        <5>4. ls[j].pos < EndOf(ls[j]) /\ EndOf(ls[j]) \in Int
          BY SMTT(30), <5>1, <5>2
        <5>5. ls[j].pos < p + n
          <6>1. ls[j].pos < ls[k].pos
            BY SMTT(30), <5>1, <5>2, <5>4
          <6> QED
            BY SMTT(30), <5>2, <5>3, <6>1
        <5>6. p < EndOf(ls[j])
          BY SMTT(30), <5>1, <5>2, <5>3, <5>4
        <5> QED
          BY <5>5, <5>6 DEF Meets
      <4> QED
        BY <1>0, <2>0, <4>2, <4>3
    <3>2. k \in m + 1 .. Len(ls) /\ k .. m = {}
      BY <1>0, <2>0, <2>2
    <3>3. inRow(k)
      BY <3>1, <3>2
    <3> QED
      BY <1>7, <3>2, <3>3
  <2> QED
    BY <1>0, <1>7, <2>0, <2>1, <2>2
<1>8. CASE fits
  <2>1. b = m
    BY <1>1, <1>8
  <2>2. ASSUME NEW k \in 1 .. Len(ls), Meets(ls[k], p, n), Finished(ls, k)
        PROVE  k = m
    <3>1. /\ ls[m].pos \in Int /\ EndOf(ls[m]) \in Int /\ ls[k].pos \in Int /\ EndOf(ls[k]) \in Int
      BY LineFacts
    <3>2. CASE k < m
      <4>1. EndOf(ls[k]) <= ls[m].pos
        BY <3>2, OrderedPairs
      <4> QED
        BY <1>8, <2>2, <3>1, <4>1 DEF Meets
    <3>3. CASE m < k
      <4>1. EndOf(ls[m]) <= ls[k].pos
        BY <3>3, OrderedPairs
      <4> QED
        BY <1>8, <2>2, <3>1, <4>1 DEF Meets
    <3> QED
      BY <1>0, <3>2, <3>3
  <2> QED
    BY <2>1, <2>2
<1>9. CASE ~fits /\ first = {}
  <2>1. b = m
    BY <1>1, <1>9
  <2>2. before \cup behind = {}
    BY <1>5, <1>9
  <2>3. m = b
    BY <2>1
  <2> HIDE DEF before, behind, first, b
  <2>4. \A k \in 1 .. Len(ls) : Meets(ls[k], p, n) /\ Finished(ls, k) => k = b
    BY <1>7, <2>2, <2>3
  <2>5. b \in 1 .. Len(ls) /\ Meets(ls[b], p, n)
    BY <2>3
  <2> QED
    BY <2>4, <2>5 DEF b
<1>10. CASE ~fits /\ first # {}
  <2>1. b \in first
    BY <1>1, <1>6, <1>10
  <2> HIDE DEF before, behind, first, b
  <2>2. b \in 1 .. Len(ls) /\ b \in before \cup behind
    BY <1>4, <2>1
  <2>3. Meets(ls[b], p, n) /\ Finished(ls, b)
    BY <1>3, <2>2
  <2> QED
    BY <2>2, <2>3 DEF b
<1> QED
  BY <1>8, <1>9, <1>10

LEMMA PieceFacts ==
  ASSUME NEW ls \in Seq(DLine), Ordered(ls), NEW p \in Int, NEW n \in Int, n > 0,
         NEW forward \in BOOLEAN
  PROVE  /\ Piece(ls, p, n, forward) \subseteq Chunk(p, n) \cap Marked(ls)
         /\ Piece(ls, p, n, forward) = {} => Chunk(p, n) \cap Marked(ls) = {}
<1> DEFINE m == Search(ls, p, n)
           b == Best(ls, m, p, n, forward)
<1>1. Piece(ls, p, n, forward) = IF m # 0 /\ Finished(ls, b)
                                 THEN Chunk(p, n) \cap Chunk(ls[b].pos, ls[b].size) ELSE {}
  BY DEF Piece
<1>2. /\ m \in 0 .. Len(ls)
      /\ m # 0 => m \in 1 .. Len(ls) /\ Meets(ls[m], p, n)
      /\ (\E j \in 1 .. Len(ls) : Meets(ls[j], p, n)) => m # 0
  BY SearchFacts
<1>3. ASSUME NEW x \in Chunk(p, n) \cap Marked(ls)
      PROVE  \E k \in 1 .. Len(ls) : Meets(ls[k], p, n) /\ Finished(ls, k)
  <2>1. PICK k \in 1 .. Len(ls) :
          ls[k].status = "FINISHED" /\ x \in Chunk(ls[k].pos, ls[k].size)
    BY MarkedFacts
  <2>2. ls[k].size > 0
    BY DEF Ordered, HasSectors
  <2>3. Meets(ls[k], p, n)
    BY <2>1, <2>2, MeetsIsShared
  <2> QED
    BY <2>1, <2>3 DEF Finished
<1> HIDE DEF m
<1>4. CASE m = 0
  BY <1>1, <1>2, <1>3, <1>4
<1>5. CASE m # 0
  <2>1. /\ b \in 1 .. Len(ls) /\ Meets(ls[b], p, n)
        /\ (\E k \in 1 .. Len(ls) : Meets(ls[k], p, n) /\ Finished(ls, k)) => Finished(ls, b)
    BY <1>2, <1>5, BestFacts
  <2> HIDE DEF b
  <2>2. CASE Finished(ls, b)
    <3>1. Chunk(ls[b].pos, ls[b].size) \subseteq Marked(ls)
      BY <2>1, <2>2, MarkedFacts DEF Finished
    <3>2. Chunk(p, n) \cap Chunk(ls[b].pos, ls[b].size) # {}
      <4>1. ls[b].size > 0
        BY <2>1 DEF Ordered, HasSectors
      <4> QED
        BY <2>1, <4>1, MeetsIsShared
    <3> QED
      BY <1>1, <1>5, <2>2, <3>1, <3>2
  <2>3. CASE ~Finished(ls, b)
    BY <1>1, <1>3, <2>1, <2>3
  <2> QED
    BY <2>2, <2>3
<1> QED
  BY <1>4, <1>5

-----------------------------------------------------------------------------
(* A list in which the lines lo .. hi are replaced by those of mid.         *)
Spliced(ls, ms, lo, hi, mid) ==
  /\ lo \in 1 .. Len(ls) /\ hi \in lo .. Len(ls)
  /\ mid \in Seq(DLine) /\ Len(mid) > 0
  /\ ms \in Seq(DLine) /\ Len(ms) = Len(ls) - (hi - lo + 1) + Len(mid)
  /\ \A k \in 1 .. lo - 1 : ms[k] = ls[k]
  /\ \A k \in 1 .. Len(mid) : ms[lo - 1 + k] = mid[k]
  /\ \A k \in hi + 1 .. Len(ls) : ms[k + (Len(ms) - Len(ls))] = ls[k]

(* A line k of ms, seen from ls and mid.                                    *)
LEMMA SplicedLine ==
  ASSUME NEW ls \in Seq(DLine), NEW ms, NEW lo, NEW hi, NEW mid,
         Spliced(ls, ms, lo, hi, mid), NEW k \in 1 .. Len(ms)
  PROVE  \/ k < lo /\ k \in 1 .. Len(ls) /\ ms[k] = ls[k]
         \/ k >= lo /\ k - lo + 1 \in 1 .. Len(mid) /\ ms[k] = mid[k - lo + 1]
         \/ /\ k > lo - 1 + Len(mid) /\ k - (Len(ms) - Len(ls)) \in hi + 1 .. Len(ls)
            /\ ms[k] = ls[k - (Len(ms) - Len(ls))]
<1>0. /\ Len(ls) \in Nat /\ Len(mid) \in Nat /\ Len(ms) \in Nat
      /\ lo \in Nat /\ lo > 0 /\ hi \in Nat /\ lo <= hi /\ hi <= Len(ls)
      /\ Len(ms) = Len(ls) - (hi - lo + 1) + Len(mid)
  BY DEF Spliced
<1>1. CASE k < lo
  <2>1. k \in 1 .. lo - 1 /\ k \in 1 .. Len(ls)
    BY <1>0, <1>1
  <2> QED
    BY <1>1, <2>1 DEF Spliced
<1>2. CASE k >= lo /\ k <= lo - 1 + Len(mid)
  <2>1. k - lo + 1 \in 1 .. Len(mid) /\ lo - 1 + (k - lo + 1) = k
    BY <1>0, <1>2
  <2>2. ms[lo - 1 + (k - lo + 1)] = mid[k - lo + 1]
    BY <2>1 DEF Spliced
  <2> QED
    BY <1>2, <2>1, <2>2
<1>3. CASE k > lo - 1 + Len(mid)
  <2> DEFINE j == k - (Len(ms) - Len(ls))
  <2>1. j \in hi + 1 .. Len(ls) /\ j + (Len(ms) - Len(ls)) = k
    BY <1>0, <1>3
  <2>2. ms[j + (Len(ms) - Len(ls))] = ls[j]
    BY <2>1 DEF Spliced
  <2> QED
    BY <1>3, <2>1, <2>2
<1> QED
  BY <1>0, <1>1, <1>2, <1>3

(* What is marked after that.                                              *)
Covered(ls, k, x) == ls[k].status = "FINISHED" /\ x \in Chunk(ls[k].pos, ls[k].size)

LEMMA CoveredMarks ==
  ASSUME NEW ls \in Seq(DLine), NEW ms, NEW lo, NEW hi, NEW mid,
         Spliced(ls, ms, lo, hi, mid), NEW C,
         \A x : (\E k \in 1 .. Len(mid) : Covered(mid, k, x)) <=>
                  (x \in C \/ \E k \in lo .. hi : Covered(ls, k, x))
  PROVE  Marked(ms) = Marked(ls) \cup C
<1>0. /\ Len(ls) \in Nat /\ Len(mid) \in Nat /\ Len(ms) \in Nat
      /\ lo \in Nat /\ lo > 0 /\ hi \in Nat /\ lo <= hi /\ hi <= Len(ls)
      /\ Len(ms) = Len(ls) - (hi - lo + 1) + Len(mid)
  BY DEF Spliced
<1>1. ASSUME NEW x, x \in Marked(ms)
      PROVE  x \in Marked(ls) \cup C
  <2>1. PICK k \in 1 .. Len(ms) : Covered(ms, k, x)
    BY <1>1, MarkedFacts DEF Covered
  <2>2. CASE k \in 1 .. Len(ls) /\ ms[k] = ls[k]
    BY <2>1, <2>2, MarkedFacts DEF Covered
  <2>3. CASE k - lo + 1 \in 1 .. Len(mid) /\ ms[k] = mid[k - lo + 1]
    <3>1. Covered(mid, k - lo + 1, x)
      BY <2>1, <2>3 DEF Covered
    <3>2. x \in C \/ \E j \in lo .. hi : Covered(ls, j, x)
      BY <2>3, <3>1
    <3>3. lo .. hi \subseteq 1 .. Len(ls)
      BY <1>0
    <3> QED
      BY <3>2, <3>3, MarkedFacts DEF Covered
  <2>4. CASE k - (Len(ms) - Len(ls)) \in hi + 1 .. Len(ls) /\ ms[k] = ls[k - (Len(ms) - Len(ls))]
    <3>1. k - (Len(ms) - Len(ls)) \in 1 .. Len(ls)
      BY <1>0, <2>4
    <3> QED
      BY <2>1, <2>4, <3>1, MarkedFacts DEF Covered
  <2> QED
    BY <2>2, <2>3, <2>4, SplicedLine
<1>2. ASSUME NEW k \in 1 .. Len(mid)
      PROVE  lo - 1 + k \in 1 .. Len(ms) /\ ms[lo - 1 + k] = mid[k]
  BY <1>0 DEF Spliced
<1>3. ASSUME NEW x, \E k \in 1 .. Len(mid) : Covered(mid, k, x)
      PROVE  x \in Marked(ms)
  <2>1. PICK k \in 1 .. Len(mid) : Covered(mid, k, x)
    BY <1>3
  <2> QED
    BY <1>2, <2>1, MarkedFacts DEF Covered
<1>4. ASSUME NEW x, x \in Marked(ls)
      PROVE  x \in Marked(ms)
  <2>1. PICK k \in 1 .. Len(ls) : Covered(ls, k, x)
    BY <1>4, MarkedFacts DEF Covered
  <2>2. CASE k < lo
    <3>1. k \in 1 .. Len(ms) /\ ms[k] = ls[k]
      BY <1>0, <2>2 DEF Spliced
    <3> QED
      BY <2>1, <3>1, MarkedFacts DEF Covered
  <2>3. CASE k \in lo .. hi
    BY <1>3, <2>1, <2>3
  <2>4. CASE k > hi
    <3> DEFINE j == k + (Len(ms) - Len(ls))
    <3>1. j \in 1 .. Len(ms) /\ ms[j] = ls[k]
      BY <1>0, <2>4 DEF Spliced
    <3> QED
      BY <2>1, <3>1, MarkedFacts DEF Covered
  <2> QED
    BY <1>0, <2>2, <2>3, <2>4
<1> QED
  BY <1>1, <1>3, <1>4

(* What the lines of mid mark besides what those they replace did.          *)
Adds(ls, lo, hi, mid, C) ==
  \A x : (\E k \in 1 .. Len(mid) : Covered(mid, k, x)) <=>
           (x \in C \/ \E k \in lo .. hi : Covered(ls, k, x))

LEMMA SplicedMarks ==
  ASSUME NEW ls \in Seq(DLine), NEW ms, NEW lo, NEW hi, NEW mid,
         Spliced(ls, ms, lo, hi, mid), NEW C, Adds(ls, lo, hi, mid, C)
  PROVE  Marked(ms) = Marked(ls) \cup C
BY CoveredMarks DEF Adds

(* It is gapless if mid is, between the same ends, and takes turns with the *)
(* lines around it.                                                        *)
LEMMA SplicedGapless ==
  ASSUME NEW ls \in Seq(DLine), NEW ms, NEW lo, NEW hi, NEW mid,
         Spliced(ls, ms, lo, hi, mid), Gapless(ls), HasSectors(mid),
         mid[1].pos = ls[lo].pos, EndOf(mid[Len(mid)]) = EndOf(ls[hi]),
         \A k \in 1 .. Len(mid) - 1 :
           EndOf(mid[k]) = mid[k + 1].pos /\ mid[k].status # mid[k + 1].status,
         lo > 1 => ls[lo - 1].status # mid[1].status,
         hi < Len(ls) => mid[Len(mid)].status # ls[hi + 1].status
  PROVE  Gapless(ms)
<1>0. /\ Len(ls) \in Nat /\ Len(mid) \in Nat /\ Len(ms) \in Nat /\ Len(mid) > 0
      /\ lo \in Nat /\ lo > 0 /\ hi \in Nat /\ lo <= hi /\ hi <= Len(ls)
      /\ Len(ms) = Len(ls) - (hi - lo + 1) + Len(mid)
  BY DEF Spliced
<1> DEFINE last == lo - 1 + Len(mid)
           d == Len(ms) - Len(ls)
<1>1. \A k \in 1 .. lo - 1 : ms[k] = ls[k]
  BY DEF Spliced
<1>2. \A k \in 1 .. Len(mid) : ms[lo - 1 + k] = mid[k]
  BY DEF Spliced
<1>3. \A k \in hi + 1 .. Len(ls) : ms[k + d] = ls[k]
  BY DEF Spliced
<1>4. HasSectors(ms)
  <2>1. ASSUME NEW k \in 1 .. Len(ms)
        PROVE  ms[k].size > 0
    <3>1. \A j \in 1 .. Len(ls) : ls[j].size > 0
      BY DEF Gapless, HasSectors
    <3>2. \A j \in 1 .. Len(mid) : mid[j].size > 0
      BY DEF HasSectors
    <3>3. \A j \in hi + 1 .. Len(ls) : j \in 1 .. Len(ls)
      BY <1>0
    <3>4. \/ \E j \in 1 .. Len(ls) : ms[k] = ls[j]
          \/ \E j \in 1 .. Len(mid) : ms[k] = mid[j]
      <4>1. CASE k \in 1 .. Len(ls) /\ ms[k] = ls[k]
        BY <4>1
      <4>2. CASE k - lo + 1 \in 1 .. Len(mid) /\ ms[k] = mid[k - lo + 1]
        BY <4>2
      <4>3. CASE k - d \in hi + 1 .. Len(ls) /\ ms[k] = ls[k - d]
        BY <3>3, <4>3
      <4> QED
        BY <4>1, <4>2, <4>3, SplicedLine
    <3> QED
      BY <3>1, <3>2, <3>4
  <2> QED
    BY <2>1 DEF HasSectors
<1>5. ms # << >> /\ ms[1].pos = 0
  <2>1. ls[1].pos = 0
    BY DEF Gapless
  <2>2. CASE lo = 1
    <3>1. 1 \in 1 .. Len(mid) /\ lo - 1 + 1 = 1
      BY <1>0, <2>2
    <3>2. ms[lo - 1 + 1] = mid[1]
      BY <1>2, <3>1
    <3> QED
      BY <1>0, <2>1, <2>2, <3>1, <3>2
  <2>3. CASE lo > 1
    BY <1>0, <1>1, <2>1, <2>3
  <2> QED
    BY <1>0, <2>2, <2>3
<1>6. EndOf(ms[Len(ms)]) = Size
  <2>1. EndOf(ls[Len(ls)]) = Size
    BY DEF Gapless
  <2>2. CASE hi = Len(ls)
    <3>1. Len(mid) \in 1 .. Len(mid) /\ lo - 1 + Len(mid) = Len(ms)
      BY <1>0, <2>2
    <3>2. ms[lo - 1 + Len(mid)] = mid[Len(mid)]
      BY <1>2, <3>1
    <3> QED
      BY <2>1, <2>2, <3>1, <3>2
  <2>3. CASE hi < Len(ls)
    <3>1. Len(ls) \in hi + 1 .. Len(ls) /\ Len(ls) + d = Len(ms)
      BY <1>0, <2>3
    <3>2. ms[Len(ls) + d] = ls[Len(ls)]
      BY <1>3, <3>1
    <3> QED
      BY <2>1, <3>1, <3>2
  <2> QED
    BY <1>0, <2>2, <2>3
<1>7. ASSUME NEW k \in 1 .. Len(ms) - 1
      PROVE  EndOf(ms[k]) = ms[k + 1].pos /\ ms[k].status # ms[k + 1].status
  <2>0. \A j \in 1 .. Len(ls) - 1 :
          EndOf(ls[j]) = ls[j + 1].pos /\ ls[j].status # ls[j + 1].status
    BY DEF Gapless
  <2>1. CASE k + 1 < lo
    <3>1. k \in 1 .. lo - 1 /\ k + 1 \in 1 .. lo - 1 /\ k \in 1 .. Len(ls) - 1
      BY <1>0, <2>1
    <3> QED
      BY <1>1, <2>0, <3>1
  <2>2. CASE k + 1 = lo
    <3>1. /\ k \in 1 .. lo - 1 /\ k \in 1 .. Len(ls) - 1 /\ 1 \in 1 .. Len(mid)
          /\ lo - 1 + 1 = k + 1 /\ lo > 1 /\ lo - 1 = k
      BY <1>0, <2>2
    <3>2. ms[k] = ls[k]
      BY <1>1, <3>1
    <3>3. ms[lo - 1 + 1] = mid[1]
      BY <1>2, <3>1
    <3>4. ms[k + 1] = mid[1]
      BY <3>1, <3>3
    <3>5. EndOf(ls[k]) = ls[lo].pos
      BY <2>0, <2>2, <3>1
    <3>6. ls[k].status # mid[1].status
      BY <3>1
    <3> QED
      BY <3>2, <3>4, <3>5, <3>6
  <2>3. CASE k >= lo /\ k < last
    <3> DEFINE j == k - lo + 1
    <3>1. /\ j \in 1 .. Len(mid) - 1 /\ j \in 1 .. Len(mid) /\ j + 1 \in 1 .. Len(mid)
          /\ lo - 1 + j = k /\ lo - 1 + (j + 1) = k + 1
      BY SMTT(30), <1>0, <2>3
    <3>2. ms[k] = mid[j]
      BY <1>2, <3>1
    <3>3. ms[k + 1] = mid[j + 1]
      BY <1>2, <3>1
    <3> HIDE DEF j
    <3> QED
      BY <3>1, <3>2, <3>3
  <2>4. CASE k = last
    <3>1. /\ Len(mid) \in 1 .. Len(mid) /\ hi + 1 \in hi + 1 .. Len(ls)
          /\ hi + 1 + d = k + 1 /\ hi \in 1 .. Len(ls) - 1 /\ hi < Len(ls)
      BY SMTT(30), <1>0, <2>4
    <3>2. ms[k] = mid[Len(mid)]
      BY <1>2, <2>4, <3>1
    <3>3. ms[hi + 1 + d] = ls[hi + 1]
      BY <1>3, <3>1
    <3>4. ms[k + 1] = ls[hi + 1]
      BY <3>1, <3>3
    <3>5. EndOf(ls[hi]) = ls[hi + 1].pos
      BY <2>0, <3>1
    <3>6. mid[Len(mid)].status # ls[hi + 1].status
      BY <3>1
    <3> QED
      BY <3>2, <3>4, <3>5, <3>6
  <2>5. CASE k > last
    <3> DEFINE j == k - d
    <3>1. /\ j \in hi + 1 .. Len(ls) /\ j + 1 \in hi + 1 .. Len(ls) /\ j \in 1 .. Len(ls) - 1
          /\ j + d = k /\ (j + 1) + d = k + 1
      BY SMTT(30), <1>0, <2>5
    <3>2. ms[j + d] = ls[j]
      BY <1>3, <3>1
    <3>3. ms[(j + 1) + d] = ls[j + 1]
      BY <1>3, <3>1
    <3>4. ms[k] = ls[j] /\ ms[k + 1] = ls[j + 1]
      BY <3>1, <3>2, <3>3
    <3> HIDE DEF j
    <3> QED
      BY <2>0, <3>1, <3>4
  <2>6. k \in Int /\ last \in Int /\ lo \in Int /\ last >= lo
    <3>1. k \in Int
      OBVIOUS
    <3>2. Len(mid) \in Nat /\ Len(mid) > 0 /\ lo \in Nat
      BY <1>0
    <3>3. last \in Int /\ last >= lo
      BY <3>2
    <3> QED
      BY <3>1, <3>2, <3>3
  <2> HIDE DEF last, d
  <2>7. k + 1 < lo \/ k + 1 = lo \/ (k >= lo /\ k < last) \/ k = last \/ k > last
    BY <2>6
  <2> QED
    BY <2>1, <2>2, <2>3, <2>4, <2>5, <2>7
<1> QED
  BY <1>4, <1>5, <1>6, <1>7 DEF Gapless

-----------------------------------------------------------------------------
(* The four ways to mark, in any list: which lines they replace by which.   *)

LEMMA ExceptFacts ==
  ASSUME NEW s \in Seq(DLine), NEW b \in 1 .. Len(s), NEW l \in DLine
  PROVE  /\ [s EXCEPT ![b] = l] \in Seq(DLine)
         /\ Len([s EXCEPT ![b] = l]) = Len(s)
         /\ \A k \in 1 .. Len(s) : [s EXCEPT ![b] = l][k] = IF k = b THEN l ELSE s[k]
BY ExceptSeq

LEMMA GrownFacts ==
  ASSUME NEW l \in DLine, NEW n \in Int
  PROVE  /\ GrowUp(l, n) = Block(l.pos - n, l.size + n, l.status) /\ GrowUp(l, n) \in DLine
         /\ GrowDown(l, n) = Block(l.pos, l.size + n, l.status) /\ GrowDown(l, n) \in DLine
<1>1. l.pos \in Int /\ l.size \in Int /\ l.status \in {"NONTRIED", "FINISHED"}
  BY DEF DLine
<1>2. l.pos - n \in Int /\ l.size + n \in Int
  BY <1>1
<1> QED
  BY <1>1, <1>2, BlockFacts DEF GrowUp, GrowDown

\* The line the whole of line b becomes.
JoinedLine(ls, b) ==
  Block(IF Finished(ls, b - 1) THEN ls[b - 1].pos
        ELSE IF Finished(ls, b + 1) THEN ls[b + 1].pos - ls[b].size ELSE ls[b].pos,
        ls[b].size + (IF Finished(ls, b - 1) THEN ls[b - 1].size ELSE 0)
                   + (IF Finished(ls, b + 1) THEN ls[b + 1].size ELSE 0),
        "FINISHED")
JoinFrom(ls, b) == IF Finished(ls, b - 1) THEN b - 1 ELSE b
JoinTo(ls, b) == IF Finished(ls, b + 1) THEN b + 1 ELSE b

LEMMA WholeLineSplices ==
  ASSUME NEW ls \in Seq(DLine), NEW b \in 1 .. Len(ls)
  PROVE  Spliced(ls, WholeLine(ls, b), JoinFrom(ls, b), JoinTo(ls, b), <<JoinedLine(ls, b)>>)
<1> DEFINE grown == GrowUp(ls[b + 1], ls[b].size)
           own == Block(ls[b].pos, ls[b].size, "FINISHED")
           up == [ls EXCEPT ![b + 1] = grown]
           set == [ls EXCEPT ![b].status = "FINISHED"]
           below == IF Finished(ls, b + 1) THEN RemoveAt(up, b) ELSE set
           at == IF Finished(ls, b + 1) THEN grown ELSE own
           raised == GrowDown(ls[b - 1], at.size)
           down == [below EXCEPT ![b - 1] = raised]
           ms == WholeLine(ls, b)
<1>0. Len(ls) \in Nat /\ b \in Nat /\ b > 0 /\ b <= Len(ls) /\ b \in Int
  OBVIOUS
<1>1. ls[b] \in DLine /\ ls[b].pos \in Int /\ ls[b].size \in Int
  BY LineFacts
<1>2. own \in DLine /\ own.size = ls[b].size
  BY <1>1 DEF Block, DLine
<1>3. set = [ls EXCEPT ![b] = own]
  <2>1. [ls[b] EXCEPT !.status = "FINISHED"] = own
    BY <1>1 DEF DLine, Block
  <2> QED
    BY <2>1
<1>4. ASSUME Finished(ls, b + 1)
      PROVE  /\ b + 1 \in 1 .. Len(ls) /\ ls[b + 1].status = "FINISHED"
             /\ ls[b + 1] \in DLine /\ ls[b + 1].pos \in Int /\ ls[b + 1].size \in Int
             /\ grown = Block(ls[b + 1].pos - ls[b].size, ls[b + 1].size + ls[b].size, "FINISHED")
             /\ grown \in DLine /\ grown.size = ls[b + 1].size + ls[b].size
  <2>1. b + 1 \in 1 .. Len(ls) /\ ls[b + 1].status = "FINISHED"
    BY <1>4 DEF Finished
  <2>2. ls[b + 1] \in DLine /\ ls[b + 1].pos \in Int /\ ls[b + 1].size \in Int
    BY <2>1, LineFacts
  <2>3. /\ grown = Block(ls[b + 1].pos - ls[b].size, ls[b + 1].size + ls[b].size, "FINISHED")
        /\ grown \in DLine
    BY <1>1, <2>1, <2>2, GrownFacts
  <2> QED
    BY <2>1, <2>2, <2>3 DEF Block
<1>5. ASSUME Finished(ls, b - 1)
      PROVE  /\ b - 1 \in 1 .. Len(ls) /\ ls[b - 1].status = "FINISHED"
             /\ ls[b - 1] \in DLine /\ ls[b - 1].pos \in Int /\ ls[b - 1].size \in Int
  <2>1. b - 1 \in 1 .. Len(ls) /\ ls[b - 1].status = "FINISHED"
    BY <1>5 DEF Finished
  <2> QED
    BY <2>1, LineFacts
<1>6. at \in DLine /\ at.size \in Int
  BY <1>1, <1>2, <1>4 DEF DLine
<1> DEFINE d == IF Finished(ls, b + 1) THEN 1 ELSE 0
<1>7. /\ below \in Seq(DLine) /\ Len(below) = Len(ls) - d
      /\ \A k \in 1 .. Len(ls) - d :
           below[k] = IF k < b THEN ls[k] ELSE IF k = b THEN at ELSE ls[k + d]
  <2>1. CASE Finished(ls, b + 1)
    <3>1. /\ up \in Seq(DLine) /\ Len(up) = Len(ls)
          /\ \A k \in 1 .. Len(ls) : up[k] = IF k = b + 1 THEN grown ELSE ls[k]
      <4> HIDE DEF grown
      <4> QED
        BY <1>4, <2>1, ExceptFacts
    <3> HIDE DEF up, grown
    <3>2. /\ RemoveAt(up, b) \in Seq(DLine) /\ Len(RemoveAt(up, b)) = Len(up) - 1
          /\ \A k \in 1 .. Len(up) - 1 :
               RemoveAt(up, b)[k] = IF k < b THEN up[k] ELSE up[k + 1]
      BY ZenonT(30), <3>1, RemoveAtFacts
    <3>3. ASSUME NEW k \in 1 .. Len(ls) - 1
          PROVE  RemoveAt(up, b)[k] = IF k < b THEN ls[k] ELSE IF k = b THEN grown ELSE ls[k + 1]
      <4>1. k \in 1 .. Len(ls) /\ k + 1 \in 1 .. Len(ls) /\ (k + 1 = b + 1 <=> k = b)
        BY <1>0
      <4> QED
        BY <1>0, <3>1, <3>2, <4>1
    <3> QED
      BY <2>1, <3>1, <3>2, <3>3
  <2>2. CASE ~Finished(ls, b + 1)
    <3>1. /\ set \in Seq(DLine) /\ Len(set) = Len(ls)
          /\ \A k \in 1 .. Len(ls) : set[k] = IF k = b THEN own ELSE ls[k]
      <4> HIDE DEF own, set
      <4> QED
        BY <1>2, <1>3, ExceptFacts
    <3> HIDE DEF own, set
    <3> QED
      BY <1>0, <2>2, <3>1
  <2> QED
    BY <2>1, <2>2
<1>8. ms = IF Finished(ls, b - 1)
           THEN RemoveAt([below EXCEPT ![b - 1] = GrowDown(@, below[b].size)], b) ELSE below
  BY DEF WholeLine
<1>9. d \in {0, 1} /\ b <= Len(ls) - d /\ b \in 1 .. Len(ls) - d
  BY <1>0, <1>4
<1> HIDE DEF at, below, d
<1>10. below[b] = at
  BY <1>0, <1>7, <1>9
<1>11. CASE Finished(ls, b - 1)
  <2>1. b - 1 \in 1 .. Len(below) /\ b \in 1 .. Len(below) /\ below[b - 1] = ls[b - 1]
    BY <1>0, <1>5, <1>7, <1>9, <1>11
  <2>2. /\ raised = Block(ls[b - 1].pos, ls[b - 1].size + at.size, "FINISHED")
        /\ raised \in DLine
    BY <1>5, <1>6, <1>11, GrownFacts
  <2>3. ms = RemoveAt(down, b)
    BY <1>8, <1>10, <1>11, <2>1
  <2> HIDE DEF raised
  <2>4. /\ down \in Seq(DLine) /\ Len(down) = Len(below)
        /\ \A k \in 1 .. Len(below) : down[k] = IF k = b - 1 THEN raised ELSE below[k]
    BY <1>7, <2>1, <2>2, ExceptFacts
  <2> HIDE DEF down
  <2>5. /\ ms \in Seq(DLine) /\ Len(ms) = Len(down) - 1
        /\ \A k \in 1 .. Len(down) - 1 : ms[k] = IF k < b THEN down[k] ELSE down[k + 1]
    BY <2>1, <2>3, <2>4, RemoveAtFacts
  <2> HIDE DEF ms
  <2>6. Len(ms) = Len(ls) - d - 1
    BY <1>0, <1>7, <1>9, <2>4, <2>5
  <2>7. ASSUME NEW k \in 1 .. Len(ms)
        PROVE  ms[k] = IF k < b - 1 THEN ls[k] ELSE IF k = b - 1 THEN raised ELSE ls[k + 1 + d]
    <3>1. k \in 1 .. Len(down) - 1 /\ k \in 1 .. Len(below) /\ k + 1 \in 1 .. Len(below)
          /\ k \in 1 .. Len(ls) - d /\ k + 1 \in 1 .. Len(ls) - d
      BY <1>0, <1>7, <1>9, <2>4, <2>5
    <3>2. CASE k < b - 1
      <4>1. ms[k] = down[k] /\ down[k] = below[k] /\ below[k] = ls[k]
        BY <1>0, <1>7, <2>4, <2>5, <3>1, <3>2
      <4> QED
        BY <3>2, <4>1
    <3>3. CASE k = b - 1
      <4>1. ms[k] = down[k] /\ down[k] = raised
        BY <1>0, <2>4, <2>5, <3>1, <3>3
      <4> QED
        BY <3>3, <4>1
    <3>4. CASE k >= b
      <4>1. ms[k] = down[k + 1]
        BY <1>0, <2>5, <3>1, <3>4
      <4>2. down[k + 1] = below[k + 1]
        BY <1>0, <2>4, <3>1, <3>4
      <4>3. below[k + 1] = ls[k + 1 + d]
        BY <1>0, <1>7, <3>1, <3>4
      <4> QED
        BY <1>0, <3>4, <4>1, <4>2, <4>3
    <3> QED
      BY <1>0, <3>1, <3>2, <3>3, <3>4
  <2>8. raised = JoinedLine(ls, b)
    <3>1. at.size = ls[b].size + (IF Finished(ls, b + 1) THEN ls[b + 1].size ELSE 0)
      BY <1>1, <1>2, <1>4 DEF at
    <3>2. CASE Finished(ls, b + 1)
      BY SMTT(30), <1>1, <1>4, <1>5, <1>11, <2>2, <3>1, <3>2 DEF JoinedLine
    <3>3. CASE ~Finished(ls, b + 1)
      BY <1>1, <1>5, <1>11, <2>2, <3>1, <3>3 DEF JoinedLine
    <3> QED
      BY <3>2, <3>3
  <2>9. JoinFrom(ls, b) = b - 1 /\ JoinTo(ls, b) = b + d
    BY <1>0, <1>11 DEF JoinFrom, JoinTo, d
  <2>10. /\ \A k \in 1 .. (b - 1) - 1 : ms[k] = ls[k]
         /\ ms[b - 1] = raised
         /\ \A k \in b + d + 1 .. Len(ls) : ms[k + (Len(ms) - Len(ls))] = ls[k]
    <3>1. ASSUME NEW k \in 1 .. (b - 1) - 1
          PROVE  ms[k] = ls[k]
      <4>1. k \in 1 .. Len(ms) /\ k < b - 1
        BY <1>0, <1>9, <2>6
      <4> QED
        BY <2>7, <4>1
    <3>2. ms[b - 1] = raised
      <4>1. b - 1 \in 1 .. Len(ms)
        BY <1>0, <1>5, <1>9, <1>11, <2>6
      <4> QED
        BY <1>0, <2>7, <4>1
    <3>3. ASSUME NEW k \in b + d + 1 .. Len(ls)
          PROVE  ms[k + (Len(ms) - Len(ls))] = ls[k]
      <4> DEFINE j == k + (Len(ms) - Len(ls))
      <4>1. j \in 1 .. Len(ms) /\ ~(j < b - 1) /\ j # b - 1 /\ j + 1 + d = k
        BY <1>0, <1>5, <1>9, <1>11, <2>6
      <4> HIDE DEF j
      <4>2. ms[j] = ls[j + 1 + d]
        BY <2>7, <4>1
      <4> QED
        BY <4>1, <4>2 DEF j
    <3> QED
      BY <1>0, <3>1, <3>2, <3>3
  <2>11. <<raised>> \in Seq(DLine) /\ Len(<<raised>>) = 1 /\ <<raised>>[1] = raised
    BY <2>2
  <2>12. b - 1 \in 1 .. Len(ls) /\ b + d \in b - 1 .. Len(ls)
         /\ Len(ms) = Len(ls) - ((b + d) - (b - 1) + 1) + 1
    BY <1>0, <1>5, <1>9, <1>11, <2>6
  <2> DEFINE mid == <<raised>>
  <2> HIDE DEF mid
  <2>13. mid \in Seq(DLine) /\ Len(mid) = 1 /\ mid[1] = raised
    BY <2>11 DEF mid
  <2>14. \A k \in 1 .. Len(mid) : ms[(b - 1) - 1 + k] = mid[k]
    BY <1>0, <2>10, <2>13
  <2>15. Len(mid) > 0 /\ Len(ms) = Len(ls) - ((b + d) - (b - 1) + 1) + Len(mid)
    BY <2>12, <2>13
  <2>16. Spliced(ls, ms, b - 1, b + d, mid)
    BY <2>5, <2>10, <2>12, <2>13, <2>14, <2>15 DEF Spliced
  <2> QED
    BY <2>8, <2>9, <2>16 DEF ms, mid
<1>12. CASE ~Finished(ls, b - 1)
  <2>1. ms = below
    BY <1>8, <1>12
  <2>2. at = JoinedLine(ls, b)
    <3>1. CASE Finished(ls, b + 1)
      BY <1>1, <1>4, <1>12, <3>1 DEF JoinedLine, at
    <3>2. CASE ~Finished(ls, b + 1)
      BY <1>1, <1>12, <3>2 DEF JoinedLine, at
    <3> QED
      BY <3>1, <3>2
  <2>3. JoinFrom(ls, b) = b /\ JoinTo(ls, b) = b + d
    BY <1>0, <1>12 DEF JoinFrom, JoinTo, d
  <2> HIDE DEF ms
  <2>4. /\ \A k \in 1 .. b - 1 : ms[k] = ls[k]
        /\ ms[b] = at
        /\ \A k \in b + d + 1 .. Len(ls) : ms[k + (Len(ms) - Len(ls))] = ls[k]
    <3>1. ASSUME NEW k \in 1 .. b - 1
          PROVE  ms[k] = ls[k]
      <4>1. k \in 1 .. Len(ls) - d /\ k < b
        BY <1>0, <1>9
      <4> QED
        BY <1>7, <2>1, <4>1
    <3>2. ms[b] = at
      BY <1>10, <2>1
    <3>3. ASSUME NEW k \in b + d + 1 .. Len(ls)
          PROVE  ms[k + (Len(ms) - Len(ls))] = ls[k]
      <4> DEFINE j == k + (Len(ms) - Len(ls))
      <4>0. Len(ms) - Len(ls) = 0 - d
        BY <1>0, <1>7, <1>9, <2>1
      <4>1. j \in 1 .. Len(ls) - d /\ ~(j < b) /\ j # b /\ j + d = k
        BY <1>0, <1>9, <4>0
      <4> HIDE DEF j
      <4>2. ms[j] = ls[j + d]
        BY <1>7, <2>1, <4>1
      <4> QED
        BY <4>1, <4>2 DEF j
    <3> QED
      BY <1>0, <3>1, <3>2, <3>3
  <2>5. <<at>> \in Seq(DLine) /\ Len(<<at>>) = 1 /\ <<at>>[1] = at
    BY <1>6
  <2>6. b \in 1 .. Len(ls) /\ b + d \in b .. Len(ls) /\ Len(ms) = Len(ls) - ((b + d) - b + 1) + 1
    BY <1>0, <1>7, <1>9, <2>1
  <2> DEFINE mid == <<at>>
  <2> HIDE DEF mid
  <2>7. mid \in Seq(DLine) /\ Len(mid) = 1 /\ mid[1] = at
    BY <2>5 DEF mid
  <2>8. \A k \in 1 .. Len(mid) : ms[b - 1 + k] = mid[k]
    BY <1>0, <2>4, <2>7
  <2>9. Len(mid) > 0 /\ Len(ms) = Len(ls) - ((b + d) - b + 1) + Len(mid)
    BY <2>6, <2>7
  <2>10. ms \in Seq(DLine)
    BY <1>7, <2>1
  <2>11. Spliced(ls, ms, b, b + d, mid)
    BY <2>4, <2>6, <2>7, <2>8, <2>9, <2>10 DEF Spliced
  <2> QED
    BY <2>2, <2>3, <2>11 DEF ms, mid
<1> QED
  BY <1>11, <1>12

LEMMA PairFacts ==
  ASSUME NEW l1 \in DLine, NEW l2 \in DLine
  PROVE  /\ <<l1, l2>> \in Seq(DLine) /\ Len(<<l1, l2>>) = 2
         /\ \A k \in 1 .. 2 : <<l1, l2>>[k] = IF k = 1 THEN l1 ELSE l2
OBVIOUS

LEMMA TripleFacts ==
  ASSUME NEW l1 \in DLine, NEW l2 \in DLine, NEW l3 \in DLine
  PROVE  /\ <<l1, l2, l3>> \in Seq(DLine) /\ Len(<<l1, l2, l3>>) = 3
         /\ \A k \in 1 .. 3 : <<l1, l2, l3>>[k] = IF k = 1 THEN l1 ELSE IF k = 2 THEN l2 ELSE l3
OBVIOUS

LEMMA TwoSet ==
  ASSUME NEW ls \in Seq(DLine), NEW c \in 1 .. Len(ls) - 1, NEW l1 \in DLine, NEW l2 \in DLine,
         NEW ms \in Seq(DLine), Len(ms) = Len(ls),
         \A k \in 1 .. Len(ls) :
           ms[k] = IF k = c THEN l1 ELSE IF k = c + 1 THEN l2 ELSE ls[k]
  PROVE  Spliced(ls, ms, c, c + 1, <<l1, l2>>)
<1> DEFINE mid == <<l1, l2>>
<1>0. Len(ls) \in Nat /\ c \in Nat /\ c \in 1 .. Len(ls) /\ c + 1 \in 1 .. Len(ls)
  OBVIOUS
<1>1. /\ mid \in Seq(DLine) /\ Len(mid) = 2
      /\ \A k \in 1 .. 2 : mid[k] = IF k = 1 THEN l1 ELSE l2
  BY PairFacts
<1> HIDE DEF mid
<1>2. \A k \in 1 .. Len(ls) : ms[k] = IF k = c THEN l1 ELSE IF k = c + 1 THEN l2 ELSE ls[k]
  OBVIOUS
<1>3. ASSUME NEW k \in 1 .. Len(mid)
      PROVE  ms[c - 1 + k] = mid[k]
  <2>1. c - 1 + k \in 1 .. Len(ls) /\ k \in 1 .. 2
    BY <1>0, <1>1
  <2>2. CASE k = 1
    BY <1>0, <1>1, <1>2, <2>1, <2>2
  <2>3. CASE k = 2
    BY <1>0, <1>1, <1>2, <2>1, <2>3
  <2> QED
    BY <2>1, <2>2, <2>3
<1>4. /\ \A k \in 1 .. c - 1 : ms[k] = ls[k]
      /\ \A k \in (c + 1) + 1 .. Len(ls) : ms[k + (Len(ms) - Len(ls))] = ls[k]
  <2>1. ASSUME NEW k \in 1 .. c - 1
        PROVE  ms[k] = ls[k]
    BY <1>0, <1>2
  <2>2. ASSUME NEW k \in (c + 1) + 1 .. Len(ls)
        PROVE  ms[k + (Len(ms) - Len(ls))] = ls[k]
    <3>1. k + (Len(ms) - Len(ls)) = k /\ k \in 1 .. Len(ls) /\ k # c /\ k # c + 1
      BY <1>0
    <3> QED
      BY <1>2, <3>1
  <2> QED
    BY <2>1, <2>2
<1>5. c + 1 \in c .. Len(ls) /\ Len(ms) = Len(ls) - ((c + 1) - c + 1) + Len(mid) /\ Len(mid) > 0
  BY <1>0, <1>1, <1>2
<1>6. Spliced(ls, ms, c, c + 1, mid)
  BY <1>0, <1>1, <1>3, <1>4, <1>5 DEF Spliced
<1> QED
  BY <1>6 DEF mid

\* A list that is ls with line b replaced by two.
LEMMA TwoForOne ==
  ASSUME NEW ls \in Seq(DLine), NEW b \in 1 .. Len(ls), NEW l1 \in DLine, NEW l2 \in DLine,
         NEW ms \in Seq(DLine), Len(ms) = Len(ls) + 1,
         \A k \in 1 .. Len(ls) + 1 :
           ms[k] = IF k < b THEN ls[k] ELSE IF k = b THEN l1
                   ELSE IF k = b + 1 THEN l2 ELSE ls[k - 1]
  PROVE  Spliced(ls, ms, b, b, <<l1, l2>>)
<1> DEFINE mid == <<l1, l2>>
<1>0. Len(ls) \in Nat /\ b \in Nat /\ b > 0 /\ b <= Len(ls)
  OBVIOUS
<1>1. /\ mid \in Seq(DLine) /\ Len(mid) = 2
      /\ \A k \in 1 .. 2 : mid[k] = IF k = 1 THEN l1 ELSE l2
  BY PairFacts
<1> HIDE DEF mid
<1>2. ASSUME NEW k \in 1 .. Len(mid)
      PROVE  ms[b - 1 + k] = mid[k]
  <2>1. b - 1 + k \in 1 .. Len(ls) + 1 /\ k \in 1 .. 2
    BY <1>0, <1>1
  <2>2. CASE k = 1
    BY <1>0, <1>1, <2>1, <2>2
  <2>3. CASE k = 2
    BY <1>0, <1>1, <2>1, <2>3
  <2> QED
    BY <2>1, <2>2, <2>3
<1>3. ASSUME NEW k \in 1 .. b - 1
      PROVE  ms[k] = ls[k]
  BY <1>0
<1>4. ASSUME NEW k \in b + 1 .. Len(ls)
      PROVE  ms[k + (Len(ms) - Len(ls))] = ls[k]
  <2>1. /\ k + (Len(ms) - Len(ls)) = k + 1 /\ k + 1 \in 1 .. Len(ls) + 1
        /\ ~(k + 1 < b) /\ k + 1 # b /\ k + 1 # b + 1 /\ (k + 1) - 1 = k
    BY <1>0
  <2>2. ms[k + 1] = ls[(k + 1) - 1]
    BY <2>1
  <2> QED
    BY <2>1, <2>2
<1>5. b \in b .. Len(ls) /\ Len(ms) = Len(ls) - (b - b + 1) + Len(mid) /\ Len(mid) > 0
  BY <1>0, <1>1
<1>6. Spliced(ls, ms, b, b, mid)
  BY <1>1, <1>2, <1>3, <1>4, <1>5 DEF Spliced
<1> QED
  BY <1>6 DEF mid

\* ls with line b replaced by l1 and l2.
TwoIn(ls, b, l1, l2, ms) ==
  /\ ms \in Seq(DLine) /\ Len(ms) = Len(ls) + 1
  /\ \A k \in 1 .. Len(ls) + 1 :
       ms[k] = IF k < b THEN ls[k] ELSE IF k = b THEN l1
               ELSE IF k = b + 1 THEN l2 ELSE ls[k - 1]

LEMMA LineInserted ==
  ASSUME NEW s \in Seq(DLine), NEW b \in 1 .. Len(s) + 1, NEW l \in DLine
  PROVE  /\ InsertAt(s, b, l) \in Seq(DLine)
         /\ Len(InsertAt(s, b, l)) = Len(s) + 1
         /\ \A k \in 1 .. Len(s) + 1 :
              InsertAt(s, b, l)[k] = IF k < b THEN s[k] ELSE IF k = b THEN l ELSE s[k - 1]
BY InsertAtFacts

LEMMA InsertedAbove ==
  ASSUME NEW ls \in Seq(DLine), NEW b \in 1 .. Len(ls), NEW l1 \in DLine, NEW l2 \in DLine,
         NEW e \in Seq(DLine), Len(e) = Len(ls),
         \A k \in 1 .. Len(ls) : e[k] = IF k = b THEN l2 ELSE ls[k]
  PROVE  TwoIn(ls, b, l1, l2, InsertAt(e, b, l1))
<1>0. Len(ls) \in Nat /\ b \in Nat /\ b > 0 /\ b <= Len(ls)
  OBVIOUS
<1>1. /\ e \in Seq(DLine) /\ Len(e) = Len(ls)
      /\ \A k \in 1 .. Len(ls) : e[k] = IF k = b THEN l2 ELSE ls[k]
  OBVIOUS
<1>2. b \in 1 .. Len(e) + 1
  BY <1>0, <1>1
<1>3. /\ InsertAt(e, b, l1) \in Seq(DLine) /\ Len(InsertAt(e, b, l1)) = Len(e) + 1
      /\ \A k \in 1 .. Len(e) + 1 :
           InsertAt(e, b, l1)[k] = IF k < b THEN e[k] ELSE IF k = b THEN l1 ELSE e[k - 1]
  BY ZenonT(30), <1>1, <1>2, LineInserted
<1>4. ASSUME NEW k \in 1 .. Len(ls) + 1
      PROVE  InsertAt(e, b, l1)[k] = IF k < b THEN ls[k] ELSE IF k = b THEN l1
                                     ELSE IF k = b + 1 THEN l2 ELSE ls[k - 1]
  <2>1. k \in 1 .. Len(e) + 1
    BY <1>1
  <2>2. CASE k < b
    <3>1. k \in 1 .. Len(ls) /\ k # b
      BY <1>0, <2>2
    <3>2. InsertAt(e, b, l1)[k] = e[k] /\ e[k] = ls[k]
      BY <1>1, <1>3, <2>1, <2>2, <3>1
    <3> QED
      BY <2>2, <3>2
  <2>3. CASE k = b
    BY <1>0, <1>3, <2>1, <2>3
  <2>4. CASE k > b
    <3>1. k - 1 \in 1 .. Len(ls) /\ ~(k < b) /\ k # b /\ (k - 1 = b <=> k = b + 1)
      BY <1>0, <2>4
    <3>2. InsertAt(e, b, l1)[k] = e[k - 1]
      BY <1>3, <2>1, <3>1
    <3>3. e[k - 1] = IF k - 1 = b THEN l2 ELSE ls[k - 1]
      BY <1>1, <3>1
    <3> QED
      BY <3>1, <3>2, <3>3
  <2> QED
    BY <1>0, <2>2, <2>3, <2>4
<1> QED
  BY <1>1, <1>3, <1>4 DEF TwoIn

LEMMA InsertedBelow ==
  ASSUME NEW ls \in Seq(DLine), NEW b \in 1 .. Len(ls), NEW l1 \in DLine, NEW l2 \in DLine,
         NEW e \in Seq(DLine), Len(e) = Len(ls),
         \A k \in 1 .. Len(ls) : e[k] = IF k = b THEN l1 ELSE ls[k]
  PROVE  TwoIn(ls, b, l1, l2, InsertAt(e, b + 1, l2))
<1> DEFINE c == b + 1
<1>0. Len(ls) \in Nat /\ b \in Nat /\ b > 0 /\ b <= Len(ls)
  OBVIOUS
<1>1. /\ e \in Seq(DLine) /\ Len(e) = Len(ls)
      /\ \A k \in 1 .. Len(ls) : e[k] = IF k = b THEN l1 ELSE ls[k]
  OBVIOUS
<1>2. c \in 1 .. Len(e) + 1
  BY <1>0, <1>1
<1>3. /\ InsertAt(e, c, l2) \in Seq(DLine) /\ Len(InsertAt(e, c, l2)) = Len(e) + 1
      /\ \A k \in 1 .. Len(e) + 1 :
           InsertAt(e, c, l2)[k] = IF k < c THEN e[k] ELSE IF k = c THEN l2 ELSE e[k - 1]
  <2> HIDE DEF c
  <2> QED
    BY ZenonT(30), <1>1, <1>2, LineInserted
<1>4. ASSUME NEW k \in 1 .. Len(ls) + 1
      PROVE  InsertAt(e, c, l2)[k] = IF k < b THEN ls[k] ELSE IF k = b THEN l1
                                     ELSE IF k = b + 1 THEN l2 ELSE ls[k - 1]
  <2>1. k \in 1 .. Len(e) + 1
    BY <1>1
  <2>2. CASE k < c
    <3>1. k \in 1 .. Len(ls) /\ (k < b \/ k = b)
      BY <1>0, <2>2
    <3>2. InsertAt(e, c, l2)[k] = e[k]
      BY <1>3, <2>1, <2>2
    <3>3. e[k] = IF k = b THEN l1 ELSE ls[k]
      BY <1>1, <3>1
    <3> QED
      BY <1>0, <3>1, <3>2, <3>3
  <2>3. CASE k = c
    <3>1. InsertAt(e, c, l2)[k] = l2
      BY <1>0, <1>3, <2>1, <2>3
    <3> QED
      BY <1>0, <2>3, <3>1
  <2>4. CASE k > c
    <3>1. /\ k - 1 \in 1 .. Len(ls) /\ k - 1 # b /\ ~(k < b) /\ k # b /\ k # b + 1
          /\ ~(k < c) /\ k # c
      BY <1>0, <2>4
    <3>2. InsertAt(e, c, l2)[k] = e[k - 1]
      BY <1>3, <2>1, <3>1
    <3>3. e[k - 1] = ls[k - 1]
      BY <1>1, <3>1
    <3> QED
      BY <3>1, <3>2, <3>3
  <2> QED
    BY <1>0, <2>2, <2>3, <2>4
<1> QED
  BY <1>1, <1>3, <1>4 DEF TwoIn

LEMMA TwoInSplices ==
  ASSUME NEW ls \in Seq(DLine), NEW b \in 1 .. Len(ls), NEW l1 \in DLine, NEW l2 \in DLine,
         NEW ms, TwoIn(ls, b, l1, l2, ms)
  PROVE  Spliced(ls, ms, b, b, <<l1, l2>>)
BY TwoForOne DEF TwoIn

\* A list that is ls with line b replaced by three, made in two steps.
LEMMA ThreeForOne ==
  ASSUME NEW ls \in Seq(DLine), NEW b \in 1 .. Len(ls),
         NEW l1 \in DLine, NEW l2 \in DLine, NEW l3 \in DLine,
         NEW e \in Seq(DLine), Len(e) = Len(ls) + 1,
         \A k \in 1 .. Len(ls) + 1 :
           e[k] = IF k < b THEN ls[k] ELSE IF k = b THEN l2
                  ELSE IF k = b + 1 THEN l3 ELSE ls[k - 1],
         NEW ms \in Seq(DLine), Len(ms) = Len(e) + 1,
         \A k \in 1 .. Len(e) + 1 :
           ms[k] = IF k < b THEN e[k] ELSE IF k = b THEN l1 ELSE e[k - 1]
  PROVE  Spliced(ls, ms, b, b, <<l1, l2, l3>>)
<1> DEFINE mid == <<l1, l2, l3>>
<1>0. Len(ls) \in Nat /\ b \in Nat /\ b > 0 /\ b <= Len(ls)
  OBVIOUS
<1>1. /\ mid \in Seq(DLine) /\ Len(mid) = 3
      /\ \A k \in 1 .. 3 : mid[k] = IF k = 1 THEN l1 ELSE IF k = 2 THEN l2 ELSE l3
  BY TripleFacts
<1> HIDE DEF mid
<1>2. ASSUME NEW k \in 1 .. Len(mid)
      PROVE  ms[b - 1 + k] = mid[k]
  <2>1. b - 1 + k \in 1 .. Len(e) + 1 /\ k \in 1 .. 3
    BY <1>0, <1>1
  <2>2. CASE k = 1
    BY <1>0, <1>1, <2>1, <2>2
  <2>3. CASE k = 2
    <3>1. b - 1 + k = b + 1 /\ (b + 1) - 1 = b /\ b \in 1 .. Len(ls) + 1
      BY <1>0, <2>3
    <3>2. ms[b + 1] = e[b]
      BY <1>0, <2>1, <3>1
    <3>3. e[b] = l2
      BY <1>0, <3>1
    <3> QED
      BY <1>1, <2>1, <2>3, <3>1, <3>2, <3>3
  <2>4. CASE k = 3
    <3>1. b - 1 + k = b + 2 /\ (b + 2) - 1 = b + 1 /\ b + 1 \in 1 .. Len(ls) + 1
      BY <1>0, <2>4
    <3>2. ms[b + 2] = e[b + 1]
      BY <1>0, <2>1, <3>1
    <3>3. e[b + 1] = l3
      BY SMTT(30), <1>0, <3>1
    <3> QED
      BY <1>1, <2>1, <2>4, <3>1, <3>2, <3>3
  <2> QED
    BY <2>1, <2>2, <2>3, <2>4
<1>3. ASSUME NEW k \in 1 .. b - 1
      PROVE  ms[k] = ls[k]
  <2>1. k \in 1 .. Len(e) + 1 /\ k \in 1 .. Len(ls) + 1 /\ k < b
    BY <1>0
  <2> QED
    BY <2>1
<1>4. ASSUME NEW k \in b + 1 .. Len(ls)
      PROVE  ms[k + (Len(ms) - Len(ls))] = ls[k]
  <2>1. /\ k + (Len(ms) - Len(ls)) = k + 2 /\ k + 2 \in 1 .. Len(e) + 1
        /\ ~(k + 2 < b) /\ k + 2 # b /\ (k + 2) - 1 = k + 1 /\ k + 1 \in 1 .. Len(ls) + 1
        /\ ~(k + 1 < b) /\ k + 1 # b /\ k + 1 # b + 1 /\ (k + 1) - 1 = k
    BY <1>0
  <2>2. ms[k + 2] = e[(k + 2) - 1]
    BY <2>1
  <2>3. e[k + 1] = ls[(k + 1) - 1]
    BY <2>1
  <2> QED
    BY <2>1, <2>2, <2>3
<1>5. b \in b .. Len(ls) /\ Len(ms) = Len(ls) - (b - b + 1) + Len(mid) /\ Len(mid) > 0
  BY <1>0, <1>1
<1>6. Spliced(ls, ms, b, b, mid)
  BY <1>1, <1>2, <1>3, <1>4, <1>5 DEF Spliced
<1> QED
  BY <1>6 DEF mid

\* The line above grows down over the first sectors of line b, or a line of
\* its own is made of them.
LEMMA StartOfLineSplices ==
  ASSUME NEW ls \in Seq(DLine), NEW b \in 1 .. Len(ls), NEW n \in Int
  PROVE  LET after == Block(ls[b].pos + n, ls[b].size - n, ls[b].status) IN
         /\ Finished(ls, b - 1) =>
              Spliced(ls, StartOfLine(ls, b, n), b - 1, b,
                      <<Block(ls[b - 1].pos, ls[b - 1].size + n, "FINISHED"), after>>)
         /\ ~Finished(ls, b - 1) =>
              Spliced(ls, StartOfLine(ls, b, n), b, b,
                      <<Block(ls[b].pos, n, "FINISHED"), after>>)
<1> DEFINE after == Block(ls[b].pos + n, ls[b].size - n, ls[b].status)
           own == Block(ls[b].pos, n, "FINISHED")
           above == GrowDown(ls[b - 1], n)
<1>1. after \in DLine /\ own \in DLine
  <2> HIDE DEF after, own, above
  <2>1. /\ ls[b].pos \in Int /\ ls[b].pos + n \in Int /\ ls[b].size - n \in Int
        /\ ls[b].status \in {"NONTRIED", "FINISHED"}
    BY LineFacts
  <2>2. after \in DLine
    BY <2>1, BlockFacts DEF after
  <2>3. own \in DLine
    BY <2>1, BlockFacts DEF own
  <2> QED
    BY <2>2, <2>3
<1>2. CASE Finished(ls, b - 1)
  <2>1. b - 1 \in 1 .. Len(ls) /\ ls[b - 1].status = "FINISHED"
    BY <1>2 DEF Finished
  <2>2. above = Block(ls[b - 1].pos, ls[b - 1].size + n, "FINISHED") /\ above \in DLine
    BY <2>1, LineFacts, GrownFacts
  <2>3. StartOfLine(ls, b, n) = [ls EXCEPT ![b - 1] = above, ![b] = after]
    BY <1>2 DEF StartOfLine
  <2> HIDE DEF after, above
  <2>4. PICK c \in 1 .. Len(ls) - 1 : c = b - 1 /\ b = c + 1
    BY <2>1
  <2>5. PICK ms : ms = StartOfLine(ls, b, n)
    OBVIOUS
  <2>6. PICK e : e = [ls EXCEPT ![c] = above]
    OBVIOUS
  <2>7. /\ e \in Seq(DLine) /\ Len(e) = Len(ls)
        /\ \A k \in 1 .. Len(ls) : e[k] = IF k = c THEN above ELSE ls[k]
    BY <2>2, <2>4, <2>6, ExceptFacts
  <2>8. ms = [e EXCEPT ![b] = after]
    BY <2>3, <2>4, <2>5, <2>6
  <2>9. /\ ms \in Seq(DLine) /\ Len(ms) = Len(e)
        /\ \A k \in 1 .. Len(e) : ms[k] = IF k = b THEN after ELSE e[k]
    BY <1>1, <2>7, <2>8, ExceptFacts
  <2>10. \A k \in 1 .. Len(ls) :
           ms[k] = IF k = c THEN above ELSE IF k = c + 1 THEN after ELSE ls[k]
    BY <2>4, <2>7, <2>9
  <2>11. Spliced(ls, ms, c, c + 1, <<above, after>>)
    BY <1>1, <2>2, <2>7, <2>9, <2>10, TwoSet
  <2> QED
    BY <1>2, <2>2, <2>4, <2>5, <2>11 DEF after
<1>3. CASE ~Finished(ls, b - 1)
  <2>1. StartOfLine(ls, b, n) = InsertAt([ls EXCEPT ![b] = after], b, own)
    BY <1>3 DEF StartOfLine
  <2> HIDE DEF after, own
  <2>2. PICK e : e = [ls EXCEPT ![b] = after]
    OBVIOUS
  <2>3. /\ e \in Seq(DLine) /\ Len(e) = Len(ls)
        /\ \A k \in 1 .. Len(ls) : e[k] = IF k = b THEN after ELSE ls[k]
    BY <1>1, <2>2, ExceptFacts
  <2>4. Spliced(ls, InsertAt(e, b, own), b, b, <<own, after>>)
    BY <1>1, <2>3, InsertedAbove, TwoInSplices
  <2> QED
    BY <1>3, <2>1, <2>2, <2>4 DEF own, after
<1> QED
  BY <1>2, <1>3

\* The line below grows up over the last sectors of line b, or a line of its
\* own is made of them.
LEMMA EndOfLineSplices ==
  ASSUME NEW ls \in Seq(DLine), NEW b \in 1 .. Len(ls), NEW n \in Int
  PROVE  LET before == Block(ls[b].pos, ls[b].size - n, ls[b].status) IN
         /\ Finished(ls, b + 1) =>
              Spliced(ls, EndOfLine(ls, b, n), b, b + 1,
                      <<before, Block(ls[b + 1].pos - n, ls[b + 1].size + n, "FINISHED")>>)
         /\ ~Finished(ls, b + 1) =>
              Spliced(ls, EndOfLine(ls, b, n), b, b,
                      <<before, Block(EndOf(ls[b]) - n, n, "FINISHED")>>)
<1> DEFINE before == Block(ls[b].pos, ls[b].size - n, ls[b].status)
           own == Block(EndOf(ls[b]) - n, n, "FINISHED")
           under == GrowUp(ls[b + 1], n)
<1>1. before \in DLine /\ own \in DLine
  <2> HIDE DEF before, own, under
  <2>1. /\ ls[b].pos \in Int /\ ls[b].size - n \in Int /\ EndOf(ls[b]) - n \in Int
        /\ ls[b].status \in {"NONTRIED", "FINISHED"}
    BY SMTT(30), LineFacts
  <2>2. before \in DLine
    BY <2>1, BlockFacts DEF before
  <2>3. own \in DLine
    BY <2>1, BlockFacts DEF own
  <2> QED
    BY <2>2, <2>3
<1>2. CASE Finished(ls, b + 1)
  <2>1. b + 1 \in 1 .. Len(ls) /\ ls[b + 1].status = "FINISHED"
    BY <1>2 DEF Finished
  <2>2. under = Block(ls[b + 1].pos - n, ls[b + 1].size + n, "FINISHED") /\ under \in DLine
    BY <2>1, LineFacts, GrownFacts
  <2>3. EndOfLine(ls, b, n) = [ls EXCEPT ![b] = before, ![b + 1] = under]
    BY <1>2 DEF EndOfLine
  <2>4. b \in 1 .. Len(ls) - 1
    BY <2>1
  <2> HIDE DEF before, under
  <2>5. PICK ms : ms = EndOfLine(ls, b, n)
    OBVIOUS
  <2>6. PICK e : e = [ls EXCEPT ![b] = before]
    OBVIOUS
  <2>7. /\ e \in Seq(DLine) /\ Len(e) = Len(ls)
        /\ \A k \in 1 .. Len(ls) : e[k] = IF k = b THEN before ELSE ls[k]
    BY <1>1, <2>6, ExceptFacts
  <2>8. ms = [e EXCEPT ![b + 1] = under]
    BY <2>3, <2>5, <2>6
  <2>9. /\ ms \in Seq(DLine) /\ Len(ms) = Len(e)
        /\ \A k \in 1 .. Len(e) : ms[k] = IF k = b + 1 THEN under ELSE e[k]
    BY <2>1, <2>2, <2>7, <2>8, ExceptFacts
  <2>10. \A k \in 1 .. Len(ls) :
           ms[k] = IF k = b THEN before ELSE IF k = b + 1 THEN under ELSE ls[k]
    BY <2>4, <2>7, <2>9
  <2>11. Spliced(ls, ms, b, b + 1, <<before, under>>)
    BY <1>1, <2>2, <2>4, <2>7, <2>9, <2>10, TwoSet
  <2> QED
    BY <1>2, <2>2, <2>5, <2>11 DEF before
<1>3. CASE ~Finished(ls, b + 1)
  <2>1. EndOfLine(ls, b, n) = InsertAt([ls EXCEPT ![b] = before], b + 1, own)
    BY <1>3 DEF EndOfLine
  <2> HIDE DEF before, own
  <2>2. PICK e : e = [ls EXCEPT ![b] = before]
    OBVIOUS
  <2>3. /\ e \in Seq(DLine) /\ Len(e) = Len(ls)
        /\ \A k \in 1 .. Len(ls) : e[k] = IF k = b THEN before ELSE ls[k]
    BY <1>1, <2>2, ExceptFacts
  <2>4. Spliced(ls, InsertAt(e, b + 1, own), b, b, <<before, own>>)
    BY <1>1, <2>3, InsertedBelow, TwoInSplices
  <2> QED
    BY <1>3, <2>1, <2>2, <2>4 DEF own, before
<1> QED
  BY <1>2, <1>3

\* Line b is cut in three.
LEMMA InsideLineSplices ==
  ASSUME NEW ls \in Seq(DLine), NEW b \in 1 .. Len(ls), NEW p \in Int, NEW n \in Int
  PROVE  Spliced(ls, InsideLine(ls, b, p, n), b, b,
                 <<Block(ls[b].pos, p - ls[b].pos, ls[b].status),
                   Block(p, n, "FINISHED"),
                   Block(p + n, EndOf(ls[b]) - (p + n), ls[b].status)>>)
<1> DEFINE before == Block(ls[b].pos, p - ls[b].pos, ls[b].status)
           own == Block(p, n, "FINISHED")
           after == Block(p + n, EndOf(ls[b]) - (p + n), ls[b].status)
           ms == InsideLine(ls, b, p, n)
<1>1. before \in DLine /\ own \in DLine /\ after \in DLine
  <2> HIDE DEF before, own, after, ms
  <2>1. /\ ls[b].pos \in Int /\ p - ls[b].pos \in Int /\ p + n \in Int
        /\ EndOf(ls[b]) - (p + n) \in Int /\ ls[b].status \in {"NONTRIED", "FINISHED"}
    BY SMTT(30), LineFacts
  <2>2. before \in DLine
    BY <2>1, BlockFacts DEF before
  <2>3. own \in DLine
    BY <2>1, BlockFacts DEF own
  <2>4. after \in DLine
    BY <2>1, BlockFacts DEF after
  <2> QED
    BY <2>2, <2>3, <2>4
<1>2. ms = InsertAt(InsertAt([ls EXCEPT ![b] = after], b, own), b, before)
  BY DEF InsideLine
<1> HIDE DEF before, own, after, ms
<1>3. PICK cut : cut = [ls EXCEPT ![b] = after]
  OBVIOUS
<1>4. PICK e : /\ e = InsertAt(cut, b, own)
               /\ e \in Seq(DLine) /\ Len(e) = Len(ls) + 1
               /\ \A k \in 1 .. Len(ls) + 1 :
                    e[k] = IF k < b THEN ls[k] ELSE IF k = b THEN own
                           ELSE IF k = b + 1 THEN after ELSE ls[k - 1]
  <2>1. /\ cut \in Seq(DLine) /\ Len(cut) = Len(ls)
        /\ \A k \in 1 .. Len(ls) : cut[k] = IF k = b THEN after ELSE ls[k]
    BY <1>1, <1>3, ExceptFacts
  <2>2. TwoIn(ls, b, own, after, InsertAt(cut, b, own))
    BY <1>1, <2>1, InsertedAbove
  <2> QED
    BY <2>2 DEF TwoIn
<1>5. ms = InsertAt(e, b, before) /\ b \in 1 .. Len(e) + 1
  BY <1>2, <1>3, <1>4
<1>6. /\ ms \in Seq(DLine) /\ Len(ms) = Len(e) + 1
      /\ \A k \in 1 .. Len(e) + 1 :
           ms[k] = IF k < b THEN e[k] ELSE IF k = b THEN before ELSE e[k - 1]
  <2>1. e \in Seq(DLine) /\ b \in 1 .. Len(e) + 1 /\ before \in DLine
    BY <1>1, <1>4, <1>5
  <2>2. InsertAt(e, b, before) \in Seq(DLine)
    BY <2>1, LineInserted
  <2>3. Len(InsertAt(e, b, before)) = Len(e) + 1
    BY <2>1, LineInserted
  <2>4. \A k \in 1 .. Len(e) + 1 :
           InsertAt(e, b, before)[k] = IF k < b THEN e[k] ELSE IF k = b THEN before ELSE e[k - 1]
    BY <2>1, LineInserted
  <2> QED
    BY <1>5, <2>2, <2>3, <2>4
<1>7. Spliced(ls, ms, b, b, <<before, own, after>>)
  BY <1>1, <1>4, <1>6, ThreeForOne
<1> QED
  BY <1>7 DEF ms, before, own, after

-----------------------------------------------------------------------------
(* The four ways to mark, in a gapless list: it stays gapless, and what is  *)
(* marked is added to what was.                                            *)

LEMMA ChunkFacts ==
  ASSUME NEW p \in Int, NEW n \in Int, NEW x
  PROVE  x \in Chunk(p, n) <=> x \in Int /\ p <= x /\ x < p + n
BY DEF Chunk

LEMMA CoveredFacts ==
  ASSUME NEW ls \in Seq(DLine), NEW k \in 1 .. Len(ls), NEW x
  PROVE  Covered(ls, k, x) <=>
           Finished(ls, k) /\ x \in Int /\ ls[k].pos <= x /\ x < ls[k].pos + ls[k].size
<1>1. ls[k].pos \in Int /\ ls[k].size \in Int
  BY LineFacts
<1> QED
  BY <1>1, ChunkFacts DEF Covered, Finished

LEMMA GaplessSides ==
  ASSUME NEW ls \in Seq(DLine), Gapless(ls), NEW b \in 1 .. Len(ls)
  PROVE  /\ Len(ls) \in Nat /\ b \in Nat /\ b > 0 /\ b <= Len(ls)
         /\ ls[b].size > 0
         /\ b > 1 => /\ b - 1 \in 1 .. Len(ls) /\ ls[b - 1].size > 0
                     /\ EndOf(ls[b - 1]) = ls[b].pos
                     /\ ls[b - 1].status # ls[b].status
                     /\ (Finished(ls, b - 1) <=> ~Finished(ls, b))
         /\ b < Len(ls) => /\ b + 1 \in 1 .. Len(ls) /\ ls[b + 1].size > 0
                           /\ EndOf(ls[b]) = ls[b + 1].pos
                           /\ ls[b].status # ls[b + 1].status
                           /\ (Finished(ls, b + 1) <=> ~Finished(ls, b))
<1>1. Len(ls) \in Nat /\ b \in Nat /\ b > 0 /\ b <= Len(ls)
  OBVIOUS
<1>2. ls[b].size > 0
  BY DEF Gapless, HasSectors
<1>3. (b > 1 => /\ b - 1 \in 1 .. Len(ls) /\ ls[b - 1].size > 0
                /\ EndOf(ls[b - 1]) = ls[b].pos
                /\ ls[b - 1].status # ls[b].status
                /\ (Finished(ls, b - 1) <=> ~Finished(ls, b)))
  <2>1. SUFFICES ASSUME b > 1
                 PROVE  /\ b - 1 \in 1 .. Len(ls) /\ ls[b - 1].size > 0
                        /\ EndOf(ls[b - 1]) = ls[b].pos
                        /\ ls[b - 1].status # ls[b].status
                        /\ (Finished(ls, b - 1) <=> ~Finished(ls, b))
    OBVIOUS
  <2>2. b - 1 \in 1 .. Len(ls) /\ b - 1 \in 1 .. Len(ls) - 1 /\ (b - 1) + 1 = b
    BY <1>1, <2>1
  <2>3. ls[b - 1].size > 0
    BY <2>2 DEF Gapless, HasSectors
  <2>4. EndOf(ls[b - 1]) = ls[(b - 1) + 1].pos /\ ls[b - 1].status # ls[(b - 1) + 1].status
    BY <2>2 DEF Gapless
  <2> QED
    BY <2>2, <2>3, <2>4, LineFacts DEF Finished
<1>4. (b < Len(ls) => /\ b + 1 \in 1 .. Len(ls) /\ ls[b + 1].size > 0
                      /\ EndOf(ls[b]) = ls[b + 1].pos
                      /\ ls[b].status # ls[b + 1].status
                      /\ (Finished(ls, b + 1) <=> ~Finished(ls, b)))
  <2>1. SUFFICES ASSUME b < Len(ls)
                 PROVE  /\ b + 1 \in 1 .. Len(ls) /\ ls[b + 1].size > 0
                        /\ EndOf(ls[b]) = ls[b + 1].pos
                        /\ ls[b].status # ls[b + 1].status
                        /\ (Finished(ls, b + 1) <=> ~Finished(ls, b))
    OBVIOUS
  <2>2. b + 1 \in 1 .. Len(ls) /\ b \in 1 .. Len(ls) - 1
    BY <1>1, <2>1
  <2>3. ls[b + 1].size > 0
    BY <2>2 DEF Gapless, HasSectors
  <2>4. EndOf(ls[b]) = ls[b + 1].pos /\ ls[b].status # ls[b + 1].status
    BY <2>2 DEF Gapless
  <2> QED
    BY <2>2, <2>3, <2>4, LineFacts DEF Finished
<1> QED
  BY <1>1, <1>2, <1>3, <1>4

\* The joined line reaches from the first line it replaces to the last.
LEMMA JoinedFacts ==
  ASSUME NEW ls \in Seq(DLine), Gapless(ls), NEW b \in 1 .. Len(ls)
  PROVE  /\ JoinFrom(ls, b) \in 1 .. b /\ JoinTo(ls, b) \in b .. Len(ls)
         /\ JoinedLine(ls, b) \in DLine /\ JoinedLine(ls, b).status = "FINISHED"
         /\ JoinedLine(ls, b).size > 0
         /\ JoinedLine(ls, b).pos = ls[JoinFrom(ls, b)].pos
         /\ EndOf(JoinedLine(ls, b)) = EndOf(ls[JoinTo(ls, b)])
<1> DEFINE p == IF Finished(ls, b - 1) THEN ls[b - 1].pos
                ELSE IF Finished(ls, b + 1) THEN ls[b + 1].pos - ls[b].size ELSE ls[b].pos
           n == ls[b].size + (IF Finished(ls, b - 1) THEN ls[b - 1].size ELSE 0)
                           + (IF Finished(ls, b + 1) THEN ls[b + 1].size ELSE 0)
           lo == JoinFrom(ls, b)
           hi == JoinTo(ls, b)
<1>1. Len(ls) \in Nat /\ b \in Nat /\ b > 0 /\ b <= Len(ls) /\ ls[b].size > 0
  BY GaplessSides
<1>2. /\ ls[b].pos \in Int /\ ls[b].size \in Int /\ EndOf(ls[b]) = ls[b].pos + ls[b].size
  BY LineFacts
<1>3. Finished(ls, b - 1) =>
        /\ b - 1 \in 1 .. Len(ls) /\ ls[b - 1].pos \in Int /\ ls[b - 1].size \in Int
        /\ ls[b - 1].size > 0 /\ ls[b - 1].pos + ls[b - 1].size = ls[b].pos
  <2>1. Finished(ls, b - 1) => b - 1 \in 1 .. Len(ls) /\ b > 1
    BY <1>1 DEF Finished
  <2>2. Finished(ls, b - 1) => ls[b - 1].size > 0 /\ EndOf(ls[b - 1]) = ls[b].pos
    BY <2>1, GaplessSides
  <2>3. Finished(ls, b - 1) => /\ ls[b - 1].pos \in Int /\ ls[b - 1].size \in Int
                               /\ EndOf(ls[b - 1]) = ls[b - 1].pos + ls[b - 1].size
    BY <2>1, LineFacts
  <2> QED
    BY <2>1, <2>2, <2>3
<1>4. Finished(ls, b + 1) =>
        /\ b + 1 \in 1 .. Len(ls) /\ ls[b + 1].pos \in Int /\ ls[b + 1].size \in Int
        /\ ls[b + 1].size > 0 /\ ls[b + 1].pos = ls[b].pos + ls[b].size
        /\ EndOf(ls[b + 1]) = ls[b + 1].pos + ls[b + 1].size
  <2>1. Finished(ls, b + 1) => b + 1 \in 1 .. Len(ls) /\ b < Len(ls)
    BY <1>1 DEF Finished
  <2>2. Finished(ls, b + 1) => ls[b + 1].size > 0 /\ EndOf(ls[b]) = ls[b + 1].pos
    BY <2>1, GaplessSides
  <2>3. Finished(ls, b + 1) => /\ ls[b + 1].pos \in Int /\ ls[b + 1].size \in Int
                               /\ EndOf(ls[b + 1]) = ls[b + 1].pos + ls[b + 1].size
    BY <2>1, LineFacts
  <2> QED
    BY <1>2, <2>1, <2>2, <2>3
<1>5. lo \in 1 .. b /\ hi \in b .. Len(ls)
  BY <1>1, <1>3, <1>4 DEF JoinFrom, JoinTo
<1>6. p \in Int /\ n \in Int /\ n > 0
  <2>1. p \in Int
    BY <1>2, <1>3, <1>4
  <2>2. n \in Int /\ n > 0
    BY SMTT(30), <1>1, <1>2, <1>3, <1>4
  <2> QED
    BY <2>1, <2>2
<1>7. p = ls[lo].pos
  BY <1>2, <1>3, <1>4 DEF JoinFrom
<1>8. p + n = EndOf(ls[hi])
  <2>1. CASE Finished(ls, b + 1)
    BY SMTT(30), <1>2, <1>3, <1>4, <2>1 DEF JoinTo
  <2>2. CASE ~Finished(ls, b + 1)
    BY SMTT(30), <1>2, <1>3, <2>2 DEF JoinTo
  <2> QED
    BY <2>1, <2>2
<1>9. JoinedLine(ls, b) = Block(p, n, "FINISHED")
  BY DEF JoinedLine
<1> HIDE DEF p, n, lo, hi
<1>10. /\ Block(p, n, "FINISHED") \in DLine
       /\ Block(p, n, "FINISHED").pos = p /\ Block(p, n, "FINISHED").size = n
       /\ Block(p, n, "FINISHED").status = "FINISHED" /\ EndOf(Block(p, n, "FINISHED")) = p + n
  BY ZenonT(30), <1>6, BlockFacts
<1> QED
  BY <1>5, <1>6, <1>7, <1>8, <1>9, <1>10 DEF lo, hi

LEMMA WholeLineMarks ==
  ASSUME NEW ls \in Seq(DLine), Gapless(ls), NEW b \in 1 .. Len(ls)
  PROVE  /\ Gapless(WholeLine(ls, b))
         /\ Marked(WholeLine(ls, b)) = Marked(ls) \cup Chunk(ls[b].pos, ls[b].size)
<1> DEFINE lo == JoinFrom(ls, b)
           hi == JoinTo(ls, b)
           l == JoinedLine(ls, b)
           mid == <<l>>
           ms == WholeLine(ls, b)
           C == Chunk(ls[b].pos, ls[b].size)
<1>0. Len(ls) \in Nat /\ b \in Nat /\ b > 0 /\ b <= Len(ls) /\ ls[b].size > 0
  BY GaplessSides
<1>1. Spliced(ls, ms, lo, hi, mid)
  BY WholeLineSplices
<1>2. /\ lo \in 1 .. b /\ hi \in b .. Len(ls) /\ l \in DLine /\ l.status = "FINISHED" /\ l.size > 0
      /\ l.pos = ls[lo].pos /\ EndOf(l) = EndOf(ls[hi])
  BY JoinedFacts
<1>3. /\ lo = b \/ (lo = b - 1 /\ Finished(ls, b - 1))
      /\ hi = b \/ (hi = b + 1 /\ Finished(ls, b + 1))
  BY DEF JoinFrom, JoinTo
<1>4. lo > 1 => ls[lo - 1].status # "FINISHED"
  <2>1. CASE Finished(ls, b - 1)
    <3>1. lo = b - 1 /\ b - 1 \in 1 .. Len(ls) /\ ls[b - 1].status = "FINISHED"
      BY <2>1 DEF JoinFrom, Finished
    <3>2. b - 1 > 1 => ls[(b - 1) - 1].status # ls[b - 1].status
      BY <3>1, GaplessSides
    <3> QED
      BY <3>1, <3>2
  <2>2. CASE ~Finished(ls, b - 1)
    <3>1. lo = b
      BY <2>2 DEF JoinFrom
    <3>2. b > 1 => b - 1 \in 1 .. Len(ls)
      BY <1>0
    <3> QED
      BY <2>2, <3>1, <3>2 DEF Finished
  <2> QED
    BY <2>1, <2>2
<1>5. hi < Len(ls) => ls[hi + 1].status # "FINISHED"
  <2>1. CASE Finished(ls, b + 1)
    <3>1. hi = b + 1 /\ b + 1 \in 1 .. Len(ls) /\ ls[b + 1].status = "FINISHED"
      BY <2>1 DEF JoinTo, Finished
    <3>2. b + 1 < Len(ls) => ls[b + 1].status # ls[(b + 1) + 1].status
      BY <3>1, GaplessSides
    <3> QED
      BY <3>1, <3>2
  <2>2. CASE ~Finished(ls, b + 1)
    <3>1. hi = b
      BY <2>2 DEF JoinTo
    <3>2. b < Len(ls) => b + 1 \in 1 .. Len(ls)
      BY <1>0
    <3> QED
      BY <2>2, <3>1, <3>2 DEF Finished
  <2> QED
    BY <2>1, <2>2
<1>6. /\ ls[b].pos \in Int /\ ls[b].size \in Int /\ EndOf(ls[b]) = ls[b].pos + ls[b].size
      /\ ls[lo].pos \in Int /\ EndOf(ls[hi]) \in Int
      /\ l.pos \in Int /\ l.size \in Int /\ EndOf(l) = l.pos + l.size
  <2>1. lo \in 1 .. Len(ls) /\ hi \in 1 .. Len(ls)
    BY <1>0, <1>2
  <2> HIDE DEF lo, hi, l
  <2> QED
    BY <1>2, <2>1, LineFacts DEF DLine, EndOf
<1> HIDE DEF l, lo, hi, ms
<1>7. mid \in Seq(DLine) /\ Len(mid) = 1 /\ mid[1] = l
  BY <1>2
<1> HIDE DEF mid
<1>8. Gapless(ms)
  <2>1. HasSectors(mid)
    BY <1>2, <1>7 DEF HasSectors
  <2>2. \A k \in 1 .. Len(mid) - 1 :
          EndOf(mid[k]) = mid[k + 1].pos /\ mid[k].status # mid[k + 1].status
    BY <1>7
  <2>3. mid[1].pos = ls[lo].pos /\ EndOf(mid[Len(mid)]) = EndOf(ls[hi])
    BY <1>2, <1>7
  <2>4. lo > 1 => ls[lo - 1].status # mid[1].status
    BY <1>2, <1>4, <1>7
  <2>5. hi < Len(ls) => mid[Len(mid)].status # ls[hi + 1].status
    BY <1>2, <1>5, <1>7
  <2> QED
    BY <1>1, <2>1, <2>2, <2>3, <2>4, <2>5, SplicedGapless
\* What it covers is the line and the FINISHED lines beside it.
<1>9. ASSUME NEW x
      PROVE  (\E k \in 1 .. Len(mid) : Covered(mid, k, x)) <=>
               (x \in C \/ \E k \in lo .. hi : Covered(ls, k, x))
  <2>1. (\E k \in 1 .. Len(mid) : Covered(mid, k, x)) <=>
          x \in Int /\ ls[lo].pos <= x /\ x < EndOf(ls[hi])
    <3>1. Covered(mid, 1, x) <=> x \in Int /\ l.pos <= x /\ x < l.pos + l.size
      BY <1>2, <1>6, <1>7, ChunkFacts DEF Covered
    <3> QED
      BY <1>2, <1>6, <1>7, <3>1
  <2>2. x \in C <=> x \in Int /\ ls[b].pos <= x /\ x < EndOf(ls[b])
    BY <1>6, ChunkFacts
  <2> HIDE DEF C
  <2>3. lo = b - 1 =>
          /\ b - 1 \in lo .. hi /\ EndOf(ls[b - 1]) = ls[b].pos /\ ls[b - 1].pos < ls[b].pos
          /\ ls[b - 1].pos \in Int
          /\ (Covered(ls, b - 1, x) <=> x \in Int /\ ls[b - 1].pos <= x /\ x < ls[b].pos)
    <3>1. SUFFICES ASSUME lo = b - 1
                   PROVE  /\ b - 1 \in lo .. hi /\ EndOf(ls[b - 1]) = ls[b].pos
                          /\ ls[b - 1].pos < ls[b].pos /\ ls[b - 1].pos \in Int
                          /\ (Covered(ls, b - 1, x) <=>
                                x \in Int /\ ls[b - 1].pos <= x /\ x < ls[b].pos)
      OBVIOUS
    <3>2. Finished(ls, b - 1) /\ b - 1 \in 1 .. Len(ls) /\ b > 1 /\ b - 1 \in lo .. hi
      BY <1>0, <1>2, <1>3, <3>1
    <3>3. EndOf(ls[b - 1]) = ls[b].pos /\ ls[b - 1].size > 0
      BY <3>2, GaplessSides
    <3>4. /\ ls[b - 1].pos \in Int /\ ls[b - 1].size \in Int
          /\ EndOf(ls[b - 1]) = ls[b - 1].pos + ls[b - 1].size
      BY <3>2, LineFacts
    <3>5. Covered(ls, b - 1, x) <=>
            x \in Int /\ ls[b - 1].pos <= x /\ x < ls[b - 1].pos + ls[b - 1].size
      BY <3>2, CoveredFacts
    <3> QED
      BY <3>2, <3>3, <3>4, <3>5
  <2>4. hi = b + 1 =>
          /\ b + 1 \in lo .. hi /\ EndOf(ls[b]) = ls[b + 1].pos /\ EndOf(ls[b]) < EndOf(ls[b + 1])
          /\ EndOf(ls[b + 1]) \in Int
          /\ (Covered(ls, b + 1, x) <=> x \in Int /\ EndOf(ls[b]) <= x /\ x < EndOf(ls[b + 1]))
    <3>1. SUFFICES ASSUME hi = b + 1
                   PROVE  /\ b + 1 \in lo .. hi /\ EndOf(ls[b]) = ls[b + 1].pos
                          /\ EndOf(ls[b]) < EndOf(ls[b + 1]) /\ EndOf(ls[b + 1]) \in Int
                          /\ (Covered(ls, b + 1, x) <=>
                                x \in Int /\ EndOf(ls[b]) <= x /\ x < EndOf(ls[b + 1]))
      OBVIOUS
    <3>2. Finished(ls, b + 1) /\ b + 1 \in 1 .. Len(ls) /\ b < Len(ls) /\ b + 1 \in lo .. hi
      BY <1>0, <1>2, <1>3, <3>1
    <3>3. EndOf(ls[b]) = ls[b + 1].pos /\ ls[b + 1].size > 0
      BY <3>2, GaplessSides
    <3>4. /\ ls[b + 1].pos \in Int /\ ls[b + 1].size \in Int
          /\ EndOf(ls[b + 1]) = ls[b + 1].pos + ls[b + 1].size
      BY <3>2, LineFacts
    <3>5. Covered(ls, b + 1, x) <=>
            x \in Int /\ ls[b + 1].pos <= x /\ x < ls[b + 1].pos + ls[b + 1].size
      BY <3>2, CoveredFacts
    <3> QED
      BY <3>2, <3>3, <3>4, <3>5
  <2>5. Covered(ls, b, x) => x \in C
    BY <1>6, <2>2, CoveredFacts
  <2>6. (\E k \in lo .. hi : Covered(ls, k, x)) =>
          \/ Covered(ls, b, x)
          \/ lo = b - 1 /\ Covered(ls, b - 1, x)
          \/ hi = b + 1 /\ Covered(ls, b + 1, x)
    <3>1. \A k \in lo .. hi : k = b \/ (lo = b - 1 /\ k = b - 1) \/ (hi = b + 1 /\ k = b + 1)
      BY <1>0, <1>2, <1>3
    <3> QED
      BY <3>1
  <2>7. ASSUME x \in Int, ls[lo].pos <= x, x < EndOf(ls[hi])
        PROVE  x \in C \/ \E k \in lo .. hi : Covered(ls, k, x)
    <3>1. CASE x < ls[b].pos
      BY <1>3, <1>6, <2>3, <2>7, <3>1
    <3>2. CASE x >= EndOf(ls[b])
      BY <1>3, <1>6, <2>4, <2>7, <3>2
    <3> QED
      BY SMTT(30), <1>6, <2>2, <2>7, <3>1, <3>2
  <2>8. ASSUME x \in C \/ \E k \in lo .. hi : Covered(ls, k, x)
        PROVE  x \in Int /\ ls[lo].pos <= x /\ x < EndOf(ls[hi])
    <3>1. x \in Int
      BY <2>2, <2>3, <2>4, <2>5, <2>6, <2>8
    <3>2. ls[lo].pos <= ls[b].pos /\ EndOf(ls[b]) <= EndOf(ls[hi]) /\ ls[b].pos < EndOf(ls[b])
      BY SMTT(30), <1>0, <1>3, <1>6, <2>3, <2>4
    <3>3. CASE x \in C
      BY SMTT(30), <1>6, <2>2, <3>1, <3>2, <3>3
    <3>4. CASE lo = b - 1 /\ Covered(ls, b - 1, x)
      BY SMTT(30), <1>6, <2>3, <3>1, <3>2, <3>4
    <3>5. CASE hi = b + 1 /\ Covered(ls, b + 1, x)
      BY SMTT(30), <1>6, <2>4, <3>1, <3>2, <3>5
    <3> QED
      BY <2>5, <2>6, <2>8, <3>3, <3>4, <3>5
  <2> QED
    BY <2>1, <2>7, <2>8
<1>10. Marked(ms) = Marked(ls) \cup C
  <2> HIDE DEF C
  <2>1. Adds(ls, lo, hi, mid, C)
    BY <1>9 DEF Adds
  <2> QED
    BY <1>1, <2>1, SplicedMarks
<1> QED
  BY <1>8, <1>10 DEF ms

\* The first n sectors of a line that is not FINISHED, and with them the
\* whole of a FINISHED line above it.
LEMMA StartMarks ==
  ASSUME NEW ls \in Seq(DLine), Gapless(ls), NEW b \in 1 .. Len(ls), ~Finished(ls, b),
         NEW n \in Int, 0 < n, n < ls[b].size,
         NEW lo, lo = b \/ (lo = b - 1 /\ Finished(ls, b - 1)), lo = b => ~Finished(ls, b - 1),
         NEW top \in DLine, top.status = "FINISHED",
         top.pos = ls[lo].pos, EndOf(top) = ls[b].pos + n,
         NEW after \in DLine, after.status = ls[b].status,
         after.pos = ls[b].pos + n, EndOf(after) = EndOf(ls[b]),
         NEW ms, Spliced(ls, ms, lo, b, <<top, after>>)
  PROVE  Gapless(ms) /\ Marked(ms) = Marked(ls) \cup Chunk(ls[b].pos, n)
<1> DEFINE mid == <<top, after>>
           C == Chunk(ls[b].pos, n)
<1>1. /\ Len(ls) \in Nat /\ b \in Nat /\ b > 0 /\ b <= Len(ls)
      /\ lo \in Nat /\ lo > 0 /\ lo <= b
  BY DEF Spliced
<1>2. /\ ls[b].pos \in Int /\ ls[b].size \in Int /\ EndOf(ls[b]) = ls[b].pos + ls[b].size
      /\ ls[b].status = "NONTRIED"
  BY LineFacts DEF Finished
<1>3. lo = b - 1 =>
        /\ b - 1 \in 1 .. Len(ls) /\ b > 1 /\ ls[b - 1].pos \in Int /\ ls[b - 1].pos < ls[b].pos
        /\ \A x : Covered(ls, b - 1, x) <=> x \in Int /\ ls[b - 1].pos <= x /\ x < ls[b].pos
  <2>1. SUFFICES ASSUME lo = b - 1
                 PROVE  /\ b - 1 \in 1 .. Len(ls) /\ b > 1 /\ ls[b - 1].pos \in Int
                        /\ ls[b - 1].pos < ls[b].pos
                        /\ \A x : Covered(ls, b - 1, x) <=>
                                    x \in Int /\ ls[b - 1].pos <= x /\ x < ls[b].pos
    OBVIOUS
  <2>2. Finished(ls, b - 1) /\ b - 1 \in 1 .. Len(ls) /\ b > 1
    BY <1>1, <2>1
  <2>3. EndOf(ls[b - 1]) = ls[b].pos /\ ls[b - 1].size > 0
    BY <2>2, GaplessSides
  <2>4. /\ ls[b - 1].pos \in Int /\ ls[b - 1].size \in Int
        /\ EndOf(ls[b - 1]) = ls[b - 1].pos + ls[b - 1].size
    BY <2>2, LineFacts
  <2>5. \A x : Covered(ls, b - 1, x) <=>
               x \in Int /\ ls[b - 1].pos <= x /\ x < ls[b - 1].pos + ls[b - 1].size
    BY <2>2, CoveredFacts
  <2> QED
    BY <2>2, <2>3, <2>4, <2>5
<1>4. lo = b => b = 1
  BY <1>1, GaplessSides
<1>5. ls[lo].pos \in Int /\ ls[lo].pos <= ls[b].pos
  BY <1>2, <1>3
<1>6. /\ top.pos \in Int /\ top.size \in Int /\ EndOf(top) = top.pos + top.size
      /\ top.size > 0
  <2>1. top.pos \in Int /\ top.size \in Int /\ EndOf(top) = top.pos + top.size
    BY DEF DLine, EndOf
  <2> QED
    BY SMTT(30), <1>2, <1>5, <2>1
<1>7. after.size > 0 /\ after.status = "NONTRIED"
  <2>1. after.pos \in Int /\ after.size \in Int /\ EndOf(after) = after.pos + after.size
    BY DEF DLine, EndOf
  <2> QED
    BY SMTT(30), <1>2, <2>1
<1>8. mid \in Seq(DLine) /\ Len(mid) = 2 /\ mid[1] = top /\ mid[2] = after
  BY <1>6, <1>7, PairFacts
<1>9. Spliced(ls, ms, lo, b, mid)
  OBVIOUS
<1> HIDE DEF mid
<1>10. Gapless(ms)
  <2>1. HasSectors(mid)
    <3>1. \A k \in 1 .. Len(mid) : k = 1 \/ k = 2
      BY <1>8
    <3> QED
      BY <1>6, <1>7, <1>8, <3>1 DEF HasSectors
  <2>2. \A k \in 1 .. Len(mid) - 1 :
          EndOf(mid[k]) = mid[k + 1].pos /\ mid[k].status # mid[k + 1].status
    <3>1. \A k \in 1 .. Len(mid) - 1 : k = 1 /\ k + 1 = 2
      BY <1>8
    <3> QED
      BY <1>6, <1>7, <1>8, <3>1
  <2>3. mid[1].pos = ls[lo].pos /\ EndOf(mid[Len(mid)]) = EndOf(ls[b])
    BY <1>6, <1>7, <1>8
  <2>4. lo > 1 => ls[lo - 1].status # mid[1].status
    <3>1. SUFFICES ASSUME lo > 1 PROVE ls[lo - 1].status # mid[1].status
      OBVIOUS
    <3>2. lo = b - 1 /\ lo \in 1 .. Len(ls) /\ ls[lo].status = "FINISHED"
      BY <1>1, <1>4, <3>1 DEF Finished
    <3> QED
      BY SMTT(30), <1>6, <1>8, <3>1, <3>2, GaplessSides
  <2>5. b < Len(ls) => mid[Len(mid)].status # ls[b + 1].status
    BY <1>2, <1>7, <1>8, GaplessSides
  <2> QED
    BY <1>9, <2>1, <2>2, <2>3, <2>4, <2>5, SplicedGapless
<1>11. ASSUME NEW x
       PROVE  (\E k \in 1 .. Len(mid) : Covered(mid, k, x)) <=>
                (x \in C \/ \E k \in lo .. b : Covered(ls, k, x))
  <2>1. (\E k \in 1 .. Len(mid) : Covered(mid, k, x)) <=>
          x \in Int /\ ls[lo].pos <= x /\ x < ls[b].pos + n
    <3>1. \A k \in 1 .. Len(mid) : k = 1 \/ k = 2
      BY <1>8
    <3>2. ~Covered(mid, 2, x)
      BY <1>7, <1>8 DEF Covered
    <3>3. Covered(mid, 1, x) <=> x \in Int /\ top.pos <= x /\ x < top.pos + top.size
      BY <1>6, <1>8, ChunkFacts DEF Covered
    <3>4. top.pos + top.size = ls[b].pos + n
      BY <1>2, <1>5, <1>6
    <3>5. 1 \in 1 .. Len(mid)
      BY <1>8
    <3> QED
      BY <1>6, <3>1, <3>2, <3>3, <3>4, <3>5
  <2>2. x \in C <=> x \in Int /\ ls[b].pos <= x /\ x < ls[b].pos + n
    BY <1>2, ChunkFacts
  <2> HIDE DEF C
  <2>3. ~Covered(ls, b, x)
    BY <1>2 DEF Covered
  <2>4. (\E k \in lo .. b : Covered(ls, k, x)) <=> lo = b - 1 /\ Covered(ls, b - 1, x)
    <3>1. \A k \in lo .. b : k = b \/ (lo = b - 1 /\ k = b - 1)
      BY <1>1
    <3>2. lo = b - 1 => b - 1 \in lo .. b
      BY <1>1
    <3> QED
      BY <2>3, <3>1, <3>2
  <2>5. CASE lo = b - 1
    <3>1. Covered(ls, b - 1, x) <=> x \in Int /\ ls[lo].pos <= x /\ x < ls[b].pos
      BY <1>3, <2>5
    <3> QED
      BY SMTT(30), <1>2, <1>5, <2>1, <2>2, <2>4, <2>5, <3>1
  <2>6. CASE lo = b
    <3>1. lo # b - 1
      BY <1>1, <2>6
    <3> QED
      BY <2>1, <2>2, <2>4, <2>6, <3>1
  <2> QED
    BY <2>5, <2>6
<1>12. Marked(ms) = Marked(ls) \cup C
  <2> HIDE DEF C
  <2>1. Adds(ls, lo, b, mid, C)
    BY <1>11 DEF Adds
  <2> QED
    BY <1>9, <2>1, SplicedMarks
<1> QED
  BY <1>10, <1>12

\* The last n sectors of it, and with them the whole of a FINISHED line below.
LEMMA EndMarks ==
  ASSUME NEW ls \in Seq(DLine), Gapless(ls), NEW b \in 1 .. Len(ls), ~Finished(ls, b),
         NEW n \in Int, 0 < n, n < ls[b].size,
         NEW hi, hi = b \/ (hi = b + 1 /\ Finished(ls, b + 1)), hi = b => ~Finished(ls, b + 1),
         NEW before \in DLine, before.status = ls[b].status,
         before.pos = ls[b].pos, EndOf(before) = EndOf(ls[b]) - n,
         NEW low \in DLine, low.status = "FINISHED",
         low.pos = EndOf(ls[b]) - n, EndOf(low) = EndOf(ls[hi]),
         NEW ms, Spliced(ls, ms, b, hi, <<before, low>>)
  PROVE  Gapless(ms) /\ Marked(ms) = Marked(ls) \cup Chunk(EndOf(ls[b]) - n, n)
<1> DEFINE mid == <<before, low>>
           C == Chunk(EndOf(ls[b]) - n, n)
<1>1. /\ Len(ls) \in Nat /\ b \in Nat /\ b > 0 /\ b <= Len(ls)
      /\ hi \in Nat /\ hi >= b /\ hi <= Len(ls)
  BY DEF Spliced
<1>2. /\ ls[b].pos \in Int /\ ls[b].size \in Int /\ EndOf(ls[b]) = ls[b].pos + ls[b].size
      /\ ls[b].status = "NONTRIED" /\ EndOf(ls[b]) \in Int
  BY LineFacts DEF Finished
<1>3. hi = b + 1 =>
        /\ b + 1 \in 1 .. Len(ls) /\ b < Len(ls)
        /\ EndOf(ls[b + 1]) \in Int /\ EndOf(ls[b]) < EndOf(ls[b + 1])
        /\ \A x : Covered(ls, b + 1, x) <=> x \in Int /\ EndOf(ls[b]) <= x /\ x < EndOf(ls[b + 1])
  <2>1. SUFFICES ASSUME hi = b + 1
                 PROVE  /\ b + 1 \in 1 .. Len(ls) /\ b < Len(ls)
                        /\ EndOf(ls[b + 1]) \in Int /\ EndOf(ls[b]) < EndOf(ls[b + 1])
                        /\ \A x : Covered(ls, b + 1, x) <=>
                                    x \in Int /\ EndOf(ls[b]) <= x /\ x < EndOf(ls[b + 1])
    OBVIOUS
  <2>2. Finished(ls, b + 1) /\ b + 1 \in 1 .. Len(ls) /\ b < Len(ls)
    BY <1>1, <2>1
  <2>3. EndOf(ls[b]) = ls[b + 1].pos /\ ls[b + 1].size > 0
    BY <2>2, GaplessSides
  <2>4. /\ ls[b + 1].pos \in Int /\ ls[b + 1].size \in Int
        /\ EndOf(ls[b + 1]) = ls[b + 1].pos + ls[b + 1].size
    BY <2>2, LineFacts
  <2>5. \A x : Covered(ls, b + 1, x) <=>
               x \in Int /\ ls[b + 1].pos <= x /\ x < ls[b + 1].pos + ls[b + 1].size
    BY <2>2, CoveredFacts
  <2> QED
    BY <2>2, <2>3, <2>4, <2>5
<1>4. hi = b => b = Len(ls)
  BY <1>1, GaplessSides
<1>5. EndOf(ls[hi]) \in Int /\ EndOf(ls[b]) <= EndOf(ls[hi])
  BY <1>2, <1>3
<1>6. /\ low.pos \in Int /\ low.size \in Int /\ EndOf(low) = low.pos + low.size
      /\ low.size > 0
  <2>1. low.pos \in Int /\ low.size \in Int /\ EndOf(low) = low.pos + low.size
    BY DEF DLine, EndOf
  <2> QED
    BY SMTT(30), <1>2, <1>5, <2>1
<1>7. before.size > 0 /\ before.status = "NONTRIED"
  <2>1. before.pos \in Int /\ before.size \in Int /\ EndOf(before) = before.pos + before.size
    BY DEF DLine, EndOf
  <2> QED
    BY SMTT(30), <1>2, <2>1
<1>8. mid \in Seq(DLine) /\ Len(mid) = 2 /\ mid[1] = before /\ mid[2] = low
  BY <1>6, <1>7, PairFacts
<1>9. Spliced(ls, ms, b, hi, mid)
  OBVIOUS
<1> HIDE DEF mid
<1>10. Gapless(ms)
  <2>1. HasSectors(mid)
    <3>1. \A k \in 1 .. Len(mid) : k = 1 \/ k = 2
      BY <1>8
    <3> QED
      BY <1>6, <1>7, <1>8, <3>1 DEF HasSectors
  <2>2. \A k \in 1 .. Len(mid) - 1 :
          EndOf(mid[k]) = mid[k + 1].pos /\ mid[k].status # mid[k + 1].status
    <3>1. \A k \in 1 .. Len(mid) - 1 : k = 1 /\ k + 1 = 2
      BY <1>8
    <3> QED
      BY <1>6, <1>7, <1>8, <3>1
  <2>3. mid[1].pos = ls[b].pos /\ EndOf(mid[Len(mid)]) = EndOf(ls[hi])
    BY <1>6, <1>7, <1>8
  <2>4. b > 1 => ls[b - 1].status # mid[1].status
    BY SMTT(30), <1>2, <1>7, <1>8, GaplessSides
  <2>5. hi < Len(ls) => mid[Len(mid)].status # ls[hi + 1].status
    <3>1. SUFFICES ASSUME hi < Len(ls) PROVE mid[Len(mid)].status # ls[hi + 1].status
      OBVIOUS
    <3>2. hi = b + 1 /\ hi \in 1 .. Len(ls) /\ ls[hi].status = "FINISHED"
      BY <1>1, <1>4, <3>1 DEF Finished
    <3>3. ls[hi].status # ls[hi + 1].status
      BY <3>1, <3>2, GaplessSides
    <3> QED
      BY <1>8, <3>2, <3>3
  <2> QED
    BY <1>9, <2>1, <2>2, <2>3, <2>4, <2>5, SplicedGapless
<1>11. ASSUME NEW x
       PROVE  (\E k \in 1 .. Len(mid) : Covered(mid, k, x)) <=>
                (x \in C \/ \E k \in b .. hi : Covered(ls, k, x))
  <2>1. (\E k \in 1 .. Len(mid) : Covered(mid, k, x)) <=>
          x \in Int /\ EndOf(ls[b]) - n <= x /\ x < EndOf(ls[hi])
    <3>1. \A k \in 1 .. Len(mid) : k = 1 \/ k = 2
      BY <1>8
    <3>2. ~Covered(mid, 1, x)
      BY <1>7, <1>8 DEF Covered
    <3>3. Covered(mid, 2, x) <=> x \in Int /\ low.pos <= x /\ x < low.pos + low.size
      BY <1>6, <1>8, ChunkFacts DEF Covered
    <3>4. low.pos + low.size = EndOf(ls[hi])
      BY <1>2, <1>5, <1>6
    <3>5. 2 \in 1 .. Len(mid)
      BY <1>8
    <3> QED
      BY <1>6, <3>1, <3>2, <3>3, <3>4, <3>5
  <2>2. x \in C <=> x \in Int /\ EndOf(ls[b]) - n <= x /\ x < EndOf(ls[b])
    <3>1. EndOf(ls[b]) - n \in Int /\ (EndOf(ls[b]) - n) + n = EndOf(ls[b])
      BY <1>2
    <3>2. x \in C <=> x \in Int /\ EndOf(ls[b]) - n <= x /\ x < (EndOf(ls[b]) - n) + n
      BY <3>1, ChunkFacts
    <3> QED
      BY <3>1, <3>2
  <2> HIDE DEF C
  <2>3. ~Covered(ls, b, x)
    BY <1>2 DEF Covered
  <2>4. (\E k \in b .. hi : Covered(ls, k, x)) <=> hi = b + 1 /\ Covered(ls, b + 1, x)
    <3>1. \A k \in b .. hi : k = b \/ (hi = b + 1 /\ k = b + 1)
      BY <1>1
    <3>2. hi = b + 1 => b + 1 \in b .. hi
      BY <1>1
    <3> QED
      BY <2>3, <3>1, <3>2
  <2>5. CASE hi = b + 1
    <3>1. Covered(ls, b + 1, x) <=> x \in Int /\ EndOf(ls[b]) <= x /\ x < EndOf(ls[hi])
      BY <1>3, <2>5
    <3> QED
      BY <1>2, <1>5, <2>1, <2>2, <2>4, <2>5, <3>1
  <2>6. CASE hi = b
    <3>1. hi # b + 1
      BY <1>1, <2>6
    <3> QED
      BY <2>1, <2>2, <2>4, <2>6, <3>1
  <2> QED
    BY <2>5, <2>6
<1>12. Marked(ms) = Marked(ls) \cup C
  <2> HIDE DEF C
  <2>1. Adds(ls, b, hi, mid, C)
    BY <1>11 DEF Adds
  <2> QED
    BY <1>9, <2>1, SplicedMarks
<1> QED
  BY <1>10, <1>12

LEMMA StartOfLineMarks ==
  ASSUME NEW ls \in Seq(DLine), Gapless(ls), NEW b \in 1 .. Len(ls), ~Finished(ls, b),
         NEW n \in Int, 0 < n, n < ls[b].size
  PROVE  /\ Gapless(StartOfLine(ls, b, n))
         /\ Marked(StartOfLine(ls, b, n)) = Marked(ls) \cup Chunk(ls[b].pos, n)
<1>1. PICK after : after = Block(ls[b].pos + n, ls[b].size - n, ls[b].status)
  OBVIOUS
<1>2. /\ ls[b].pos \in Int /\ ls[b].size \in Int /\ EndOf(ls[b]) = ls[b].pos + ls[b].size
      /\ ls[b].status \in {"NONTRIED", "FINISHED"}
  BY LineFacts
<1>3. /\ after \in DLine /\ after.status = ls[b].status
      /\ after.pos = ls[b].pos + n /\ EndOf(after) = EndOf(ls[b])
  <2>1. ls[b].pos + n \in Int /\ ls[b].size - n \in Int
    BY <1>2
  <2>2. /\ after \in DLine /\ after.status = ls[b].status
        /\ after.pos = ls[b].pos + n /\ EndOf(after) = (ls[b].pos + n) + (ls[b].size - n)
    BY <1>1, <1>2, <2>1 DEF Block, DLine, EndOf
  <2> QED
    BY <1>2, <2>2
<1>4. CASE Finished(ls, b - 1)
  <2>1. PICK top : top = Block(ls[b - 1].pos, ls[b - 1].size + n, "FINISHED")
    OBVIOUS
  <2>2. Spliced(ls, StartOfLine(ls, b, n), b - 1, b, <<top, after>>)
    BY <1>1, <1>4, <2>1, StartOfLineSplices
  <2>3. b - 1 \in 1 .. Len(ls) /\ b > 1
    BY <1>4 DEF Finished
  <2>4. EndOf(ls[b - 1]) = ls[b].pos
    BY <2>3, GaplessSides
  <2>5. /\ ls[b - 1].pos \in Int /\ ls[b - 1].size \in Int
        /\ EndOf(ls[b - 1]) = ls[b - 1].pos + ls[b - 1].size
    BY <2>3, LineFacts
  <2>6. /\ top \in DLine /\ top.status = "FINISHED" /\ top.pos = ls[b - 1].pos
        /\ EndOf(top) = ls[b - 1].pos + (ls[b - 1].size + n)
    <3>1. ls[b - 1].size + n \in Int
      BY <2>5
    <3> QED
      BY <2>1, <2>5, <3>1 DEF Block, DLine, EndOf
  <2>7. EndOf(top) = ls[b].pos + n
    BY <2>4, <2>5, <2>6
  <2>8. PICK lo : lo = b - 1
    OBVIOUS
  <2>9. lo # b
    BY <2>3, <2>8
  <2> QED
    BY SMTT(30), <1>3, <1>4, <2>2, <2>6, <2>7, <2>8, <2>9, StartMarks
<1>5. CASE ~Finished(ls, b - 1)
  <2>1. PICK top : top = Block(ls[b].pos, n, "FINISHED")
    OBVIOUS
  <2>2. Spliced(ls, StartOfLine(ls, b, n), b, b, <<top, after>>)
    BY <1>1, <1>5, <2>1, StartOfLineSplices
  <2>3. /\ top \in DLine /\ top.status = "FINISHED" /\ top.pos = ls[b].pos
        /\ EndOf(top) = ls[b].pos + n
    BY <1>2, <2>1 DEF Block, DLine, EndOf
  <2> QED
    BY SMTT(30), <1>3, <1>5, <2>2, <2>3, StartMarks
<1> QED
  BY <1>4, <1>5

LEMMA EndOfLineMarks ==
  ASSUME NEW ls \in Seq(DLine), Gapless(ls), NEW b \in 1 .. Len(ls), ~Finished(ls, b),
         NEW n \in Int, 0 < n, n < ls[b].size
  PROVE  /\ Gapless(EndOfLine(ls, b, n))
         /\ Marked(EndOfLine(ls, b, n)) = Marked(ls) \cup Chunk(EndOf(ls[b]) - n, n)
<1>1. PICK before : before = Block(ls[b].pos, ls[b].size - n, ls[b].status)
  OBVIOUS
<1>2. /\ ls[b].pos \in Int /\ ls[b].size \in Int /\ EndOf(ls[b]) = ls[b].pos + ls[b].size
      /\ ls[b].status \in {"NONTRIED", "FINISHED"} /\ EndOf(ls[b]) - n \in Int
  BY LineFacts
<1>3. /\ before \in DLine /\ before.status = ls[b].status
      /\ before.pos = ls[b].pos /\ EndOf(before) = EndOf(ls[b]) - n
  <2>1. ls[b].size - n \in Int
    BY <1>2
  <2>2. /\ before \in DLine /\ before.status = ls[b].status
        /\ before.pos = ls[b].pos /\ EndOf(before) = ls[b].pos + (ls[b].size - n)
    BY <1>1, <1>2, <2>1 DEF Block, DLine, EndOf
  <2> QED
    BY <1>2, <2>2
<1>4. CASE Finished(ls, b + 1)
  <2>1. PICK low : low = Block(ls[b + 1].pos - n, ls[b + 1].size + n, "FINISHED")
    OBVIOUS
  <2>2. Spliced(ls, EndOfLine(ls, b, n), b, b + 1, <<before, low>>)
    BY <1>1, <1>4, <2>1, EndOfLineSplices
  <2>3. b + 1 \in 1 .. Len(ls) /\ b < Len(ls)
    BY <1>4 DEF Finished
  <2>4. EndOf(ls[b]) = ls[b + 1].pos
    BY <2>3, GaplessSides
  <2>5. /\ ls[b + 1].pos \in Int /\ ls[b + 1].size \in Int
        /\ EndOf(ls[b + 1]) = ls[b + 1].pos + ls[b + 1].size
    BY <2>3, LineFacts
  <2>6. /\ low \in DLine /\ low.status = "FINISHED" /\ low.pos = ls[b + 1].pos - n
        /\ EndOf(low) = (ls[b + 1].pos - n) + (ls[b + 1].size + n)
    <3>1. ls[b + 1].pos - n \in Int /\ ls[b + 1].size + n \in Int
      BY <2>5
    <3> QED
      BY <2>1, <3>1 DEF Block, DLine, EndOf
  <2>7. low.pos = EndOf(ls[b]) - n /\ EndOf(low) = EndOf(ls[b + 1])
    BY <2>4, <2>5, <2>6
  <2>8. PICK hi : hi = b + 1
    OBVIOUS
  <2>9. hi # b
    BY <2>3, <2>8
  <2> QED
    BY SMTT(30), <1>3, <1>4, <2>2, <2>6, <2>7, <2>8, <2>9, EndMarks
<1>5. CASE ~Finished(ls, b + 1)
  <2>1. PICK low : low = Block(EndOf(ls[b]) - n, n, "FINISHED")
    OBVIOUS
  <2>2. Spliced(ls, EndOfLine(ls, b, n), b, b, <<before, low>>)
    BY <1>1, <1>5, <2>1, EndOfLineSplices
  <2>3. /\ low \in DLine /\ low.status = "FINISHED" /\ low.pos = EndOf(ls[b]) - n
        /\ EndOf(low) = (EndOf(ls[b]) - n) + n
    BY <1>2, <2>1 DEF Block, DLine, EndOf
  <2>4. EndOf(low) = EndOf(ls[b])
    BY <1>2, <2>3
  <2> QED
    BY <1>3, <1>5, <2>2, <2>3, <2>4, EndMarks
<1> QED
  BY <1>4, <1>5

LEMMA InsideLineMarks ==
  ASSUME NEW ls \in Seq(DLine), Gapless(ls), NEW b \in 1 .. Len(ls), ~Finished(ls, b),
         NEW p \in Int, NEW n \in Int, 0 < n, ls[b].pos < p, p + n < EndOf(ls[b])
  PROVE  /\ Gapless(InsideLine(ls, b, p, n))
         /\ Marked(InsideLine(ls, b, p, n)) = Marked(ls) \cup Chunk(p, n)
<1>0. /\ ls[b].pos \in Int /\ ls[b].size \in Int /\ EndOf(ls[b]) = ls[b].pos + ls[b].size
      /\ ls[b].status = "NONTRIED" /\ EndOf(ls[b]) \in Int
  BY LineFacts DEF Finished
<1>1. PICK before : before = Block(ls[b].pos, p - ls[b].pos, ls[b].status)
  OBVIOUS
<1>2. PICK own : own = Block(p, n, "FINISHED")
  OBVIOUS
<1>3. PICK after : after = Block(p + n, EndOf(ls[b]) - (p + n), ls[b].status)
  OBVIOUS
<1>4. PICK ms : ms = InsideLine(ls, b, p, n)
  OBVIOUS
<1>5. /\ before \in DLine /\ before.status = "NONTRIED" /\ before.size > 0
      /\ before.pos = ls[b].pos /\ EndOf(before) = p
  <2>1. p - ls[b].pos \in Int /\ p - ls[b].pos > 0 /\ ls[b].pos + (p - ls[b].pos) = p
    BY <1>0
  <2>2. /\ before \in DLine /\ before.status = "NONTRIED" /\ before.size = p - ls[b].pos
        /\ before.pos = ls[b].pos /\ EndOf(before) = ls[b].pos + (p - ls[b].pos)
    BY <1>0, <1>1, <2>1 DEF Block, DLine, EndOf
  <2> QED
    BY <2>1, <2>2
<1>6. /\ own \in DLine /\ own.status = "FINISHED" /\ own.size = n /\ own.size > 0
      /\ own.pos = p /\ EndOf(own) = p + n
  BY <1>2 DEF Block, DLine, EndOf
<1>7. /\ after \in DLine /\ after.status = "NONTRIED" /\ after.size > 0
      /\ after.pos = p + n /\ EndOf(after) = EndOf(ls[b])
  <2> DEFINE m == EndOf(ls[b]) - (p + n)
  <2>1. m \in Int /\ m > 0 /\ (p + n) + m = EndOf(ls[b]) /\ p + n \in Int
    BY SMTT(30), <1>0
  <2>2. /\ after \in DLine /\ after.status = "NONTRIED" /\ after.size = m
        /\ after.pos = p + n /\ EndOf(after) = (p + n) + m
    <3> HIDE DEF m
    <3>1. after = Block(p + n, m, ls[b].status)
      BY <1>3 DEF m
    <3> QED
      BY <1>0, <2>1, <3>1 DEF Block, DLine, EndOf
  <2> QED
    BY <2>1, <2>2
<1>8. Spliced(ls, ms, b, b, <<before, own, after>>)
  BY <1>1, <1>2, <1>3, <1>4, InsideLineSplices
<1> DEFINE mid == <<before, own, after>>
<1>9. mid \in Seq(DLine) /\ Len(mid) = 3 /\ mid[1] = before /\ mid[2] = own /\ mid[3] = after
  BY <1>5, <1>6, <1>7, TripleFacts
<1>10. Spliced(ls, ms, b, b, mid)
  BY <1>8
<1> HIDE DEF mid
<1>11. \A k \in 1 .. Len(mid) : k = 1 \/ k = 2 \/ k = 3
  BY <1>9
<1>12. Gapless(ms)
  <2>1. HasSectors(mid)
    BY <1>5, <1>6, <1>7, <1>9, <1>11 DEF HasSectors
  <2>2. \A k \in 1 .. Len(mid) - 1 :
          EndOf(mid[k]) = mid[k + 1].pos /\ mid[k].status # mid[k + 1].status
    <3>1. \A k \in 1 .. Len(mid) - 1 : (k = 1 /\ k + 1 = 2) \/ (k = 2 /\ k + 1 = 3)
      BY <1>9
    <3>2. /\ EndOf(before) = own.pos /\ before.status # own.status
          /\ EndOf(own) = after.pos /\ own.status # after.status
      BY <1>5, <1>6, <1>7
    <3> QED
      BY <1>9, <3>1, <3>2
  <2>3. mid[1].pos = ls[b].pos /\ EndOf(mid[Len(mid)]) = EndOf(ls[b])
    BY <1>5, <1>7, <1>9
  <2>4. b > 1 => ls[b - 1].status # mid[1].status
    BY <1>0, <1>5, <1>9, GaplessSides
  <2>5. b < Len(ls) => mid[Len(mid)].status # ls[b + 1].status
    BY <1>0, <1>7, <1>9, GaplessSides
  <2> QED
    BY <1>10, <2>1, <2>2, <2>3, <2>4, <2>5, SplicedGapless
<1>13. Adds(ls, b, b, mid, Chunk(p, n))
  <2>1. ASSUME NEW x
        PROVE  (\E k \in 1 .. Len(mid) : Covered(mid, k, x)) <=>
                 (x \in Chunk(p, n) \/ \E k \in b .. b : Covered(ls, k, x))
    <3>1. ~Covered(mid, 1, x) /\ ~Covered(mid, 3, x)
      BY <1>5, <1>7, <1>9 DEF Covered
    <3>2. Covered(mid, 2, x) <=> x \in Chunk(p, n)
      BY <1>6, <1>9 DEF Covered
    <3>3. 2 \in 1 .. Len(mid)
      BY <1>9
    <3>4. \A k \in b .. b : k = b
      OBVIOUS
    <3>5. ~Covered(ls, b, x)
      BY <1>0 DEF Covered
    <3> QED
      BY <1>11, <3>1, <3>2, <3>3, <3>4, <3>5
  <2> QED
    BY <2>1 DEF Adds
<1>14. Marked(ms) = Marked(ls) \cup Chunk(p, n)
  BY <1>10, <1>13, SplicedMarks
<1> QED
  BY <1>4, <1>12, <1>14

LEMMA MarkInIsList ==
  ASSUME NEW ls \in Seq(DLine), NEW b \in 1 .. Len(ls), NEW p \in Int, NEW n \in Int
  PROVE  MarkIn(ls, b, p, n) \in Seq(DLine) /\ WholeLine(ls, b) \in Seq(DLine)
<1>1. WholeLine(ls, b) \in Seq(DLine)
  BY WholeLineSplices DEF Spliced
<1>2. StartOfLine(ls, b, n) \in Seq(DLine)
  BY StartOfLineSplices DEF Spliced
<1>3. EndOfLine(ls, b, n) \in Seq(DLine)
  BY EndOfLineSplices DEF Spliced
<1>4. InsideLine(ls, b, p, n) \in Seq(DLine)
  BY InsideLineSplices DEF Spliced
<1> QED
  BY <1>1, <1>2, <1>3, <1>4 DEF MarkIn

LEMMA MarkInMarks ==
  ASSUME NEW ls \in Seq(DLine), Gapless(ls), NEW b \in 1 .. Len(ls), ~Finished(ls, b),
         NEW p \in Int, NEW n \in Int, 0 < n, ls[b].pos <= p, p + n <= EndOf(ls[b])
  PROVE  /\ Gapless(MarkIn(ls, b, p, n))
         /\ Marked(MarkIn(ls, b, p, n)) = Marked(ls) \cup Chunk(p, n)
<1>0. ls[b].pos \in Int /\ ls[b].size \in Int /\ EndOf(ls[b]) = ls[b].pos + ls[b].size
  BY LineFacts
<1>1. CASE p = ls[b].pos /\ n = ls[b].size
  BY <1>1, WholeLineMarks DEF MarkIn
<1>2. CASE p = ls[b].pos /\ n # ls[b].size
  <2>1. n < ls[b].size
    BY <1>0, <1>2
  <2>2. MarkIn(ls, b, p, n) = StartOfLine(ls, b, n)
    BY <1>2 DEF MarkIn
  <2> QED
    BY <1>2, <2>1, <2>2, StartOfLineMarks
<1>3. CASE p # ls[b].pos /\ p + n = EndOf(ls[b])
  <2>1. n < ls[b].size /\ EndOf(ls[b]) - n = p
    BY <1>0, <1>3
  <2>2. MarkIn(ls, b, p, n) = EndOfLine(ls, b, n)
    BY <1>3 DEF MarkIn
  <2>3. Gapless(EndOfLine(ls, b, n)) /\ Marked(EndOfLine(ls, b, n)) = Marked(ls) \cup Chunk(EndOf(ls[b]) - n, n)
    BY <2>1, EndOfLineMarks
  <2> QED
    BY <2>1, <2>2, <2>3
<1>4. CASE p # ls[b].pos /\ p + n # EndOf(ls[b])
  <2>1. ls[b].pos < p /\ p + n < EndOf(ls[b])
    BY <1>0, <1>4
  <2>2. MarkIn(ls, b, p, n) = InsideLine(ls, b, p, n)
    BY <1>4 DEF MarkIn
  <2> QED
    BY <2>1, <2>2, InsideLineMarks
<1> QED
  BY <1>1, <1>2, <1>3, <1>4

-----------------------------------------------------------------------------
(* The steps.                                                              *)

LEMMA FinishedIsMarked ==
  ASSUME NEW ls, NEW b \in 1 .. Len(ls), Finished(ls, b)
  PROVE  Chunk(ls[b].pos, ls[b].size) \subseteq Marked(ls)
BY MarkedFacts DEF Finished

LEMMA ChunkSplits ==
  ASSUME NEW p \in Int, NEW n \in Int, NEW m \in Int, 0 <= m, m <= n,
         NEW q \in Int, q = p + m, NEW k \in Int, k = n - m
  PROVE  Chunk(p, n) = Chunk(p, m) \cup Chunk(q, k)
BY DEF Chunk

LEMMA ChunkInside ==
  ASSUME NEW p \in Int, NEW n \in Int, NEW q \in Int, NEW m \in Int, p <= q, q + m <= p + n
  PROVE  Chunk(q, m) \subseteq Chunk(p, n)
BY DEF Chunk

LEMMA RestFacts ==
  ASSUME TypeOK
  PROVE  /\ rest.pos \in Nat /\ rest.pos \in Sectors /\ rest.size \in Nat
         /\ rest.pos + rest.size <= Size
         /\ rest # NoRequest => rest.size > 0
         /\ rest = NoRequest => Chunk(rest.pos, rest.size) = {}
<1>1. /\ rest.pos \in Sectors /\ rest.size \in 0 .. Size /\ rest.pos + rest.size <= Size
      /\ rest # NoRequest => rest.size > 0
  BY DEF TypeOK
<1>2. rest = NoRequest => Chunk(rest.pos, rest.size) = {}
  BY DEF NoRequest, Chunk
<1> QED
  BY <1>1, <1>2 DEF Sectors

LEMMA HereFacts ==
  ASSUME TypeOK
  PROVE  /\ dlines \in Seq(DLine)
         /\ Here # 0 => /\ Here \in 1 .. Len(dlines)
                        /\ dlines[Here].pos <= rest.pos /\ rest.pos < EndOf(dlines[Here])
         /\ Gapless(dlines) => Here # 0
<1>1. dlines \in Seq(DLine) /\ rest.pos \in Int /\ rest.pos \in Sectors
  BY RestFacts DEF TypeOK
<1>2. /\ Here \in 0 .. Len(dlines)
      /\ Here # 0 => Meets(dlines[Here], rest.pos, 1)
      /\ Ordered(dlines) /\ (\E j \in 1 .. Len(dlines) : Meets(dlines[j], rest.pos, 1)) =>
           Here # 0
  BY <1>1, SearchFacts DEF Here, FindBlock
<1>3. Here # 0 => /\ Here \in 1 .. Len(dlines)
                  /\ dlines[Here].pos <= rest.pos /\ rest.pos < EndOf(dlines[Here])
  <2>1. SUFFICES ASSUME Here # 0
                 PROVE  /\ Here \in 1 .. Len(dlines)
                        /\ dlines[Here].pos <= rest.pos /\ rest.pos < EndOf(dlines[Here])
    OBVIOUS
  <2>2. Here \in 1 .. Len(dlines)
    BY <1>1, <1>2, <2>1
  <2>3. dlines[Here].pos \in Int
    BY <1>1, <2>2, LineFacts
  <2>4. dlines[Here].pos < rest.pos + 1 /\ rest.pos < EndOf(dlines[Here])
    BY <1>2, <2>1 DEF Meets
  <2> QED
    BY <1>1, <2>2, <2>3, <2>4
<1>4. Gapless(dlines) => Here # 0
  BY <1>1, <1>2, GaplessIsOrdered, GaplessCovers
<1> QED
  BY <1>1, <1>3, <1>4

LEMMA InitIInv == Init => IInv
<1> SUFFICES ASSUME Init PROVE IInv
  OBVIOUS
<1>1. /\ dlines \in Seq(DLine)
      /\ \A k \in 1 .. Len(dlines) :
           dlines[k].status = "FINISHED" => Chunk(dlines[k].pos, dlines[k].size) \subseteq Sectors
  <2>1. CASE dlines \in Loaded
    <3>1. PICK k \in 0 .. LoadedLines : dlines \in [1 .. k -> Line]
      BY <2>1 DEF Loaded
    <3>2. Line \subseteq DLine
      BY DEF Line, DLine, Sectors
    <3>3. dlines \in Seq(DLine) /\ Len(dlines) = k
      BY <3>1, <3>2
    <3>4. \A j \in 1 .. Len(dlines) : Chunk(dlines[j].pos, dlines[j].size) \subseteq Sectors
      <4>1. TAKE j \in 1 .. Len(dlines)
      <4>2. dlines[j] \in Line
        BY <3>1, <3>3
      <4> QED
        BY <4>2 DEF Line, EndOf, Chunk, Sectors
    <3> QED
      BY <3>3, <3>4
  <2>2. CASE dlines = NewDomain
    <3>1. Block(0, Size, "NONTRIED") \in DLine /\ Block(0, Size, "NONTRIED").status = "NONTRIED"
      BY DEF Block, DLine
    <3> HIDE DEF Block
    <3>2. dlines \in Seq(DLine) /\ Len(dlines) = 1 /\ dlines[1] = Block(0, Size, "NONTRIED")
      BY <2>2, <3>1 DEF NewDomain
    <3> QED
      BY <3>1, <3>2
  <2> QED
    BY <2>1, <2>2 DEF Init
<1>2. Marked(dlines) \subseteq Sectors
  BY <1>1, MarkedFacts
<1>3. rest = [pos |-> 0, size |-> 0] /\ rest = NoRequest /\ 0 \in Sectors /\ 0 \in 0 .. Size
  BY DEF Init, NoRequest, Sectors
<1>4. requests \in 0 .. MaxRequests /\ wanted = Marked(dlines) /\ exact = Gapless(dlines)
  BY DEF Init
<1>5. exact \in BOOLEAN
  BY <1>4 DEF Gapless
<1>6. TypeOK
  BY <1>1, <1>2, <1>3, <1>4, <1>5 DEF TypeOK
<1>7. RestIsOwed
  BY <1>4, <1>3, <1>6, RestFacts DEF RestIsOwed
<1>8. StaysGapless
  BY <1>4 DEF StaysGapless
<1> QED
  BY <1>6, <1>7, <1>8 DEF IInv

LEMMA RequestIInv ==
  ASSUME IInv, NEW p \in Sectors, NEW n \in 1 .. Size, Request(p, n)
  PROVE  IInv'
<1>1. TypeOK /\ StaysGapless /\ RestIsOwed
  BY DEF IInv
<1>2. /\ rest = NoRequest /\ requests < MaxRequests /\ Chunk(p, n) \subseteq Sectors
      /\ rest' = [pos |-> p, size |-> n] /\ requests' = requests + 1
      /\ wanted' = wanted \cup Chunk(p, n) /\ dlines' = dlines /\ exact' = exact
  BY DEF Request
<1>3. p + n <= Size
  <2>1. p + n - 1 \in Chunk(p, n)
    BY DEF Chunk, Sectors
  <2>2. p + n - 1 \in Sectors
    BY <1>2, <2>1
  <2> QED
    BY <2>2 DEF Sectors
<1>4. TypeOK'
  BY <1>1, <1>2, <1>3 DEF TypeOK
<1>5. StaysGapless'
  BY <1>1, <1>2 DEF StaysGapless
<1>6. RestIsOwed'
  <2>1. Chunk(rest.pos, rest.size) = {}
    BY <1>1, <1>2, RestFacts
  <2>2. rest'.pos = p /\ rest'.size = n
    BY <1>2
  <2> QED
    BY <1>1, <1>2, <2>1, <2>2 DEF RestIsOwed
<1> QED
  BY <1>4, <1>5, <1>6 DEF IInv

\* The end of a request.
LEMMA DoneFacts ==
  ASSUME TypeOK, rest' = NoRequest
  PROVE  /\ rest' \in [pos : Sectors, size : 0 .. Size] /\ rest'.pos + rest'.size <= Size
         /\ Chunk(rest'.pos, rest'.size) = {}
BY DEF NoRequest, Sectors, Chunk

\* A turn that leaves a rest.
LEMMA ProceedFacts ==
  ASSUME TypeOK, NEW m \in Int, 0 <= m, m < rest.size, Proceed(m)
  PROVE  /\ rest' \in [pos : Sectors, size : 0 .. Size] /\ rest'.pos + rest'.size <= Size
         /\ rest'.size > 0
         /\ Chunk(rest.pos, rest.size) = Chunk(rest.pos, m) \cup Chunk(rest'.pos, rest'.size)
<1>1. /\ rest.pos \in Nat /\ rest.size \in Nat /\ rest.pos + rest.size <= Size
  BY RestFacts
<1>2. rest' = [pos |-> rest.pos + m, size |-> rest.size - m]
  BY DEF Proceed
<1>3. rest'.pos = rest.pos + m /\ rest'.size = rest.size - m
  BY <1>2
<1>4. rest.pos + m \in Sectors /\ rest.size - m \in 0 .. Size /\ rest.size - m > 0
  BY <1>1 DEF Sectors
<1>5. rest' \in [pos : Sectors, size : 0 .. Size]
  BY <1>2, <1>4
<1>6. rest'.pos + rest'.size <= Size
  BY <1>1, <1>3
<1>7. Chunk(rest.pos, rest.size) = Chunk(rest.pos, m) \cup Chunk(rest'.pos, rest'.size)
  <2>1. /\ rest.pos \in Int /\ rest.size \in Int /\ m <= rest.size
        /\ rest'.pos \in Int /\ rest'.size \in Int
    BY <1>1, <1>3
  <2>2. PICK p \in Int, n \in Int, q \in Int, k \in Int :
          p = rest.pos /\ n = rest.size /\ q = rest'.pos /\ k = rest'.size
    BY <2>1
  <2>3. m <= n /\ q = p + m /\ k = n - m
    BY <1>3, <2>1, <2>2
  <2>4. Chunk(p, n) = Chunk(p, m) \cup Chunk(q, k)
    BY <2>3, ChunkSplits
  <2> QED
    BY <2>2, <2>4
<1> QED
  BY <1>3, <1>4, <1>5, <1>6, <1>7

LEMMA TurnIInv ==
  ASSUME IInv, Turn
  PROVE  IInv'
<1>1. TypeOK /\ StaysGapless /\ RestIsOwed
  BY DEF IInv
<1>2. /\ rest.pos \in Nat /\ rest.size \in Nat /\ rest.pos + rest.size <= Size
      /\ rest # NoRequest => rest.size > 0
  BY <1>1, RestFacts
<1>3. /\ dlines \in Seq(DLine)
      /\ Here # 0 => /\ Here \in 1 .. Len(dlines)
                     /\ dlines[Here].pos <= rest.pos /\ rest.pos < EndOf(dlines[Here])
      /\ exact => Gapless(dlines) /\ Here # 0
      /\ exact => wanted = Marked(dlines) \cup Chunk(rest.pos, rest.size)
  BY <1>1, HereFacts DEF StaysGapless, RestIsOwed
<1>4. Here # 0 => /\ dlines[Here].pos \in Int /\ dlines[Here].size \in Int
                  /\ EndOf(dlines[Here]) = dlines[Here].pos + dlines[Here].size
  BY <1>3, LineFacts
<1>5. exact /\ Here # 0 /\ Finished(dlines, Here) =>
        Chunk(dlines[Here].pos, dlines[Here].size) \subseteq Marked(dlines)
  BY <1>3, FinishedIsMarked
<1>6. CASE NotFound
  <2>1. /\ rest' = NoRequest /\ dlines' = dlines /\ requests' = requests
        /\ wanted' = wanted /\ exact' = exact /\ ~exact
    BY <1>3, <1>6 DEF NotFound
  <2>2. TypeOK'
    BY <1>1, <2>1, DoneFacts DEF TypeOK
  <2> QED
    BY <2>1, <2>2 DEF IInv, StaysGapless, RestIsOwed
<1>7. CASE Already
  <2>1. /\ rest' = NoRequest /\ dlines' = dlines /\ requests' = requests
        /\ wanted' = wanted /\ exact' = exact
        /\ Here # 0 /\ Fits /\ Finished(dlines, Here)
    BY <1>7 DEF Already
  <2>2. TypeOK'
    BY <1>1, <2>1, DoneFacts DEF TypeOK
  <2>3. Chunk(rest.pos, rest.size) \subseteq Chunk(dlines[Here].pos, dlines[Here].size)
    <3>1. /\ rest.pos \in Int /\ rest.size \in Int /\ dlines[Here].pos <= rest.pos
          /\ rest.pos + rest.size <= dlines[Here].pos + dlines[Here].size
      BY <1>2, <1>3, <1>4, <2>1 DEF Fits
    <3> QED
      BY <1>4, <2>1, <3>1, ChunkInside
  <2>4. exact => wanted = Marked(dlines)
    BY <1>3, <1>5, <2>1, <2>3
  <2>5. RestIsOwed'
    BY <1>1, <2>1, <2>4, DoneFacts DEF RestIsOwed
  <2> QED
    BY <1>1, <2>1, <2>2, <2>5 DEF IInv, StaysGapless
<1>8. CASE MarkRest
  <2>1. /\ rest' = NoRequest /\ dlines' = MarkIn(dlines, Here, rest.pos, rest.size)
        /\ requests' = requests /\ wanted' = wanted /\ exact' = exact
        /\ rest # NoRequest /\ Here # 0 /\ Fits /\ ~Finished(dlines, Here)
    BY <1>8 DEF MarkRest
  <2>2. dlines' \in Seq(DLine)
    BY <1>2, <1>3, <2>1, MarkInIsList
  <2>3. TypeOK'
    BY <1>1, <2>1, <2>2, DoneFacts DEF TypeOK
  <2>4. exact => /\ Gapless(dlines')
                 /\ Marked(dlines') = Marked(dlines) \cup Chunk(rest.pos, rest.size)
    BY <1>2, <1>3, <2>1, MarkInMarks DEF Fits
  <2>5. RestIsOwed'
    BY <1>1, <1>3, <2>1, <2>4, DoneFacts DEF RestIsOwed
  <2> QED
    BY <2>1, <2>3, <2>4, <2>5 DEF IInv, StaysGapless
<1>9. CASE MarkLine
  <2>1. /\ dlines' = WholeLine(dlines, Here) /\ Proceed(dlines[Here].size)
        /\ requests' = requests /\ wanted' = wanted /\ exact' = exact
        /\ rest # NoRequest /\ Here # 0 /\ ~Fits /\ rest.pos = dlines[Here].pos
    BY <1>9 DEF MarkLine
  <2>2. dlines' \in Seq(DLine)
    BY <1>2, <1>3, <2>1, MarkInIsList
  <2>3. /\ dlines[Here].size \in Int /\ 0 <= dlines[Here].size /\ dlines[Here].size < rest.size
    BY <1>2, <1>3, <1>4, <2>1 DEF Fits
  <2>4. /\ rest' \in [pos : Sectors, size : 0 .. Size] /\ rest'.pos + rest'.size <= Size
        /\ rest'.size > 0
        /\ Chunk(rest.pos, rest.size) =
             Chunk(rest.pos, dlines[Here].size) \cup Chunk(rest'.pos, rest'.size)
    BY <1>1, <2>1, <2>3, ProceedFacts
  <2>5. TypeOK'
    BY <1>1, <2>1, <2>2, <2>4 DEF TypeOK
  <2>6. exact => /\ Gapless(dlines')
                 /\ Marked(dlines') = Marked(dlines) \cup Chunk(rest.pos, dlines[Here].size)
    BY <1>3, <2>1, WholeLineMarks
  <2>7. RestIsOwed'
    BY <1>3, <2>1, <2>4, <2>6 DEF RestIsOwed
  <2> QED
    BY <2>1, <2>5, <2>6, <2>7 DEF IInv, StaysGapless
<1>10. CASE PassLine
  <2> DEFINE m == EndOf(dlines[Here]) - rest.pos
  <2>1. /\ dlines' = IF Finished(dlines, Here + 1)
                     THEN [dlines EXCEPT ![Here + 1] = GrowUp(@, @.pos - rest.pos)]
                     ELSE dlines
        /\ Proceed(m)
        /\ exact' = (exact /\ Finished(dlines, Here) /\ dlines' = dlines)
        /\ requests' = requests /\ wanted' = wanted
        /\ Here # 0 /\ ~Fits
    BY <1>10 DEF PassLine
  <2>2. dlines' \in Seq(DLine)
    <3>1. CASE Finished(dlines, Here + 1)
      <4>1. Here + 1 \in 1 .. Len(dlines)
        BY <3>1 DEF Finished
      <4>2. dlines[Here + 1] \in DLine /\ dlines[Here + 1].pos - rest.pos \in Int
        BY <1>2, <1>3, <4>1, LineFacts
      <4>3. PICK l : l = GrowUp(dlines[Here + 1], dlines[Here + 1].pos - rest.pos)
        OBVIOUS
      <4>4. l \in DLine
        BY <4>2, <4>3, GrownFacts
      <4>5. dlines' = [dlines EXCEPT ![Here + 1] = l]
        BY <2>1, <3>1, <4>3
      <4> QED
        BY <1>3, <4>1, <4>4, <4>5, ExceptFacts
    <3> QED
      BY <1>3, <2>1, <3>1
  <2>3. m \in Int /\ 0 <= m /\ m < rest.size
    BY SMTT(30), <1>2, <1>3, <1>4, <2>1 DEF Fits
  <2> HIDE DEF m
  <2>4. /\ rest' \in [pos : Sectors, size : 0 .. Size] /\ rest'.pos + rest'.size <= Size
        /\ rest'.size > 0
        /\ Chunk(rest.pos, rest.size) = Chunk(rest.pos, m) \cup Chunk(rest'.pos, rest'.size)
    BY <1>1, <2>1, <2>3, ProceedFacts
  <2>5. exact' \in BOOLEAN
    BY <2>1
  <2>6. TypeOK'
    BY <1>1, <2>1, <2>2, <2>4, <2>5 DEF TypeOK
  <2>7. exact' => exact /\ Finished(dlines, Here) /\ dlines' = dlines
    BY <2>1
  <2>8. Chunk(rest.pos, m) \subseteq Chunk(dlines[Here].pos, dlines[Here].size)
    <3>1. /\ rest.pos \in Int /\ dlines[Here].pos <= rest.pos
          /\ rest.pos + m <= dlines[Here].pos + dlines[Here].size
      BY <1>2, <1>3, <1>4, <2>1 DEF m
    <3> QED
      BY <1>4, <2>1, <2>3, <3>1, ChunkInside
  <2>9. RestIsOwed'
    BY <1>3, <1>5, <2>1, <2>4, <2>7, <2>8 DEF RestIsOwed
  <2>10. StaysGapless'
    BY <1>3, <2>7 DEF StaysGapless
  <2> QED
    BY <2>6, <2>9, <2>10 DEF IInv
<1> QED
  BY <1>6, <1>7, <1>8, <1>9, <1>10 DEF Turn

LEMMA NextIInv == IInv /\ [Next]_vars => IInv'
<1>1. ASSUME IInv, UNCHANGED vars
      PROVE  IInv'
  BY <1>1 DEF vars, IInv, TypeOK, StaysGapless, RestIsOwed
<1> QED
  BY <1>1, RequestIInv, TurnIInv DEF Next

LEMMA Inductive == Spec => []IInv
BY InitIInv, NextIInv, PTL DEF Spec

-----------------------------------------------------------------------------
(* The list is one of lines, whatever it was to begin with and however its *)
(* lines overlap; the rest of a request lies in the source and is not empty *)
(* before the loop of add_to_domain_ccc ends.                              *)
THEOREM TypeCorrect == Spec => []TypeOK
<1>1. IInv => TypeOK
  BY DEF IInv
<1> QED
  BY <1>1, Inductive, PTL

(* Splitting, growing and joining lines, add_to_domain_ccc keeps the list   *)
(* one that covers the source without gaps and takes turns in status.      *)
THEOREM ListStaysGapless == Spec => []StaysGapless
<1>1. IInv => StaysGapless
  BY DEF IInv
<1> QED
  BY <1>1, Inductive, PTL

(* And in such a list just the sectors that were asked for are FINISHED     *)
(* once add_to_domain_ccc is done with a request.                          *)
THEOREM RequestsAreMarked == Spec => []MarksAreRequests
<1>1. IInv => MarksAreRequests
  <2>1. SUFFICES ASSUME IInv, exact, rest = NoRequest
                 PROVE  Marked(dlines) = wanted
    BY DEF MarksAreRequests
  <2>2. Chunk(rest.pos, rest.size) = {}
    BY <2>1, RestFacts DEF IInv
  <2> QED
    BY <2>1, <2>2 DEF IInv, RestIsOwed
<1> QED
  BY <1>1, Inductive, PTL

(* In every ordered list, gapless or not, the piece of a chunk that         *)
(* process_domain_ccc hands to a pass is of the domain, and it is empty     *)
(* only if no sector of the chunk is.                                      *)
THEOREM PiecesAreRight == Spec => []PiecesAreOfTheDomain
<1>1. TypeOK => PiecesAreOfTheDomain
  <2>1. SUFFICES ASSUME TypeOK, Ordered(dlines),
                        NEW p \in Sectors, NEW n \in 1 .. Size, NEW forward \in BOOLEAN
                 PROVE  LET piece == Piece(dlines, p, n, forward)
                            asked == Chunk(p, n) \cap Marked(dlines)
                        IN piece \subseteq asked /\ (piece = {} => asked = {})
    BY DEF PiecesAreOfTheDomain
  <2>2. dlines \in Seq(DLine) /\ p \in Int /\ n \in Int /\ n > 0
    BY <2>1 DEF TypeOK, Sectors
  <2> QED
    BY <2>1, <2>2, PieceFacts
<1> QED
  BY <1>1, TypeCorrect, PTL

=============================================================================
