------------------------- MODULE DriverQueueProofs -------------------------
(***************************************************************************)
(* Proofs about DriverQueue: for any number of callers, any limit and any  *)
(* range of tickets that has one for each caller, the tickets let one      *)
(* caller at a time work until one is turned away, and turns and tickets   *)
(* are level again whenever nobody is in the module.                       *)
(***************************************************************************)
EXTENDS DriverQueue, FiniteSetTheorems, TLAPS

Places == {"idle", "issue", "joined", "wait", "work", "turn", "turned", "left"}

(* What a caller has read is a value the counter can have.                 *)
Registers ==
  /\ reg \in [Callers -> Nat]
  /\ \A c \in Callers : pc[c] \in {"issue", "turned"} => reg[c] <= MaxTicket
  /\ \A c \in Callers : pc[c] = "issue" => ticket[c] = reg[c]

(* The callers whose ticket is issued and not passed on, and those that are *)
(* counted in.                                                             *)
Holding == {"joined", "wait", "work", "turn", "turned"}
Inside == {"wait", "work", "turn", "turned", "left"}
At(places) == {c \in Callers : pc[c] \in places}
Issued == Cardinality(At(Holding))

(* As long as no two updates met, queue_count counts, and request_queue is *)
(* ahead of working_queue by the tickets that are out, round the wrap.     *)
Counts ==
  /\ queue_count = Cardinality(At(Inside))
  /\ request_queue - working_queue \in {Issued, Issued - (MaxTicket + 1)}

(* How many turns there are before that of a ticket.                       *)
Distance(t) ==
  IF t >= working_queue THEN t - working_queue ELSE t - working_queue + MaxTicket + 1

(* As long as nobody passed on a turn that was not its own: tickets that    *)
(* wait are different and their turn comes before the next new ticket's;    *)
(* one caller has the turn, and then it is no waiting ticket's turn.        *)
Waiting(c) == pc[c] \in {"joined", "wait"}
Serving(c) == pc[c] \in {"work", "turned"}
InTurn ==
  /\ \A c \in Callers : pc[c] # "turn"
  /\ \A c \in Callers : Waiting(c) => Distance(ticket[c]) < Issued
  /\ \A c, d \in Callers : Waiting(c) /\ Waiting(d) /\ c # d => ticket[c] # ticket[d]
  /\ \A c, d \in Callers : Serving(c) /\ Serving(d) => c = d
  /\ \A c, d \in Callers : Serving(c) /\ Waiting(d) => ticket[d] # working_queue

IInv ==
  /\ TypeOK /\ Registers
  /\ muddled => displaced
  /\ ~muddled => Counts
  /\ ~displaced => InTurn

USE DriverQueueAssumption

-----------------------------------------------------------------------------
(* Counting callers.                                                       *)

LEMMA Counted ==
  ASSUME NEW P
  PROVE  /\ IsFiniteSet(At(P)) /\ Cardinality(At(P)) \in Nat
         /\ Cardinality(At(P)) <= MaxTicket + 1
         /\ \A c \in Callers : pc[c] \notin P => Cardinality(At(P)) <= MaxTicket
         /\ \A c \in Callers : pc[c] \in P => Cardinality(At(P)) > 0
<1>1. IsFiniteSet(Callers) /\ Cardinality(Callers) <= MaxTicket + 1 /\ Cardinality(Callers) \in Nat
  BY FS_CardinalityType
<1>2. At(P) \in SUBSET Callers
  BY DEF At
<1>3. /\ IsFiniteSet(At(P)) /\ Cardinality(At(P)) \in Nat
      /\ Cardinality(At(P)) <= Cardinality(Callers)
      /\ Cardinality(Callers) = Cardinality(At(P)) => Callers = At(P)
  BY <1>1, <1>2, FS_Subset, FS_CardinalityType
<1>4. ASSUME NEW c \in Callers, pc[c] \notin P
      PROVE  Cardinality(At(P)) <= MaxTicket
  <2>1. Callers # At(P)
    BY <1>4 DEF At
  <2> QED
    BY <1>1, <1>3, <2>1
<1>5. ASSUME NEW c \in Callers, pc[c] \in P
      PROVE  Cardinality(At(P)) > 0
  <2>1. At(P) # {}
    BY <1>5 DEF At
  <2>2. Cardinality(At(P)) # 0
    BY <1>3, <2>1, FS_EmptySet
  <2> QED
    BY <1>3, <2>2
<1> QED
  BY <1>1, <1>3, <1>4, <1>5

(* What one caller's move does to such a count.                            *)
LEMMA MoveCounts ==
  ASSUME TypeOK, NEW c \in Callers, NEW to, pc' = [pc EXCEPT ![c] = to],
         NEW CONSTANT P
  PROVE  /\ pc[c] \notin P /\ to \in P => Cardinality(At(P)') = Cardinality(At(P)) + 1
         /\ pc[c] \in P /\ to \notin P => Cardinality(At(P)') = Cardinality(At(P)) - 1
         /\ (pc[c] \in P <=> to \in P) => Cardinality(At(P)') = Cardinality(At(P))
<1>1. pc \in [Callers -> Places]
  BY DEF TypeOK, Places
<1>2. IsFiniteSet(At(P)) /\ Cardinality(At(P)) \in Nat
  BY Counted
<1>3. CASE pc[c] \notin P /\ to \in P
  <2>1. At(P)' = At(P) \cup {c} /\ c \notin At(P)
    BY <1>1, <1>3 DEF At
  <2> QED
    BY <1>2, <1>3, <2>1, FS_AddElement
<1>4. CASE pc[c] \in P /\ to \notin P
  <2>1. At(P)' = At(P) \ {c} /\ c \in At(P)
    BY <1>1, <1>4 DEF At
  <2> QED
    BY ZenonT(30), <1>2, <1>4, <2>1, FS_RemoveElement
<1>5. CASE (pc[c] \in P <=> to \in P)
  <2>1. At(P)' = At(P)
    BY <1>1, <1>5 DEF At
  <2> QED
    BY <1>5, <2>1
<1> QED
  BY <1>3, <1>4, <1>5

-----------------------------------------------------------------------------
(* Types.                                                                  *)

Types == TypeOK /\ Registers

(* A caller moves and reads a counter; its ticket is 0 or one that is out.  *)
LEMMA MoveTypes ==
  ASSUME Types, NEW c \in Callers, NEW from, NEW to \in Places, NEW read \in Nat,
         Move(c, from, to, read),
         to \in {"issue", "turned"} => read <= MaxTicket,
         NEW t \in 0 .. MaxTicket, ticket' = [ticket EXCEPT ![c] = t],
         to = "issue" => t = read
  PROVE  /\ pc' \in [Callers -> Places]
         /\ ticket' \in [Callers -> 0 .. MaxTicket]
         /\ Registers'
<1>1. /\ pc \in [Callers -> Places] /\ ticket \in [Callers -> 0 .. MaxTicket]
      /\ reg \in [Callers -> Nat]
  BY DEF Types, TypeOK, Registers, Places
<1>2. /\ pc' = [pc EXCEPT ![c] = to] /\ reg' = [reg EXCEPT ![c] = read]
      /\ reg' \in [Callers -> Nat]
  BY <1>1 DEF Move
<1>3. pc' \in [Callers -> Places] /\ ticket' \in [Callers -> 0 .. MaxTicket]
  BY <1>1, <1>2
<1>4. ASSUME NEW d \in Callers
      PROVE  /\ pc'[d] \in {"issue", "turned"} => reg'[d] <= MaxTicket
             /\ pc'[d] = "issue" => ticket'[d] = reg'[d]
  <2>1. CASE d = c
    BY <1>1, <1>2, <2>1
  <2>2. CASE d # c
    <3>1. pc'[d] = pc[d] /\ reg'[d] = reg[d] /\ ticket'[d] = ticket[d]
      BY <1>1, <1>2, <2>2
    <3> QED
      BY <3>1 DEF Types, Registers
  <2> QED
    BY <2>1, <2>2
<1> QED
  BY <1>2, <1>3, <1>4 DEF Registers

LEMMA UpType ==
  ASSUME NEW n \in 0 .. MaxTicket
  PROVE  /\ Up(n) \in 0 .. MaxTicket
         /\ Up(n) = n + 1 \/ (n = MaxTicket /\ Up(n) = 0)
BY DEF Up

LEMMA WriteTypes ==
  ASSUME NEW c, NEW counter, Write(c, counter), Types
  PROVE  muddled' \in BOOLEAN /\ displaced' \in BOOLEAN
BY DEF Write, Types, TypeOK

LEMMA NextTypes == ASSUME Types, [Next]_vars PROVE Types'
<1>0. /\ working_queue \in 0 .. MaxTicket /\ request_queue \in 0 .. MaxTicket
      /\ queue_count \in Nat /\ displaced \in BOOLEAN /\ muddled \in BOOLEAN
      /\ pc \in [Callers -> Places] /\ ticket \in [Callers -> 0 .. MaxTicket]
      /\ reg \in [Callers -> Nat] /\ 0 \in 0 .. MaxTicket
  BY DEF Types, TypeOK, Registers, Places
<1>1. ASSUME NEW c \in Callers, Call(c)
      PROVE  Types'
  <2>0. /\ Move(c, "idle", "issue", request_queue) /\ request_queue \in Nat
        /\ request_queue <= MaxTicket /\ "issue" \in Places
        /\ ticket' = [ticket EXCEPT ![c] = request_queue]
    BY <1>0, <1>1 DEF Call, Places
  <2>1. pc' \in [Callers -> Places] /\ ticket' \in [Callers -> 0 .. MaxTicket] /\ Registers'
    BY <1>0, <2>0, MoveTypes
  <2> QED
    BY <1>0, <1>1, <2>1 DEF Call, counters, Types, TypeOK, Places
<1>2. ASSUME NEW c \in Callers, IssueTicket(c)
      PROVE  Types'
  <2>1. pc[c] = "issue" /\ reg[c] \in 0 .. MaxTicket /\ Up(reg[c]) \in 0 .. MaxTicket
    BY <1>0, <1>2, UpType DEF IssueTicket, Move, Types, Registers
  <2>2. ticket' = [ticket EXCEPT ![c] = ticket[c]] /\ ticket[c] \in 0 .. MaxTicket
    BY <1>0, <1>2 DEF IssueTicket
  <2>3. pc' \in [Callers -> Places] /\ ticket' \in [Callers -> 0 .. MaxTicket] /\ Registers'
    BY <1>0, <1>2, <2>2, MoveTypes DEF IssueTicket, Places
  <2>4. muddled' \in BOOLEAN /\ displaced' \in BOOLEAN
    BY <1>2, WriteTypes DEF IssueTicket
  <2> QED
    BY <1>0, <1>2, <2>1, <2>3, <2>4 DEF IssueTicket, Types, TypeOK, Places
<1>3. ASSUME NEW c \in Callers, CountIn(c)
      PROVE  Types'
  <2>1. ticket' = [ticket EXCEPT ![c] = ticket[c]] /\ ticket[c] \in 0 .. MaxTicket
    BY <1>0, <1>3 DEF CountIn
  <2>2. pc' \in [Callers -> Places] /\ ticket' \in [Callers -> 0 .. MaxTicket] /\ Registers'
    BY <1>0, <1>3, <2>1, MoveTypes DEF CountIn, Places
  <2>3. muddled' \in BOOLEAN /\ displaced' \in BOOLEAN
    BY <1>3, WriteTypes DEF CountIn
  <2>4. queue_count' \in Nat
    BY <1>0, <1>3 DEF CountIn
  <2> QED
    BY <1>0, <1>3, <2>2, <2>3, <2>4 DEF CountIn, Types, TypeOK, Places
<1>4. ASSUME NEW c \in Callers, Refuse(c)
      PROVE  Types'
  <2>1. pc' \in [Callers -> Places] /\ ticket' \in [Callers -> 0 .. MaxTicket] /\ Registers'
    BY <1>0, <1>4, MoveTypes DEF Refuse, Places
  <2>2. muddled' \in BOOLEAN /\ displaced' \in BOOLEAN
    BY <1>0, <1>4 DEF Refuse
  <2>3. queue_count' \in Nat
    BY <1>0, <1>4 DEF Refuse
  <2> QED
    BY <1>0, <1>4, <2>1, <2>2, <2>3 DEF Refuse, Types, TypeOK, Places
<1>5. ASSUME NEW c \in Callers, TakeTurn(c) \/ TimeOut(c)
      PROVE  Types'
  <2>1. pc' \in [Callers -> Places] /\ ticket' \in [Callers -> 0 .. MaxTicket] /\ Registers'
    BY <1>0, <1>5, MoveTypes DEF TakeTurn, TimeOut, Places
  <2> QED
    BY <1>0, <1>5, <2>1 DEF TakeTurn, TimeOut, counters, Types, TypeOK, Places
<1>6. ASSUME NEW c \in Callers, BeginNext(c)
      PROVE  Types'
  <2>1. ticket' = [ticket EXCEPT ![c] = ticket[c]] /\ ticket[c] \in 0 .. MaxTicket
    BY <1>0, <1>6 DEF BeginNext
  <2>2. pc' \in [Callers -> Places] /\ ticket' \in [Callers -> 0 .. MaxTicket] /\ Registers'
    <3>1. PICK from \in {"work", "turn"} : Move(c, from, "turned", working_queue)
      BY <1>6 DEF BeginNext
    <3>2. working_queue \in Nat /\ working_queue <= MaxTicket /\ "turned" \in Places
      BY <1>0 DEF Places
    <3> QED
      BY <1>0, <2>1, <3>1, <3>2, MoveTypes
  <2> QED
    BY <1>0, <1>6, <2>2 DEF BeginNext, counters, Types, TypeOK, Places
<1>7. ASSUME NEW c \in Callers, PassTurn(c)
      PROVE  Types'
  <2>1. pc[c] = "turned" /\ reg[c] \in 0 .. MaxTicket /\ Up(reg[c]) \in 0 .. MaxTicket
    BY <1>0, <1>7, UpType DEF PassTurn, Move, Types, Registers
  <2>2. ticket' = [ticket EXCEPT ![c] = ticket[c]] /\ ticket[c] \in 0 .. MaxTicket
    BY <1>0, <1>7 DEF PassTurn
  <2>3. pc' \in [Callers -> Places] /\ ticket' \in [Callers -> 0 .. MaxTicket] /\ Registers'
    BY <1>0, <1>7, <2>2, MoveTypes DEF PassTurn, Places
  <2>4. muddled' \in BOOLEAN /\ displaced' \in BOOLEAN
    BY <1>7, WriteTypes DEF PassTurn
  <2> QED
    BY <1>0, <1>7, <2>1, <2>3, <2>4 DEF PassTurn, Types, TypeOK, Places
<1>8. ASSUME NEW c \in Callers, CountOut(c)
      PROVE  Types'
  <2>1. ticket' = [ticket EXCEPT ![c] = ticket[c]] /\ ticket[c] \in 0 .. MaxTicket
    BY <1>0, <1>8 DEF CountOut
  <2>2. pc' \in [Callers -> Places] /\ ticket' \in [Callers -> 0 .. MaxTicket] /\ Registers'
    BY <1>0, <1>8, <2>1, MoveTypes DEF CountOut, Places
  <2>3. muddled' \in BOOLEAN /\ displaced' \in BOOLEAN
    BY <1>8, WriteTypes DEF CountOut
  <2>4. queue_count' \in Nat
    BY <1>0, <1>8 DEF CountOut
  <2> QED
    BY <1>0, <1>8, <2>2, <2>3, <2>4 DEF CountOut, Types, TypeOK, Places
<1>9. CASE StartDrive
  <2>1. muddled' \in BOOLEAN /\ displaced' \in BOOLEAN
    BY <1>9 DEF StartDrive
  <2> QED
    BY <1>0, <1>9, <2>1 DEF StartDrive, Types, TypeOK, Registers, Places
<1>10. CASE UNCHANGED vars
  BY <1>10 DEF vars, counters, Types, TypeOK, Registers
<1> QED
  BY <1>1, <1>2, <1>3, <1>4, <1>5, <1>6, <1>7, <1>8, <1>9, <1>10 DEF Next, Proceed

-----------------------------------------------------------------------------
(* The counters count what they should as long as no two updates meet.      *)

LEMMA WhichPlaces ==
  /\ "idle" \notin Holding /\ "issue" \notin Holding /\ "joined" \in Holding
  /\ "wait" \in Holding /\ "work" \in Holding /\ "turn" \in Holding
  /\ "turned" \in Holding /\ "left" \notin Holding
  /\ "idle" \notin Inside /\ "issue" \notin Inside /\ "joined" \notin Inside
  /\ "wait" \in Inside /\ "work" \in Inside /\ "turn" \in Inside
  /\ "turned" \in Inside /\ "left" \in Inside
BY DEF Holding, Inside

\* A caller that moves within the places that hold a ticket, or outside them,
\* and within those counted in, or outside them, changes neither count.
LEMMA SilentMove ==
  ASSUME Types, Counts, NEW c \in Callers, NEW to, pc' = [pc EXCEPT ![c] = to],
         (pc[c] \in Holding <=> to \in Holding), (pc[c] \in Inside <=> to \in Inside),
         UNCHANGED counters
  PROVE  Counts'
<1>1. TypeOK /\ Issued' = Issued /\ Cardinality(At(Inside)') = Cardinality(At(Inside))
  <2>1. TypeOK
    BY DEF Types
  <2>2. Cardinality(At(Holding)') = Cardinality(At(Holding))
    BY <2>1, MoveCounts
  <2>3. Cardinality(At(Inside)') = Cardinality(At(Inside))
    BY <2>1, MoveCounts
  <2> QED
    BY <2>1, <2>2, <2>3 DEF Issued
<1>2. At(Inside)' = {c_1 \in Callers : pc'[c_1] \in Inside}
  BY DEF At
<1> QED
  BY <1>1 DEF Counts, counters

\* What a move does to both.
LEMMA MoveBoth ==
  ASSUME Types, NEW c \in Callers, NEW to, pc' = [pc EXCEPT ![c] = to]
  PROVE  /\ pc[c] \notin Holding /\ to \in Holding => Issued' = Issued + 1
         /\ pc[c] \in Holding /\ to \notin Holding => Issued' = Issued - 1
         /\ (pc[c] \in Holding <=> to \in Holding) => Issued' = Issued
         /\ pc[c] \notin Inside /\ to \in Inside =>
              Cardinality(At(Inside)') = Cardinality(At(Inside)) + 1
         /\ pc[c] \in Inside /\ to \notin Inside =>
              Cardinality(At(Inside)') = Cardinality(At(Inside)) - 1
         /\ (pc[c] \in Inside <=> to \in Inside) =>
              Cardinality(At(Inside)') = Cardinality(At(Inside))
<1>1. TypeOK
  BY DEF Types
<1> QED
  BY <1>1, MoveCounts DEF Issued

\* A ticket is issued: the distance between the counters grows by one.
LEMMA IssueAhead ==
  ASSUME NEW r \in 0 .. MaxTicket, NEW w \in 0 .. MaxTicket, NEW k \in Nat, k <= MaxTicket,
         r - w \in {k, k - (MaxTicket + 1)}
  PROVE  Up(r) - w \in {k + 1, (k + 1) - (MaxTicket + 1)}
BY UpType DEF Up

\* A turn is passed on: it shrinks by one.
LEMMA PassAhead ==
  ASSUME NEW r \in 0 .. MaxTicket, NEW w \in 0 .. MaxTicket, NEW k \in Nat, k > 0,
         r - w \in {k, k - (MaxTicket + 1)}
  PROVE  r - Up(w) \in {k - 1, (k - 1) - (MaxTicket + 1)}
BY UpType DEF Up

LEMMA NextCounts ==
  ASSUME Types, ~muddled => Counts, [Next]_vars, ~muddled'
  PROVE  Counts'
<1>0. /\ working_queue \in 0 .. MaxTicket /\ request_queue \in 0 .. MaxTicket
      /\ queue_count \in Nat /\ pc \in [Callers -> Places] /\ TypeOK
      /\ Issued \in Nat /\ Cardinality(At(Inside)) \in Nat
  BY Counted DEF Types, TypeOK, Places, Issued
<1>1. ASSUME NEW c \in Callers, Call(c)
      PROVE  Counts'
  <2>1. Counts /\ UNCHANGED counters
    BY <1>1 DEF Call
  <2>2. pc[c] = "idle" /\ pc' = [pc EXCEPT ![c] = "issue"]
    BY <1>1 DEF Call, Move
  <2> QED
    BY <2>1, <2>2, SilentMove, WhichPlaces
<1>2. ASSUME NEW c \in Callers, IssueTicket(c)
      PROVE  Counts'
  <2>1. Counts /\ reg[c] = request_queue
    BY <1>2 DEF IssueTicket, Write
  <2>2. pc[c] = "issue" /\ pc' = [pc EXCEPT ![c] = "joined"]
    BY <1>2 DEF IssueTicket, Move
  <2>3. Cardinality(At(Inside)') = Cardinality(At(Inside))
    BY <2>2, MoveBoth, WhichPlaces
  <2>4. Issued' = Issued + 1
    BY <2>2, MoveBoth, WhichPlaces
  <2>5. Issued <= MaxTicket
    BY <2>2, Counted DEF Holding, Issued
  <2>6. Up(request_queue) - working_queue \in {Issued + 1, (Issued + 1) - (MaxTicket + 1)}
    BY <1>0, <2>1, <2>5, IssueAhead DEF Counts
  <2> QED
    BY <1>2, <2>1, <2>3, <2>4, <2>6 DEF IssueTicket, Counts
<1>3. ASSUME NEW c \in Callers, CountIn(c) \/ Refuse(c)
      PROVE  Counts'
  <2>1. Counts /\ reg[c] = queue_count
    BY <1>3 DEF CountIn, Refuse, Write
  <2>2. PICK to \in {"wait", "turn"} : pc[c] = "joined" /\ pc' = [pc EXCEPT ![c] = to]
    BY <1>3 DEF CountIn, Refuse, Move
  <2>3. Cardinality(At(Inside)') = Cardinality(At(Inside)) + 1
    BY <2>2, MoveBoth, WhichPlaces
  <2>4. Issued' = Issued
    BY <2>2, MoveBoth, WhichPlaces
  <2> QED
    BY <1>3, <2>1, <2>3, <2>4 DEF CountIn, Refuse, Counts
<1>4. ASSUME NEW c \in Callers, TakeTurn(c) \/ TimeOut(c)
      PROVE  Counts'
  <2>1. Counts /\ UNCHANGED counters
    BY <1>4 DEF TakeTurn, TimeOut
  <2>2. PICK to \in {"work", "turn"} : pc[c] = "wait" /\ pc' = [pc EXCEPT ![c] = to]
    BY <1>4 DEF TakeTurn, TimeOut, Move
  <2> QED
    BY <2>1, <2>2, SilentMove, WhichPlaces
<1>5. ASSUME NEW c \in Callers, BeginNext(c)
      PROVE  Counts'
  <2>1. Counts /\ UNCHANGED counters
    BY <1>5 DEF BeginNext
  <2>2. pc[c] \in {"work", "turn"} /\ pc' = [pc EXCEPT ![c] = "turned"]
    BY <1>5 DEF BeginNext, Move
  <2> QED
    BY <2>1, <2>2, SilentMove, WhichPlaces
<1>6. ASSUME NEW c \in Callers, PassTurn(c)
      PROVE  Counts'
  <2>1. Counts /\ reg[c] = working_queue
    BY <1>6 DEF PassTurn, Write
  <2>2. pc[c] = "turned" /\ pc' = [pc EXCEPT ![c] = "left"]
    BY <1>6 DEF PassTurn, Move
  <2>3. Cardinality(At(Inside)') = Cardinality(At(Inside))
    BY <2>2, MoveBoth, WhichPlaces
  <2>4. Issued' = Issued - 1
    BY <2>2, MoveBoth, WhichPlaces
  <2>5. Issued > 0
    BY <2>2, Counted DEF Holding, Issued
  <2>6. request_queue - Up(working_queue) \in {Issued - 1, (Issued - 1) - (MaxTicket + 1)}
    BY <1>0, <2>1, <2>5, PassAhead DEF Counts
  <2> QED
    BY <1>6, <2>1, <2>3, <2>4, <2>6 DEF PassTurn, Counts
<1>7. ASSUME NEW c \in Callers, CountOut(c)
      PROVE  Counts'
  <2>1. Counts /\ reg[c] = queue_count
    BY <1>7 DEF CountOut, Write
  <2>2. pc[c] = "left" /\ pc' = [pc EXCEPT ![c] = "idle"]
    BY <1>7 DEF CountOut, Move
  <2>3. Cardinality(At(Inside)') = Cardinality(At(Inside)) - 1
    BY <2>2, MoveBoth, WhichPlaces
  <2>4. Issued' = Issued
    BY <2>2, MoveBoth, WhichPlaces
  <2>5. Cardinality(At(Inside)) > 0
    BY <2>2, Counted DEF Inside
  <2> QED
    BY <1>0, <1>7, <2>1, <2>3, <2>4, <2>5 DEF CountOut, Counts
<1>8. CASE StartDrive
  <2>1. \A c \in Callers : pc'[c] = "idle"
    BY <1>8 DEF StartDrive, InFlight
  <2>2. At(Holding)' = {} /\ At(Inside)' = {}
    BY <2>1 DEF At, Holding, Inside
  <2>3. Cardinality(At(Inside)') = 0 /\ Issued' = 0
    BY <2>2, FS_EmptySet DEF Issued
  <2> QED
    BY <1>8, <2>3 DEF StartDrive, Counts
<1>9. CASE UNCHANGED vars
  <2>1. Issued' = Issued /\ At(Inside)' = At(Inside) /\ Counts
    BY <1>9 DEF vars, At, Issued
  <2> QED
    BY <1>9, <2>1 DEF vars, counters, Counts
<1> QED
  BY <1>1, <1>2, <1>3, <1>4, <1>5, <1>6, <1>7, <1>8, <1>9 DEF Next, Proceed

-----------------------------------------------------------------------------
(* Tickets are served in turn as long as nobody passes on another's turn.   *)

\* A step that gives nobody a ticket or a turn and leaves the counts alone.
LEMMA SameTurns ==
  ASSUME Types, InTurn, working_queue' = working_queue, Issued' = Issued,
         \A d \in Callers : pc'[d] \in {"joined", "wait"} =>
                              pc[d] \in {"joined", "wait"} /\ ticket'[d] = ticket[d],
         \A d \in Callers : pc'[d] \in {"work", "turned"} => pc[d] \in {"work", "turned"},
         \A d \in Callers : pc'[d] # "turn"
  PROVE  InTurn'
<1>1. \A d \in Callers : pc'[d] \in {"joined", "wait"} => Distance(ticket[d])' < Issued'
  BY DEF InTurn, Waiting, Distance
<1>2. \A d, e \in Callers : pc'[d] \in {"joined", "wait"} /\ pc'[e] \in {"joined", "wait"} /\ d # e
        => ticket'[d] # ticket'[e]
  BY DEF InTurn, Waiting
<1>3. \A d, e \in Callers : pc'[d] \in {"work", "turned"} /\ pc'[e] \in {"work", "turned"} => d = e
  BY DEF InTurn, Serving
<1>4. \A d, e \in Callers : pc'[d] \in {"work", "turned"} /\ pc'[e] \in {"joined", "wait"}
        => ticket'[e] # working_queue'
  BY DEF InTurn, Serving, Waiting
<1> QED
  BY <1>1, <1>2, <1>3, <1>4 DEF InTurn, Serving, Waiting

\* The next ticket's turn comes after those that are out.
LEMMA NextTicketIsLast ==
  ASSUME Types, Counts, Issued \in Nat, Issued <= MaxTicket
  PROVE  Distance(request_queue) = Issued
BY DEF Types, TypeOK, Counts, Distance

\* The current turn's distance is 0, and only its.
LEMMA CurrentTurn ==
  ASSUME Types, NEW t \in 0 .. MaxTicket
  PROVE  /\ Distance(t) \in Nat
         /\ Distance(t) = 0 <=> t = working_queue
BY DEF Types, TypeOK, Distance

LEMMA NextInTurn ==
  ASSUME Types, muddled => displaced, ~muddled => Counts, ~displaced => InTurn,
         [Next]_vars, ~displaced'
  PROVE  InTurn'
<1>0. /\ working_queue \in 0 .. MaxTicket /\ request_queue \in 0 .. MaxTicket
      /\ pc \in [Callers -> Places] /\ ticket \in [Callers -> 0 .. MaxTicket]
      /\ Issued \in Nat
  BY Counted DEF Types, TypeOK, Places, Issued
<1>1. ASSUME NEW c \in Callers, Call(c)
      PROVE  InTurn'
  <2>1. pc[c] = "idle" /\ pc' = [pc EXCEPT ![c] = "issue"]
    BY <1>1 DEF Call, Move
  <2>2. /\ InTurn /\ working_queue' = working_queue
        /\ ticket' = [ticket EXCEPT ![c] = request_queue]
    BY <1>1 DEF Call, counters
  <2>3. Issued' = Issued
    BY <2>1, MoveBoth, WhichPlaces
  <2> QED
    BY <1>0, <2>1, <2>2, <2>3, SameTurns DEF InTurn
<1>2. ASSUME NEW c \in Callers, IssueTicket(c)
      PROVE  InTurn'
  <2>1. pc[c] = "issue" /\ pc' = [pc EXCEPT ![c] = "joined"]
    BY <1>2 DEF IssueTicket, Move
  <2>2. /\ InTurn /\ Counts /\ working_queue' = working_queue /\ ticket' = ticket
        /\ ticket[c] = request_queue
    BY <1>2, <2>1 DEF IssueTicket, Write, Types, Registers
  <2>3. Issued' = Issued + 1
    BY <2>1, MoveBoth, WhichPlaces
  <2>4. Issued <= MaxTicket
    BY <2>1, Counted, WhichPlaces DEF Issued
  <2>5. Distance(request_queue) = Issued
    BY <1>0, <2>2, <2>4, NextTicketIsLast
  <2>6. \A d \in Callers : pc[d] \in {"joined", "wait"} =>
          Distance(ticket[d]) < Issued /\ ticket[d] # request_queue
    BY <1>0, <2>2, <2>5 DEF InTurn, Waiting
  <2>7. \A d \in Callers : Distance(ticket[d])' = Distance(ticket[d]) /\ Distance(ticket[d]) \in Nat
    BY <1>0, <2>2, CurrentTurn DEF Distance
  <2>8. \A d \in Callers : Waiting(d)' => Distance(ticket[d])' < Issued'
    BY <1>0, <2>1, <2>2, <2>3, <2>5, <2>6, <2>7 DEF Waiting
  <2>9. \A d, e \in Callers : Waiting(d)' /\ Waiting(e)' /\ d # e => ticket'[d] # ticket'[e]
    BY <1>0, <2>1, <2>2, <2>6 DEF InTurn, Waiting
  <2>10. \A d, e \in Callers : Serving(d)' /\ Serving(e)' => d = e
    BY <1>0, <2>1, <2>2 DEF InTurn, Serving
  <2>11. ASSUME NEW d \in Callers, NEW e \in Callers, Serving(d)', Waiting(e)'
         PROVE  ticket'[e] # working_queue'
    <3>1. d # c /\ pc[d] \in {"work", "turned"}
      BY <1>0, <2>1, <2>11 DEF Serving
    <3>2. Issued > 0
      BY <3>1, Counted, WhichPlaces DEF Issued
    <3>3. request_queue # working_queue
      BY <1>0, <2>5, <3>2, CurrentTurn
    <3> QED
      BY <1>0, <2>1, <2>2, <2>11, <3>1, <3>3 DEF InTurn, Waiting, Serving
  <2>12. \A d \in Callers : pc'[d] # "turn"
    BY <1>0, <2>1, <2>2 DEF InTurn
  <2> QED
    BY <2>8, <2>9, <2>10, <2>11, <2>12 DEF InTurn
<1>3. ASSUME NEW c \in Callers, CountIn(c)
      PROVE  InTurn'
  <2>1. pc[c] = "joined" /\ pc' = [pc EXCEPT ![c] = "wait"]
    BY <1>3 DEF CountIn, Move
  <2>2. InTurn /\ working_queue' = working_queue /\ ticket' = ticket
    BY <1>3 DEF CountIn, Write
  <2>3. Issued' = Issued
    BY <2>1, MoveBoth, WhichPlaces
  <2> QED
    BY <1>0, <2>1, <2>2, <2>3, SameTurns DEF InTurn
<1>4. ASSUME NEW c \in Callers, Refuse(c) \/ TimeOut(c)
      PROVE  InTurn'
  BY <1>4 DEF Refuse, TimeOut
<1>5. ASSUME NEW c \in Callers, TakeTurn(c)
      PROVE  InTurn'
  <2>1. pc[c] = "wait" /\ pc' = [pc EXCEPT ![c] = "work"] /\ ticket[c] = working_queue
    BY <1>5 DEF TakeTurn, Move
  <2>2. /\ InTurn /\ working_queue' = working_queue
        /\ ticket' = [ticket EXCEPT ![c] = 0]
    BY <1>5 DEF TakeTurn, counters
  <2>3. Issued' = Issued
    BY <2>1, MoveBoth, WhichPlaces
  <2>4. \A d \in Callers : ~Serving(d)
    BY <2>1, <2>2 DEF InTurn, Waiting
  <2>5. \A d \in Callers : Waiting(d)' => d # c /\ Waiting(d) /\ ticket'[d] = ticket[d]
    BY <1>0, <2>1, <2>2 DEF Waiting
  <2>6. \A d \in Callers : Serving(d)' => d = c
    BY <1>0, <2>1, <2>4 DEF Serving
  <2>7. \A d \in Callers : Waiting(d)' => Distance(ticket[d])' < Issued'
    BY <2>2, <2>3, <2>5 DEF InTurn, Distance
  <2>8. \A d, e \in Callers : Waiting(d)' /\ Waiting(e)' /\ d # e => ticket'[d] # ticket'[e]
    BY <2>2, <2>5 DEF InTurn
  <2>9. \A e \in Callers : Waiting(e)' => ticket'[e] # working_queue'
    BY <2>1, <2>2, <2>5 DEF InTurn, Waiting
  <2>10. \A d \in Callers : pc'[d] # "turn"
    BY <1>0, <2>1, <2>2 DEF InTurn
  <2> QED
    BY <2>6, <2>7, <2>8, <2>9, <2>10 DEF InTurn
<1>6. ASSUME NEW c \in Callers, BeginNext(c)
      PROVE  InTurn'
  <2>1. pc[c] \in {"work", "turn"} /\ pc' = [pc EXCEPT ![c] = "turned"]
    BY <1>6 DEF BeginNext, Move
  <2>2. InTurn /\ working_queue' = working_queue /\ ticket' = ticket
    BY <1>6 DEF BeginNext, counters
  <2>3. Issued' = Issued
    BY <2>1, MoveBoth, WhichPlaces
  <2> QED
    BY <1>0, <2>1, <2>2, <2>3, SameTurns DEF InTurn
<1>7. ASSUME NEW c \in Callers, PassTurn(c)
      PROVE  InTurn'
  <2>1. pc[c] = "turned" /\ pc' = [pc EXCEPT ![c] = "left"]
    BY <1>7 DEF PassTurn, Move
  <2>2. /\ InTurn /\ working_queue' = Up(working_queue) /\ ticket' = ticket
    BY <1>7 DEF PassTurn, Write
  <2>3. Issued' = Issued - 1
    BY <2>1, MoveBoth, WhichPlaces
  <2>4. \A d \in Callers : Waiting(d)' => Waiting(d) /\ ticket[d] # working_queue
    BY <1>0, <2>1, <2>2 DEF InTurn, Waiting, Serving
  <2>5. \A d \in Callers : ~Serving(d)'
    BY <1>0, <2>1, <2>2 DEF InTurn, Serving
  <2>6. ASSUME NEW d \in Callers, Waiting(d)'
        PROVE  Distance(ticket[d])' < Issued'
    <3>1. Distance(ticket[d]) < Issued /\ ticket[d] # working_queue
      BY <2>2, <2>4, <2>6 DEF InTurn
    <3>2. Distance(ticket[d])' = Distance(ticket[d]) - 1 /\ Distance(ticket[d]) \in Nat
      <4>1. ticket[d] \in 0 .. MaxTicket /\ ticket'[d] = ticket[d]
        BY <1>0, <2>2
      <4> QED
        BY <1>0, <2>2, <3>1, <4>1, UpType DEF Distance, Up
    <3> QED
      BY <1>0, <2>3, <3>1, <3>2
  <2>7. \A d, e \in Callers : Waiting(d)' /\ Waiting(e)' /\ d # e => ticket'[d] # ticket'[e]
    BY <2>2, <2>4 DEF InTurn
  <2>8. \A d \in Callers : pc'[d] # "turn"
    BY <1>0, <2>1, <2>2 DEF InTurn
  <2> QED
    BY <2>5, <2>6, <2>7, <2>8 DEF InTurn
<1>8. ASSUME NEW c \in Callers, CountOut(c)
      PROVE  InTurn'
  <2>1. pc[c] = "left" /\ pc' = [pc EXCEPT ![c] = "idle"]
    BY <1>8 DEF CountOut, Move
  <2>2. InTurn /\ working_queue' = working_queue /\ ticket' = ticket
    BY <1>8 DEF CountOut, Write
  <2>3. Issued' = Issued
    BY <2>1, MoveBoth, WhichPlaces
  <2> QED
    BY <1>0, <2>1, <2>2, <2>3, SameTurns DEF InTurn
<1>9. CASE StartDrive
  <2>1. \A d \in Callers : pc'[d] = "idle"
    BY <1>9 DEF StartDrive, InFlight
  <2> QED
    BY <2>1 DEF InTurn, Waiting, Serving
<1>10. CASE UNCHANGED vars
  <2>1. InTurn /\ pc' = pc /\ ticket' = ticket /\ working_queue' = working_queue
    BY <1>10 DEF vars, counters
  <2>2. Issued' = Issued
    BY <2>1 DEF Issued, At
  <2> QED
    BY <2>1, <2>2, SameTurns DEF InTurn
<1> QED
  BY <1>1, <1>2, <1>3, <1>4, <1>5, <1>6, <1>7, <1>8, <1>9, <1>10 DEF Next, Proceed

-----------------------------------------------------------------------------
(* The invariant, and what follows from it.                                 *)

LEMMA InitIInv == ASSUME Init PROVE IInv
<1>1. At(Holding) = {} /\ At(Inside) = {}
  BY DEF Init, At, Holding, Inside
<1>2. Issued = 0 /\ Cardinality(At(Inside)) = 0
  BY <1>1, FS_EmptySet DEF Issued
<1>3. TypeOK
  <2>1. pc \in [Callers -> Places] /\ ticket \in [Callers -> 0 .. MaxTicket]
    BY DEF Init, Places
  <2>2. {working_queue, request_queue} \subseteq 0 .. MaxTicket /\ queue_count \in Nat
    BY DEF Init
  <2>3. {displaced, muddled} \subseteq BOOLEAN
    BY DEF Init
  <2> QED
    BY <2>1, <2>2, <2>3 DEF TypeOK, Places
<1>4. Registers
  BY DEF Init, Registers
<1>5. Counts
  BY <1>2 DEF Init, Counts
<1>6. InTurn
  BY DEF Init, InTurn, Waiting, Serving
<1>7. ~muddled
  BY DEF Init
<1> QED
  BY <1>3, <1>4, <1>5, <1>6, <1>7 DEF IInv

LEMMA NextIInv == ASSUME IInv, [Next]_vars PROVE IInv'
<1>1. Types'
  BY NextTypes DEF IInv, Types
<1>2. muddled' => displaced'
  BY DEF IInv, Next, Proceed, vars, Call, IssueTicket, CountIn, Refuse, TakeTurn,
         TimeOut, BeginNext, PassTurn, CountOut, StartDrive, Write
<1>3. ~muddled' => Counts'
  BY NextCounts DEF IInv, Types
<1>4. ~displaced' => InTurn'
  BY NextInTurn DEF IInv, Types
<1> QED
  BY <1>1, <1>2, <1>3, <1>4 DEF IInv, Types

LEMMA Invariant == Spec => []IInv
<1>1. Init => IInv
  BY InitIInv
<1>2. IInv /\ [Next]_vars => IInv'
  BY NextIInv
<1> QED
  BY <1>1, <1>2, PTL DEF Spec

\* Tickets and turns stay within 0 .. MaxTicket and the count is never negative:
\* the wraps of wait_for_queue and next_queue are in the right place.
THEOREM TypeCorrect == Spec => []TypeOK
<1>1. IInv => TypeOK
  BY DEF IInv
<1> QED
  BY <1>1, Invariant, PTL

\* However many callers there are, and wherever the tickets wrap, two of them
\* never use the transfer buffer of the driver at once, as long as no caller is
\* turned away, gives up, races with another or lives through a restart.
THEOREM TicketsExclude == Spec => []OneAtATime
<1>1. IInv => OneAtATime
  <2> SUFFICES ASSUME IInv, ~displaced PROVE Cardinality(AtWork) <= 1
    BY DEF OneAtATime
  <2>1. \A c, d \in AtWork : c = d
    BY DEF IInv, InTurn, Serving, AtWork
  <2>2. CASE AtWork = {}
    BY <2>2, FS_EmptySet
  <2>3. CASE AtWork # {}
    <3>1. PICK c \in AtWork : TRUE
      BY <2>3
    <3>2. AtWork = {c}
      BY <2>1, <3>1
    <3> QED
      BY SMTT(30), <3>2, FS_Singleton
  <2> QED
    BY <2>2, <2>3
<1> QED
  BY <1>1, Invariant, PTL

\* Callers that are refused or time out pass on turns that are not theirs; when
\* all have left, the next ticket's turn is the current one all the same and the
\* count is zero, as long as no two updates of a counter met.
THEOREM IdleAligned == Spec => []IdleIsAligned
<1>1. IInv => IdleIsAligned
  <2> SUFFICES ASSUME IInv, ~muddled, InFlight = {}
               PROVE  request_queue = working_queue /\ queue_count = 0
    BY DEF IdleIsAligned
  <2>1. At(Holding) = {} /\ At(Inside) = {}
    BY DEF InFlight, At, Holding, Inside
  <2>2. Issued = 0 /\ Cardinality(At(Inside)) = 0
    BY <2>1, FS_EmptySet DEF Issued
  <2>3. /\ working_queue \in 0 .. MaxTicket /\ request_queue \in 0 .. MaxTicket
        /\ request_queue - working_queue \in {0, 0 - (MaxTicket + 1)} /\ queue_count = 0
    BY <2>2 DEF IInv, TypeOK, Counts
  <2> QED
    BY <2>3
<1> QED
  BY <1>1, Invariant, PTL

=============================================================================
