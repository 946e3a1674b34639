--------------------------- MODULE DirectIOProofs ---------------------------
(***************************************************************************)
(* Proofs about DirectIO, for every set of settings and any number of      *)
(* faults: however deep commands, resets, power cycles and identifications *)
(* nest, registers are only touched while they are mapped unless a power   *)
(* cycle failed, timers, flags and the size of the buffer are put back,    *)
(* resets nest only through power cycles, a reset that reports success was *)
(* answered, and what is written is what was read.                         *)
(*                                                                         *)
(* Each of these is an invariant of two parts: one about the call in       *)
(* progress, and one about each call below it that waits for a return. A   *)
(* step is a return, a call that goes on or a call that is made; a lemma   *)
(* for each says what must hold of it, and one step per action shows it.   *)
(***************************************************************************)
EXTENDS DirectIO, SequenceTheorems, TLAPS

Procs ==
    {"rw", "soft", "hard", "power", "mode", "identify", "read", "check",
     "hard_reset", "choose", "connect", "recover", "turn"}
Places ==
    {"start", "send", "finish", "reset_first", "reset_after", "wait",
     "after", "ide_wait", "forced", "escalated", "identified", "last",
     "ide_identified", "ide_cycled", "cycled", "forced_identified", "off",
     "mode", "sent", "read", "again", "fault", "reset", "reset_again",
     "checked", "checked_again", "released", "released_again", "slow",
     "recovered"}
Results == {"none", "ok", "time", "fail", "stop", "fault"}
Sizes == {"none", "data", "identify"}
Buffers == {"zero", "data", "identify", "other"}
BusyTimes == {"busy_wait_time", "initial_busy_wait_time"}

Asks == Commands \cup {"none"}
Records ==
    [p : Procs, at : Places, asked : Asks, size : Sizes,
     kept : Buffers \cup {"none"}, busy : BusyTimes \cup {"none"} \cup BOOLEAN,
     code : Results]

(* What identify_device and check_device put aside is there.               *)
Put(f) ==
    /\ f.p = "identify" /\ f.at = "sent" => f.kept \in Buffers /\ f.busy \in BusyTimes
    /\ f.p = "check" /\ f.at \in {"identified", "reset"} => f.busy \in BOOLEAN
Frames == {f \in Records : Put(f)}

(* Which function is called from which place, and with which command.      *)
MayCall(p, at, q, asked) ==
    \/ p = "rw" /\ at \in {"reset_first", "reset_after"} /\ q = "soft"
    \/ p = "soft" /\ at \in {"forced", "escalated", "last"} /\ q = "hard"
    \/ p = "soft" /\ at \in {"identified", "ide_identified"} /\ q = "identify"
    \/ p = "soft" /\ at = "ide_cycled" /\ q = "power"
    \/ p = "hard" /\ at \in {"forced", "cycled", "last"} /\ q = "power"
    \/ p = "hard" /\ at \in {"identified", "forced_identified"} /\ q = "identify"
    \/ p = "power" /\ at = "mode" /\ q = "mode"
    \/ p = "mode" /\ at = "sent" /\ q = "rw" /\ asked = "mode"
    \/ p = "identify" /\ at = "sent" /\ q = "rw" /\ asked = "identify"
    \/ p = "read" /\ at \in {"read", "again"} /\ q = "rw" /\ asked = "read"
    \/ p = "read" /\ at = "fault" /\ q = "check"
    \/ p = "check" /\ at = "identified" /\ q = "identify"
    \/ p = "check" /\ at = "reset" /\ q = "soft"
    \/ p = "hard_reset" /\ at = "reset" /\ q = "soft"
    \/ p = "choose" /\ at = "reset" /\ q \in {"hard_reset", "soft"}
    \/ p = "choose" /\ at = "reset_again" /\ q = "soft"
    \/ p = "choose" /\ at \in {"identified", "last"} /\ q = "identify"
    \/ p = "connect" /\ at = "mode" /\ q = "mode"
    \/ p = "recover" /\ at \in {"checked", "checked_again"} /\ q = "check"
    \/ p = "recover" /\ at = "mode" /\ q = "mode"
    \/ p = "turn" /\ at = "read" /\ q = "read"
    \/ p = "turn" /\ at = "checked" /\ q = "check"
    \/ p = "turn" /\ at \in {"slow", "recovered"} /\ q = "recover"

Calls(f, e) == MayCall(f.p, f.at, e.p, e.asked)

Outer == {"hard_reset", "choose", "connect", "recover", "turn", "read", "check"}
Asked == {"choose", "connect", "turn", "soft", "hard_reset"}

Shape ==
    /\ stack \in Seq(Frames)
    /\ \A i \in 1 .. Len(stack) - 1 : Calls(stack[i], stack[i + 1])
    /\ stack # <<>> => stack[1].p \in Asked
    /\ \A i \in 1 .. Len(stack) :
         stack[i].p \in Outer => \A j \in 1 .. i : stack[j].p \in Outer

IoType ==
    [low : Asks, high : Asks, size : Sizes,
     buffer : Buffers, error : BOOLEAN, known : BOOLEAN, saved : BOOLEAN]
FlagType == [performing : BOOLEAN, reset : BOOLEAN, hard : BOOLEAN, power : BOOLEAN]
TimerType ==
    [busy : BusyTimes, soft : {"soft_reset_time", "rt_soft_reset_time"}, hard : {0, 1}]
PastType ==
    [first : BOOLEAN, cycled : BOOLEAN, answered : BOOLEAN, lost : BOOLEAN,
     wrote : Buffers \cup {"none"}]

ConfTyped ==
    conf \in [ahci : BOOLEAN, wide : BOOLEAN, power : BOOLEAN, twice : BOOLEAN,
              forced : BOOLEAN]
ResultTyped == result \in Results
IoTyped == io \in IoType
FlagTyped == flag \in FlagType
TimerTyped == timer \in TimerType
PastTyped == past \in PastType
SwitchTyped == mapped \in BOOLEAN /\ stop \in BOOLEAN /\ crashed \in BOOLEAN
WorldTyped ==
    /\ source \in {"none", "chosen", "connected"}
    /\ drive \in {"ready", "hung"} /\ faults \in 0 .. MaxFaults
Types ==
    /\ ConfTyped /\ ResultTyped /\ IoTyped /\ FlagTyped /\ TimerTyped /\ PastTyped
    /\ SwitchTyped /\ WorldTyped

-----------------------------------------------------------------------------
(* The stack of calls.                                                     *)

(* What a step that begins at the top of the stack leaves below it.        *)
Kept == \A i \in 1 .. Len(stack) - 1 : stack'[i] = stack[i]
Goes(f) == Len(stack') = Len(stack) /\ stack'[Len(stack)] = f /\ Kept
Enters(f, e) ==
    /\ Len(stack') = Len(stack) + 1
    /\ stack'[Len(stack)] = f /\ stack'[Len(stack) + 1] = e /\ Kept
Leaves == Len(stack') = Len(stack) - 1 /\ Kept

(* The call in progress, and the calls below it.                           *)
LEMMA TopFacts ==
  ASSUME NEW S, stack \in Seq(S), stack # <<>>
  PROVE  /\ Len(stack) \in Nat \ {0} /\ top = stack[Len(stack)] /\ top \in S
         /\ Below \in Seq(S) /\ Len(Below) = Len(stack) - 1
         /\ \A i \in 1 .. Len(stack) - 1 : Below[i] = stack[i]
<1>1. Len(stack) \in Nat \ {0}
  BY EmptySeq
<1>2. Below = SubSeq(stack, 1, Len(stack) - 1)
  BY DEF Below, Front
<1>3. top = stack[Len(stack)] /\ top \in S
  BY <1>1, ElementOfSeq DEF top, Last
<1>4. /\ Below \in Seq(S) /\ Len(Below) = Len(stack) - 1
      /\ \A i \in 1 .. Len(stack) - 1 : Below[i] = stack[i]
  <2> DEFINE n == Len(stack) - 1
  <2>1. n \in Nat /\ \A i \in 1 .. n : stack[i] \in S
    BY <1>1, ElementOfSeq
  <2> HIDE DEF n
  <2>2. /\ SubSeq(stack, 1, n) \in Seq(S) /\ Len(SubSeq(stack, 1, n)) = n
        /\ \A i \in 1 .. n : SubSeq(stack, 1, n)[i] = stack[i]
    <3>1. \A i \in 1 .. n - 1 + 1 : SubSeq(stack, 1, n)[i] = stack[1 + i - 1]
      BY <2>1, SubSeqProperties
    <3>2. ASSUME NEW i \in 1 .. n PROVE i \in 1 .. n - 1 + 1 /\ 1 + i - 1 = i
      BY <2>1
    <3>3. \A i \in 1 .. n : SubSeq(stack, 1, n)[i] = stack[i]
      BY <3>1, <3>2
    <3>4. SubSeq(stack, 1, n) \in Seq(S) /\ Len(SubSeq(stack, 1, n)) = n
      BY <2>1, SubSeqProperties
    <3> QED
      BY <3>3, <3>4
  <2> QED
    BY <1>2, <2>2 DEF n
<1> QED
  BY <1>1, <1>3, <1>4

LEMMA Going ==
  ASSUME NEW S, stack \in Seq(S), stack # <<>>, NEW f, Now(f)
  PROVE  Goes(f) /\ (f \in S => stack' \in Seq(S))
<1> DEFINE T == S \cup {f}
<1>1. /\ Below \in Seq(S) /\ Len(Below) = Len(stack) - 1 /\ Len(stack) \in Nat \ {0}
      /\ \A i \in 1 .. Len(stack) - 1 : Below[i] = stack[i]
  BY TopFacts
<1>2. Below \in Seq(T) /\ <<f>> \in Seq(T) /\ Len(<<f>>) = 1 /\ <<f>>[1] = f
  BY <1>1
<1> HIDE DEF T
<1>3. /\ stack' \in Seq(T) /\ Len(stack') = Len(Below) + Len(<<f>>)
      /\ \A i \in 1 .. Len(Below) + Len(<<f>>) :
           stack'[i] = IF i <= Len(Below) THEN Below[i] ELSE <<f>>[i - Len(Below)]
  BY <1>2, ConcatProperties DEF Now
<1>4. f \in S => stack' \in Seq(S)
  <2>1. ASSUME f \in S PROVE T = S
    BY <2>1 DEF T
  <2> QED
    BY <1>3, <2>1
<1> QED
  BY <1>1, <1>2, <1>3, <1>4 DEF Goes, Kept

LEMMA Entering ==
  ASSUME NEW S, stack \in Seq(S), stack # <<>>, NEW f, NEW e, Enter(f, e)
  PROVE  Enters(f, e) /\ (f \in S /\ e \in S => stack' \in Seq(S))
<1> DEFINE T == S \cup {f, e}
<1>1. /\ Below \in Seq(S) /\ Len(Below) = Len(stack) - 1 /\ Len(stack) \in Nat \ {0}
      /\ \A i \in 1 .. Len(stack) - 1 : Below[i] = stack[i]
  BY TopFacts
<1>2. /\ Below \in Seq(T) /\ <<f, e>> \in Seq(T) /\ Len(<<f, e>>) = 2
      /\ <<f, e>>[1] = f /\ <<f, e>>[2] = e
  BY <1>1
<1> HIDE DEF T
<1>3. /\ stack' \in Seq(T) /\ Len(stack') = Len(Below) + Len(<<f, e>>)
      /\ \A i \in 1 .. Len(Below) + Len(<<f, e>>) :
           stack'[i] = IF i <= Len(Below) THEN Below[i] ELSE <<f, e>>[i - Len(Below)]
  BY <1>2, ConcatProperties DEF Enter
<1>4. f \in S /\ e \in S => stack' \in Seq(S)
  <2>1. ASSUME f \in S, e \in S PROVE T = S
    BY <2>1 DEF T
  <2> QED
    BY <1>3, <2>1
<1>5. /\ Len(stack') = Len(stack) + 1
      /\ \A i \in 1 .. Len(stack) - 1 : stack'[i] = stack[i]
  BY <1>1, <1>2, <1>3, SMTT(30)
<1>6. stack'[Len(stack)] = f /\ stack'[Len(stack) + 1] = e
  <2>1. Len(Below) + Len(<<f, e>>) = Len(stack) + 1
    BY <1>1, <1>2
  <2>2. ASSUME NEW k \in 1 .. 2 PROVE stack'[Len(Below) + k] = <<f, e>>[k]
    <3>1. /\ Len(Below) + k \in 1 .. Len(Below) + Len(<<f, e>>) /\ ~(Len(Below) + k <= Len(Below))
          /\ Len(Below) + k - Len(Below) = k
      BY <1>1, <2>1
    <3> QED
      BY <1>3, <3>1
  <2>3. stack'[Len(Below) + 1] = f /\ stack'[Len(Below) + 2] = e
    BY <1>2, <2>2
  <2>4. Len(Below) + 1 = Len(stack) /\ Len(Below) + 2 = Len(stack) + 1
    BY <1>1
  <2> QED
    BY <2>3, <2>4
<1> QED
  BY <1>4, <1>5, <1>6 DEF Enters, Kept

LEMMA Leaving ==
  ASSUME NEW S, stack \in Seq(S), stack # <<>>, stack' = Below
  PROVE  Leaves /\ stack' \in Seq(S)
BY TopFacts DEF Leaves, Kept

(* The names of the functions and of the places in them.                   *)
LEMMA Names ==
  /\ "rw" \in Procs /\ "soft" \in Procs /\ "hard" \in Procs
  /\ "power" \in Procs /\ "mode" \in Procs /\ "identify" \in Procs
  /\ "read" \in Procs /\ "check" \in Procs /\ "hard_reset" \in Procs
  /\ "choose" \in Procs /\ "connect" \in Procs /\ "recover" \in Procs
  /\ "turn" \in Procs
  /\ "start" \in Places /\ "send" \in Places /\ "finish" \in Places
  /\ "reset_first" \in Places /\ "reset_after" \in Places
  /\ "wait" \in Places /\ "after" \in Places /\ "ide_wait" \in Places
  /\ "forced" \in Places /\ "escalated" \in Places /\ "identified" \in Places
  /\ "last" \in Places /\ "ide_identified" \in Places
  /\ "ide_cycled" \in Places /\ "cycled" \in Places
  /\ "forced_identified" \in Places /\ "off" \in Places /\ "mode" \in Places
  /\ "sent" \in Places /\ "read" \in Places /\ "again" \in Places
  /\ "fault" \in Places /\ "reset" \in Places /\ "reset_again" \in Places
  /\ "checked" \in Places /\ "checked_again" \in Places
  /\ "released" \in Places /\ "released_again" \in Places
  /\ "slow" \in Places /\ "recovered" \in Places
  /\ "none" \in Asks /\ "read" \in Asks /\ "identify" \in Asks /\ "mode" \in Asks
BY DEF Procs, Places, Asks, Commands

(* Nothing is to be put aside where the call goes on.                      *)
Settled == top.p # "identify" /\ (top.p = "check" => top.at = "identified")

(* The ways in which a call goes on keep its fields but those named.       *)
LEMMA OnwardFacts ==
  ASSUME top \in Frames, NEW a \in Places
  PROVE  /\ Onward(a) \in Records /\ (Settled => Onward(a) \in Frames)
         /\ Onward(a).at = a
         /\ Onward(a).p = top.p /\ Onward(a).asked = top.asked
         /\ Onward(a).size = top.size /\ Onward(a).kept = top.kept
         /\ Onward(a).busy = top.busy /\ Onward(a).code = top.code
BY DEF Onward, Frames, Records, Put, Settled

LEMMA DecidedFacts ==
  ASSUME top \in Frames, NEW a \in Places, NEW c \in Results
  PROVE  /\ Decided(a, c) \in Records /\ (Settled => Decided(a, c) \in Frames)
         /\ Decided(a, c).at = a /\ Decided(a, c).code = c
         /\ Decided(a, c).p = top.p /\ Decided(a, c).asked = top.asked
         /\ Decided(a, c).size = top.size /\ Decided(a, c).kept = top.kept
         /\ Decided(a, c).busy = top.busy
BY DEF Decided, Frames, Records, Put, Settled

LEMMA SavingFacts ==
  ASSUME top \in Frames, io.size \in Sizes, NEW a \in Places
  PROVE  /\ Saving(a) \in Records /\ (Settled => Saving(a) \in Frames)
         /\ Saving(a).at = a /\ Saving(a).size = io.size
         /\ Saving(a).p = top.p /\ Saving(a).asked = top.asked
         /\ Saving(a).kept = top.kept /\ Saving(a).busy = top.busy
         /\ Saving(a).code = top.code
BY DEF Saving, Frames, Records, Put, Settled

LEMMA FrameFacts ==
  ASSUME NEW p \in Procs, NEW c \in Asks
  PROVE  /\ Frame(p, c) \in Frames /\ Frame(p, c).p = p /\ Frame(p, c).at = "start"
         /\ Frame(p, c).asked = c /\ Frame(p, c).code = "ok"
BY Names DEF Frame, Frames, Records, Put, Sizes, Results

-----------------------------------------------------------------------------
(* Every call in progress was made by the one below it.                    *)

LEMMA TopIsFrame ==
  ASSUME Shape, stack # <<>>
  PROVE  /\ top \in Frames /\ top = stack[Len(stack)] /\ Len(stack) \in Nat \ {0}
         /\ stack \in Seq(Frames)
BY TopFacts DEF Shape

LEMMA TopFields ==
  ASSUME Shape, stack # <<>>
  PROVE  /\ top.code \in Results /\ top.size \in Sizes /\ top.p \in Procs /\ top.at \in Places
         /\ top.p = "identify" /\ top.at = "sent" =>
              top.kept \in Buffers /\ top.busy \in BusyTimes
         /\ top.p = "check" /\ top.at \in {"identified", "reset"} => top.busy \in BOOLEAN
BY TopIsFrame DEF Frames, Records, Put

(* A return, a call that goes on and a call that is made keep the shape.   *)
LEMMA ShapeLeaves ==
  ASSUME Shape, stack # <<>>, stack' = Below
  PROVE  Shape'
<1>1. Leaves /\ stack' \in Seq(Frames) /\ Len(stack) \in Nat \ {0}
  BY Leaving, TopFacts DEF Shape
<1>2. stack' # <<>> => 1 \in 1 .. Len(stack) - 1
  BY <1>1, EmptySeq DEF Leaves
<1> QED
  BY <1>1, <1>2, SMTT(30) DEF Shape, Leaves, Kept

LEMMA ShapeNow ==
  ASSUME Shape, stack # <<>>, NEW f \in Frames, f.p = top.p, f.asked = top.asked, Now(f)
  PROVE  Shape'
<1>1. /\ Goes(f) /\ stack' \in Seq(Frames) /\ Len(stack) \in Nat \ {0}
      /\ top = stack[Len(stack)]
  BY Going, TopFacts DEF Shape
<1>2. \A i \in 1 .. Len(stack) : stack'[i].p = stack[i].p
  BY <1>1 DEF Goes, Kept
<1>3. \A i \in 1 .. Len(stack) - 1 : Calls(stack'[i], stack'[i + 1])
  <2>1. TAKE i \in 1 .. Len(stack) - 1
  <2>2. Calls(stack[i], stack[i + 1]) /\ stack'[i] = stack[i]
    BY <1>1 DEF Shape, Goes, Kept
  <2>3. stack'[i + 1].p = stack[i + 1].p /\ stack'[i + 1].asked = stack[i + 1].asked
    BY <1>1 DEF Goes, Kept
  <2> QED
    BY <2>2, <2>3 DEF Calls
<1> QED
  BY <1>1, <1>2, <1>3 DEF Shape, Goes

LEMMA ShapeEnter ==
  ASSUME Shape, stack # <<>>, NEW f \in Frames, f.p = top.p, f.asked = top.asked,
         NEW e \in Frames, Calls(f, e), e.p \in Outer => f.p \in Outer, Enter(f, e)
  PROVE  Shape'
<1>1. /\ Enters(f, e) /\ stack' \in Seq(Frames) /\ Len(stack) \in Nat \ {0}
      /\ top = stack[Len(stack)]
  BY Entering, TopFacts DEF Shape
<1>2. \A i \in 1 .. Len(stack) : stack'[i].p = stack[i].p
  BY <1>1 DEF Enters, Kept
<1>3. \A i \in 1 .. Len(stack') - 1 : Calls(stack'[i], stack'[i + 1])
  <2>1. TAKE i \in 1 .. Len(stack') - 1
  <2>2. CASE i = Len(stack)
    BY <1>1, <2>2 DEF Enters
  <2>3. CASE i # Len(stack)
    <3>1. i \in 1 .. Len(stack) - 1
      BY <1>1, <2>3 DEF Enters
    <3>2. Calls(stack[i], stack[i + 1]) /\ stack'[i] = stack[i]
      BY <1>1, <3>1 DEF Shape, Enters, Kept
    <3>3. stack'[i + 1].p = stack[i + 1].p /\ stack'[i + 1].asked = stack[i + 1].asked
      BY <1>1, <3>1 DEF Enters, Kept
    <3> QED
      BY <3>2, <3>3 DEF Calls
  <2> QED
    BY <2>2, <2>3
<1>4. ASSUME NEW i \in 1 .. Len(stack'), stack'[i].p \in Outer, NEW j \in 1 .. i
      PROVE  stack'[j].p \in Outer
  <2>1. CASE i \in 1 .. Len(stack)
    BY <1>1, <1>2, <1>4, <2>1 DEF Shape
  <2>2. CASE i = Len(stack) + 1
    <3>1. stack[Len(stack)].p \in Outer
      BY <1>1, <1>4, <2>2 DEF Enters
    <3> QED
      BY <1>1, <1>2, <1>4, <2>2, <3>1 DEF Shape, Enters
  <2> QED
    BY <1>1, <2>1, <2>2 DEF Enters
<1> QED
  BY <1>1, <1>2, <1>3, <1>4 DEF Shape

LEMMA ShapeGoto ==
  ASSUME Shape, stack # <<>>, Settled, NEW a \in Places, Goto(a)
  PROVE  Shape'
BY TopIsFrame, OnwardFacts, ShapeNow DEF Goto

LEMMA ShapeDecided ==
  ASSUME Shape, stack # <<>>, Settled, NEW a \in Places, NEW c \in Results, Now(Decided(a, c))
  PROVE  Shape'
BY TopIsFrame, DecidedFacts, ShapeNow

LEMMA ShapeSaving ==
  ASSUME Shape, Types, stack # <<>>, Settled, NEW a \in Places, Now(Saving(a))
  PROVE  Shape'
BY TopIsFrame, SavingFacts, ShapeNow DEF Types, IoTyped, IoType

LEMMA ShapeCall ==
  ASSUME Shape, stack # <<>>, Settled, NEW a \in Places, NEW q \in Procs,
         NEW c \in Asks, MayCall(top.p, a, q, c),
         q \in Outer => top.p \in Outer, Call(a, Frame(q, c))
  PROVE  Shape'
<1>1. top \in Frames
  BY TopIsFrame
<1>2. Calls(Onward(a), Frame(q, c))
  BY <1>1, OnwardFacts, FrameFacts DEF Calls
<1> QED
  BY <1>1, <1>2, OnwardFacts, FrameFacts, ShapeEnter DEF Call

LEMMA ShapeDecidedCall ==
  ASSUME Shape, stack # <<>>, Settled, NEW a \in Places, NEW d \in Results, NEW q \in Procs,
         NEW c \in Asks, MayCall(top.p, a, q, c),
         q \in Outer => top.p \in Outer, Enter(Decided(a, d), Frame(q, c))
  PROVE  Shape'
<1>1. top \in Frames
  BY TopIsFrame
<1>2. Calls(Decided(a, d), Frame(q, c))
  BY <1>1, DecidedFacts, FrameFacts DEF Calls
<1> QED
  BY <1>1, <1>2, DecidedFacts, FrameFacts, ShapeEnter

LEMMA ShapeSavingCall ==
  ASSUME Shape, Types, stack # <<>>, Settled, NEW a \in Places, NEW q \in Procs,
         NEW c \in Asks, MayCall(top.p, a, q, c),
         q \in Outer => top.p \in Outer, Enter(Saving(a), Frame(q, c))
  PROVE  Shape'
<1>1. top \in Frames /\ io.size \in Sizes
  BY TopIsFrame DEF Types, IoTyped, IoType
<1>2. Calls(Saving(a), Frame(q, c))
  BY <1>1, SavingFacts, FrameFacts DEF Calls
<1> QED
  BY <1>1, <1>2, SavingFacts, FrameFacts, ShapeEnter

LEMMA ShapeSame ==
  ASSUME Shape, stack' = stack
  PROVE  Shape'
BY DEF Shape

LEMMA ShapeEmpty ==
  ASSUME stack' = <<>>
  PROVE  Shape'
BY DEF Shape

(* The steps, function by function.                                        *)
LEMMA ShapeCommand ==
  ASSUME Types, Shape, Command
  PROVE  Shape'
<1> USE Names DEF At, Return, Settled
<1>1. CASE CommandWait
  BY <1>1, ShapeLeaves, ShapeGoto, ShapeCall DEF CommandWait, MayCall, Outer
<1>2. CASE CommandResetFirst \/ CommandResetAfter
  <2>1. top.code \in Results
    BY <1>2, TopFields DEF CommandResetFirst, CommandResetAfter
  <2> QED
    BY <1>2, <2>1, ShapeDecided DEF CommandResetFirst, CommandResetAfter, Results
<1>3. CASE CommandDone
  BY <1>3, ShapeGoto DEF CommandDone
<1>4. CASE CommandHangs
  BY <1>4, ShapeDecided, ShapeDecidedCall DEF CommandHangs, Results, Outer, MayCall
<1>5. CASE CommandDisturbed
  BY <1>5, ShapeDecided, ShapeDecidedCall DEF CommandDisturbed, Results, Outer, MayCall
<1>6. CASE CommandStopped \/ CommandFinish
  BY <1>6, ShapeLeaves DEF CommandStopped, CommandFinish
<1> QED
  BY <1>1, <1>2, <1>3, <1>4, <1>5, <1>6 DEF Command

LEMMA ShapeReset ==
  ASSUME Types, Shape, Reset
  PROVE  Shape'
<1> USE Names DEF At, Return, Settled
<1>1. CASE SoftRefused \/ SoftLast
  BY <1>1, ShapeLeaves DEF SoftRefused, SoftLast
<1>2. CASE SoftStart
  BY <1>2, ShapeGoto, ShapeSaving, ShapeSavingCall DEF SoftStart, MayCall, Outer
<1>3. CASE SoftWait
  BY <1>3, ShapeLeaves, ShapeCall, ShapeDecided DEF SoftWait, MayCall, Outer, Results
<1>4. CASE SoftHardDone
  BY <1>4, ShapeDecided DEF SoftHardDone, Types, ResultTyped
<1>5. CASE SoftAfter
  BY <1>5, ShapeLeaves, ShapeCall DEF SoftAfter, MayCall, Outer
<1>6. CASE SoftIdentified
  BY <1>6, ShapeLeaves, ShapeCall DEF SoftIdentified, MayCall, Outer
<1>7. CASE SoftIde
  BY <1>7, ShapeLeaves, ShapeCall DEF SoftIde, MayCall, Outer
<1>8. CASE HardStart
  BY <1>8, ShapeSaving, ShapeCall DEF HardStart, MayCall, Outer
<1>9. CASE HardWait
  BY <1>9, ShapeLeaves, ShapeGoto, ShapeCall DEF HardWait, MayCall, Outer
<1>10. CASE HardCycled
  BY <1>10, ShapeLeaves, ShapeGoto DEF HardCycled
<1>11. CASE HardAfter
  BY <1>11, ShapeCall DEF HardAfter, MayCall, Outer
<1>12. CASE HardIdentified
  BY <1>12, ShapeLeaves, ShapeCall DEF HardIdentified, MayCall, Outer
<1>13. CASE HardLast
  BY <1>13, ShapeLeaves DEF HardLast
<1>14. CASE HardForced
  BY <1>14, ShapeLeaves, ShapeCall DEF HardForced, MayCall, Outer
<1> QED
  BY <1>1, <1>2, <1>3, <1>4, <1>5, <1>6, <1>7, <1>8, <1>9, <1>10, <1>11, <1>12, <1>13,
     <1>14 DEF Reset

(* What identify_device and check_device put aside.                        *)
Aside == [Saving("sent") EXCEPT !.kept = io.buffer, !.busy = timer.busy]
Marked == [Onward("identified") EXCEPT !.busy = io.error]

LEMMA AsideFacts ==
  ASSUME top \in Frames, Types
  PROVE  /\ Aside \in Frames /\ Aside.p = top.p /\ Aside.at = "sent"
         /\ Aside.asked = top.asked /\ Aside.size = io.size
         /\ Aside.kept = io.buffer /\ Aside.busy = timer.busy
<1>1. io.size \in Sizes /\ io.buffer \in Buffers /\ timer.busy \in BusyTimes
  BY DEF Types, IoTyped, IoType, TimerTyped, TimerType
<1>2. /\ Saving("sent") \in Records /\ Saving("sent").p = top.p /\ Saving("sent").at = "sent"
      /\ Saving("sent").asked = top.asked /\ Saving("sent").size = io.size
  BY <1>1, Names, SavingFacts
<1> QED
  BY <1>1, <1>2 DEF Aside, Frames, Records, Put

LEMMA MarkedFacts ==
  ASSUME top \in Frames, Types
  PROVE  /\ Marked \in Frames /\ Marked.p = top.p /\ Marked.at = "identified"
         /\ Marked.asked = top.asked /\ Marked.busy = io.error
<1>1. io.error \in BOOLEAN
  BY DEF Types, IoTyped, IoType
<1>2. /\ Onward("identified") \in Records /\ Onward("identified").p = top.p
      /\ Onward("identified").at = "identified" /\ Onward("identified").asked = top.asked
  BY Names, OnwardFacts
<1> QED
  BY <1>1, <1>2 DEF Marked, Frames, Records, Put

LEMMA ShapeHelper ==
  ASSUME Types, Shape, Helper
  PROVE  Shape'
<1> USE Names DEF At, Return, Settled
<1>1. CASE PowerStart
  BY <1>1, ShapeLeaves, ShapeGoto DEF PowerStart
<1>2. CASE PowerCycle
  BY <1>2, ShapeLeaves, ShapeCall DEF PowerCycle, MayCall, Outer
<1>3. CASE PowerDone \/ ModeDone \/ IdentifyDone
  BY <1>3, ShapeLeaves DEF PowerDone, ModeDone, IdentifyDone
<1>4. CASE ModeStart
  BY <1>4, ShapeSavingCall DEF ModeStart, MayCall, Outer, Commands
<1>5. CASE IdentifyStart
  <2>1. stack # <<>> /\ top.p = "identify" /\ Enter(Aside, Frame("rw", "identify"))
    BY <1>5 DEF IdentifyStart, Aside
  <2>2. /\ Aside \in Frames /\ Aside.p = top.p /\ Aside.at = "sent" /\ Aside.asked = top.asked
    BY <2>1, AsideFacts, TopIsFrame
  <2>3. /\ Frame("rw", "identify") \in Frames /\ Frame("rw", "identify").p = "rw"
        /\ Frame("rw", "identify").asked = "identify"
    <3>1. "rw" \in Procs /\ "identify" \in Asks
      BY Names
    <3> QED
      BY ONLY <3>1, FrameFacts
  <2>4. Calls(Aside, Frame("rw", "identify")) /\ "rw" \notin Outer
    BY <2>1, <2>2, <2>3 DEF Calls, MayCall, Outer
  <2> QED
    BY <2>1, <2>2, <2>3, <2>4, ShapeEnter
<1> QED
  BY <1>1, <1>2, <1>3, <1>4, <1>5 DEF Helper

LEMMA ShapeAsked ==
  ASSUME Types, Shape,
         \/ ReadStart \/ ReadAgain \/ ReadDone \/ ReadChecked
         \/ CheckStart \/ CheckReset \/ CheckDone
         \/ HardReset \/ Choose \/ Connect \/ Recover \/ Turn \/ Crash
  PROVE  Shape'
<1> USE Names DEF At, Return, Settled
<1>1. CASE ReadStart \/ ReadAgain
  BY <1>1, ShapeCall DEF ReadStart, ReadAgain, MayCall, Outer, Commands
<1>2. CASE ReadDone
  BY <1>2, ShapeLeaves, ShapeDecidedCall DEF ReadDone, MayCall, Outer, Types, ResultTyped
<1>3. CASE ReadChecked \/ CheckDone
  BY <1>3, ShapeLeaves DEF ReadChecked, CheckDone
<1>4. CASE CheckStart
  <2>1. stack # <<>> /\ top.p = "check" /\ Enter(Marked, Frame("identify", "none"))
    BY <1>4 DEF CheckStart, Marked
  <2>2. /\ Marked \in Frames /\ Marked.p = top.p /\ Marked.at = "identified"
        /\ Marked.asked = top.asked
    BY <2>1, MarkedFacts, TopIsFrame
  <2>3. /\ Frame("identify", "none") \in Frames /\ Frame("identify", "none").p = "identify"
    <3>1. "identify" \in Procs /\ "none" \in Asks
      BY Names
    <3> QED
      BY ONLY <3>1, FrameFacts
  <2>4. Calls(Marked, Frame("identify", "none")) /\ "identify" \notin Outer
    BY <2>1, <2>2, <2>3 DEF Calls, MayCall, Outer
  <2> QED
    BY <2>1, <2>2, <2>3, <2>4, ShapeEnter
<1>5. CASE CheckReset
  BY <1>5, ShapeCall DEF CheckReset, MayCall, Outer
<1>6. CASE HardReset
  BY <1>6, ShapeLeaves, ShapeCall DEF HardReset, MayCall, Outer
<1>7. CASE Choose
  BY <1>7, ShapeLeaves, ShapeCall DEF Choose, Chosen, MayCall, Outer
<1>8. CASE Connect
  BY <1>8, ShapeLeaves, ShapeCall DEF Connect, MayCall, Outer
<1>9. CASE Recover
  BY <1>9, ShapeLeaves, ShapeCall, ShapeGoto DEF Recover, MayCall, Outer
<1>10. CASE Turn
  BY <1>10, ShapeLeaves, ShapeCall
     DEF Turn, TurnStart, TurnRead, TurnChecked, TurnRecovered, MayCall, Outer
<1>11. CASE Crash
  BY <1>11, ShapeEmpty DEF Crash
<1> QED
  BY <1>1, <1>2, <1>3, <1>4, <1>5, <1>6, <1>7, <1>8, <1>9, <1>10, <1>11

LEMMA ShapeBegin ==
  ASSUME Types, NEW what \in Requests, Begin(what)
  PROVE  Shape'
<1>1. what \in Asked /\ what \in Procs
  BY Names DEF Requests, Types, WorldTyped, Asked
<1>2. Frame(what, "none") \in Frames /\ Frame(what, "none").p = what
  BY <1>1, Names, FrameFacts
<1> DEFINE f == Frame(what, "none")
<1>3. stack' = <<f>>
  BY DEF Begin
<1> HIDE DEF f
<1>4. f \in Frames /\ f.p = what
  BY <1>2 DEF f
<1>5. stack' \in Seq(Frames) /\ Len(stack') = 1 /\ stack'[1] = f
  BY <1>3, <1>4
<1> QED
  BY <1>1, <1>4, <1>5 DEF Shape

LEMMA ShapeStep ==
  ASSUME Types, Shape, [Next]_vars
  PROVE  Shape'
<1>1. CASE Proceed
  BY <1>1, ShapeCommand, ShapeReset, ShapeHelper, ShapeAsked DEF Proceed
<1>2. CASE Stop \/ Disconnect
  BY <1>2, ShapeSame DEF Stop, Disconnect
<1>3. CASE Restart
  BY <1>3, ShapeEmpty DEF Restart
<1>4. ASSUME NEW what \in Requests, Begin(what) PROVE Shape'
  BY <1>4, ShapeBegin
<1>5. CASE UNCHANGED vars
  BY <1>5, ShapeSame DEF vars
<1> QED
  BY <1>1, <1>2, <1>3, <1>4, <1>5 DEF Next

-----------------------------------------------------------------------------
(* What a step does to the top of the stack, and to the calls of one kind. *)

LEMMA TopLeaves ==
  ASSUME Shape, stack # <<>>, stack' = Below
  PROVE  /\ stack' = <<>> => Len(stack) = 1
         /\ stack' # <<>> => /\ Calls(top', top) /\ Len(stack) > 1
                            /\ top' = stack[Len(stack) - 1]
<1>1. Leaves /\ stack' \in Seq(Frames) /\ Len(stack) \in Nat \ {0} /\ top = stack[Len(stack)]
  BY Leaving, TopFacts DEF Shape
<1>2. CASE stack' = <<>>
  BY <1>1, <1>2, EmptySeq DEF Leaves
<1>3. CASE stack' # <<>>
  <2>1. Len(stack') \in Nat \ {0}
    BY <1>1, <1>3, EmptySeq
  <2>2. top' = stack'[Len(stack')]
    BY DEF top, Last
  <2>3. top' = stack[Len(stack) - 1] /\ Len(stack) - 1 \in 1 .. Len(stack) - 1
    BY <1>1, <2>1, <2>2 DEF Leaves, Kept
  <2>4. Calls(stack[Len(stack) - 1], stack[Len(stack) - 1 + 1])
    BY <2>3 DEF Shape
  <2> QED
    BY <1>1, <1>3, <2>3, <2>4
<1> QED
  BY <1>2, <1>3

LEMMA TopNow ==
  ASSUME Shape, stack # <<>>, NEW f, Now(f)
  PROVE  stack' # <<>> /\ top' = f
<1>1. Goes(f) /\ Len(stack) \in Nat \ {0}
  BY Going, TopFacts DEF Shape
<1> QED
  BY <1>1, EmptySeq DEF Goes, top, Last

LEMMA TopEnter ==
  ASSUME Shape, stack # <<>>, NEW f, NEW e, Enter(f, e)
  PROVE  stack' # <<>> /\ top' = e
<1>1. Enters(f, e) /\ Len(stack) \in Nat \ {0}
  BY Entering, TopFacts DEF Shape
<1> QED
  BY <1>1, EmptySeq DEF Enters, top, Last

(* The call in progress goes on at a place, or calls another from there.   *)
Moved(a) ==
    \E f \in Frames : f.p = top.p /\ f.asked = top.asked /\ f.at = a /\ Now(f)
Called(a, q, c) ==
    \E f \in Frames :
      f.p = top.p /\ f.asked = top.asked /\ f.at = a /\ Enter(f, Frame(q, c))

LEMMA GotoMoves ==
  ASSUME Shape, stack # <<>>, Settled, NEW a \in Places, Goto(a)
  PROVE  Moved(a)
BY TopIsFrame, OnwardFacts DEF Goto, Moved

LEMMA DecidedMoves ==
  ASSUME Shape, stack # <<>>, Settled, NEW a \in Places, NEW d \in Results, Now(Decided(a, d))
  PROVE  Moved(a)
BY TopIsFrame, DecidedFacts DEF Moved

LEMMA SavingMoves ==
  ASSUME Shape, Types, stack # <<>>, Settled, NEW a \in Places, Now(Saving(a))
  PROVE  Moved(a)
BY TopIsFrame, SavingFacts DEF Moved, Types, IoTyped, IoType

LEMMA CallMoves ==
  ASSUME Shape, stack # <<>>, Settled, NEW a \in Places, NEW q, NEW c, Call(a, Frame(q, c))
  PROVE  Called(a, q, c)
BY TopIsFrame, OnwardFacts DEF Call, Called

LEMMA DecidedCallMoves ==
  ASSUME Shape, stack # <<>>, Settled, NEW a \in Places, NEW d \in Results, NEW q, NEW c,
         Enter(Decided(a, d), Frame(q, c))
  PROVE  Called(a, q, c)
BY TopIsFrame, DecidedFacts DEF Called

LEMMA SavingCallMoves ==
  ASSUME Shape, Types, stack # <<>>, Settled, NEW a \in Places, NEW q, NEW c,
         Enter(Saving(a), Frame(q, c))
  PROVE  Called(a, q, c)
BY TopIsFrame, SavingFacts DEF Called, Types, IoTyped, IoType

LEMMA AsideMoves ==
  ASSUME Shape, Types, IdentifyStart
  PROVE  /\ stack # <<>> /\ top.p = "identify" /\ Enter(Aside, Frame("rw", "identify"))
         /\ Called("sent", "rw", "identify")
<1>1. stack # <<>> /\ top.p = "identify" /\ Enter(Aside, Frame("rw", "identify"))
  BY DEF IdentifyStart, At, Aside
<1> QED
  BY <1>1, TopIsFrame, AsideFacts DEF Called

LEMMA MarkedMoves ==
  ASSUME Shape, Types, CheckStart
  PROVE  /\ stack # <<>> /\ top.p = "check" /\ Enter(Marked, Frame("identify", "none"))
         /\ Called("identified", "identify", "none")
<1>1. stack # <<>> /\ top.p = "check" /\ Enter(Marked, Frame("identify", "none"))
  BY DEF CheckStart, At, Marked
<1> QED
  BY <1>1, TopIsFrame, MarkedFacts DEF Called

Has(S) == \E i \in 1 .. Len(stack) : stack[i] \in S

(* Whether a call of the kind S is in progress.                            *)
LEMMA HasEmpty ==
  ASSUME NEW S, stack' = <<>>
  PROVE  ~Has(S)'
BY DEF Has

LEMMA HasLeaves ==
  ASSUME Shape, stack # <<>>, stack' = Below, NEW S
  PROVE  /\ Has(S)' => Has(S)
         /\ Has(S) /\ top \notin S => Has(S)'
<1>1. Leaves /\ Len(stack) \in Nat \ {0} /\ top = stack[Len(stack)]
  BY Leaving, TopFacts DEF Shape
<1> QED
  BY <1>1 DEF Leaves, Kept, Has

LEMMA HasNow ==
  ASSUME Shape, stack # <<>>, NEW f, Now(f), NEW S
  PROVE  /\ Has(S)' => Has(S) \/ f \in S
         /\ Has(S) /\ (top \in S => f \in S) => Has(S)'
         /\ f \in S => Has(S)'
<1>1. Goes(f) /\ Len(stack) \in Nat \ {0} /\ top = stack[Len(stack)]
  BY Going, TopFacts DEF Shape
<1> QED
  BY <1>1 DEF Goes, Kept, Has

LEMMA HasEnter ==
  ASSUME Shape, stack # <<>>, NEW f, NEW e, Enter(f, e), NEW S
  PROVE  /\ Has(S)' => Has(S) \/ f \in S \/ e \in S
         /\ Has(S) /\ (top \in S => f \in S) => Has(S)'
         /\ f \in S => Has(S)'
<1>1. Enters(f, e) /\ Len(stack) \in Nat \ {0} /\ top = stack[Len(stack)]
  BY Entering, TopFacts DEF Shape
<1>2. /\ Len(stack) \in 1 .. Len(stack') /\ stack'[Len(stack)] = f
      /\ stack'[Len(stack) + 1] = e /\ Len(stack') = Len(stack) + 1
      /\ \A i \in 1 .. Len(stack) - 1 : i \in 1 .. Len(stack') /\ stack'[i] = stack[i]
  BY <1>1 DEF Enters, Kept
<1>3. \A i \in 1 .. Len(stack') : \/ i \in 1 .. Len(stack) - 1
                                  \/ i = Len(stack) \/ i = Len(stack) + 1
  BY <1>1, <1>2
<1>4. Has(S)' => Has(S) \/ f \in S \/ e \in S
  BY <1>1, <1>2, <1>3 DEF Has
<1>5. f \in S => Has(S)'
  BY <1>2 DEF Has
<1>6. Has(S) /\ (top \in S => f \in S) => Has(S)'
  BY <1>1, <1>2, <1>5 DEF Has
<1> QED
  BY <1>4, <1>5, <1>6

-----------------------------------------------------------------------------
(* Types.                                                                  *)

LEMMA ConfSame ==
  ASSUME [Next]_vars
  PROVE  conf' = conf
<1>1. CASE Command
  BY <1>1 DEF Command, CommandWait, CommandResetFirst, CommandDone, CommandHangs,
     CommandDisturbed, CommandStopped, CommandResetAfter, CommandFinish
<1>2. CASE Reset
  BY <1>2 DEF Reset, SoftRefused, SoftStart, SoftWait, SoftHardDone, SoftAfter,
     SoftIdentified, SoftLast, SoftIde, HardStart, HardWait, HardCycled, HardAfter,
     HardIdentified, HardLast, HardForced
<1>3. CASE Helper
  BY <1>3 DEF Helper, PowerStart, PowerCycle, PowerDone, ModeStart, ModeDone,
     IdentifyStart, IdentifyDone
<1>4. CASE \/ ReadStart \/ ReadAgain \/ ReadDone \/ ReadChecked
           \/ CheckStart \/ CheckReset \/ CheckDone
  BY <1>4 DEF ReadStart, ReadAgain, ReadDone, ReadChecked, CheckStart, CheckReset,
     CheckDone
<1>5. CASE HardReset \/ Choose \/ Connect \/ Recover
  BY <1>5 DEF HardReset, Choose, Connect, Recover
<1>6. CASE Turn \/ Crash
  BY <1>6 DEF Turn, TurnStart, TurnRead, TurnChecked, TurnRecovered, Crash
<1>7. CASE Stop \/ Disconnect \/ Restart \/ \E what \in Requests : Begin(what)
  BY <1>7 DEF Stop, Disconnect, Restart, Begin
<1>8. CASE UNCHANGED vars
  BY <1>8 DEF vars
<1> QED
  BY <1>1, <1>2, <1>3, <1>4, <1>5, <1>6, <1>7, <1>8 DEF Next, Proceed

LEMMA ConfStep ==
  ASSUME Types, [Next]_vars
  PROVE  ConfTyped'
BY ConfSame DEF Types, ConfTyped

(* The types of single variables.                                          *)
LEMMA StartTypes ==
  /\ NoRegisters \in IoType /\ NoFlags \in FlagType /\ Timers \in TimerType
  /\ NoPast \in PastType
BY DEF NoRegisters, IoType, NoFlags, FlagType, Timers, TimerType, BusyTimes, NoPast,
   PastType, Buffers, Sizes, Asks

LEMMA TreatFacts ==
  ASSUME WorldTyped, Treat
  PROVE  drive' \in {"ready", "hung"} /\ faults' \in 0 .. MaxFaults
BY DirectIOAssumption DEF WorldTyped, Treat, Fault

LEMMA WaitFacts ==
  ASSUME WorldTyped, NEW r, Wait(r)
  PROVE  drive' \in {"ready", "hung"} /\ faults' \in 0 .. MaxFaults
BY DirectIOAssumption DEF WorldTyped, Wait, Fault

LEMMA FaultFacts ==
  ASSUME WorldTyped, Fault
  PROVE  faults' \in 0 .. MaxFaults
BY DirectIOAssumption DEF WorldTyped, Fault

LEMMA LoadFacts ==
  ASSUME Types, NEW c \in Commands
  PROVE  /\ Load(c) \in IoType /\ Load(c).low = c
         /\ Load(c).high = (IF c = "read" /\ conf.wide THEN c ELSE io.high)
         /\ Load(c).size = io.size /\ Load(c).buffer = io.buffer /\ Load(c).error = io.error
         /\ Load(c).known = io.known /\ Load(c).saved = io.saved
BY DEF Load, Types, IoTyped, IoType, Asks

LEMMA FlagStep ==
  ASSUME Types, Shape, [Next]_vars
  PROVE  FlagTyped'
<1>1. CASE Command
  BY <1>1 DEF Types, FlagTyped, FlagType, NoFlags, Command, CommandWait,
     CommandResetFirst, CommandDone, CommandHangs, CommandDisturbed, CommandStopped,
     CommandResetAfter, CommandFinish
<1>2. CASE Reset
  BY <1>2 DEF Types, FlagTyped, FlagType, NoFlags, Reset, SoftRefused, SoftStart,
     SoftWait, SoftHardDone, SoftAfter, SoftIdentified, SoftLast, SoftIde, HardStart,
     HardWait, HardCycled, HardAfter, HardIdentified, HardLast, HardForced
<1>3. CASE Helper
  BY <1>3 DEF Types, FlagTyped, FlagType, NoFlags, Helper, PowerStart, PowerCycle,
     PowerDone, ModeStart, ModeDone, IdentifyStart, IdentifyDone
<1>4. CASE \/ ReadStart \/ ReadAgain \/ ReadDone \/ ReadChecked
           \/ CheckStart \/ CheckReset \/ CheckDone
  BY <1>4 DEF Types, FlagTyped, FlagType, NoFlags, ReadStart, ReadAgain, ReadDone,
     ReadChecked, CheckStart, CheckReset, CheckDone
<1>5. CASE HardReset \/ Choose \/ Connect
  BY <1>5 DEF Types, FlagTyped, FlagType, NoFlags, HardReset, Choose, Chosen, Connect
<1>6. CASE Recover \/ Turn \/ Crash
  BY <1>6 DEF Types, FlagTyped, FlagType, NoFlags, Recover, Turn, TurnStart, TurnRead,
     TurnChecked, TurnRecovered, Crash
<1>7. CASE Stop \/ Disconnect \/ Restart \/ \E what \in Requests : Begin(what)
  BY <1>7, StartTypes DEF Types, FlagTyped, Stop, Disconnect, Restart, Begin
<1>8. CASE UNCHANGED vars
  BY <1>8 DEF Types, FlagTyped, FlagType, NoFlags, vars
<1> QED
  BY <1>1, <1>2, <1>3, <1>4, <1>5, <1>6, <1>7, <1>8 DEF Next, Proceed

LEMMA TimerStep ==
  ASSUME Types, Shape, [Next]_vars
  PROVE  TimerTyped'
<1>1. CASE Command
  BY <1>1 DEF Types, TimerTyped, TimerType, Timers, BusyTimes, Command, CommandWait,
     CommandResetFirst, CommandDone, CommandHangs, CommandDisturbed, CommandStopped,
     CommandResetAfter, CommandFinish
<1>2. CASE Reset
  BY <1>2 DEF Types, TimerTyped, TimerType, Timers, BusyTimes, Reset, SoftRefused,
     SoftStart, SoftWait, SoftHardDone, SoftAfter, SoftIdentified, SoftLast, SoftIde,
     HardStart, HardWait, HardCycled, HardAfter, HardIdentified, HardLast, HardForced
<1>3. CASE Helper
  BY <1>3, TopFields DEF At, Types, TimerTyped, TimerType, BusyTimes, Helper,
     PowerStart, PowerCycle, PowerDone, ModeStart, ModeDone, IdentifyStart, IdentifyDone
<1>4. CASE \/ ReadStart \/ ReadAgain \/ ReadDone \/ ReadChecked
           \/ CheckStart \/ CheckReset \/ CheckDone
  BY <1>4 DEF Types, TimerTyped, TimerType, Timers, BusyTimes, ReadStart, ReadAgain,
     ReadDone, ReadChecked, CheckStart, CheckReset, CheckDone
<1>5. CASE HardReset \/ Choose \/ Connect
  BY <1>5 DEF Types, TimerTyped, TimerType, Timers, BusyTimes, HardReset, Choose, Chosen,
     Connect
<1>6. CASE Recover \/ Turn \/ Crash
  BY <1>6 DEF Types, TimerTyped, TimerType, Timers, BusyTimes, Recover, Turn, TurnStart,
     TurnRead, TurnChecked, TurnRecovered, Crash
<1>7. CASE Stop \/ Disconnect \/ Restart \/ \E what \in Requests : Begin(what)
  BY <1>7 DEF Types, TimerTyped, TimerType, Timers, BusyTimes, Stop, Disconnect, Restart,
     Begin
<1>8. CASE UNCHANGED vars
  BY <1>8 DEF Types, TimerTyped, TimerType, Timers, BusyTimes, vars
<1> QED
  BY <1>1, <1>2, <1>3, <1>4, <1>5, <1>6, <1>7, <1>8 DEF Next, Proceed

LEMMA SwitchStep ==
  ASSUME Types, Shape, [Next]_vars
  PROVE  SwitchTyped'
<1>1. CASE Command
  BY <1>1 DEF Types, SwitchTyped, hardware, Command, CommandWait, CommandResetFirst,
     CommandDone, CommandHangs, CommandDisturbed, CommandStopped, CommandResetAfter,
     CommandFinish
<1>2. CASE Reset
  BY <1>2 DEF Types, SwitchTyped, hardware, Reset, SoftRefused, SoftStart, SoftWait,
     SoftHardDone, SoftAfter, SoftIdentified, SoftLast, SoftIde, HardStart, HardWait,
     HardCycled, HardAfter, HardIdentified, HardLast, HardForced
<1>3. CASE Helper
  BY <1>3 DEF Types, SwitchTyped, hardware, Helper, PowerStart, PowerCycle, PowerDone,
     ModeStart, ModeDone, IdentifyStart, IdentifyDone
<1>4. CASE \/ ReadStart \/ ReadAgain \/ ReadDone \/ ReadChecked
           \/ CheckStart \/ CheckReset \/ CheckDone
  BY <1>4 DEF Types, SwitchTyped, hardware, ReadStart, ReadAgain, ReadDone, ReadChecked,
     CheckStart, CheckReset, CheckDone
<1>5. CASE HardReset \/ Choose \/ Connect
  BY <1>5 DEF Types, SwitchTyped, hardware, HardReset, Choose, Chosen, Connect
<1>6. CASE Recover \/ Turn \/ Crash
  BY <1>6 DEF Types, SwitchTyped, hardware, Recover, Turn, TurnStart, TurnRead,
     TurnChecked, TurnRecovered, Crash
<1>7. CASE Stop \/ Disconnect \/ Restart \/ \E what \in Requests : Begin(what)
  BY <1>7 DEF Types, SwitchTyped, hardware, Stop, Disconnect, Restart, Begin
<1>8. CASE UNCHANGED vars
  BY <1>8 DEF Types, SwitchTyped, hardware, vars
<1> QED
  BY <1>1, <1>2, <1>3, <1>4, <1>5, <1>6, <1>7, <1>8 DEF Next, Proceed

LEMMA WorldStep ==
  ASSUME Types, Shape, [Next]_vars
  PROVE  WorldTyped'
<1>1. CASE Command
  BY <1>1, TreatFacts, WaitFacts, FaultFacts DEF Types, WorldTyped, hardware, Command,
     CommandWait, CommandResetFirst, CommandDone, CommandHangs, CommandDisturbed,
     CommandStopped, CommandResetAfter, CommandFinish
<1>2. CASE Reset
  BY <1>2, TreatFacts, WaitFacts, FaultFacts DEF Types, WorldTyped, hardware, Reset,
     SoftRefused, SoftStart, SoftWait,
     SoftHardDone, SoftAfter, SoftIdentified, SoftLast, SoftIde, HardStart, HardWait,
     HardCycled, HardAfter, HardIdentified, HardLast, HardForced
<1>3. CASE Helper
  BY <1>3, TreatFacts, WaitFacts, FaultFacts DEF Types, WorldTyped, hardware, Helper,
     PowerStart, PowerCycle, PowerDone, ModeStart, ModeDone, IdentifyStart, IdentifyDone
<1>4. CASE \/ ReadStart \/ ReadAgain \/ ReadDone \/ ReadChecked
           \/ CheckStart \/ CheckReset \/ CheckDone
  BY <1>4, TreatFacts, WaitFacts, FaultFacts DEF Types, WorldTyped, hardware, ReadStart,
     ReadAgain, ReadDone, ReadChecked, CheckStart, CheckReset, CheckDone
<1>5. CASE HardReset \/ Choose \/ Connect
  BY <1>5, TreatFacts, WaitFacts, FaultFacts DEF Types, WorldTyped, hardware, HardReset,
     Choose, Chosen, Connect
<1>6. CASE Recover \/ Turn \/ Crash
  BY <1>6, TreatFacts, WaitFacts, FaultFacts DEF Types, WorldTyped, hardware, Recover,
     Turn, TurnStart, TurnRead, TurnChecked, TurnRecovered, Crash
<1>7. CASE Stop \/ Disconnect \/ Restart \/ \E what \in Requests : Begin(what)
  BY <1>7, TreatFacts, WaitFacts, FaultFacts DEF Types, WorldTyped, hardware, Stop,
     Disconnect, Restart, Begin
<1>8. CASE UNCHANGED vars
  BY <1>8 DEF Types, WorldTyped, hardware, vars
<1> QED
  BY <1>1, <1>2, <1>3, <1>4, <1>5, <1>6, <1>7, <1>8 DEF Next, Proceed

LEMMA ResultStep ==
  ASSUME Types, Shape, [Next]_vars
  PROVE  ResultTyped'
<1>1. CASE Command
  BY <1>1, TopFields DEF Types, ResultTyped, Results, Return, At, Command, CommandWait,
     CommandResetFirst, CommandDone, CommandHangs, CommandDisturbed, CommandStopped,
     CommandResetAfter, CommandFinish
<1>2. CASE Reset
  BY <1>2, TopFields DEF Types, ResultTyped, Results, Return, At, Reset, SoftRefused,
     SoftStart, SoftWait, SoftHardDone, SoftAfter, SoftIdentified, SoftLast, SoftIde,
     HardStart, HardWait, HardCycled, HardAfter, HardIdentified, HardLast, HardForced
<1>3. CASE Helper
  BY <1>3, TopFields DEF Types, ResultTyped, Results, Return, At, Helper, PowerStart,
     PowerCycle, PowerDone, ModeStart, ModeDone, IdentifyStart, IdentifyDone
<1>4. CASE \/ ReadStart \/ ReadAgain \/ ReadDone \/ ReadChecked
           \/ CheckStart \/ CheckReset \/ CheckDone
  BY <1>4, TopFields DEF Types, ResultTyped, Results, Return, At, ReadStart, ReadAgain,
     ReadDone, ReadChecked, CheckStart, CheckReset, CheckDone
<1>5. CASE HardReset \/ Choose \/ Connect
  BY <1>5, TopFields DEF Types, ResultTyped, Results, Return, At, HardReset, Choose,
     Chosen, Connect
<1>6. CASE Recover \/ Turn \/ Crash
  BY <1>6, TopFields DEF Types, ResultTyped, Results, Return, At, Recover, Turn,
     TurnStart, TurnRead, TurnChecked, TurnRecovered, Crash
<1>7. CASE Stop \/ Disconnect \/ Restart \/ \E what \in Requests : Begin(what)
  BY <1>7, TopFields DEF Types, ResultTyped, Results, Return, At, Stop, Disconnect,
     Restart, Begin
<1>8. CASE UNCHANGED vars
  BY <1>8 DEF Types, ResultTyped, Results, Return, At, vars
<1> QED
  BY <1>1, <1>2, <1>3, <1>4, <1>5, <1>6, <1>7, <1>8 DEF Next, Proceed

LEMMA PastStep ==
  ASSUME Types, Shape, [Next]_vars
  PROVE  PastTyped'
<1>1. CASE Command
  BY <1>1 DEF Types, PastTyped, PastType, Command, CommandWait, CommandResetFirst,
     CommandDone, CommandHangs, CommandDisturbed, CommandStopped, CommandResetAfter,
     CommandFinish
<1>2. CASE Reset
  BY <1>2 DEF Types, PastTyped, PastType, Reset, SoftRefused, SoftStart, SoftWait,
     SoftHardDone, SoftAfter, SoftIdentified, SoftLast, SoftIde, HardStart, HardWait,
     HardCycled, HardAfter, HardIdentified, HardLast, HardForced
<1>3. CASE Helper
  BY <1>3 DEF Types, PastTyped, PastType, Helper, PowerStart, PowerCycle, PowerDone,
     ModeStart, ModeDone, IdentifyStart, IdentifyDone
<1>4. CASE \/ ReadStart \/ ReadAgain \/ ReadDone \/ ReadChecked
           \/ CheckStart \/ CheckReset \/ CheckDone
  BY <1>4 DEF Types, PastTyped, PastType, ReadStart, ReadAgain, ReadDone, ReadChecked,
     CheckStart, CheckReset, CheckDone
<1>5. CASE HardReset \/ Choose \/ Connect
  BY <1>5 DEF Types, PastTyped, PastType, HardReset, Choose, Chosen, Connect
<1>6. CASE Recover \/ Turn \/ Crash
  <2>1. io.buffer \in Buffers
    BY DEF Types, IoTyped, IoType
  <2> QED
    BY <1>6, <2>1 DEF Types, PastTyped, PastType, Recover, Turn, TurnStart, TurnRead,
       TurnChecked, TurnRecovered, Crash
<1>7. CASE Stop \/ Disconnect \/ Restart \/ \E what \in Requests : Begin(what)
  <2>1. ASSUME NEW what \in Requests, Begin(what) PROVE PastTyped'
    <3>1. (past.lost /\ source = "connected") \in BOOLEAN
      OBVIOUS
    <3>2. past' = [NoPast EXCEPT !.lost = past.lost /\ source = "connected"]
      BY <2>1 DEF Begin
    <3> QED
      BY <3>1, <3>2, StartTypes DEF PastTyped, PastType
  <2> QED
    BY <1>7, <2>1, StartTypes DEF Types, PastTyped, Stop, Disconnect, Restart
<1>8. CASE UNCHANGED vars
  BY <1>8 DEF Types, PastTyped, PastType, vars
<1> QED
  BY <1>1, <1>2, <1>3, <1>4, <1>5, <1>6, <1>7, <1>8 DEF Next, Proceed

-----------------------------------------------------------------------------
(* No command is in progress before the registers were filled.             *)

RwFrames == {f \in Frames : f.p = "rw"}
Loaded == Has(RwFrames) => io.low # "none"

LEMMA RwLeaves ==
  ASSUME Shape, stack # <<>>, stack' = Below
  PROVE  Has(RwFrames)' => Has(RwFrames)
BY HasLeaves

LEMMA RwMoved ==
  ASSUME Shape, stack # <<>>, NEW a, Moved(a)
  PROVE  Has(RwFrames)' => Has(RwFrames)
<1>1. PICK f \in Frames : f.p = top.p /\ Now(f)
  BY DEF Moved
<1>2. f \in RwFrames => Has(RwFrames)
  BY <1>1, TopIsFrame DEF RwFrames, Has
<1> QED
  BY <1>1, <1>2, HasNow

LEMMA RwCalled ==
  ASSUME Shape, stack # <<>>, NEW a, NEW q, NEW c, Called(a, q, c), q \in Procs, c \in Asks
  PROVE  q = "rw" \/ (Has(RwFrames)' => Has(RwFrames))
<1> SUFFICES ASSUME q # "rw" PROVE Has(RwFrames)' => Has(RwFrames)
  OBVIOUS
<1>1. PICK f \in Frames : f.p = top.p /\ Enter(f, Frame(q, c))
  BY DEF Called
<1>2. f \in RwFrames => Has(RwFrames)
  BY <1>1, TopIsFrame DEF RwFrames, Has
<1>3. Frame(q, c) \notin RwFrames
  BY FrameFacts DEF RwFrames
<1> QED
  BY <1>1, <1>2, <1>3, HasEnter

LEMMA BeginFacts ==
  ASSUME Types, NEW what \in Requests, Begin(what)
  PROVE  /\ what \in Asked /\ what \in Procs /\ Frame(what, "none") \in Frames
         /\ Frame(what, "none").p = what /\ Frame(what, "none").at = "start"
         /\ Len(stack') = 1 /\ stack'[1] = Frame(what, "none") /\ stack' # <<>>
         /\ top' = Frame(what, "none")
<1>1. what \in Asked /\ what \in Procs
  BY Names DEF Requests, Types, WorldTyped, Asked
<1>2. /\ Frame(what, "none") \in Frames /\ Frame(what, "none").p = what
      /\ Frame(what, "none").at = "start"
  BY <1>1, Names, FrameFacts
<1> DEFINE f == Frame(what, "none")
<1>3. stack' = <<f>>
  BY DEF Begin
<1> HIDE DEF f
<1>4. Len(stack') = 1 /\ stack'[1] = f /\ stack' # <<>>
  BY <1>3
<1>5. top' = f
  BY <1>4 DEF top, Last
<1> QED
  BY <1>1, <1>2, <1>4, <1>5 DEF f

LEMMA RwBegins ==
  ASSUME Types, NEW what \in Requests, Begin(what)
  PROVE  ~Has(RwFrames)'
<1>1. Frame(what, "none").p # "rw"
  BY BeginFacts DEF Asked
<1> QED
  BY <1>1, BeginFacts DEF Has, RwFrames

(* Only those who filled the registers send a command.                     *)
LEMMA RwStays ==
  ASSUME Types, Shape, Next, ~(ModeStart \/ IdentifyStart \/ ReadStart \/ ReadAgain)
  PROVE  Has(RwFrames)' => Has(RwFrames)
<1> USE Names, RwLeaves, RwMoved, RwCalled DEF At, Return, Settled
<1>1. CASE CommandWait
  BY <1>1, GotoMoves, CallMoves DEF CommandWait
<1>2. CASE CommandResetFirst
  BY <1>2, DecidedMoves DEF CommandResetFirst, Results
<1>3. CASE CommandDone
  BY <1>3, GotoMoves DEF CommandDone
<1>4. CASE CommandHangs
  BY <1>4, DecidedMoves, DecidedCallMoves DEF CommandHangs, Results
<1>5. CASE CommandDisturbed
  BY <1>5, DecidedMoves, DecidedCallMoves DEF CommandDisturbed, Results
<1>6. CASE CommandStopped
  BY <1>6 DEF CommandStopped
<1>7. CASE CommandResetAfter
  BY <1>7, TopFields, DecidedMoves DEF CommandResetAfter, Results
<1>8. CASE CommandFinish
  BY <1>8 DEF CommandFinish
<1>9. CASE SoftRefused
  BY <1>9 DEF SoftRefused
<1>10. CASE SoftStart
  BY <1>10, GotoMoves, SavingMoves, SavingCallMoves DEF SoftStart
<1>11. CASE SoftWait
  BY <1>11, CallMoves, DecidedMoves DEF SoftWait, Results
<1>12. CASE SoftHardDone
  BY <1>12, DecidedMoves DEF SoftHardDone, Types, ResultTyped
<1>13. CASE SoftAfter
  BY <1>13, CallMoves DEF SoftAfter
<1>14. CASE SoftIdentified
  BY <1>14, CallMoves DEF SoftIdentified
<1>15. CASE SoftLast
  BY <1>15 DEF SoftLast
<1>16. CASE SoftIde
  BY <1>16, CallMoves DEF SoftIde
<1>17. CASE HardStart
  BY <1>17, SavingMoves, CallMoves DEF HardStart
<1>18. CASE HardWait
  BY <1>18, GotoMoves, CallMoves DEF HardWait
<1>19. CASE HardCycled
  BY <1>19, GotoMoves DEF HardCycled
<1>20. CASE HardAfter
  BY <1>20, CallMoves DEF HardAfter
<1>21. CASE HardIdentified
  BY <1>21, CallMoves DEF HardIdentified
<1>22. CASE HardLast
  BY <1>22 DEF HardLast
<1>23. CASE HardForced
  BY <1>23, CallMoves DEF HardForced
<1>24. CASE PowerStart
  BY <1>24, GotoMoves DEF PowerStart
<1>25. CASE PowerCycle
  BY <1>25, CallMoves DEF PowerCycle
<1>26. CASE PowerDone
  BY <1>26 DEF PowerDone
<1>27. CASE ModeDone
  BY <1>27 DEF ModeDone
<1>28. CASE IdentifyDone
  BY <1>28 DEF IdentifyDone
<1>29. CASE ReadDone
  BY <1>29, DecidedCallMoves DEF ReadDone, Types, ResultTyped
<1>30. CASE ReadChecked
  BY <1>30 DEF ReadChecked
<1>31. CASE CheckStart
  BY <1>31, MarkedMoves
<1>32. CASE CheckReset
  BY <1>32, CallMoves DEF CheckReset
<1>33. CASE CheckDone
  BY <1>33 DEF CheckDone
<1>34. CASE HardReset
  BY <1>34, CallMoves DEF HardReset
<1>35. CASE Choose
  BY <1>35, CallMoves DEF Choose, Chosen
<1>36. CASE Connect
  BY <1>36, CallMoves DEF Connect
<1>37. CASE Recover
  BY <1>37, CallMoves, GotoMoves DEF Recover
<1>38. CASE Turn
  BY <1>38, CallMoves DEF Turn, TurnStart, TurnRead, TurnChecked, TurnRecovered
<1>39. CASE Crash
  BY <1>39, HasEmpty DEF Crash
<1>40. CASE Stop \/ Disconnect
  BY <1>40 DEF Stop, Disconnect, Has
<1>41. CASE Restart
  BY <1>41, HasEmpty DEF Restart
<1>42. ASSUME NEW what \in Requests, Begin(what) PROVE ~Has(RwFrames)'
  BY <1>42, RwBegins
<1> QED
  BY <1>1, <1>2, <1>3, <1>4, <1>5, <1>6, <1>7, <1>8, <1>9, <1>10, <1>11, <1>12, <1>13,
     <1>14, <1>15, <1>16, <1>17, <1>18, <1>19, <1>20, <1>21, <1>22, <1>23, <1>24, <1>25,
     <1>26, <1>27, <1>28, <1>29, <1>30, <1>31, <1>32, <1>33, <1>34, <1>35, <1>36, <1>37,
     <1>38, <1>39,
     <1>40, <1>41, <1>42
     DEF Next, Proceed, Command, Reset, Helper

(* The registers are not emptied while a command is in progress.           *)
LEMMA LowStays ==
  ASSUME Types, Next, ~(ModeStart \/ IdentifyStart \/ ReadStart \/ ReadAgain)
  PROVE  io'.low = io.low \/ ~Has(RwFrames)'
<1> USE DEF Types, IoTyped, IoType
<1>1. CASE Command
  BY <1>1 DEF Command, CommandWait, CommandResetFirst, CommandDone, CommandHangs,
     CommandDisturbed, CommandStopped, CommandResetAfter, CommandFinish
<1>2. CASE Reset
  BY <1>2 DEF Reset, SoftRefused, SoftStart, SoftWait, SoftHardDone,
     SoftAfter, SoftIdentified, SoftLast, SoftIde, HardStart, HardWait, HardCycled,
     HardAfter, HardIdentified, HardLast, HardForced
<1>3. CASE Helper
  BY <1>3 DEF Helper, PowerStart, PowerCycle, PowerDone, ModeStart,
     ModeDone, IdentifyStart, IdentifyDone
<1>4. CASE \/ ReadStart \/ ReadAgain \/ ReadDone \/ ReadChecked
           \/ CheckStart \/ CheckReset \/ CheckDone
  BY <1>4 DEF ReadStart, ReadAgain, ReadDone, ReadChecked, CheckStart,
     CheckReset, CheckDone
<1>5. CASE HardReset \/ Choose \/ Connect
  BY <1>5 DEF HardReset, Choose, Chosen, Connect
<1>6. CASE Recover \/ Turn \/ Crash
  BY <1>6 DEF Recover, Turn, TurnStart, TurnRead, TurnChecked, TurnRecovered, Crash
<1>7. CASE Stop \/ Disconnect \/ \E what \in Requests : Begin(what)
  BY <1>7 DEF Stop, Disconnect, Begin
<1>8. CASE Restart
  BY <1>8, HasEmpty DEF Restart
<1> QED
  BY <1>1, <1>2, <1>3, <1>4, <1>5, <1>6, <1>7, <1>8 DEF Next, Proceed

LEMMA LoadedStep ==
  ASSUME Types, Shape, Loaded, [Next]_vars
  PROVE  Loaded'
<1>1. CASE ModeStart \/ IdentifyStart \/ ReadStart \/ ReadAgain
  BY <1>1, LoadFacts, Names DEF ModeStart, IdentifyStart, ReadStart, ReadAgain, Loaded,
     Commands, IoType
<1>2. CASE Next /\ ~(ModeStart \/ IdentifyStart \/ ReadStart \/ ReadAgain)
  <2>1. Has(RwFrames)' => Has(RwFrames)
    BY <1>2, RwStays
  <2>2. io'.low = io.low \/ ~Has(RwFrames)'
    BY <1>2, LowStays
  <2> QED
    BY <2>1, <2>2 DEF Loaded
<1>3. CASE UNCHANGED vars
  BY <1>3 DEF vars, Loaded, Has
<1> QED
  BY <1>1, <1>2, <1>3

(* So what a command sends is a command.                                   *)
LEMMA SentFacts ==
  ASSUME Types, Shape, Loaded, stack # <<>>, top.p = "rw", Sent(top.asked) # "mixed"
  PROVE  SizeOf[Sent(top.asked)] \in Sizes
<1>1. Has(RwFrames)
  BY TopIsFrame DEF Has, RwFrames
<1>2. io.low \in Commands
  BY <1>1 DEF Loaded, Types, IoTyped, IoType, Asks
<1>3. Sent(top.asked) \in Commands
  BY <1>2 DEF Sent
<1> QED
  BY <1>3 DEF SizeOf, Commands, Sizes

LEMMA IoStep ==
  ASSUME Types, Shape, Loaded, [Next]_vars
  PROVE  IoTyped'
<1> USE DEF Types, IoTyped, IoType
<1>1. CASE CommandDone
  <2>1. Transferred(SizeOf[Sent(top.asked)]) \in Buffers \/ Sent(top.asked) = "mixed"
    BY <1>1, SentFacts DEF CommandDone, At, Transferred, Sizes, Buffers
  <2> QED
    BY <1>1, <2>1 DEF CommandDone
<1>2. CASE Command /\ ~CommandDone
  BY <1>2 DEF Command, CommandWait, CommandResetFirst, CommandHangs, CommandDisturbed,
     CommandStopped, CommandResetAfter, CommandFinish, Buffers
<1>3. CASE Reset
  BY <1>3, TopFields DEF At, Reset, SoftRefused, SoftStart, SoftWait, SoftHardDone,
     SoftAfter, SoftIdentified, SoftLast, SoftIde, HardStart, HardWait, HardCycled,
     HardAfter, HardIdentified, HardLast, HardForced, Sizes
<1>4. CASE PowerStart \/ PowerCycle \/ PowerDone \/ ModeStart \/ ModeDone
  BY <1>4, TopFields, LoadFacts, Names DEF At, PowerStart, PowerCycle, PowerDone,
     ModeStart, ModeDone, Sizes, Commands
<1>5. CASE IdentifyStart
  BY <1>5, LoadFacts, ZenonT(30) DEF IdentifyStart, Sizes, Buffers, Commands
<1>6. CASE IdentifyDone
  BY <1>6, TopFields DEF At, IdentifyDone
<1>7. CASE ReadStart \/ ReadAgain
  BY <1>7, LoadFacts, ZenonT(30) DEF ReadStart, ReadAgain, Sizes, Buffers, Commands
<1>8. CASE ReadDone \/ ReadChecked \/ CheckStart \/ CheckReset
  BY <1>8 DEF ReadDone, ReadChecked, CheckStart, CheckReset
<1>9. CASE CheckDone
  BY <1>9, TopFields DEF At, CheckDone
<1>10. CASE HardReset \/ Choose \/ Connect
  BY <1>10 DEF HardReset, Choose, Chosen, Connect
<1>11. CASE Recover \/ Turn \/ Crash
  BY <1>11 DEF Recover, Turn, TurnStart, TurnRead, TurnChecked, TurnRecovered, Crash
<1>12. CASE Stop \/ Disconnect \/ Restart \/ \E what \in Requests : Begin(what)
  BY <1>12, StartTypes DEF Stop, Disconnect, Restart, Begin
<1>13. CASE UNCHANGED vars
  BY <1>13 DEF vars
<1> QED
  BY <1>1, <1>2, <1>3, <1>4, <1>5, <1>6, <1>7, <1>8, <1>9, <1>10, <1>11, <1>12, <1>13
     DEF Next, Proceed, Helper

Typed == Types /\ Shape /\ Loaded

LEMMA TypedInit ==
  ASSUME Init
  PROVE  Typed
<1>1. Shape /\ Loaded
  BY DEF Init, Shape, Loaded, Has
<1>2. ConfTyped
  BY DirectIOAssumption DEF Init, ConfTyped
<1>3. IoTyped /\ FlagTyped /\ TimerTyped /\ PastTyped
  BY StartTypes DEF Init, IoTyped, FlagTyped, TimerTyped, PastTyped
<1>4. ResultTyped /\ SwitchTyped
  BY DEF Init, ResultTyped, Results, SwitchTyped
<1>5. WorldTyped
  BY DirectIOAssumption DEF Init, WorldTyped
<1> QED
  BY <1>1, <1>2, <1>3, <1>4, <1>5 DEF Typed, Types

LEMMA TypedStep ==
  ASSUME Typed, [Next]_vars
  PROVE  Typed'
<1>1. Shape' /\ Loaded'
  BY ShapeStep, LoadedStep DEF Typed
<1>2. ConfTyped' /\ ResultTyped' /\ IoTyped' /\ FlagTyped'
  BY ConfStep, ResultStep, IoStep, FlagStep DEF Typed
<1>3. TimerTyped' /\ PastTyped' /\ SwitchTyped' /\ WorldTyped'
  BY TimerStep, PastStep, SwitchStep, WorldStep DEF Typed
<1> QED
  BY <1>1, <1>2, <1>3 DEF Typed, Types

LEMMA AlwaysTyped == Spec => []Typed
<1>1. Init => Typed
  BY TypedInit
<1>2. Typed /\ [Next]_vars => Typed'
  BY TypedStep
<1> QED
  BY <1>1, <1>2, PTL DEF Spec

(* The variables have the types the functions expect of them, whatever     *)
(* calls are in progress: in particular a command that is sent was loaded. *)
THEOREM TypeCorrect == Spec => []TypeOK
<1>1. Typed => TypeOK
  <2> SUFFICES ASSUME Typed PROVE TypeOK
    OBVIOUS
  <2>1. \A i \in DOMAIN stack : stack[i].p \in Procs
    BY ElementOfSeq DEF Typed, Shape, Frames, Records
  <2>2. flag \in [{"performing", "reset", "hard", "power"} -> BOOLEAN]
    BY DEF Typed, Types, FlagTyped, FlagType
  <2> QED
    BY <2>1, <2>2 DEF TypeOK, Typed, Types, ResultTyped, IoTyped, IoType, SwitchTyped,
       WorldTyped, Procs, Results, Asks, Sizes, Buffers
<1> QED
  BY <1>1, AlwaysTyped, PTL

-----------------------------------------------------------------------------
(* The registers are mapped.                                               *)

(* Where they may be unmapped although no power cycle failed.              *)
Window ==
    IF stack = <<>> THEN source # "connected"
    ELSE \/ top.p = "power" /\ top.at = "off"
         \/ top.p = "recover" /\ top.at \in {"released", "released_again"}
         \/ top.p = "turn" /\ top.at \in {"recovered", "slow"} /\ result # "ok"
         \/ top.p \in {"choose", "connect"} /\ top.at = "start"
Fresh == stack # <<>> /\ top.p = "connect" /\ top.at = "start"
Mapping ==
    /\ crashed => past.lost /\ stack = <<>>
    /\ mapped \/ past.lost \/ Window
    /\ Fresh => source # "connected"

LEMMA FreshLeaves ==
  ASSUME Shape, stack # <<>>, stack' = Below
  PROVE  ~Fresh'
BY TopLeaves DEF Fresh, Calls, MayCall

LEMMA FreshMoved ==
  ASSUME Shape, stack # <<>>, NEW a, Moved(a)
  PROVE  a # "start" => ~Fresh'
<1>1. PICK f \in Frames : f.at = a /\ Now(f)
  BY DEF Moved
<1> QED
  BY <1>1, TopNow DEF Fresh

LEMMA FreshCalled ==
  ASSUME Shape, stack # <<>>, NEW a, NEW q, NEW c, Called(a, q, c), q \in Procs, c \in Asks
  PROVE  q # "connect" => ~Fresh'
<1>1. PICK f \in Frames : Enter(f, Frame(q, c))
  BY DEF Called
<1>2. top' = Frame(q, c) /\ Frame(q, c).p = q
  BY <1>1, TopEnter, FrameFacts
<1> QED
  BY <1>2 DEF Fresh

(* Most steps neither map nor unmap.                                       *)
LEMMA Quiet ==
  ASSUME Mapping, stack # <<>>, ~Window, mapped' = mapped, past'.lost = past.lost,
         crashed' = crashed, ~Fresh'
  PROVE  Mapping'
BY DEF Mapping

LEMMA MappingQuiet ==
  ASSUME Typed, Mapping, Proceed, ~PowerStart, ~PowerCycle, ~Choose, ~Connect, ~Recover,
         ~Turn, ~Crash
  PROVE  Mapping'
<1> USE Names, FreshLeaves, FreshMoved, FreshCalled, Quiet
    DEF At, Return, Settled, Typed, Window, hardware, Types, PastTyped, PastType
<1>1. CASE CommandWait
  BY <1>1, GotoMoves, CallMoves DEF CommandWait
<1>2. CASE CommandResetFirst
  BY <1>2, DecidedMoves DEF CommandResetFirst, Results
<1>3. CASE CommandDone
  BY <1>3, GotoMoves DEF CommandDone
<1>4. CASE CommandHangs
  BY <1>4, DecidedMoves, DecidedCallMoves DEF CommandHangs, Results
<1>5. CASE CommandDisturbed
  BY <1>5, DecidedMoves, DecidedCallMoves DEF CommandDisturbed, Results
<1>6. CASE CommandStopped
  BY <1>6 DEF CommandStopped
<1>7. CASE CommandResetAfter
  BY <1>7, TopFields, DecidedMoves DEF CommandResetAfter, Results
<1>8. CASE CommandFinish
  BY <1>8 DEF CommandFinish
<1>9. CASE SoftRefused
  BY <1>9 DEF SoftRefused
<1>10. CASE SoftStart
  BY <1>10, GotoMoves, SavingMoves, SavingCallMoves DEF SoftStart
<1>11. CASE SoftWait
  BY <1>11, CallMoves, DecidedMoves DEF SoftWait, Results
<1>12. CASE SoftHardDone
  BY <1>12, DecidedMoves DEF SoftHardDone, Types, ResultTyped
<1>13. CASE SoftAfter
  BY <1>13, CallMoves DEF SoftAfter
<1>14. CASE SoftIdentified
  BY <1>14, CallMoves DEF SoftIdentified
<1>15. CASE SoftLast
  BY <1>15 DEF SoftLast
<1>16. CASE SoftIde
  BY <1>16, CallMoves DEF SoftIde
<1>17. CASE HardStart
  BY <1>17, SavingMoves, CallMoves DEF HardStart
<1>18. CASE HardWait
  BY <1>18, GotoMoves, CallMoves DEF HardWait
<1>19. CASE HardCycled
  BY <1>19, GotoMoves DEF HardCycled
<1>20. CASE HardAfter
  BY <1>20, CallMoves DEF HardAfter
<1>21. CASE HardIdentified
  BY <1>21, CallMoves DEF HardIdentified
<1>22. CASE HardLast
  BY <1>22 DEF HardLast
<1>23. CASE HardForced
  BY <1>23, CallMoves DEF HardForced
<1>24. CASE PowerDone
  BY <1>24 DEF PowerDone
<1>25. CASE ModeStart
  BY <1>25, SavingCallMoves DEF ModeStart
<1>26. CASE ModeDone
  BY <1>26 DEF ModeDone
<1>27. CASE IdentifyStart
  BY <1>27, AsideMoves DEF IdentifyStart
<1>28. CASE IdentifyDone
  BY <1>28 DEF IdentifyDone
<1>29. CASE ReadStart
  BY <1>29, CallMoves DEF ReadStart
<1>30. CASE ReadAgain
  BY <1>30, CallMoves DEF ReadAgain
<1>31. CASE ReadDone
  BY <1>31, DecidedCallMoves DEF ReadDone, Types, ResultTyped
<1>32. CASE ReadChecked
  BY <1>32 DEF ReadChecked
<1>33. CASE CheckStart
  BY <1>33, MarkedMoves DEF CheckStart
<1>34. CASE CheckReset
  BY <1>34, CallMoves DEF CheckReset
<1>35. CASE CheckDone
  BY <1>35 DEF CheckDone
<1>36. CASE HardReset
  BY <1>36, CallMoves DEF HardReset
<1> QED
  BY <1>1, <1>2, <1>3, <1>4, <1>5, <1>6, <1>7, <1>8, <1>9, <1>10, <1>11, <1>12, <1>13,
     <1>14, <1>15, <1>16, <1>17, <1>18, <1>19, <1>20, <1>21, <1>22, <1>23, <1>24,
     <1>25, <1>26, <1>27, <1>28, <1>29, <1>30, <1>31, <1>32, <1>33, <1>34, <1>35, <1>36
     DEF Proceed, Command, Reset, Helper

(* What a recovery, a turn, a choice and a connection return to.           *)
LEMMA TopFallsBack ==
  ASSUME Shape, stack # <<>>, stack' = Below
  PROVE  /\ top.p \in {"turn", "choose", "connect"} => stack' = <<>>
         /\ top.p = "recover" =>
              stack' # <<>> /\ top'.p = "turn" /\ top'.at \in {"slow", "recovered"}
<1>1. top.p \in {"turn", "choose", "connect"} => stack' = <<>>
  BY TopLeaves DEF Calls, MayCall
<1>2. ASSUME top.p = "recover" PROVE stack' # <<>>
  <2>1. stack[1].p \in Asked
    BY DEF Shape
  <2>2. Len(stack) # 1
    BY <1>2, <2>1, TopIsFrame DEF Asked
  <2> QED
    BY <2>2, TopLeaves
<1> QED
  BY <1>1, <1>2, TopLeaves DEF Calls, MayCall

LEMMA MappingStep ==
  ASSUME Typed, Mapping, [Next]_vars
  PROVE  Mapping'
<1> USE Names, FreshLeaves, FreshMoved, FreshCalled
    DEF At, Return, Settled, Typed, hardware, Types, PastTyped, PastType
<1>1. CASE Proceed /\ ~PowerStart /\ ~PowerCycle /\ ~Choose /\ ~Connect /\ ~Recover
           /\ ~Turn /\ ~Crash
  BY <1>1, MappingQuiet
<1>2. CASE PowerStart
  <2>1. CASE mapped' = mapped
    BY <1>2, <2>1, Quiet, GotoMoves DEF PowerStart, Window
  <2>2. CASE Goto("off")
    <3>1. Moved("off")
      BY <1>2, <2>2, GotoMoves DEF PowerStart
    <3>2. stack' # <<>> /\ top'.p = "power" /\ top'.at = "off"
      BY <1>2, <3>1, TopNow DEF PowerStart, Moved
    <3> QED
      BY <1>2, <3>2 DEF PowerStart, Mapping, Window, Fresh
  <2> QED
    BY <1>2, <2>1, <2>2 DEF PowerStart
<1>3. CASE PowerCycle
  BY <1>3, CallMoves DEF PowerCycle, Mapping
<1>4. CASE Choose
  BY <1>4, CallMoves, TopFallsBack DEF Choose, Chosen, Mapping, Window
<1>5. CASE Connect
  BY <1>5, CallMoves, TopFallsBack DEF Connect, Mapping, Window, Fresh
<1>6. CASE Recover
  <2>1. CASE mapped' = FALSE /\ (Goto("released") \/ Goto("released_again"))
    <3>1. Moved("released") \/ Moved("released_again")
      BY <1>6, <2>1, GotoMoves DEF Recover
    <3>2. stack' # <<>> /\ top'.p = "recover" /\ top'.at \in {"released", "released_again"}
      BY <1>6, <3>1, TopNow DEF Recover, Moved
    <3> QED
      BY <1>6, <3>2, <2>1 DEF Recover, Mapping, Window, Fresh
  <2>2. CASE top.at \in {"released", "released_again"}
    BY <1>6, <2>2, TopFallsBack, CallMoves DEF Recover, Mapping, Window, Fault, Treat
  <2>3. CASE top.at \notin {"released", "released_again"} /\ mapped' = mapped
    BY <1>6, <2>3, Quiet, CallMoves, GotoMoves DEF Recover, Window
  <2> QED
    BY <1>6, <2>1, <2>2, <2>3 DEF Recover
<1>7. CASE Turn
  BY <1>7, CallMoves, TopFallsBack
     DEF Turn, TurnStart, TurnRead, TurnChecked, TurnRecovered, Mapping, Window
<1>8. CASE Crash
  BY <1>8 DEF Crash, Mapping, Window, Accessing, Fresh
<1>9. CASE Stop \/ Disconnect
  BY <1>9 DEF Stop, Disconnect, Mapping, Window, Fresh, top
<1>10. CASE Restart
  BY <1>10 DEF Restart, Mapping, Window, Fresh
<1>11. ASSUME NEW what \in Requests, Begin(what) PROVE Mapping'
  BY <1>11, BeginFacts DEF Begin, Mapping, Window, Fresh, Requests, WorldTyped
<1>12. CASE UNCHANGED vars
  BY <1>12 DEF vars, Mapping, Window, Fresh, top
<1> QED
  BY <1>1, <1>2, <1>3, <1>4, <1>5, <1>6, <1>7, <1>8, <1>9, <1>10, <1>11, <1>12
     DEF Next, Proceed

(* An access to registers that are not mapped, and a drive shown as        *)
(* connected whose registers are not, are the work of a power cycle that   *)
(* failed (call_command_on_power_cycle), however deep in a read, a check   *)
(* or a reset it was: no stop, no recovery and no connection that fails    *)
(* gets there.                                                             *)
THEOREM OnlyPowerFailureKills == Spec => []DiesOnlyOfPowerFailure
<1>1. Init => Mapping
  BY DEF Init, Mapping, Window, Fresh
<1>2. Typed /\ Mapping /\ [Next]_vars => Mapping'
  BY MappingStep
<1>3. Mapping => DiesOnlyOfPowerFailure
  BY DEF Mapping, Window, DiesOnlyOfPowerFailure, Idle
<1> QED
  BY <1>1, <1>2, <1>3, AlwaysTyped, PTL DEF Spec

-----------------------------------------------------------------------------
(* A call that goes on leaves those below it as they are.                  *)

MovesOn ==
    \/ Leaves
    \/ \E f \in Frames : f.p = top.p /\ f.asked = top.asked /\ Goes(f)
    \/ \E f, e \in Frames :
         f.p = top.p /\ f.asked = top.asked /\ e.at = "start" /\ Enters(f, e)

(* The three ways, and that every step goes one of them.                   *)
LEMMA LeavesOn ==
  ASSUME Shape, stack # <<>>, stack' = Below
  PROVE  MovesOn
BY Leaving DEF Shape, MovesOn

LEMMA MovedOn ==
  ASSUME Shape, stack # <<>>, NEW a, Moved(a)
  PROVE  MovesOn
BY Going DEF Shape, MovesOn, Moved

LEMMA CalledOn ==
  ASSUME Shape, stack # <<>>, NEW a, NEW q, NEW c, Called(a, q, c), q \in Procs, c \in Asks
  PROVE  MovesOn
<1>1. PICK f \in Frames : f.p = top.p /\ f.asked = top.asked /\ Enter(f, Frame(q, c))
  BY DEF Called
<1>2. Frame(q, c) \in Frames /\ Frame(q, c).at = "start"
  BY FrameFacts
<1> QED
  BY <1>1, <1>2, Entering DEF Shape, MovesOn

LEMMA StepsOn ==
  ASSUME Typed, Proceed, ~Crash
  PROVE  stack # <<>> /\ MovesOn
<1> USE Names, LeavesOn, MovedOn, CalledOn DEF At, Return, Settled, Typed
<1>1. CASE CommandWait
  BY <1>1, GotoMoves, CallMoves DEF CommandWait
<1>2. CASE CommandResetFirst
  BY <1>2, DecidedMoves DEF CommandResetFirst, Results
<1>3. CASE CommandDone
  BY <1>3, GotoMoves DEF CommandDone
<1>4. CASE CommandHangs
  BY <1>4, DecidedMoves, DecidedCallMoves DEF CommandHangs, Results
<1>5. CASE CommandDisturbed
  BY <1>5, DecidedMoves, DecidedCallMoves DEF CommandDisturbed, Results
<1>6. CASE CommandStopped
  BY <1>6 DEF CommandStopped
<1>7. CASE CommandResetAfter
  BY <1>7, TopFields, DecidedMoves DEF CommandResetAfter, Results
<1>8. CASE CommandFinish
  BY <1>8 DEF CommandFinish
<1>9. CASE SoftRefused
  BY <1>9 DEF SoftRefused
<1>10. CASE SoftStart
  BY <1>10, GotoMoves, SavingMoves, SavingCallMoves DEF SoftStart
<1>11. CASE SoftWait
  BY <1>11, CallMoves, DecidedMoves DEF SoftWait, Results
<1>12. CASE SoftHardDone
  BY <1>12, DecidedMoves DEF SoftHardDone, Types, ResultTyped
<1>13. CASE SoftAfter
  BY <1>13, CallMoves DEF SoftAfter
<1>14. CASE SoftIdentified
  BY <1>14, CallMoves DEF SoftIdentified
<1>15. CASE SoftLast
  BY <1>15 DEF SoftLast
<1>16. CASE SoftIde
  BY <1>16, CallMoves DEF SoftIde
<1>17. CASE HardStart
  BY <1>17, SavingMoves, CallMoves DEF HardStart
<1>18. CASE HardWait
  BY <1>18, GotoMoves, CallMoves DEF HardWait
<1>19. CASE HardCycled
  BY <1>19, GotoMoves DEF HardCycled
<1>20. CASE HardAfter
  BY <1>20, CallMoves DEF HardAfter
<1>21. CASE HardIdentified
  BY <1>21, CallMoves DEF HardIdentified
<1>22. CASE HardLast
  BY <1>22 DEF HardLast
<1>23. CASE HardForced
  BY <1>23, CallMoves DEF HardForced
<1>24. CASE PowerStart
  BY <1>24, GotoMoves DEF PowerStart
<1>25. CASE PowerCycle
  BY <1>25, CallMoves DEF PowerCycle
<1>26. CASE PowerDone
  BY <1>26 DEF PowerDone
<1>27. CASE ModeStart
  BY <1>27, SavingCallMoves DEF ModeStart
<1>28. CASE ModeDone
  BY <1>28 DEF ModeDone
<1>29. CASE IdentifyStart
  BY <1>29, AsideMoves DEF IdentifyStart
<1>30. CASE IdentifyDone
  BY <1>30 DEF IdentifyDone
<1>31. CASE ReadStart
  BY <1>31, CallMoves DEF ReadStart
<1>32. CASE ReadAgain
  BY <1>32, CallMoves DEF ReadAgain
<1>33. CASE ReadDone
  BY <1>33, DecidedCallMoves DEF ReadDone, Types, ResultTyped
<1>34. CASE ReadChecked
  BY <1>34 DEF ReadChecked
<1>35. CASE CheckStart
  BY <1>35, MarkedMoves DEF CheckStart
<1>36. CASE CheckReset
  BY <1>36, CallMoves DEF CheckReset
<1>37. CASE CheckDone
  BY <1>37 DEF CheckDone
<1>38. CASE HardReset
  BY <1>38, CallMoves DEF HardReset
<1>39. CASE Choose
  BY <1>39, CallMoves DEF Choose, Chosen
<1>40. CASE Connect
  BY <1>40, CallMoves DEF Connect
<1>41. CASE Recover
  BY <1>41, CallMoves, GotoMoves DEF Recover
<1>42. CASE Turn
  BY <1>42, CallMoves DEF Turn, TurnStart, TurnRead, TurnChecked, TurnRecovered
<1> QED
  BY <1>1, <1>2, <1>3, <1>4, <1>5, <1>6, <1>7, <1>8, <1>9, <1>10, <1>11, <1>12, <1>13,
     <1>14, <1>15, <1>16, <1>17, <1>18, <1>19, <1>20, <1>21, <1>22, <1>23, <1>24,
     <1>25, <1>26, <1>27, <1>28, <1>29, <1>30, <1>31, <1>32, <1>33, <1>34, <1>35,
     <1>36, <1>37, <1>38, <1>39, <1>40, <1>41, <1>42
     DEF Proceed, Command, Reset, Helper

(* A step disturbs no call but the one in progress.                        *)
LEMMA KeptBelow ==
  ASSUME Typed, Proceed, ~Crash, NEW S, top \notin S
  PROVE  Has(S) => Has(S)'
<1>1. stack # <<>> /\ MovesOn /\ Len(stack) \in Nat \ {0} /\ top = stack[Len(stack)]
  BY StepsOn, TopIsFrame DEF Typed
<1> QED
  BY <1>1 DEF MovesOn, Leaves, Goes, Enters, Kept, Has

(* A step begins no call of a kind that its own call is not.               *)
LEMMA NoneAbove ==
  ASSUME Typed, Proceed, ~Crash, NEW S,
         \A f \in S : f \in Frames /\ f.p # top.p /\ f.at # "start"
  PROVE  Has(S)' => Has(S)
<1>1. stack # <<>> /\ MovesOn /\ Len(stack) \in Nat \ {0} /\ top = stack[Len(stack)]
  BY StepsOn, TopIsFrame DEF Typed
<1>2. CASE Leaves
  BY <1>1, <1>2 DEF Leaves, Kept, Has
<1>3. ASSUME NEW f \in Frames, f.p = top.p, Goes(f) PROVE Has(S)' => Has(S)
  BY <1>1, <1>3 DEF Goes, Kept, Has
<1>4. ASSUME NEW f \in Frames, NEW e \in Frames, f.p = top.p, e.at = "start", Enters(f, e)
      PROVE  Has(S)' => Has(S)
  <2>1. f \notin S /\ e \notin S
    BY <1>4
  <2>2. \A k \in 1 .. Len(stack') : k \in 1 .. Len(stack) - 1 \/ stack'[k] = f \/ stack'[k] = e
    BY <1>1, <1>4 DEF Enters
  <2>3. \A k \in 1 .. Len(stack) - 1 : stack'[k] = stack[k] /\ k \in 1 .. Len(stack)
    BY <1>1, <1>4 DEF Enters, Kept
  <2> QED
    BY <2>1, <2>2, <2>3 DEF Has
<1> QED
  BY <1>1, <1>2, <1>3, <1>4 DEF MovesOn

-----------------------------------------------------------------------------
(* Timers and flags are put back.                                          *)

(* The calls that will put them back: timer.soft, timer.hard, performing,  *)
(* timer.busy, and those of the last kind that will make it what it was.   *)
Rereads == {f \in Frames : f.p = "read" /\ f.at = "again"}
Hardens == {f \in Frames : f.p = "hard_reset" /\ f.at = "reset"}
Clearing ==
    {f \in Frames :
      \/ f.p = "soft" /\ f.at \in {"escalated", "identified", "last", "ide_identified"}
      \/ f.p = "hard" /\ f.at \in {"identified", "forced_identified"}}
Identifying == {f \in Frames : f.p = "identify" /\ f.at = "sent"}
Firsts == {f \in Identifying : f.busy = "initial_busy_wait_time"}

SoftTime == timer.soft # "soft_reset_time" => Has(Rereads)
HardTime == timer.hard # 1 => Has(Hardens)
Performing == flag.performing => Has(Clearing)
BusyTime ==
    /\ timer.busy # "initial_busy_wait_time" => Has(Firsts)
    /\ Has(Identifying) => timer.busy # "initial_busy_wait_time"
    /\ \A i, j \in 1 .. Len(stack) :
         i < j /\ stack[i] \in Identifying => stack[j] \notin Firsts
Timing == ~crashed => SoftTime /\ HardTime /\ Performing /\ BusyTime

(* Who does not change a timer or a flag.                                  *)
LEMMA SoftSame ==
  ASSUME Typed, Proceed, ~Crash, ~ReadAgain, ~ReadDone
  PROVE  timer'.soft = timer.soft /\ top \notin Rereads
<1> USE DEF Typed, Types, TimerTyped, TimerType, FlagTyped, FlagType, At, Rereads
<1>1. CASE Command
  BY <1>1 DEF Command, CommandWait, CommandResetFirst, CommandDone, CommandHangs,
     CommandDisturbed, CommandStopped, CommandResetAfter, CommandFinish
<1>2. CASE Reset
  BY <1>2 DEF Reset, SoftRefused, SoftStart, SoftWait, SoftHardDone,
     SoftAfter, SoftIdentified, SoftLast, SoftIde, HardStart, HardWait, HardCycled,
     HardAfter, HardIdentified, HardLast, HardForced
<1>3. CASE Helper
  BY <1>3 DEF Helper, PowerStart, PowerCycle, PowerDone, ModeStart,
     ModeDone, IdentifyStart, IdentifyDone
<1>4. CASE \/ ReadStart \/ ReadAgain \/ ReadDone \/ ReadChecked
           \/ CheckStart \/ CheckReset \/ CheckDone
  BY <1>4 DEF ReadStart, ReadAgain, ReadDone, ReadChecked, CheckStart,
     CheckReset, CheckDone
<1>5. CASE HardReset \/ Choose \/ Connect
  BY <1>5 DEF HardReset, Choose, Chosen, Connect
<1>6. CASE Recover \/ Turn
  BY <1>6 DEF Recover, Turn, TurnStart, TurnRead, TurnChecked, TurnRecovered
<1> QED
  BY <1>1, <1>2, <1>3, <1>4, <1>5, <1>6 DEF Proceed

LEMMA HardSame ==
  ASSUME Typed, Proceed, ~Crash, ~HardReset
  PROVE  timer'.hard = timer.hard /\ top \notin Hardens
<1> USE DEF Typed, Types, TimerTyped, TimerType, FlagTyped, FlagType, At, Hardens
<1>1. CASE Command
  BY <1>1 DEF Command, CommandWait, CommandResetFirst, CommandDone, CommandHangs,
     CommandDisturbed, CommandStopped, CommandResetAfter, CommandFinish
<1>2. CASE Reset
  BY <1>2 DEF Reset, SoftRefused, SoftStart, SoftWait, SoftHardDone,
     SoftAfter, SoftIdentified, SoftLast, SoftIde, HardStart, HardWait, HardCycled,
     HardAfter, HardIdentified, HardLast, HardForced
<1>3. CASE Helper
  BY <1>3 DEF Helper, PowerStart, PowerCycle, PowerDone, ModeStart,
     ModeDone, IdentifyStart, IdentifyDone
<1>4. CASE \/ ReadStart \/ ReadAgain \/ ReadDone \/ ReadChecked
           \/ CheckStart \/ CheckReset \/ CheckDone
  BY <1>4 DEF ReadStart, ReadAgain, ReadDone, ReadChecked, CheckStart,
     CheckReset, CheckDone
<1>5. CASE HardReset \/ Choose \/ Connect
  BY <1>5 DEF HardReset, Choose, Chosen, Connect
<1>6. CASE Recover \/ Turn
  BY <1>6 DEF Recover, Turn, TurnStart, TurnRead, TurnChecked, TurnRecovered
<1> QED
  BY <1>1, <1>2, <1>3, <1>4, <1>5, <1>6 DEF Proceed

LEMMA PerformingSame ==
  ASSUME Typed, Proceed, ~Crash, ~SoftWait, ~SoftHardDone, ~SoftAfter, ~SoftIdentified,
         ~SoftLast, ~SoftIde, ~HardAfter, ~HardIdentified, ~HardLast, ~HardForced
  PROVE  flag'.performing = flag.performing /\ top \notin Clearing
<1> USE DEF Typed, Types, TimerTyped, TimerType, FlagTyped, FlagType, At, Clearing
<1>1. CASE Command
  BY <1>1 DEF Command, CommandWait, CommandResetFirst, CommandDone, CommandHangs,
     CommandDisturbed, CommandStopped, CommandResetAfter, CommandFinish
<1>2. CASE Reset
  BY <1>2 DEF Reset, SoftRefused, SoftStart, SoftWait, SoftHardDone,
     SoftAfter, SoftIdentified, SoftLast, SoftIde, HardStart, HardWait, HardCycled,
     HardAfter, HardIdentified, HardLast, HardForced
<1>3. CASE Helper
  BY <1>3 DEF Helper, PowerStart, PowerCycle, PowerDone, ModeStart,
     ModeDone, IdentifyStart, IdentifyDone
<1>4. CASE \/ ReadStart \/ ReadAgain \/ ReadDone \/ ReadChecked
           \/ CheckStart \/ CheckReset \/ CheckDone
  BY <1>4 DEF ReadStart, ReadAgain, ReadDone, ReadChecked, CheckStart,
     CheckReset, CheckDone
<1>5. CASE HardReset \/ Choose \/ Connect
  BY <1>5 DEF HardReset, Choose, Chosen, Connect
<1>6. CASE Recover \/ Turn
  BY <1>6 DEF Recover, Turn, TurnStart, TurnRead, TurnChecked, TurnRecovered
<1> QED
  BY <1>1, <1>2, <1>3, <1>4, <1>5, <1>6 DEF Proceed

LEMMA BusySame ==
  ASSUME Typed, Proceed, ~Crash, ~IdentifyStart, ~IdentifyDone
  PROVE  timer'.busy = timer.busy /\ top.p # "identify"
<1> USE DEF Typed, Types, TimerTyped, TimerType, FlagTyped, FlagType, At, Identifying
<1>1. CASE Command
  BY <1>1 DEF Command, CommandWait, CommandResetFirst, CommandDone, CommandHangs,
     CommandDisturbed, CommandStopped, CommandResetAfter, CommandFinish
<1>2. CASE Reset
  BY <1>2 DEF Reset, SoftRefused, SoftStart, SoftWait, SoftHardDone,
     SoftAfter, SoftIdentified, SoftLast, SoftIde, HardStart, HardWait, HardCycled,
     HardAfter, HardIdentified, HardLast, HardForced
<1>3. CASE Helper
  BY <1>3 DEF Helper, PowerStart, PowerCycle, PowerDone, ModeStart,
     ModeDone, IdentifyStart, IdentifyDone
<1>4. CASE \/ ReadStart \/ ReadAgain \/ ReadDone \/ ReadChecked
           \/ CheckStart \/ CheckReset \/ CheckDone
  BY <1>4 DEF ReadStart, ReadAgain, ReadDone, ReadChecked, CheckStart,
     CheckReset, CheckDone
<1>5. CASE HardReset \/ Choose \/ Connect
  BY <1>5 DEF HardReset, Choose, Chosen, Connect
<1>6. CASE Recover \/ Turn
  BY <1>6 DEF Recover, Turn, TurnStart, TurnRead, TurnChecked, TurnRecovered
<1> QED
  BY <1>1, <1>2, <1>3, <1>4, <1>5, <1>6 DEF Proceed

(* Who does.                                                               *)
LEMMA SoftTimeStep ==
  ASSUME Typed, SoftTime, Proceed, ~Crash
  PROVE  SoftTime'
<1> USE DEF Typed, Types, TimerTyped, TimerType
<1>1. CASE ReadAgain
  <2>1. stack # <<>> /\ top.p = "read" /\ Called("again", "rw", "read")
    BY <1>1, CallMoves, Names DEF ReadAgain, At, Settled
  <2>2. PICK f \in Frames : f.p = "read" /\ f.at = "again" /\ Enter(f, Frame("rw", "read"))
    BY <2>1 DEF Called
  <2>3. Has(Rereads)'
    BY <2>1, <2>2, HasEnter DEF Rereads
  <2> QED
    BY <2>3 DEF SoftTime
<1>2. CASE ReadDone
  <2>1. timer'.soft = (IF top.at = "again" THEN "soft_reset_time" ELSE timer.soft)
    BY <1>2 DEF ReadDone
  <2>2. top.at # "again" => (Has(Rereads) => Has(Rereads)')
    BY KeptBelow DEF Rereads
  <2> QED
    BY <2>1, <2>2 DEF SoftTime
<1>3. CASE ~ReadAgain /\ ~ReadDone
  BY <1>3, SoftSame, KeptBelow DEF SoftTime
<1> QED
  BY <1>1, <1>2, <1>3

LEMMA HardTimeStep ==
  ASSUME Typed, HardTime, Proceed, ~Crash
  PROVE  HardTime'
<1> USE DEF Typed, Types, TimerTyped, TimerType
<1>1. CASE HardReset /\ top.at = "start"
  <2>1. stack # <<>> /\ top.p = "hard_reset" /\ Called("reset", "soft", "none")
    BY <1>1, CallMoves, Names DEF HardReset, At, Settled
  <2>2. PICK f \in Frames :
          f.p = "hard_reset" /\ f.at = "reset" /\ Enter(f, Frame("soft", "none"))
    BY <2>1 DEF Called
  <2>3. Has(Hardens)'
    BY <2>1, <2>2, HasEnter DEF Hardens
  <2> QED
    BY <2>3 DEF HardTime
<1>2. CASE HardReset /\ top.at # "start"
  BY <1>2 DEF HardReset, At, HardTime
<1>3. CASE ~HardReset
  BY <1>3, HardSame, KeptBelow DEF HardTime
<1> QED
  BY <1>1, <1>2, <1>3

LEMMA ClearingCalled ==
  ASSUME Typed, stack # <<>>, NEW a, NEW q, NEW c, Called(a, q, c)
  PROVE  /\ Has(Clearing) /\ top \notin Clearing => Has(Clearing)'
         /\ \/ top.p = "soft" /\ a \in {"escalated", "identified", "last", "ide_identified"}
            \/ top.p = "hard" /\ a \in {"identified", "forced_identified"}
            => Has(Clearing)'
<1>1. PICK f \in Frames : f.p = top.p /\ f.at = a /\ Enter(f, Frame(q, c))
  BY DEF Called
<1> QED
  BY <1>1, HasEnter DEF Clearing, Typed

LEMMA PerformingStep ==
  ASSUME Typed, Performing, Proceed, ~Crash
  PROVE  Performing'
<1> USE Names, KeptBelow, ClearingCalled
    DEF Typed, Types, FlagTyped, FlagType, At, Settled, Return, Performing
<1>1. CASE SoftWait
  BY <1>1, CallMoves DEF SoftWait, Clearing
<1>2. CASE SoftHardDone
  BY <1>2 DEF SoftHardDone, Clearing
<1>3. CASE SoftAfter
  BY <1>3, CallMoves DEF SoftAfter
<1>4. CASE SoftIdentified
  BY <1>4, CallMoves DEF SoftIdentified
<1>5. CASE SoftLast
  BY <1>5 DEF SoftLast
<1>6. CASE SoftIde
  BY <1>6, CallMoves DEF SoftIde, Clearing
<1>7. CASE HardAfter
  BY <1>7, CallMoves DEF HardAfter
<1>8. CASE HardIdentified
  BY <1>8 DEF HardIdentified
<1>9. CASE HardLast
  BY <1>9 DEF HardLast, Clearing
<1>10. CASE HardForced
  BY <1>10, CallMoves DEF HardForced, Clearing
<1>11. CASE /\ ~SoftWait /\ ~SoftHardDone /\ ~SoftAfter /\ ~SoftIdentified /\ ~SoftLast
            /\ ~SoftIde /\ ~HardAfter /\ ~HardIdentified /\ ~HardLast /\ ~HardForced
  BY <1>11, PerformingSame
<1> QED
  BY <1>1, <1>2, <1>3, <1>4, <1>5, <1>6, <1>7, <1>8, <1>9, <1>10, <1>11

(* The calls of one kind that are on the stack after a step of a call of   *)
(* another kind were there before it.                                      *)
LEMMA OldAbove ==
  ASSUME Typed, Proceed, ~Crash, NEW S,
         \A f \in S : f \in Frames /\ f.p # top.p /\ f.at # "start"
  PROVE  \A k \in 1 .. Len(stack') :
           stack'[k] \in S => k \in 1 .. Len(stack) /\ stack'[k] = stack[k]
<1>1. stack # <<>> /\ MovesOn /\ Len(stack) \in Nat \ {0} /\ top = stack[Len(stack)]
  BY StepsOn, TopIsFrame DEF Typed
<1>2. CASE Leaves
  BY <1>1, <1>2 DEF Leaves, Kept
<1>3. ASSUME NEW f \in Frames, f.p = top.p, Goes(f),
             NEW k \in 1 .. Len(stack'), stack'[k] \in S
      PROVE  k \in 1 .. Len(stack) /\ stack'[k] = stack[k]
  BY <1>1, <1>3 DEF Goes, Kept
<1>4. ASSUME NEW f \in Frames, NEW e \in Frames, f.p = top.p, e.at = "start", Enters(f, e),
             NEW k \in 1 .. Len(stack'), stack'[k] \in S
      PROVE  k \in 1 .. Len(stack) /\ stack'[k] = stack[k]
  <2>1. f \notin S /\ e \notin S
    BY <1>4
  <2>2. k \in 1 .. Len(stack) - 1 \/ stack'[k] = f \/ stack'[k] = e
    BY <1>1, <1>4 DEF Enters
  <2>3. k \in 1 .. Len(stack) - 1
    BY <1>4, <2>1, <2>2
  <2> QED
    BY <1>1, <1>4, <2>3 DEF Enters, Kept
<1> QED
  BY <1>1, <1>2, <1>3, <1>4 DEF MovesOn

LEMMA BusyStart ==
  ASSUME Typed, BusyTime, IdentifyStart
  PROVE  BusyTime'
<1> DEFINE e == Frame("rw", "identify")
<1>1. /\ stack # <<>> /\ top \in Frames /\ Enter(Aside, e) /\ top.at = "start"
      /\ Len(stack) \in Nat \ {0}
  BY AsideMoves, TopIsFrame DEF Typed, IdentifyStart, At
<1>2. /\ Aside \in Frames /\ Aside.p = "identify" /\ Aside.at = "sent"
      /\ Aside.busy = timer.busy
  BY <1>1, AsideFacts, AsideMoves DEF Typed
<1>3. e \notin Identifying
  BY Names, FrameFacts DEF Identifying
<1> HIDE DEF e
<1>4. Enters(Aside, e)
  BY <1>1, Entering DEF Typed, Shape
<1>5. timer'.busy = "busy_wait_time"
  BY DEF IdentifyStart, Typed, Types, TimerTyped, TimerType
<1>6. Has(Firsts)'
  <2>1. CASE timer.busy = "initial_busy_wait_time"
    BY <1>1, <1>2, <2>1, HasEnter DEF Firsts, Identifying, Typed
  <2>2. CASE timer.busy # "initial_busy_wait_time"
    BY <1>1, <2>2, HasEnter DEF BusyTime, Firsts, Identifying, Typed
  <2> QED
    BY <2>1, <2>2
<1>7. ASSUME NEW i \in 1 .. Len(stack'), NEW j \in 1 .. Len(stack'), i < j,
             stack'[i] \in Identifying, stack'[j] \in Firsts
      PROVE  FALSE
  <2>1. CASE j < Len(stack)
    BY <1>1, <1>4, <1>7, <2>1 DEF BusyTime, Enters, Kept
  <2>2. CASE j = Len(stack)
    <3>1. stack'[j] = Aside /\ stack[i] \in Identifying /\ i \in 1 .. Len(stack)
      BY <1>1, <1>4, <1>7, <2>2 DEF Enters, Kept
    <3>2. timer.busy # "initial_busy_wait_time"
      BY <3>1 DEF BusyTime, Has
    <3> QED
      BY <1>2, <1>7, <3>1, <3>2 DEF Firsts
  <2>3. CASE j = Len(stack) + 1
    BY <1>3, <1>4, <1>7, <2>3 DEF Enters, Firsts
  <2> QED
    BY <1>1, <1>4, <1>7, <2>1, <2>2, <2>3 DEF Enters
<1> QED
  BY <1>5, <1>6, <1>7 DEF BusyTime

LEMMA BusyDone ==
  ASSUME Typed, BusyTime, IdentifyDone
  PROVE  BusyTime'
<1>1. /\ stack # <<>> /\ stack' = Below /\ top.p = "identify" /\ top.at = "sent"
      /\ timer'.busy = top.busy
  BY DEF IdentifyDone, At, Return, Typed, Types, TimerTyped, TimerType
<1>2. Len(stack) \in Nat \ {0} /\ top = stack[Len(stack)] /\ top \in Identifying
  BY <1>1, TopIsFrame DEF Identifying, Typed
<1>3. Leaves
  BY <1>1, Leaving DEF Typed, Shape
<1>4. CASE top \in Firsts
  <2>1. \A i \in 1 .. Len(stack) - 1 : stack[i] \notin Identifying
    BY <1>2, <1>4 DEF BusyTime
  <2>2. \A i \in 1 .. Len(stack') : stack'[i] \notin Identifying
    BY <1>2, <1>3, <2>1 DEF Leaves, Kept
  <2> QED
    BY <1>1, <1>4, <2>2 DEF BusyTime, Has, Firsts
<1>5. CASE top \notin Firsts
  <2>1. Has(Firsts)
    BY <1>2 DEF BusyTime, Has
  <2>2. Has(Firsts)' /\ timer'.busy # "initial_busy_wait_time"
    BY <1>1, <1>2, <1>5, <2>1, HasLeaves DEF Typed, Firsts
  <2>3. \A i, j \in 1 .. Len(stack') :
          i < j /\ stack'[i] \in Identifying => stack'[j] \notin Firsts
    BY <1>2, <1>3, SMTT(30) DEF BusyTime, Leaves, Kept
  <2> QED
    BY <2>2, <2>3 DEF BusyTime
<1> QED
  BY <1>4, <1>5

LEMMA BusyTimeStep ==
  ASSUME Typed, BusyTime, Proceed, ~Crash
  PROVE  BusyTime'
<1>1. CASE ~IdentifyStart /\ ~IdentifyDone
  <2>1. timer'.busy = timer.busy /\ top.p # "identify"
    BY <1>1, BusySame
  <2>2. Has(Identifying)' => Has(Identifying)
    BY <2>1, NoneAbove DEF Identifying
  <2>3. Has(Firsts) => Has(Firsts)'
    BY <2>1, KeptBelow DEF Firsts, Identifying
  <2>4. \A k \in 1 .. Len(stack') :
          stack'[k] \in Identifying => k \in 1 .. Len(stack) /\ stack'[k] = stack[k]
    BY <2>1, OldAbove DEF Identifying
  <2>5. \A i, j \in 1 .. Len(stack') :
          i < j /\ stack'[i] \in Identifying => stack'[j] \notin Firsts
    BY <2>4 DEF BusyTime, Firsts
  <2> QED
    BY <2>1, <2>2, <2>3, <2>5 DEF BusyTime
<1> QED
  BY <1>1, BusyStart, BusyDone

(* When nothing is in progress, nobody has to put anything back.           *)
LEMMA DefaultsWhenIdle ==
  ASSUME stack = <<>>, Timing, ~crashed
  PROVE  /\ timer.soft = "soft_reset_time" /\ timer.hard = 1 /\ ~flag.performing
         /\ timer.busy = "initial_busy_wait_time"
<1>1. \A S : ~Has(S)
  BY DEF Has
<1> QED
  BY <1>1 DEF Timing, SoftTime, HardTime, Performing, BusyTime

(* Only an access to unmapped registers ends the program.                  *)
LEMMA CrashedSame ==
  ASSUME Proceed, ~Crash
  PROVE  crashed' = crashed
<1>1. CASE Command
  BY <1>1 DEF Command, CommandWait, CommandResetFirst, CommandDone, CommandHangs,
     CommandDisturbed, CommandStopped, CommandResetAfter, CommandFinish
<1>2. CASE Reset
  BY <1>2 DEF Reset, SoftRefused, SoftStart, SoftWait, SoftHardDone,
     SoftAfter, SoftIdentified, SoftLast, SoftIde, HardStart, HardWait, HardCycled,
     HardAfter, HardIdentified, HardLast, HardForced
<1>3. CASE Helper
  BY <1>3 DEF Helper, PowerStart, PowerCycle, PowerDone, ModeStart,
     ModeDone, IdentifyStart, IdentifyDone
<1>4. CASE \/ ReadStart \/ ReadAgain \/ ReadDone \/ ReadChecked
           \/ CheckStart \/ CheckReset \/ CheckDone
  BY <1>4 DEF ReadStart, ReadAgain, ReadDone, ReadChecked, CheckStart,
     CheckReset, CheckDone
<1>5. CASE HardReset \/ Choose \/ Connect
  BY <1>5 DEF HardReset, Choose, Chosen, Connect
<1>6. CASE Recover \/ Turn
  BY <1>6 DEF Recover, Turn, TurnStart, TurnRead, TurnChecked, TurnRecovered
<1> QED
  BY <1>1, <1>2, <1>3, <1>4, <1>5, <1>6 DEF Proceed

LEMMA TimingStep ==
  ASSUME Typed, Mapping, Timing, [Next]_vars
  PROVE  Timing'
<1>1. CASE Proceed /\ ~Crash
  <2>1. ~crashed /\ ~crashed'
    BY <1>1, CrashedSame, StepsOn DEF Mapping
  <2> QED
    BY <1>1, <2>1, SoftTimeStep, HardTimeStep, PerformingStep, BusyTimeStep DEF Timing
<1>2. CASE Crash
  BY <1>2 DEF Crash, Timing
<1>3. CASE Stop \/ Disconnect \/ UNCHANGED vars
  <2>1. UNCHANGED <<stack, timer, flag, crashed>>
    BY <1>3 DEF Stop, Disconnect, vars
  <2> QED
    BY <2>1 DEF Timing, SoftTime, HardTime, Performing, BusyTime, Has
<1>4. CASE Restart
  <2>1. stack' = <<>> /\ timer' = Timers /\ flag' = NoFlags
    BY <1>4 DEF Restart
  <2>2. Len(stack') = 0
    BY <2>1
  <2> QED
    BY <2>1, <2>2, HasEmpty
       DEF Timing, SoftTime, HardTime, Performing, BusyTime, Timers, NoFlags
<1>5. ASSUME NEW what \in Requests, Begin(what) PROVE Timing'
  <2>1. stack = <<>> /\ ~crashed /\ UNCHANGED <<timer, flag>>
    BY <1>5 DEF Begin
  <2>2. /\ timer.soft = "soft_reset_time" /\ timer.hard = 1 /\ ~flag.performing
        /\ timer.busy = "initial_busy_wait_time"
    BY <2>1, DefaultsWhenIdle DEF Timing
  <2>3. Len(stack') = 1 /\ stack'[1] \notin Identifying
    BY <1>5, BeginFacts DEF Identifying, Typed
  <2> QED
    BY <2>1, <2>2, <2>3 DEF Timing, SoftTime, HardTime, Performing, BusyTime, Has
<1> QED
  BY <1>1, <1>2, <1>3, <1>4, <1>5 DEF Next

LEMMA TimingInit ==
  ASSUME Init
  PROVE  Timing
BY DEF Init, Timing, SoftTime, HardTime, Performing, BusyTime, Has, Timers, NoFlags

-----------------------------------------------------------------------------
(* The buffer has the size of the command that is sent.                    *)

(* The size that a call must find and leave in io.size, "any" when nobody  *)
(* cares: a command wants its own; a hard reset of a soft reset, and a     *)
(* power cycle of a hard one, none; what a command calls, the command's.   *)
Wanted == Sizes \cup {"any"}
Inherit(p, at, q, asked, v) ==
    IF q = "rw" THEN SizeOf[asked]
    ELSE IF (p = "soft" /\ at \in {"forced", "escalated"}) \/ (p = "hard" /\ at = "cycled")
    THEN "none"
    ELSE IF p \in {"rw", "soft", "hard", "power"} THEN v ELSE "any"
Is(size, v) == v = "any" \/ size = v

(* Where a call has put the size aside.                                    *)
Saves(p, at) ==
    \/ p = "soft" /\ at \in {"forced", "wait", "escalated", "after"}
    \/ p = "hard" /\ at \in {"wait", "cycled", "after"}
    \/ p \in {"mode", "identify"} /\ at = "sent"

(* Where a call knows the size to be what is wanted: as long as all went   *)
(* well. What a call that returns promises of it is the same.              *)
Sized(p, at, code, v, size, r) ==
    /\ p \in {"rw", "soft", "hard", "power", "mode", "identify"} /\ at = "start" => Is(size, v)
    /\ p = "rw" /\ at = "send" => Is(size, v)
    /\ p = "rw" /\ at \in {"reset_first", "reset_after"} /\ r = "ok" => Is(size, v)
    /\ p = "rw" /\ at = "finish" /\ code \in {"ok", "time"} => Is(size, v)
    /\ p = "soft" /\ at \in {"ide_wait", "identified", "ide_identified"} => Is(size, v)
    /\ p = "soft" /\ at \in {"last", "ide_cycled"} /\ r = "ok" => Is(size, v)
    /\ p = "hard" /\ at \in {"identified", "forced_identified"} => Is(size, v)
    /\ p = "hard" /\ at \in {"last", "forced"} /\ r = "ok" => Is(size, v)
    /\ p \in {"soft", "hard"} /\ at = "wait" => size = "none"
    /\ p = "power" => Is(size, v)
    /\ p = "read" /\ at = "read" /\ r \in {"ok", "time"} => size = "data"
Promised(p, v, size, r) ==
    /\ p = "rw" /\ r \in {"ok", "time"} => Is(size, v)
    /\ p \in {"soft", "hard", "power"} /\ r = "ok" => Is(size, v)
    /\ p \in {"mode", "identify"} => Is(size, v)

Wants(w) ==
    /\ w \in [Nat -> Wanted] /\ w[1] = "any"
    /\ \A i \in 1 .. Len(stack) - 1 :
         w[i + 1] = Inherit(stack[i].p, stack[i].at, stack[i + 1].p, stack[i + 1].asked, w[i])
    /\ \A i \in 1 .. Len(stack) : Saves(stack[i].p, stack[i].at) => Is(stack[i].size, w[i])
TopSized(v) == stack # <<>> => Sized(top.p, top.at, top.code, v, io.size, result)
Sizing == \E w : Wants(w) /\ TopSized(w[Len(stack)])

(* The caller finds what the call that returns promises.                   *)
LEMMA BackSized ==
  ASSUME NEW f \in Frames, NEW e \in Frames, Calls(f, e), NEW u \in Wanted, NEW size, NEW r,
         Saves(f.p, f.at) => Is(f.size, u),
         Promised(e.p, Inherit(f.p, f.at, e.p, e.asked, u), size, r)
  PROVE  Sized(f.p, f.at, f.code, u, size, r)
BY DEF Calls, MayCall, Inherit, Is, Saves, Sized, Promised, SizeOf, Commands

(* A return, a call that goes on and a call that is made.                  *)
LEMMA SizeLeaves ==
  ASSUME Typed, NEW w, Wants(w), stack # <<>>, stack' = Below,
         Promised(top.p, w[Len(stack)], io'.size, result')
  PROVE  Sizing'
<1>1. Leaves /\ Len(stack) \in Nat \ {0} /\ top = stack[Len(stack)] /\ top \in Frames
  BY Leaving, TopIsFrame DEF Typed, Shape
<1>2. Wants(w)'
  BY <1>1 DEF Wants, Leaves, Kept
<1>3. CASE stack' = <<>>
  BY <1>2, <1>3 DEF Sizing, TopSized
<1>4. CASE stack' # <<>>
  <2>1. /\ Calls(top', top) /\ Len(stack) - 1 \in 1 .. Len(stack) - 1
        /\ top' = stack[Len(stack) - 1] /\ top' \in Frames
    BY <1>1, <1>4, TopLeaves, ElementOfSeq DEF Typed, Shape
  <2>2. w[Len(stack)] = Inherit(top'.p, top'.at, top.p, top.asked, w[Len(stack) - 1])
    BY <1>1, <2>1 DEF Wants
  <2>3. w[Len(stack) - 1] \in Wanted
    BY <2>1 DEF Wants
  <2>4. Saves(top'.p, top'.at) => Is(top'.size, w[Len(stack) - 1])
    BY <2>1 DEF Wants
  <2>5. Sized(top'.p, top'.at, top'.code, w[Len(stack) - 1], io'.size, result')
    BY <1>1, <2>1, <2>2, <2>3, <2>4, BackSized, ZenonT(30)
  <2>6. w[Len(stack')] = w[Len(stack) - 1]
    BY <1>1 DEF Leaves
  <2> QED
    BY <1>2, <2>5, <2>6 DEF Sizing, TopSized
<1> QED
  BY <1>3, <1>4

LEMMA SizeNow ==
  ASSUME Typed, NEW w, Wants(w), stack # <<>>, NEW f \in Frames,
         f.p = top.p, f.asked = top.asked, Now(f),
         Saves(f.p, f.at) => Is(f.size, w[Len(stack)]),
         Sized(f.p, f.at, f.code, w[Len(stack)], io'.size, result')
  PROVE  Sizing'
<1>1. Goes(f) /\ Len(stack) \in Nat \ {0} /\ top = stack[Len(stack)] /\ top' = f
  BY Going, TopIsFrame, TopNow DEF Typed, Shape
<1>2. Wants(w)'
  <2>1. ASSUME NEW i \in 1 .. Len(stack) - 1
        PROVE  w[i + 1] =
                 Inherit(stack'[i].p, stack'[i].at, stack'[i + 1].p, stack'[i + 1].asked, w[i])
    <3>1. /\ w[i + 1] = Inherit(stack[i].p, stack[i].at, stack[i + 1].p, stack[i + 1].asked, w[i])
          /\ stack'[i] = stack[i]
      BY <1>1 DEF Wants, Goes, Kept
    <3>2. stack'[i + 1].p = stack[i + 1].p /\ stack'[i + 1].asked = stack[i + 1].asked
      BY <1>1 DEF Goes, Kept
    <3> QED
      BY <3>1, <3>2
  <2>2. ASSUME NEW i \in 1 .. Len(stack), Saves(stack'[i].p, stack'[i].at)
        PROVE  Is(stack'[i].size, w[i])
    <3>1. CASE i = Len(stack)
      BY <1>1, <2>2, <3>1 DEF Goes
    <3>2. CASE i # Len(stack)
      BY <1>1, <2>2, <3>2 DEF Goes, Kept, Wants
    <3> QED
      BY <3>1, <3>2
  <2>3. Len(stack') = Len(stack)
    BY <1>1 DEF Goes
  <2> QED
    BY <2>1, <2>2, <2>3 DEF Wants
<1> QED
  BY <1>1, <1>2 DEF Sizing, TopSized, Goes

LEMMA SizeEnter ==
  ASSUME Typed, NEW w, Wants(w), stack # <<>>, NEW f \in Frames, NEW q \in Procs, NEW c \in Asks,
         f.p = top.p, f.asked = top.asked, Enter(f, Frame(q, c)), q = "rw" => c # "none",
         Saves(f.p, f.at) => Is(f.size, w[Len(stack)]),
         Sized(q, "start", "ok", Inherit(f.p, f.at, q, c, w[Len(stack)]), io'.size, result')
  PROVE  Sizing'
<1> DEFINE e == Frame(q, c)
<1>1. /\ Enters(f, e) /\ Len(stack) \in Nat \ {0} /\ top = stack[Len(stack)]
      /\ top' = e /\ stack \in Seq(Frames)
  BY Entering, TopIsFrame, TopEnter DEF Typed, Shape
<1>2. e \in Frames /\ e.p = q /\ e.at = "start" /\ e.asked = c /\ e.code = "ok"
  BY FrameFacts
<1> HIDE DEF e
<1> DEFINE n == Len(stack)
<1>3. Inherit(f.p, f.at, q, c, w[n]) \in Wanted
  BY <1>1 DEF Inherit, Wanted, Wants, SizeOf, Asks, Commands, Sizes
<1>4. PICK x \in [Nat -> Wanted] :
        /\ x[1] = "any" /\ x[n + 1] = Inherit(f.p, f.at, q, c, w[n])
        /\ \A i \in 1 .. n : x[i] = w[i]
  <2> DEFINE h == Inherit(f.p, f.at, q, c, w[n])
             y == [w EXCEPT ![n + 1] = h]
  <2>1. h \in Wanted /\ w \in [Nat -> Wanted] /\ w[1] = "any" /\ n \in Nat \ {0}
    BY <1>1, <1>3 DEF Wants
  <2> HIDE DEF h, n
  <2>2. /\ y \in [Nat -> Wanted] /\ y[1] = "any" /\ y[n + 1] = h
        /\ \A i \in 1 .. n : y[i] = w[i]
    BY <2>1
  <2> QED
    BY <2>2 DEF h
<1>5. ASSUME NEW i \in 1 .. n
      PROVE  x[i + 1] =
               Inherit(stack'[i].p, stack'[i].at, stack'[i + 1].p, stack'[i + 1].asked, x[i])
  <2>1. CASE i = n
    BY <1>1, <1>2, <1>4, <2>1 DEF Enters
  <2>2. CASE i # n
    <3>1. i \in 1 .. n - 1 /\ i + 1 \in 1 .. n
      BY <1>1, <2>2
    <3>2. /\ w[i + 1] = Inherit(stack[i].p, stack[i].at, stack[i + 1].p, stack[i + 1].asked, w[i])
          /\ stack'[i] = stack[i]
      BY <1>1, <3>1 DEF Wants, Enters, Kept
    <3>3. stack'[i + 1].p = stack[i + 1].p /\ stack'[i + 1].asked = stack[i + 1].asked
      BY <1>1, <3>1 DEF Enters, Kept
    <3> QED
      BY <1>4, <3>1, <3>2, <3>3
  <2> QED
    BY <2>1, <2>2
<1>6. ASSUME NEW i \in 1 .. n + 1, Saves(stack'[i].p, stack'[i].at)
      PROVE  Is(stack'[i].size, x[i])
  <2>1. CASE i = n
    BY <1>1, <1>4, <1>6, <2>1 DEF Enters
  <2>2. CASE i \in 1 .. n - 1
    BY <1>1, <1>4, <1>6, <2>2 DEF Enters, Kept, Wants
  <2>3. CASE i = n + 1
    <3>1. stack'[i].at = "start"
      BY <1>1, <1>2, <2>3 DEF Enters
    <3> QED
      BY <1>6, <3>1 DEF Saves
  <2> QED
    BY <1>1, <2>1, <2>2, <2>3
<1>7. Len(stack') = n + 1
  BY <1>1 DEF Enters
<1>8. Wants(x)'
  BY <1>1, <1>4, <1>5, <1>6, <1>7 DEF Wants
<1>9. Sized(top'.p, top'.at, top'.code, x[Len(stack')], io'.size, result')
  BY <1>1, <1>2, <1>4, <1>7
<1> QED
  BY <1>8, <1>9 DEF Sizing, TopSized

(* The same for the ways in which a call goes on.                          *)
LEMMA GotoSizes ==
  ASSUME Typed, NEW w, Wants(w), stack # <<>>, Settled, NEW a \in Places, Goto(a),
         Saves(top.p, a) => Is(top.size, w[Len(stack)]),
         Sized(top.p, a, top.code, w[Len(stack)], io'.size, result')
  PROVE  Sizing'
BY TopIsFrame, OnwardFacts, SizeNow DEF Goto, Typed

LEMMA DecidedSizes ==
  ASSUME Typed, NEW w, Wants(w), stack # <<>>, Settled, NEW a \in Places, NEW d \in Results,
         Now(Decided(a, d)),
         Saves(top.p, a) => Is(top.size, w[Len(stack)]),
         Sized(top.p, a, d, w[Len(stack)], io'.size, result')
  PROVE  Sizing'
BY TopIsFrame, DecidedFacts, SizeNow DEF Typed

LEMMA SavingSizes ==
  ASSUME Typed, NEW w, Wants(w), stack # <<>>, Settled, NEW a \in Places,
         Now(Saving(a)), Is(io.size, w[Len(stack)]),
         Sized(top.p, a, top.code, w[Len(stack)], io'.size, result')
  PROVE  Sizing'
BY TopIsFrame, SavingFacts, SizeNow DEF Typed, Types, IoTyped, IoType

LEMMA CallSizes ==
  ASSUME Typed, NEW w, Wants(w), stack # <<>>, Settled, NEW a \in Places,
         NEW q \in Procs, NEW c \in Asks, q = "rw" => c # "none", Call(a, Frame(q, c)),
         Saves(top.p, a) => Is(top.size, w[Len(stack)]),
         Sized(q, "start", "ok", Inherit(top.p, a, q, c, w[Len(stack)]), io'.size, result')
  PROVE  Sizing'
BY TopIsFrame, OnwardFacts, SizeEnter DEF Call, Typed

LEMMA DecidedCallSizes ==
  ASSUME Typed, NEW w, Wants(w), stack # <<>>, Settled, NEW a \in Places, NEW d \in Results,
         NEW q \in Procs, NEW c \in Asks, q # "rw", Enter(Decided(a, d), Frame(q, c)),
         Saves(top.p, a) => Is(top.size, w[Len(stack)]),
         Sized(q, "start", "ok", Inherit(top.p, a, q, c, w[Len(stack)]), io'.size, result')
  PROVE  Sizing'
BY TopIsFrame, DecidedFacts, SizeEnter DEF Typed

LEMMA SavingCallSizes ==
  ASSUME Typed, NEW w, Wants(w), stack # <<>>, Settled, NEW a \in Places,
         NEW q \in Procs, NEW c \in Asks, q = "rw" => c # "none", Enter(Saving(a), Frame(q, c)),
         Is(io.size, w[Len(stack)]),
         Sized(q, "start", "ok", Inherit(top.p, a, q, c, w[Len(stack)]), io'.size, result')
  PROVE  Sizing'
BY TopIsFrame, SavingFacts, SizeEnter DEF Typed, Types, IoTyped, IoType

(* What is known of the call in progress.                                  *)
LEMMA TopWants ==
  ASSUME Typed, NEW w, Wants(w), stack # <<>>, TopSized(w[Len(stack)])
  PROVE  /\ Sized(top.p, top.at, top.code, w[Len(stack)], io.size, result)
         /\ Saves(top.p, top.at) => Is(top.size, w[Len(stack)])
         /\ w[Len(stack)] \in Wanted
BY TopIsFrame DEF Typed, TopSized, Wants

LEMMA SizingProceed ==
  ASSUME Typed, NEW w, Wants(w), TopSized(w[Len(stack)]), Proceed, ~Crash
  PROVE  Sizing'
<1> USE Names, TopWants, SizeLeaves DEF At, Return, Settled, Types, IoTyped, IoType, Typed,
        Sized, Saves, Promised, Is, Inherit
<1>1. CASE CommandWait
  BY <1>1, GotoSizes, CallSizes DEF CommandWait
<1>2. CASE CommandResetFirst
  BY <1>2, DecidedSizes DEF CommandResetFirst, Results
<1>3. CASE CommandDone
  BY <1>3, GotoSizes, ZenonT(30) DEF CommandDone
<1>4. CASE CommandHangs
  BY <1>4, DecidedSizes, DecidedCallSizes DEF CommandHangs, Results
<1>5. CASE CommandDisturbed
  BY <1>5, DecidedSizes, DecidedCallSizes DEF CommandDisturbed, Results
<1>6. CASE CommandStopped
  BY <1>6 DEF CommandStopped
<1>7. CASE CommandResetAfter
  BY <1>7, TopFields, DecidedSizes DEF CommandResetAfter, Results
<1>8. CASE CommandFinish
  BY <1>8 DEF CommandFinish
<1>9. CASE SoftRefused
  BY <1>9 DEF SoftRefused
<1>10. CASE SoftStart
  BY <1>10, GotoSizes, SavingSizes, SavingCallSizes DEF SoftStart
<1>11. CASE SoftWait
  <2>1. CASE stop
    BY <1>11, <2>1 DEF SoftWait
  <2>2. CASE Call("escalated", Frame("hard", "none"))
    BY <1>11, <2>2, CallSizes DEF SoftWait
  <2>3. CASE Now(Decided("after", "ok")) \/ Now(Decided("after", "fail"))
    BY <1>11, <2>3, DecidedSizes DEF SoftWait, Results
  <2> QED
    BY <1>11, <2>1, <2>2, <2>3 DEF SoftWait
<1>12. CASE SoftHardDone
  BY <1>12, DecidedSizes DEF SoftHardDone, Types, ResultTyped
<1>13. CASE SoftAfter
  BY <1>13, CallSizes DEF SoftAfter
<1>14. CASE SoftIdentified
  BY <1>14, CallSizes DEF SoftIdentified
<1>15. CASE SoftLast
  BY <1>15 DEF SoftLast
<1>16. CASE SoftIde
  BY <1>16, CallSizes, SMTT(30) DEF SoftIde
<1>17. CASE HardStart
  BY <1>17, SavingSizes, CallSizes DEF HardStart
<1>18. CASE HardWait
  <2>1. CASE stop
    BY <1>18, <2>1 DEF HardWait
  <2>2. CASE Goto("after")
    BY <1>18, <2>2, GotoSizes DEF HardWait
  <2>3. CASE Call("cycled", Frame("power", "none"))
    BY <1>18, <2>3, CallSizes DEF HardWait
  <2> QED
    BY <1>18, <2>1, <2>2, <2>3 DEF HardWait
<1>19. CASE HardCycled
  BY <1>19, GotoSizes DEF HardCycled
<1>20. CASE HardAfter
  BY <1>20, CallSizes DEF HardAfter
<1>21. CASE HardIdentified
  BY <1>21, CallSizes DEF HardIdentified
<1>22. CASE HardLast
  BY <1>22 DEF HardLast
<1>23. CASE HardForced
  BY <1>23, CallSizes, SMTT(30) DEF HardForced
<1>24. CASE PowerStart
  BY <1>24, GotoSizes DEF PowerStart
<1>25. CASE PowerCycle
  BY <1>25, CallSizes DEF PowerCycle
<1>26. CASE PowerDone
  BY <1>26 DEF PowerDone
<1>27. CASE ModeStart
  <2>1. io'.size = "none" /\ SizeOf["mode"] = "none"
    BY <1>27, LoadFacts DEF ModeStart, SizeOf, Commands
  <2> QED
    BY <1>27, <2>1, SavingCallSizes DEF ModeStart
<1>28. CASE ModeDone
  BY <1>28 DEF ModeDone
<1>29. CASE IdentifyStart
  <2>1. /\ Aside \in Frames /\ Aside.p = "identify" /\ Aside.asked = top.asked
        /\ Aside.at = "sent" /\ Aside.size = io.size
    BY <1>29, AsideFacts, TopIsFrame, AsideMoves
  <2>2. /\ stack # <<>> /\ top.p = "identify" /\ top.at = "start"
        /\ Enter(Aside, Frame("rw", "identify"))
    BY <1>29, AsideMoves DEF IdentifyStart
  <2>3. io'.size = "identify" /\ SizeOf["identify"] = "identify"
    BY <1>29, LoadFacts DEF IdentifyStart, SizeOf, Commands
  <2> QED
    BY <2>1, <2>2, <2>3, SizeEnter
<1>30. CASE IdentifyDone
  BY <1>30 DEF IdentifyDone
<1>31. CASE ReadStart
  <2>1. io'.size = "data" /\ SizeOf["read"] = "data"
    BY <1>31, LoadFacts DEF ReadStart, SizeOf, Commands
  <2> QED
    BY <1>31, <2>1, CallSizes DEF ReadStart
<1>32. CASE ReadAgain
  <2>1. io'.size = io.size
    BY <1>32, LoadFacts DEF ReadAgain, Commands
  <2>2. io.size = "data" /\ SizeOf["read"] = "data"
    BY <1>32 DEF ReadAgain, SizeOf, Commands
  <2> QED
    BY <1>32, <2>1, <2>2, CallSizes DEF ReadAgain
<1>33. CASE ReadDone
  BY <1>33, DecidedCallSizes DEF ReadDone, Types, ResultTyped
<1>34. CASE ReadChecked
  BY <1>34 DEF ReadChecked
<1>35. CASE CheckStart
  <2>1. Marked \in Frames /\ Marked.p = "check" /\ Marked.asked = top.asked
        /\ Marked.at = "identified"
    BY <1>35, MarkedFacts, TopIsFrame, MarkedMoves
  <2>2. stack # <<>> /\ top.p = "check" /\ Enter(Marked, Frame("identify", "none"))
    BY <1>35, MarkedMoves
  <2> QED
    BY <2>1, <2>2, SizeEnter
<1>36. CASE CheckReset
  BY <1>36, CallSizes DEF CheckReset
<1>37. CASE CheckDone
  BY <1>37 DEF CheckDone
<1>38. CASE HardReset
  BY <1>38, CallSizes, SMTT(30) DEF HardReset
<1>39. CASE Choose
  BY <1>39, CallSizes, SMTT(30) DEF Choose, Chosen
<1>40. CASE Connect
  BY <1>40, CallSizes, SMTT(30) DEF Connect
<1>41. CASE Recover
  BY <1>41, CallSizes, GotoSizes, SMTT(30) DEF Recover
<1>42. CASE Turn
  BY <1>42, CallSizes DEF Turn, TurnStart, TurnRead, TurnChecked, TurnRecovered
<1> QED
  BY <1>1, <1>2, <1>3, <1>4, <1>5, <1>6, <1>7, <1>8, <1>9, <1>10, <1>11, <1>12, <1>13,
     <1>14, <1>15, <1>16, <1>17, <1>18, <1>19, <1>20, <1>21, <1>22, <1>23, <1>24,
     <1>25, <1>26, <1>27, <1>28, <1>29, <1>30, <1>31, <1>32, <1>33, <1>34, <1>35,
     <1>36, <1>37, <1>38, <1>39, <1>40, <1>41, <1>42
     DEF Proceed, Command, Reset, Helper

LEMMA SizingStep ==
  ASSUME Typed, Sizing, [Next]_vars
  PROVE  Sizing'
<1>1. PICK w : Wants(w) /\ TopSized(w[Len(stack)])
  BY DEF Sizing
<1>2. CASE Proceed /\ ~Crash
  BY <1>1, <1>2, SizingProceed
<1>3. CASE stack' = <<>>
  <2>1. Len(stack') = 0
    BY <1>3
  <2> QED
    BY <1>1, <1>3, <2>1 DEF Sizing, Wants, TopSized
<1>4. CASE Stop \/ Disconnect \/ UNCHANGED vars
  <2>1. UNCHANGED <<stack, result, io>> \/ (stack = <<>> /\ UNCHANGED stack)
    BY <1>4 DEF Stop, Disconnect, vars
  <2> QED
    BY <1>1, <2>1 DEF Sizing, Wants, TopSized, top
<1>5. ASSUME NEW what \in Requests, Begin(what) PROVE Sizing'
  <2>1. PICK x \in [Nat -> Wanted] : x[1] = "any"
    <3>1. [i \in Nat |-> "any"] \in [Nat -> Wanted]
      BY DEF Wanted
    <3> QED
      BY <3>1
  <2>2. /\ Len(stack') = 1 /\ stack'[1].p \in Asked /\ stack'[1].at = "start"
        /\ top' = stack'[1]
    BY <1>5, BeginFacts DEF Typed
  <2>3. ~Saves(stack'[1].p, stack'[1].at)
    BY <2>2 DEF Saves
  <2>4. Wants(x)'
    BY <2>1, <2>2, <2>3 DEF Wants
  <2>5. TopSized(x[1])'
    BY <2>1, <2>2 DEF TopSized, Sized, Is, Asked
  <2> QED
    BY <2>2, <2>4, <2>5 DEF Sizing
<1> QED
  BY <1>2, <1>3, <1>4, <1>5 DEF Next, Crash, Restart

LEMMA SizingInit ==
  ASSUME Init
  PROVE  Sizing
<1>1. stack = <<>> /\ Len(stack) = 0
  BY DEF Init
<1>2. PICK w \in [Nat -> Wanted] : w[1] = "any"
  <2>1. [i \in Nat |-> "any"] \in [Nat -> Wanted]
    BY DEF Wanted
  <2> QED
    BY <2>1
<1> QED
  BY <1>1, <1>2 DEF Sizing, Wants, TopSized

(* So a command is sent with the size it wants.                            *)
LEMMA SentSize ==
  ASSUME Typed, Sizing, stack # <<>>, top.p = "rw", top.at = "send"
  PROVE  io.size = SizeOf[top.asked]
<1>1. PICK w : Wants(w) /\ TopSized(w[Len(stack)])
  BY DEF Sizing
<1>2. Len(stack) \in Nat \ {0} /\ top = stack[Len(stack)]
  BY TopIsFrame DEF Typed
<1>3. Len(stack) > 1
  <2>1. Len(stack) # 1
    BY <1>2 DEF Typed, Shape, Asked
  <2>2. \A n \in Nat \ {0} : n # 1 => n > 1
    OBVIOUS
  <2> QED
    BY <1>2, <2>1, <2>2
<1>4. /\ w[Len(stack)] = SizeOf[top.asked]
      /\ top.asked \in Commands
  <2> DEFINE i == Len(stack) - 1
  <2>1. i \in 1 .. Len(stack) - 1 /\ i + 1 = Len(stack)
    BY <1>2, <1>3
  <2>2. w[i + 1] = Inherit(stack[i].p, stack[i].at, stack[i + 1].p, stack[i + 1].asked, w[i])
    BY <1>1, <2>1 DEF Wants
  <2>3. Calls(stack[i], stack[i + 1])
    BY <2>1 DEF Typed, Shape
  <2> HIDE DEF i
  <2> QED
    BY <1>2, <2>1, <2>2, <2>3 DEF Inherit, Calls, MayCall, Commands
<1>5. w[Len(stack)] # "any"
  BY <1>4 DEF SizeOf, Commands
<1> QED
  BY <1>1, <1>4, <1>5 DEF TopSized, Sized, Is

(* Timers and flags that a call changes for those it makes (identify_device,  *)
(* read_chunk, do_hard_reset, the resets) are what they were when nothing is  *)
(* in progress, and the buffer has the size of the command whenever one is    *)
(* sent: resets, power cycles and identifications that nest, fail or are      *)
(* stopped in between do not matter.                                          *)
THEOREM AllIsPutBack == Spec => []SettingsKept
<1>1. Init => Mapping /\ Timing /\ Sizing
  BY TimingInit, SizingInit DEF Init, Mapping, Window, Fresh
<1>2. Typed /\ Mapping /\ Timing /\ Sizing /\ [Next]_vars => Mapping' /\ Timing' /\ Sizing'
  BY MappingStep, TimingStep, SizingStep
<1>3. Typed /\ Timing /\ Sizing => SettingsKept
  <2> SUFFICES ASSUME Typed, Timing, Sizing PROVE SettingsKept
    OBVIOUS
  <2>1. ASSUME Idle PROVE timer = Timers /\ ~flag.performing
    BY <2>1, DefaultsWhenIdle DEF Idle, Timers, Typed, Types, TimerTyped, TimerType
  <2> QED
    BY <2>1, SentSize DEF SettingsKept
<1> QED
  BY <1>1, <1>2, <1>3, AlwaysTyped, PTL DEF Spec

-----------------------------------------------------------------------------
(* Resets nest only through power cycles.                                  *)

(* Whoever sends a command may get it reset. Unless a reset is told not to *)
(* (performing_reset), the calls up to the k-th that send one within a     *)
(* reset do so within a power cycle of it.                                 *)
Sends == {"rw", "identify", "mode"}
Cycled(i, j) == \E k \in i .. j : stack[k].p = "power"
Free(k) ==
    \A i, j \in 1 .. k : i < j /\ stack[i].p = "soft" /\ stack[j].p \in Sends => Cycled(i, j)
Nesting ==
    /\ ~flag.performing => Free(Len(stack))
    /\ \A k \in 1 .. Len(stack) : stack[k].p = "soft" /\ stack[k].at # "start" => Free(k)

(* What the program asks for is not part of a reset.                       *)
LEMMA NoneWithinOuter ==
  ASSUME Shape, NEW j \in 1 .. Len(stack), stack[j].p \in Outer, NEW i \in 1 .. j
  PROVE  stack[i].p # "soft"
<1>1. stack[i].p \in Outer
  BY DEF Shape
<1> QED
  BY <1>1 DEF Outer

(* A soft reset only begins when no reset forbids it.                      *)
LEMMA SoftGoes ==
  ASSUME Typed, Proceed, ~Crash, top.p = "soft", top.at = "start"
  PROVE  stack' = Below \/ ~flag.performing
<1>1. CASE Reset
  BY <1>1 DEF At, Reset, SoftRefused, SoftStart, SoftWait, SoftHardDone,
     SoftAfter, SoftIdentified, SoftLast, SoftIde, HardStart, HardWait, HardCycled,
     HardAfter, HardIdentified, HardLast, HardForced, Return
<1>2. CASE ~Reset
  BY <1>2 DEF At, Proceed, Command, CommandWait, CommandResetFirst, CommandDone,
     CommandHangs, CommandDisturbed, CommandStopped, CommandResetAfter, CommandFinish,
     Helper, PowerStart, PowerCycle, PowerDone, ModeStart, ModeDone, IdentifyStart,
     IdentifyDone, ReadStart, ReadAgain, ReadDone, ReadChecked, CheckStart, CheckReset,
     CheckDone, HardReset, Choose, Connect, Recover, Turn, TurnStart, TurnRead,
     TurnChecked, TurnRecovered
<1> QED
  BY <1>1, <1>2

(* Only a reset that is at work allows resets again.                       *)
LEMMA Cleared ==
  ASSUME Typed, Proceed, ~Crash, flag.performing, ~flag'.performing
  PROVE  (top.p = "soft" /\ top.at # "start") \/ top.p = "hard"
<1>1. CASE Reset
  BY <1>1 DEF At, Reset, SoftRefused, SoftStart, SoftWait, SoftHardDone,
     SoftAfter, SoftIdentified, SoftLast, SoftIde, HardStart, HardWait, HardCycled,
     HardAfter, HardIdentified, HardLast, HardForced
<1>2. CASE ~Reset
  BY <1>2, PerformingSame DEF Reset
<1> QED
  BY <1>1, <1>2

Calm == Len(stack') > Len(stack) => stack'[Len(stack) + 1].p \notin Sends

(* Calm: no command was begun.                                             *)
LEMMA CalmLeaves ==
  ASSUME Shape, stack # <<>>, stack' = Below
  PROVE  Calm
BY Leaving, TopIsFrame DEF Shape, Leaves, Calm

LEMMA CalmMoved ==
  ASSUME Shape, stack # <<>>, NEW a, Moved(a)
  PROVE  Calm
BY Going, TopIsFrame DEF Shape, Goes, Calm, Moved

LEMMA CalmCalled ==
  ASSUME Shape, stack # <<>>, NEW a, NEW q, NEW c, Called(a, q, c), q \in Procs, c \in Asks,
         q \notin Sends
  PROVE  Calm
<1>1. PICK f \in Frames : Enter(f, Frame(q, c))
  BY DEF Called
<1>2. Enters(f, Frame(q, c)) /\ Frame(q, c).p = q
  BY <1>1, Entering, FrameFacts DEF Shape
<1> QED
  BY <1>2 DEF Enters, Calm

(* A reset that identifies the drive tells its command not to reset it.    *)
LEMMA ResetsAreCalm ==
  ASSUME Typed, Proceed, ~Crash, top.p \in {"soft", "hard"}, ~flag'.performing
  PROVE  Calm
<1> USE Names, CalmLeaves, CalmMoved, CalmCalled
    DEF At, Return, Settled, Typed, Sends, Types, FlagTyped, FlagType
<1>1. CASE SoftRefused
  BY <1>1 DEF SoftRefused
<1>2. CASE SoftStart
  BY <1>2, GotoMoves, SavingMoves, SavingCallMoves DEF SoftStart
<1>3. CASE SoftWait
  BY <1>3, CallMoves, DecidedMoves DEF SoftWait, Results
<1>4. CASE SoftHardDone
  BY <1>4, DecidedMoves DEF SoftHardDone, Types, ResultTyped
<1>5. CASE SoftAfter
  BY <1>5, CallMoves DEF SoftAfter
<1>6. CASE SoftIdentified
  BY <1>6, CallMoves DEF SoftIdentified
<1>7. CASE SoftLast
  BY <1>7 DEF SoftLast
<1>8. CASE SoftIde
  BY <1>8, CallMoves DEF SoftIde
<1>9. CASE HardStart
  BY <1>9, SavingMoves, CallMoves DEF HardStart
<1>10. CASE HardWait
  BY <1>10, GotoMoves, CallMoves DEF HardWait
<1>11. CASE HardCycled
  BY <1>11, GotoMoves DEF HardCycled
<1>12. CASE HardAfter
  BY <1>12, CallMoves DEF HardAfter
<1>13. CASE HardIdentified
  BY <1>13, CallMoves DEF HardIdentified
<1>14. CASE HardLast
  BY <1>14 DEF HardLast
<1>15. CASE HardForced
  BY <1>15, CallMoves, SMTT(30) DEF HardForced
<1>16. CASE ~Reset
  BY <1>16 DEF Proceed, Command, CommandWait, CommandResetFirst, CommandDone,
     CommandHangs, CommandDisturbed, CommandStopped, CommandResetAfter, CommandFinish,
     Helper, PowerStart, PowerCycle, PowerDone, ModeStart, ModeDone, IdentifyStart,
     IdentifyDone, ReadStart, ReadAgain, ReadDone, ReadChecked, CheckStart, CheckReset,
     CheckDone, HardReset, Choose, Connect, Recover, Turn, TurnStart, TurnRead,
     TurnChecked, TurnRecovered
<1> QED
  BY <1>1, <1>2, <1>3, <1>4, <1>5, <1>6, <1>7, <1>8, <1>9, <1>10, <1>11, <1>12, <1>13,
     <1>14, <1>15, <1>16
     DEF Reset

(* Free is kept by whatever leaves the calls it is about.                  *)
LEMMA FreeBefore ==
  ASSUME NEW k \in Nat, NEW l \in 0 .. k, Free(k)
  PROVE  Free(l)
BY DEF Free

LEMMA FreeKept ==
  ASSUME NEW k \in Nat, Free(k), \A i \in 1 .. k : stack'[i].p = stack[i].p
  PROVE  Free(k)'
<1> SUFFICES ASSUME NEW i \in 1 .. k, NEW j \in 1 .. k, i < j,
                    stack'[i].p = "soft", stack'[j].p \in Sends
             PROVE  Cycled(i, j)'
  BY DEF Free
<1>1. PICK l \in i .. j : stack[l].p = "power"
  BY DEF Free, Cycled
<1> QED
  BY <1>1 DEF Cycled

LEMMA StackKept ==
  ASSUME Typed, Proceed, ~Crash
  PROVE  /\ stack # <<>> /\ Len(stack) \in Nat \ {0} /\ top = stack[Len(stack)]
         /\ Len(stack') \in Len(stack) - 1 .. Len(stack) + 1
         /\ \A i \in 1 .. Len(stack) : i <= Len(stack') => stack'[i].p = stack[i].p
         /\ \A i \in 1 .. Len(stack) - 1 : stack'[i] = stack[i]
         /\ Len(stack') = Len(stack) + 1 => stack'[Len(stack) + 1].at = "start"
         /\ Len(stack') = Len(stack) - 1 <=> Leaves
<1>1. stack # <<>> /\ MovesOn /\ Len(stack) \in Nat \ {0} /\ top = stack[Len(stack)]
  BY StepsOn, TopIsFrame DEF Typed
<1>2. CASE Leaves
  BY <1>1, <1>2 DEF Leaves, Kept
<1>3. ASSUME NEW f \in Frames, f.p = top.p, Goes(f)
      PROVE  /\ \A i \in 1 .. Len(stack) : stack'[i].p = stack[i].p
             /\ Len(stack') = Len(stack) /\ Kept
  BY <1>1, <1>3 DEF Goes, Kept
<1>4. ASSUME NEW f \in Frames, NEW e \in Frames, f.p = top.p, e.at = "start", Enters(f, e)
      PROVE  /\ \A i \in 1 .. Len(stack) : stack'[i].p = stack[i].p
             /\ Len(stack') = Len(stack) + 1 /\ Kept /\ stack'[Len(stack) + 1].at = "start"
  BY <1>1, <1>4 DEF Enters, Kept
<1> QED
  BY <1>1, <1>2, <1>3, <1>4 DEF MovesOn, Kept, Leaves

LEMMA NestingProceed ==
  ASSUME Typed, Nesting, Proceed, ~Crash
  PROVE  Nesting'
<1>n. PICK n : n = Len(stack)
  OBVIOUS
<1>m. PICK m : m = Len(stack')
  OBVIOUS
<1> USE <1>n, <1>m
<1>1. /\ stack # <<>> /\ n \in Nat \ {0} /\ m \in n - 1 .. n + 1 /\ top = stack[n]
      /\ \A i \in 1 .. n : i <= m => stack'[i].p = stack[i].p
  BY StackKept
<1>2. /\ \A i \in 1 .. n - 1 : stack'[i] = stack[i]
      /\ m = n + 1 => stack'[n + 1].at = "start"
      /\ stack' = Below => m = n - 1
  BY StackKept, Leaving DEF Typed, Shape
<1>3. ASSUME NEW k \in 0 .. n, k <= m, Free(k) PROVE Free(k)'
  BY <1>1, <1>3, FreeKept
<1>4. ASSUME ~flag'.performing PROVE Free(n)
  <2>1. CASE ~flag.performing
    BY <2>1 DEF Nesting
  <2>2. CASE top.p = "soft" /\ top.at # "start"
    BY <1>1, <2>2 DEF Nesting
  <2>3. CASE top.p = "hard"
    <3>1. n # 1
      BY <1>1, <2>3 DEF Typed, Shape, Asked
    <3>2. n - 1 \in 1 .. n - 1 /\ n - 1 + 1 = n
      <4>1. \A k \in Nat \ {0} : k # 1 => k - 1 \in 1 .. k - 1 /\ k - 1 + 1 = k
        OBVIOUS
      <4> QED
        BY <1>1, <3>1, <4>1
    <3>3. Calls(stack[n - 1], stack[n])
      BY <3>2 DEF Typed, Shape
    <3>4. stack[n - 1].p = "soft" /\ stack[n - 1].at # "start"
      BY <1>1, <2>3, <3>3 DEF Calls, MayCall
    <3>5. Free(n - 1)
      BY <3>2, <3>4 DEF Nesting
    <3> QED
      BY <1>1, <2>3, <3>2, <3>5 DEF Free, Sends
  <2> QED
    BY <1>4, <2>1, <2>2, <2>3, Cleared
<1>5. ASSUME ~flag'.performing PROVE Free(m)'
  <2>1. Free(n)
    BY <1>4, <1>5
  <2>2. CASE m <= n
    BY <1>1, <1>3, <2>1, <2>2, FreeBefore
  <2>3. CASE m = n + 1
    <3>1. Free(n)'
      BY <1>1, <1>3, <2>1, <2>3
    <3>2. ASSUME NEW i \in 1 .. n, stack'[i].p = "soft", stack'[n + 1].p \in Sends
          PROVE  Cycled(i, n + 1)'
      <4>1. top.p \notin {"soft", "hard"} /\ stack'[n].p = top.p
        BY <1>1, <1>5, <2>3, <3>2, ResetsAreCalm DEF Calm
      <4>2. Calls(stack'[n], stack'[n + 1])
        <5>1. Shape'
          BY ShapeStep DEF Typed, Next
        <5> QED
          BY <1>1, <2>3, <5>1 DEF Shape
      <4>3. stack[i].p = "soft"
        BY <1>1, <2>3, <3>2
      <4>4. top.p \notin Outer
        BY <1>1, <4>3, NoneWithinOuter DEF Typed
      <4>5. top.p \in {"power", "mode", "identify"}
        BY <3>2, <4>1, <4>2, <4>4 DEF Calls, MayCall, Outer, Sends
      <4>6. CASE top.p = "power"
        BY <1>1, <4>1, <4>6 DEF Cycled
      <4>7. CASE top.p # "power"
        <5>1. i < n /\ stack[n].p \in Sends
          BY <1>1, <4>3, <4>5, <4>7 DEF Sends
        <5>2. PICK l \in i .. n : stack[l].p = "power"
          BY <1>1, <2>1, <4>3, <5>1 DEF Free, Cycled
        <5> QED
          BY <1>1, <2>3, <5>2 DEF Cycled
      <4> QED
        BY <4>6, <4>7
    <3>3. Free(n + 1)'
      BY <1>1, <3>1, <3>2 DEF Free
    <3> QED
      BY <2>3, <3>3
  <2> QED
    BY <1>1, <2>2, <2>3
<1>6. ASSUME NEW k \in 1 .. m, stack'[k].p = "soft", stack'[k].at # "start"
      PROVE  Free(k)'
  <2>1. k \in 1 .. n
    BY <1>1, <1>2, <1>6
  <2>2. Free(k)
    <3>1. CASE k # n
      BY <1>1, <1>2, <1>6, <2>1, <3>1 DEF Nesting
    <3>2. CASE k = n
      <4>1. top.p = "soft"
        BY <1>1, <1>6, <3>2
      <4>2. CASE top.at # "start"
        BY <1>1, <3>2, <4>1, <4>2 DEF Nesting
      <4>3. CASE top.at = "start"
        <5>1. ~flag.performing
          BY <1>1, <1>2, <3>2, <4>1, <4>3, SoftGoes
        <5> QED
          BY <3>2, <5>1 DEF Nesting
      <4> QED
        BY <4>2, <4>3
    <3> QED
      BY <3>1, <3>2
  <2> QED
    BY <1>1, <1>3, <2>1, <2>2
<1> QED
  BY <1>5, <1>6 DEF Nesting

LEMMA NestingStep ==
  ASSUME Typed, Nesting, [Next]_vars
  PROVE  Nesting'
<1>1. CASE Proceed /\ ~Crash
  BY <1>1, NestingProceed
<1>2. CASE stack' = <<>>
  BY <1>2 DEF Nesting, Free
<1>3. CASE Stop \/ Disconnect \/ UNCHANGED vars
  <2>1. UNCHANGED <<stack, flag>>
    BY <1>3 DEF Stop, Disconnect, vars
  <2> QED
    BY <2>1 DEF Nesting, Free, Cycled
<1>4. ASSUME NEW what \in Requests, Begin(what) PROVE Nesting'
  <2>1. Len(stack') = 1 /\ stack'[1].at = "start"
    BY <1>4, BeginFacts DEF Typed
  <2> QED
    BY <2>1 DEF Nesting, Free
<1> QED
  BY <1>1, <1>2, <1>3, <1>4 DEF Next, Crash, Restart

(* However resets, power cycles and identifications call each other, a reset *)
(* in progress below another that is at work is there because a power cycle  *)
(* lies between the two: performing_reset keeps the commands of a reset from *)
(* resetting the drive in turn (soft_reset, hard_reset).                     *)
THEOREM ResetsNestByPower == Spec => []NestedOnlyByPowerCycle
<1>1. Init => Nesting
  BY DEF Init, Nesting, Free
<1>2. Typed /\ Nesting /\ [Next]_vars => Nesting'
  BY NestingStep
<1>3. Typed /\ Nesting => NestedOnlyByPowerCycle
  <2> SUFFICES ASSUME Typed, Nesting, NEW i \in DOMAIN stack, NEW j \in DOMAIN stack, i < j,
                      stack[i].p = "soft", stack[j].p = "soft", stack[j].at # "start"
               PROVE  \E k \in i .. j : stack[k].p = "power"
    BY DEF NestedOnlyByPowerCycle
  <2>1. /\ Len(stack) \in Nat /\ i \in 1 .. Len(stack) /\ j \in 1 .. Len(stack)
        /\ j - 1 \in 1 .. Len(stack) - 1 /\ j - 1 + 1 = j /\ i \in 1 .. j - 1
    BY DEF Typed, Shape
  <2>2. Calls(stack[j - 1], stack[j])
    BY <2>1 DEF Typed, Shape
  <2>3. stack[j - 1].p \notin Outer
    BY <2>1, NoneWithinOuter, SMTT(30) DEF Typed
  <2>4. stack[j - 1].p = "rw"
    BY <2>2, <2>3 DEF Calls, MayCall, Outer
  <2>5. i < j - 1
    BY <2>1, <2>4
  <2>6. Free(j)
    BY <2>1 DEF Nesting
  <2>7. j - 1 \in 1 .. j /\ i \in 1 .. j
    BY <2>1
  <2>8. Cycled(i, j - 1)
    BY <2>4, <2>5, <2>6, <2>7 DEF Free, Sends
  <2> QED
    BY <2>1, <2>8 DEF Cycled
<1> QED
  BY <1>1, <1>2, <1>3, AlwaysTyped, PTL DEF Spec

-----------------------------------------------------------------------------
(* A reset that went well has seen the drive identify.                     *)

(* What is known of the call in progress, and what a call that returns     *)
(* promises: ans, cyc and hard stand for past.answered, past.cycled and    *)
(* flag.hard.                                                              *)
Known(p, at, code, r, ans, cyc, hard) ==
    /\ p = "soft" /\ at = "wait" => ~hard
    /\ p = "soft" /\ at = "after" => (hard /\ code = "ok" => ans \/ cyc)
    /\ p = "soft" /\ at \in {"forced", "escalated", "last"} => (r = "ok" => ans \/ cyc)
    /\ p = "soft" /\ at \in {"identified", "ide_identified"} => (r = "ok" => ans)
    /\ p = "hard" /\ at \in {"identified", "forced_identified"} => (r = "ok" => ans)
    /\ p = "hard" /\ at = "last" => (r = "ok" => cyc)
    /\ p = "hard_reset" /\ at = "reset" => (r = "ok" => ans \/ cyc)
    /\ p = "power" /\ at = "mode" => cyc
Answers(p, r, ans, cyc) ==
    /\ p = "identify" => (r = "ok" => ans)
    /\ p = "power" => (r = "ok" => cyc)
    /\ p \in {"soft", "hard"} => (r = "ok" => ans \/ cyc)
    /\ p = "hard_reset" => (r = "ok" => ans \/ cyc \/ ~conf.ahci)

Switched == \A i \in 1 .. Len(stack) : stack[i].p = "power" /\ stack[i].at = "mode" => past.cycled
Answering ==
    /\ stack # <<>> =>
         /\ doing = stack[1].p
         /\ Known(top.p, top.at, top.code, result, past.answered, past.cycled, flag.hard)
    /\ Switched
    /\ Idle => Answers(doing, result, past.answered, past.cycled)

(* The caller finds what the call that returns promises.                   *)
LEMMA BackKnown ==
  ASSUME NEW f \in Frames, NEW e \in Frames, Calls(f, e), NEW r, NEW ans, NEW cyc, NEW hard,
         e.p # "hard_reset" => Answers(e.p, r, ans, cyc),
         f.p = "power" /\ f.at = "mode" => cyc
  PROVE  Known(f.p, f.at, f.code, r, ans, cyc, hard)
BY DEF Calls, MayCall, Known, Answers

(* What the program asked for, and that the power was cycled, stays.       *)
LEMMA DoingSame ==
  ASSUME Proceed, ~Crash
  PROVE  doing' = doing
<1>1. CASE Command
  BY <1>1 DEF Command, CommandWait, CommandResetFirst, CommandDone, CommandHangs,
     CommandDisturbed, CommandStopped, CommandResetAfter, CommandFinish
<1>2. CASE Reset
  BY <1>2 DEF Reset, SoftRefused, SoftStart, SoftWait, SoftHardDone,
     SoftAfter, SoftIdentified, SoftLast, SoftIde, HardStart, HardWait, HardCycled,
     HardAfter, HardIdentified, HardLast, HardForced
<1>3. CASE Helper
  BY <1>3 DEF Helper, PowerStart, PowerCycle, PowerDone, ModeStart,
     ModeDone, IdentifyStart, IdentifyDone
<1>4. CASE \/ ReadStart \/ ReadAgain \/ ReadDone \/ ReadChecked
           \/ CheckStart \/ CheckReset \/ CheckDone
  BY <1>4 DEF ReadStart, ReadAgain, ReadDone, ReadChecked, CheckStart,
     CheckReset, CheckDone
<1>5. CASE HardReset \/ Choose \/ Connect
  BY <1>5 DEF HardReset, Choose, Chosen, Connect
<1>6. CASE Recover \/ Turn
  BY <1>6 DEF Recover, Turn, TurnStart, TurnRead, TurnChecked, TurnRecovered
<1> QED
  BY <1>1, <1>2, <1>3, <1>4, <1>5, <1>6 DEF Proceed

LEMMA CycledStays ==
  ASSUME Typed, Proceed, ~Crash
  PROVE  past.cycled => past'.cycled
<1> USE DEF Typed, Types, PastTyped, PastType
<1>1. CASE Command
  BY <1>1 DEF Command, CommandWait, CommandResetFirst, CommandDone, CommandHangs,
     CommandDisturbed, CommandStopped, CommandResetAfter, CommandFinish
<1>2. CASE Reset
  BY <1>2 DEF Reset, SoftRefused, SoftStart, SoftWait, SoftHardDone,
     SoftAfter, SoftIdentified, SoftLast, SoftIde, HardStart, HardWait, HardCycled,
     HardAfter, HardIdentified, HardLast, HardForced
<1>3. CASE Helper
  BY <1>3 DEF Helper, PowerStart, PowerCycle, PowerDone, ModeStart,
     ModeDone, IdentifyStart, IdentifyDone
<1>4. CASE \/ ReadStart \/ ReadAgain \/ ReadDone \/ ReadChecked
           \/ CheckStart \/ CheckReset \/ CheckDone
  BY <1>4 DEF ReadStart, ReadAgain, ReadDone, ReadChecked, CheckStart,
     CheckReset, CheckDone
<1>5. CASE HardReset \/ Choose \/ Connect
  BY <1>5 DEF HardReset, Choose, Chosen, Connect
<1>6. CASE Recover \/ Turn
  BY <1>6 DEF Recover, Turn, TurnStart, TurnRead, TurnChecked, TurnRecovered
<1> QED
  BY <1>1, <1>2, <1>3, <1>4, <1>5, <1>6 DEF Proceed

(* The first call is the one that the program made.                        *)
LEMMA FirstSame ==
  ASSUME Typed, Proceed, ~Crash, stack' # <<>>
  PROVE  stack'[1].p = stack[1].p
<1>1. /\ Len(stack) \in Nat \ {0} /\ Len(stack') \in Nat \ {0}
      /\ \A i \in 1 .. Len(stack) : i <= Len(stack') => stack'[i].p = stack[i].p
  <2>1. stack' \in Seq(Frames)
    BY ShapeStep DEF Typed, Next, Shape
  <2>2. Len(stack') \in Nat \ {0}
    BY <2>1, EmptySeq
  <2> QED
    BY <2>2, StackKept
<1> QED
  BY <1>1

(* A return, a call that goes on and a call that is made.                  *)
LEMMA AnswersLeaves ==
  ASSUME Typed, Answering, Proceed, ~Crash, stack' = Below, conf' = conf,
         Answers(top.p, result', past'.answered, past'.cycled)
  PROVE  Answering'
<1>1. /\ stack # <<>> /\ Leaves /\ Len(stack) \in Nat \ {0} /\ top = stack[Len(stack)]
      /\ top \in Frames /\ stack' \in Seq(Frames)
  BY StepsOn, Leaving, TopIsFrame DEF Typed, Shape
<1>2. past.cycled => past'.cycled
  BY CycledStays
<1>3. Switched'
  BY <1>1, <1>2 DEF Answering, Switched, Leaves, Kept
<1>4. CASE stack' = <<>>
  <2>1. Len(stack) = 1
    BY <1>1, <1>4, TopLeaves DEF Typed
  <2>2. doing' = top.p
    BY <1>1, <2>1, DoingSame DEF Answering
  <2>3. Answers(doing, result, past.answered, past.cycled)'
    BY <2>2 DEF Answers
  <2> QED
    BY <1>3, <1>4, <2>3 DEF Answering
<1>5. CASE stack' # <<>>
  <2>1. Calls(top', top) /\ Len(stack) > 1 /\ top' = stack[Len(stack) - 1]
    BY <1>1, <1>5, TopLeaves DEF Typed
  <2>2. top' \in Frames
    BY <1>1, <2>1, ElementOfSeq DEF Typed, Shape
  <2>3. top'.p = "power" /\ top'.at = "mode" => past'.cycled
    BY <1>1, <1>2, <2>1 DEF Answering, Switched
  <2>4. Known(top'.p, top'.at, top'.code, result', past'.answered, past'.cycled, flag'.hard)
    BY <1>1, <2>1, <2>2, <2>3, BackKnown
  <2>5. doing' = stack'[1].p
    BY <1>1, <1>5, FirstSame, DoingSame DEF Answering
  <2> QED
    BY <1>3, <1>5, <2>4, <2>5 DEF Answering, Idle
<1> QED
  BY <1>4, <1>5

LEMMA AnswersNow ==
  ASSUME Typed, Answering, Proceed, ~Crash, NEW f \in Frames, f.p = top.p, Now(f),
         Known(f.p, f.at, f.code, result', past'.answered, past'.cycled, flag'.hard)
  PROVE  Answering'
<1>1. /\ stack # <<>> /\ Goes(f) /\ Len(stack) \in Nat \ {0} /\ stack' # <<>> /\ top' = f
  BY StepsOn, Going, TopIsFrame, TopNow DEF Typed, Shape
<1>2. past.cycled => past'.cycled
  BY CycledStays
<1>3. Switched'
  BY <1>1, <1>2 DEF Answering, Switched, Goes, Kept, Known
<1>4. doing' = stack'[1].p
  BY <1>1, FirstSame, DoingSame DEF Answering
<1> QED
  BY <1>1, <1>3, <1>4 DEF Answering, Idle

LEMMA AnswersEnter ==
  ASSUME Typed, Answering, Proceed, ~Crash, NEW a, NEW q, NEW c, Called(a, q, c),
         q \in Procs, c \in Asks, top.p = "power" /\ a = "mode" => past'.cycled
  PROVE  Answering'
<1> DEFINE e == Frame(q, c)
<1>1. PICK f \in Frames : f.p = top.p /\ f.at = a /\ Enter(f, e)
  BY DEF Called
<1>2. e.at = "start"
  BY FrameFacts
<1> HIDE DEF e
<1>3. /\ stack # <<>> /\ Enters(f, e) /\ Len(stack) \in Nat \ {0} /\ stack' # <<>> /\ top' = e
  BY <1>1, StepsOn, Entering, TopIsFrame, TopEnter DEF Typed, Shape
<1>4. past.cycled => past'.cycled
  BY CycledStays
<1>5. Switched'
  <2> SUFFICES ASSUME NEW i \in 1 .. Len(stack'), stack'[i].p = "power", stack'[i].at = "mode"
               PROVE  past'.cycled
    BY DEF Switched
  <2>1. CASE i = Len(stack)
    BY <1>1, <1>3, <2>1 DEF Enters
  <2>2. CASE i \in 1 .. Len(stack) - 1
    BY <1>3, <1>4, <2>2 DEF Answering, Switched, Enters, Kept
  <2>3. CASE i = Len(stack) + 1
    BY <1>2, <1>3, <2>3 DEF Enters
  <2> QED
    BY <1>3, <2>1, <2>2, <2>3 DEF Enters
<1>6. doing' = stack'[1].p
  BY <1>3, FirstSame, DoingSame DEF Answering
<1>7. Known(e.p, "start", e.code, result', past'.answered, past'.cycled, flag'.hard)
  BY DEF Known
<1> QED
  BY <1>2, <1>3, <1>5, <1>6, <1>7 DEF Answering, Idle

(* The same for the ways in which a call goes on.                          *)
LEMMA GotoKnown ==
  ASSUME Typed, Answering, Proceed, ~Crash, Settled, NEW a \in Places, Goto(a),
         Known(top.p, a, top.code, result', past'.answered, past'.cycled, flag'.hard)
  PROVE  Answering'
BY StepsOn, TopIsFrame, OnwardFacts, AnswersNow DEF Goto, Typed

LEMMA DecidedKnown ==
  ASSUME Typed, Answering, Proceed, ~Crash, Settled, NEW a \in Places, NEW d \in Results,
         Now(Decided(a, d)),
         Known(top.p, a, d, result', past'.answered, past'.cycled, flag'.hard)
  PROVE  Answering'
BY StepsOn, TopIsFrame, DecidedFacts, AnswersNow DEF Typed

LEMMA SavingKnown ==
  ASSUME Typed, Answering, Proceed, ~Crash, Settled, NEW a \in Places, Now(Saving(a)),
         Known(top.p, a, top.code, result', past'.answered, past'.cycled, flag'.hard)
  PROVE  Answering'
BY StepsOn, TopIsFrame, SavingFacts, AnswersNow DEF Typed, Types, IoTyped, IoType

LEMMA TopKnown ==
  ASSUME Answering, stack # <<>>
  PROVE  Known(top.p, top.at, top.code, result, past.answered, past.cycled, flag.hard)
BY DEF Answering

LEMMA AnsweringProceed ==
  ASSUME Typed, Answering, Proceed, ~Crash
  PROVE  Answering'
<1> USE Names, TopKnown, TopFields, AnswersLeaves, AnswersEnter DEF At, Return, Settled,
   Typed, Types,
        FlagTyped, FlagType, PastTyped, PastType, Known, Answers
<1>1. CASE CommandWait
  BY <1>1, GotoKnown, CallMoves DEF CommandWait
<1>2. CASE CommandResetFirst
  BY <1>2, DecidedKnown DEF CommandResetFirst, Results
<1>3. CASE CommandDone
  BY <1>3, GotoKnown DEF CommandDone
<1>4. CASE CommandHangs
  BY <1>4, DecidedKnown, DecidedCallMoves DEF CommandHangs, Results
<1>5. CASE CommandDisturbed
  BY <1>5, DecidedKnown, DecidedCallMoves DEF CommandDisturbed, Results
<1>6. CASE CommandStopped
  BY <1>6 DEF CommandStopped
<1>7. CASE CommandResetAfter
  BY <1>7, TopFields, DecidedKnown DEF CommandResetAfter, Results
<1>8. CASE CommandFinish
  BY <1>8 DEF CommandFinish
<1>9. CASE SoftRefused
  BY <1>9 DEF SoftRefused
<1>10. CASE SoftStart
  BY <1>10, GotoKnown, SavingKnown, SavingCallMoves DEF SoftStart
<1>11. CASE SoftWait
  BY <1>11, CallMoves, DecidedKnown DEF SoftWait, Results
<1>12. CASE SoftHardDone
  BY <1>12, DecidedKnown DEF SoftHardDone, Types, ResultTyped
<1>13. CASE SoftAfter
  BY <1>13, CallMoves DEF SoftAfter
<1>14. CASE SoftIdentified
  BY <1>14, CallMoves DEF SoftIdentified
<1>15. CASE SoftLast
  BY <1>15 DEF SoftLast
<1>16. CASE SoftIde
  BY <1>16, CallMoves DEF SoftIde
<1>17. CASE HardStart
  BY <1>17, SavingKnown, CallMoves DEF HardStart
<1>18. CASE HardWait
  BY <1>18, GotoKnown, CallMoves DEF HardWait
<1>19. CASE HardCycled
  BY <1>19, GotoKnown DEF HardCycled
<1>20. CASE HardAfter
  BY <1>20, CallMoves DEF HardAfter
<1>21. CASE HardIdentified
  BY <1>21, CallMoves DEF HardIdentified
<1>22. CASE HardLast
  BY <1>22 DEF HardLast
<1>23. CASE HardForced
  BY <1>23, CallMoves DEF HardForced
<1>24. CASE PowerStart
  BY <1>24, GotoKnown DEF PowerStart
<1>25. CASE PowerCycle
  <2>1. CASE stack' = Below /\ result' = "fail"
    BY <1>25, <2>1 DEF PowerCycle
  <2>2. CASE past' = [past EXCEPT !.cycled = TRUE, !.lost = FALSE]
    <3>1. past'.cycled
      BY <2>2
    <3>2. CASE stack' = Below /\ result' = "ok"
      BY <1>25, <3>1, <3>2 DEF PowerCycle
    <3>3. CASE Call("mode", Frame("mode", "none"))
      BY <1>25, <3>1, <3>3, CallMoves DEF PowerCycle
    <3> QED
      BY <1>25, <2>2, <3>2, <3>3 DEF PowerCycle
  <2> QED
    BY <1>25, <2>1, <2>2 DEF PowerCycle
<1>26. CASE PowerDone
  BY <1>26 DEF PowerDone
<1>27. CASE ModeStart
  BY <1>27, SavingCallMoves DEF ModeStart
<1>28. CASE ModeDone
  BY <1>28 DEF ModeDone
<1>29. CASE IdentifyStart
  BY <1>29, AsideMoves DEF IdentifyStart
<1>30. CASE IdentifyDone
  BY <1>30 DEF IdentifyDone
<1>31. CASE ReadStart
  BY <1>31, CallMoves DEF ReadStart
<1>32. CASE ReadAgain
  BY <1>32, CallMoves DEF ReadAgain
<1>33. CASE ReadDone
  BY <1>33, DecidedCallMoves DEF ReadDone, Types, ResultTyped
<1>34. CASE ReadChecked
  BY <1>34 DEF ReadChecked
<1>35. CASE CheckStart
  BY <1>35, MarkedMoves DEF CheckStart
<1>36. CASE CheckReset
  BY <1>36, CallMoves DEF CheckReset
<1>37. CASE CheckDone
  BY <1>37 DEF CheckDone
<1>38. CASE HardReset
  BY <1>38, CallMoves DEF HardReset
<1>39. CASE Choose
  BY <1>39, CallMoves DEF Choose, Chosen
<1>40. CASE Connect
  BY <1>40, CallMoves DEF Connect
<1>41. CASE Recover
  BY <1>41, CallMoves, GotoKnown DEF Recover
<1>42. CASE Turn
  BY <1>42, CallMoves DEF Turn, TurnStart, TurnRead, TurnChecked, TurnRecovered
<1> QED
  BY <1>1, <1>2, <1>3, <1>4, <1>5, <1>6, <1>7, <1>8, <1>9, <1>10, <1>11, <1>12, <1>13,
     <1>14, <1>15, <1>16, <1>17, <1>18, <1>19, <1>20, <1>21, <1>22, <1>23, <1>24,
     <1>25, <1>26, <1>27, <1>28, <1>29, <1>30, <1>31, <1>32, <1>33, <1>34, <1>35,
     <1>36, <1>37, <1>38, <1>39, <1>40, <1>41, <1>42
     DEF Proceed, Command, Reset, Helper

LEMMA AnsweringStep ==
  ASSUME Typed, Answering, [Next]_vars
  PROVE  Answering'
<1>1. CASE Proceed /\ ~Crash
  BY <1>1, AnsweringProceed
<1>2. CASE Crash
  BY <1>2 DEF Crash, Answering, Idle, Switched
<1>3. CASE Restart
  <2>1. Len(stack') = 0 /\ result' = "none"
    BY <1>3 DEF Restart
  <2> QED
    BY <1>3, <2>1 DEF Restart, Answering, Idle, Switched, Answers
<1>4. CASE Stop \/ Disconnect \/ UNCHANGED vars
  <2>1. UNCHANGED <<conf, stack, result, doing, flag, crashed, past>>
    BY <1>4 DEF Stop, Disconnect, vars
  <2> QED
    BY <2>1 DEF Answering, Idle, Switched, Answers, top
<1>5. ASSUME NEW what \in Requests, Begin(what) PROVE Answering'
  <2>1. /\ Len(stack') = 1 /\ stack'[1].p = what /\ stack'[1].at = "start" /\ stack' # <<>>
        /\ top' = stack'[1]
    BY <1>5, BeginFacts DEF Typed
  <2>2. doing' = what
    BY <1>5 DEF Begin
  <2> QED
    BY <2>1, <2>2 DEF Answering, Idle, Switched, Known
<1> QED
  BY <1>1, <1>2, <1>3, <1>4, <1>5 DEF Next

(* A soft or hard reset the user asks for and that reports success has seen  *)
(* the drive identify since, or has cycled its power: whether it went on to  *)
(* the hard reset (escalated, forced or after a failed identify), to the     *)
(* power cycle, or was answered at once. Only on IDE a hard reset may report *)
(* success without.                                                          *)
THEOREM SuccessMeansAnswered == Spec => []ResetOkMeansAnswered
<1>1. Init => Answering
  BY DEF Init, Answering, Idle, Switched, Answers
<1>2. Typed /\ Answering /\ [Next]_vars => Answering'
  BY AnsweringStep
<1>3. Answering => ResetOkMeansAnswered
  BY DEF Answering, ResetOkMeansAnswered, Idle, Answers
<1> QED
  BY <1>1, <1>2, <1>3, AlwaysTyped, PTL DEF Spec

-----------------------------------------------------------------------------
(* What is written is what was read.                                       *)

(* The registers a read is sent from, all those its command uses.          *)
Filled(v) == v.low = "read" /\ (conf.wide => v.high = "read")

(* What is known of the call in progress, what a read that returns         *)
(* promises, and what is known of every command that waits for a reset: v  *)
(* stands for io, first for past.first.                                    *)
Right(p, asked, at, code, r, v, first) ==
    /\ p = "rw" /\ asked = "read" =>
         /\ at = "start" \/ (at = "send" /\ ~first) => Filled(v)
         /\ at = "finish" /\ code = "ok" /\ ~v.error /\ ~first => v.buffer = "data"
    /\ \/ p = "read" /\ at \in {"read", "again"}
       \/ p = "turn" /\ at = "read"
       => (r = "ok" /\ ~v.error /\ ~first => v.buffer = "data")
    /\ p = "read" /\ at = "fault" /\ r = "ok" => v.error = TRUE
Gives(p, asked, r, v, first) ==
    (p = "rw" /\ asked = "read") \/ p = "read" =>
        (r = "ok" /\ ~v.error /\ ~first => v.buffer = "data")
Held(f, first) ==
    f.p = "rw" =>
        /\ f.at = "reset_after" => f.code # "ok"
        /\ f.at = "reset_first" /\ f.asked = "read" => first

(* A check of a read that failed keeps the error of that read.             *)
Faulty(i) == stack[i].p = "read" /\ stack[i].at = "fault"
ErrorKept ==
    \A i \in 1 .. Len(stack) - 1 : Faulty(i) =>
        IF stack[i + 1].at = "start" THEN io.error = TRUE ELSE stack[i + 1].busy = TRUE

Reading ==
    /\ stack # <<>> =>
         /\ past.wrote = "none"
         /\ Right(top.p, top.asked, top.at, top.code, result, io, past.first)
    /\ \A i \in 1 .. Len(stack) : Held(stack[i], past.first)
    /\ ErrorKept
    /\ RightUnlessResetFirst

(* The caller finds what the call that returns promises.                   *)
LEMMA BackRight ==
  ASSUME NEW f \in Frames, NEW e \in Frames, Calls(f, e), NEW r, NEW v, NEW first,
         Gives(e.p, e.asked, r, v, first),
         f.p = "read" /\ f.at = "fault" => (r = "ok" => v.error = TRUE)
  PROVE  Right(f.p, f.asked, f.at, f.code, r, v, first)
BY DEF Calls, MayCall, Right, Gives

(* Only a read that is repeated forgets the reset before it.               *)
LEMMA FirstStays ==
  ASSUME Typed, ~ReadAgain, Proceed, ~Crash
  PROVE  past.first => past'.first
<1> USE DEF Typed, Types, PastTyped, PastType
<1>1. CASE Command
  BY <1>1 DEF Command, CommandWait, CommandResetFirst, CommandDone, CommandHangs,
     CommandDisturbed, CommandStopped, CommandResetAfter, CommandFinish
<1>2. CASE Reset
  BY <1>2 DEF Reset, SoftRefused, SoftStart, SoftWait, SoftHardDone,
     SoftAfter, SoftIdentified, SoftLast, SoftIde, HardStart, HardWait, HardCycled,
     HardAfter, HardIdentified, HardLast, HardForced
<1>3. CASE Helper
  BY <1>3 DEF Helper, PowerStart, PowerCycle, PowerDone, ModeStart,
     ModeDone, IdentifyStart, IdentifyDone
<1>4. CASE \/ ReadStart \/ ReadAgain \/ ReadDone \/ ReadChecked
           \/ CheckStart \/ CheckReset \/ CheckDone
  BY <1>4 DEF ReadStart, ReadAgain, ReadDone, ReadChecked, CheckStart,
     CheckReset, CheckDone
<1>5. CASE HardReset \/ Choose \/ Connect
  BY <1>5 DEF HardReset, Choose, Chosen, Connect
<1>6. CASE Recover \/ Turn
  BY <1>6 DEF Recover, Turn, TurnStart, TurnRead, TurnChecked, TurnRecovered
<1> QED
  BY <1>1, <1>2, <1>3, <1>4, <1>5, <1>6 DEF Proceed

LEMMA WroteSame ==
  ASSUME Typed, ~TurnRead, Proceed, ~Crash
  PROVE  past'.wrote = past.wrote
<1> USE DEF Typed, Types, PastTyped, PastType
<1>1. CASE Command
  BY <1>1 DEF Command, CommandWait, CommandResetFirst, CommandDone, CommandHangs,
     CommandDisturbed, CommandStopped, CommandResetAfter, CommandFinish
<1>2. CASE Reset
  BY <1>2 DEF Reset, SoftRefused, SoftStart, SoftWait, SoftHardDone,
     SoftAfter, SoftIdentified, SoftLast, SoftIde, HardStart, HardWait, HardCycled,
     HardAfter, HardIdentified, HardLast, HardForced
<1>3. CASE Helper
  BY <1>3 DEF Helper, PowerStart, PowerCycle, PowerDone, ModeStart,
     ModeDone, IdentifyStart, IdentifyDone
<1>4. CASE \/ ReadStart \/ ReadAgain \/ ReadDone \/ ReadChecked
           \/ CheckStart \/ CheckReset \/ CheckDone
  BY <1>4 DEF ReadStart, ReadAgain, ReadDone, ReadChecked, CheckStart,
     CheckReset, CheckDone
<1>5. CASE HardReset \/ Choose \/ Connect
  BY <1>5 DEF HardReset, Choose, Chosen, Connect
<1>6. CASE Recover \/ Turn
  BY <1>6 DEF Recover, Turn, TurnStart, TurnRead, TurnChecked, TurnRecovered
<1> QED
  BY <1>1, <1>2, <1>3, <1>4, <1>5, <1>6 DEF Proceed

(* The commands below the call in progress keep what they hold.            *)
LEMMA HeldBelow ==
  ASSUME Typed, Reading, Proceed, ~Crash, NEW i \in 1 .. Len(stack) - 1
  PROVE  Held(stack[i], past'.first)
<1>1. i \in 1 .. Len(stack) /\ Len(stack) \in Nat \ {0} /\ top = stack[Len(stack)]
  BY StepsOn, TopIsFrame DEF Typed
<1>2. CASE ~ReadAgain
  BY <1>1, <1>2, FirstStays DEF Reading, Held
<1>3. CASE ReadAgain
  <2>1. stack[Len(stack)].p \in Outer
    BY <1>1, <1>3 DEF ReadAgain, At, Outer
  <2>2. stack[i].p \in Outer
    BY <1>1, <2>1 DEF Typed, Shape
  <2> QED
    BY <2>2 DEF Held, Outer
<1> QED
  BY <1>2, <1>3

(* Below the call in progress nothing is at its start.                     *)
LEMMA ErrorBelow ==
  ASSUME Typed, Reading, NEW i \in 1 .. Len(stack) - 2, Faulty(i)
  PROVE  stack[i + 1].at # "start" /\ stack[i + 1].busy = TRUE
<1>1. /\ Len(stack) \in Nat /\ i \in 1 .. Len(stack) - 1 /\ i + 1 \in 1 .. Len(stack) - 1
  BY DEF Typed, Shape
<1>2. Calls(stack[i], stack[i + 1]) /\ Calls(stack[i + 1], stack[i + 1 + 1])
  BY <1>1 DEF Typed, Shape
<1>3. stack[i + 1].at # "start"
  BY <1>2 DEF Calls, MayCall, Faulty
<1> QED
  BY <1>1, <1>3 DEF Reading, ErrorKept

(* A return, a call that goes on and a call that is made.                  *)
LEMMA ReadLeaves ==
  ASSUME Typed, Reading, Proceed, ~Crash, stack' = Below, past'.wrote = "none",
         Gives(top.p, top.asked, result', io', past'.first),
         top.p = "check" /\ result' = "ok" => top.at # "start" /\ io'.error = top.busy
  PROVE  Reading'
<1>1. /\ stack # <<>> /\ Leaves /\ Len(stack) \in Nat \ {0} /\ top = stack[Len(stack)]
      /\ top \in Frames /\ stack' \in Seq(Frames)
  BY StepsOn, Leaving, TopIsFrame DEF Typed, Shape
<1>2. \A i \in 1 .. Len(stack') : Held(stack'[i], past'.first)
  BY <1>1, HeldBelow DEF Leaves, Kept
<1>3. ErrorKept'
  <2> SUFFICES ASSUME NEW i \in 1 .. Len(stack') - 1, Faulty(i)'
               PROVE  stack'[i + 1].at # "start" /\ stack'[i + 1].busy = TRUE
    BY DEF ErrorKept
  <2>1. /\ i \in 1 .. Len(stack) - 2 /\ stack'[i] = stack[i] /\ stack'[i + 1] = stack[i + 1]
    BY <1>1 DEF Leaves, Kept
  <2> QED
    BY <2>1, ErrorBelow DEF Faulty
<1>4. RightUnlessResetFirst'
  BY DEF RightUnlessResetFirst
<1>5. conf' = conf
  BY ConfSame DEF Next
<1>6. ASSUME stack' # <<>>
      PROVE  Right(top'.p, top'.asked, top'.at, top'.code, result', io', past'.first)
  <2>1. Calls(top', top) /\ Len(stack) > 1 /\ top' = stack[Len(stack) - 1] /\ top' \in Frames
    BY <1>1, <1>6, TopLeaves, ElementOfSeq DEF Typed, Shape
  <2>2. ASSUME top'.p = "read", top'.at = "fault", result' = "ok" PROVE io'.error = TRUE
    <3>1. /\ Len(stack) - 1 \in 1 .. Len(stack) - 1 /\ Len(stack) - 1 + 1 = Len(stack)
          /\ Faulty(Len(stack) - 1)
      BY <1>1, <2>1, <2>2 DEF Faulty
    <3>2. top.p = "check"
      BY <2>1, <2>2 DEF Calls, MayCall
    <3>3. top.at # "start" => top.busy = TRUE
      BY <1>1, <3>1 DEF Reading, ErrorKept
    <3> QED
      BY <2>2, <3>2, <3>3
  <2> QED
    BY <1>1, <2>1, <2>2, BackRight
<1> QED
  BY <1>2, <1>3, <1>4, <1>5, <1>6 DEF Reading, Right, Filled

LEMMA ReadNow ==
  ASSUME Typed, Reading, Proceed, ~Crash, NEW f \in Frames, f.p = top.p, f.asked = top.asked,
         Now(f), past'.wrote = "none", f.p # "check", f.at # "fault", Held(f, past'.first),
         Right(f.p, f.asked, f.at, f.code, result', io', past'.first)
  PROVE  Reading'
<1>1. /\ stack # <<>> /\ Goes(f) /\ Len(stack) \in Nat \ {0} /\ top = stack[Len(stack)]
      /\ stack' # <<>> /\ top' = f
  BY StepsOn, Going, TopIsFrame, TopNow DEF Typed, Shape
<1>2. \A i \in 1 .. Len(stack') : Held(stack'[i], past'.first)
  BY <1>1, HeldBelow DEF Goes, Kept
<1>3. ErrorKept'
  <2> SUFFICES ASSUME NEW i \in 1 .. Len(stack') - 1, Faulty(i)'
               PROVE  stack'[i + 1].at # "start" /\ stack'[i + 1].busy = TRUE
    BY DEF ErrorKept
  <2>1. i \in 1 .. Len(stack) - 1 /\ stack'[i] = stack[i]
    BY <1>1 DEF Goes, Kept
  <2>2. stack[i + 1].p = "check"
    BY <2>1 DEF Typed, Shape, Calls, MayCall, Faulty
  <2>3. i + 1 # Len(stack)
    BY <1>1, <2>2
  <2>4. i \in 1 .. Len(stack) - 2 /\ stack'[i + 1] = stack[i + 1]
    BY <1>1, <2>1, <2>3 DEF Goes, Kept
  <2> QED
    BY <2>1, <2>4, ErrorBelow DEF Faulty
<1>4. RightUnlessResetFirst'
  BY DEF RightUnlessResetFirst
<1>5. conf' = conf
  BY ConfSame DEF Next
<1> QED
  BY <1>1, <1>2, <1>3, <1>4, <1>5 DEF Reading, Right, Filled

LEMMA ReadEnter ==
  ASSUME Typed, Reading, Proceed, ~Crash, NEW f \in Frames, NEW q \in Procs, NEW c \in Asks,
         f.p = top.p, f.asked = top.asked, Enter(f, Frame(q, c)), past'.wrote = "none",
         Held(f, past'.first),
         f.p = "check" =>
           f.at # "start" /\ f.busy = (IF top.at = "start" THEN io.error ELSE top.busy),
         f.p = "read" /\ f.at = "fault" => io'.error = TRUE,
         q = "rw" /\ c = "read" => Filled(io')
  PROVE  Reading'
<1> DEFINE e == Frame(q, c)
<1>1. e \in Frames /\ e.p = q /\ e.asked = c /\ e.at = "start"
  BY FrameFacts
<1> HIDE DEF e
<1>2. /\ stack # <<>> /\ Enters(f, e) /\ Len(stack) \in Nat \ {0} /\ top = stack[Len(stack)]
      /\ stack' # <<>> /\ top' = e
  BY StepsOn, Entering, TopIsFrame, TopEnter DEF Typed, Shape, e
<1>3. \A i \in 1 .. Len(stack') : Held(stack'[i], past'.first)
  <2> SUFFICES ASSUME NEW i \in 1 .. Len(stack') PROVE Held(stack'[i], past'.first)
    OBVIOUS
  <2>1. CASE i \in 1 .. Len(stack) - 1
    BY <1>2, <2>1, HeldBelow DEF Enters, Kept
  <2>2. CASE i = Len(stack)
    BY <1>2, <2>2 DEF Enters
  <2>3. CASE i = Len(stack) + 1
    BY <1>1, <1>2, <2>3 DEF Enters, Held
  <2> QED
    BY <1>2, <2>1, <2>2, <2>3 DEF Enters
<1>4. ErrorKept'
  <2> SUFFICES ASSUME NEW i \in 1 .. Len(stack') - 1, Faulty(i)'
               PROVE  IF stack'[i + 1].at = "start" THEN io'.error = TRUE
                      ELSE stack'[i + 1].busy = TRUE
    BY DEF ErrorKept
  <2>1. CASE i = Len(stack)
    BY <1>1, <1>2, <2>1 DEF Enters, Faulty
  <2>2. CASE i = Len(stack) - 1
    <3>1. /\ stack'[i] = stack[i] /\ i \in 1 .. Len(stack) - 1 /\ i + 1 = Len(stack)
          /\ stack'[i + 1] = f
      BY <1>2, <2>2 DEF Enters, Kept
    <3>2. Faulty(i) /\ stack[i + 1].p = "check"
      BY <3>1 DEF Typed, Shape, Calls, MayCall, Faulty
    <3>3. IF top.at = "start" THEN io.error = TRUE ELSE top.busy = TRUE
      BY <1>2, <3>1, <3>2 DEF Reading, ErrorKept
    <3> QED
      BY <1>2, <3>1, <3>2, <3>3
  <2>3. CASE i \in 1 .. Len(stack) - 2
    <3>1. stack'[i] = stack[i] /\ stack'[i + 1] = stack[i + 1]
      BY <1>2, <2>3, SMTT(30) DEF Enters, Kept
    <3> QED
      BY <2>3, <3>1, ErrorBelow DEF Faulty
  <2>4. i = Len(stack) \/ i = Len(stack) - 1 \/ i \in 1 .. Len(stack) - 2
    BY <1>2 DEF Enters
  <2> QED
    BY <2>1, <2>2, <2>3, <2>4
<1>5. RightUnlessResetFirst'
  BY DEF RightUnlessResetFirst
<1>6. conf' = conf
  BY ConfSame DEF Next
<1>7. Right(e.p, e.asked, e.at, e.code, result', io', past'.first)
  BY <1>1 DEF Right
<1> QED
  BY <1>2, <1>3, <1>4, <1>5, <1>6, <1>7 DEF Reading, Right, Filled

(* The same for the ways in which a call goes on.                          *)
Reads(a, d) ==
    /\ past'.wrote = "none" /\ top.p # "check" /\ a # "fault"
    /\ top.p = "rw" => /\ a = "reset_after" => d # "ok"
                       /\ a = "reset_first" /\ top.asked = "read" => past'.first
    /\ Right(top.p, top.asked, a, d, result', io', past'.first)
Asking(a, d, q, c) ==
    /\ past'.wrote = "none" /\ (top.p = "check" => a # "start" /\ top.at # "start")
    /\ top.p = "rw" => /\ a = "reset_after" => d # "ok"
                       /\ a = "reset_first" /\ top.asked = "read" => past'.first
    /\ top.p = "read" /\ a = "fault" => io'.error = TRUE
    /\ q = "rw" /\ c = "read" => Filled(io')

LEMMA GotoReads ==
  ASSUME Typed, Reading, Proceed, ~Crash, Settled, NEW a \in Places, Goto(a),
         Reads(a, top.code)
  PROVE  Reading'
BY StepsOn, TopIsFrame, OnwardFacts, ReadNow DEF Goto, Typed, Reads, Held

LEMMA DecidedReads ==
  ASSUME Typed, Reading, Proceed, ~Crash, Settled, NEW a \in Places, NEW d \in Results,
         Now(Decided(a, d)), Reads(a, d)
  PROVE  Reading'
BY StepsOn, TopIsFrame, DecidedFacts, ReadNow DEF Typed, Reads, Held

LEMMA SavingReads ==
  ASSUME Typed, Reading, Proceed, ~Crash, Settled, NEW a \in Places, Now(Saving(a)),
         Reads(a, top.code)
  PROVE  Reading'
BY StepsOn, TopIsFrame, SavingFacts, ReadNow DEF Typed, Types, IoTyped, IoType, Reads,
   Held

LEMMA CallReads ==
  ASSUME Typed, Reading, Proceed, ~Crash, Settled, NEW a \in Places, NEW q \in Procs,
         NEW c \in Asks, Call(a, Frame(q, c)), Asking(a, top.code, q, c)
  PROVE  Reading'
<1>1. stack # <<>> /\ top \in Frames
  BY StepsOn, TopIsFrame DEF Typed
<1>2. /\ Onward(a) \in Frames /\ Onward(a).p = top.p /\ Onward(a).asked = top.asked
      /\ Onward(a).at = a /\ Onward(a).busy = top.busy /\ Onward(a).code = top.code
      /\ Enter(Onward(a), Frame(q, c))
  BY <1>1, OnwardFacts DEF Call
<1> DEFINE f == Onward(a)
<1> HIDE DEF f
<1>3. Held(f, past'.first)
  BY <1>2 DEF Asking, Held, f
<1>4. f.p = "check" =>
        f.at # "start" /\ f.busy = (IF top.at = "start" THEN io.error ELSE top.busy)
  BY <1>2 DEF Asking, f
<1> QED
  BY <1>2, <1>3, <1>4, ReadEnter DEF Asking, f

LEMMA DecidedCallReads ==
  ASSUME Typed, Reading, Proceed, ~Crash, Settled, NEW a \in Places, NEW d \in Results,
         NEW q \in Procs, NEW c \in Asks, Enter(Decided(a, d), Frame(q, c)),
         Asking(a, d, q, c)
  PROVE  Reading'
<1>1. stack # <<>> /\ top \in Frames
  BY StepsOn, TopIsFrame DEF Typed
<1>2. /\ Decided(a, d) \in Frames /\ Decided(a, d).p = top.p /\ Decided(a, d).asked = top.asked
      /\ Decided(a, d).at = a /\ Decided(a, d).busy = top.busy /\ Decided(a, d).code = d
      /\ Enter(Decided(a, d), Frame(q, c))
  BY <1>1, DecidedFacts DEF Call
<1> DEFINE f == Decided(a, d)
<1> HIDE DEF f
<1>3. Held(f, past'.first)
  BY <1>2 DEF Asking, Held, f
<1>4. f.p = "check" =>
        f.at # "start" /\ f.busy = (IF top.at = "start" THEN io.error ELSE top.busy)
  BY <1>2 DEF Asking, f
<1> QED
  BY <1>2, <1>3, <1>4, ReadEnter DEF Asking, f

LEMMA SavingCallReads ==
  ASSUME Typed, Reading, Proceed, ~Crash, Settled, NEW a \in Places, NEW q \in Procs,
         NEW c \in Asks, Enter(Saving(a), Frame(q, c)), Asking(a, top.code, q, c)
  PROVE  Reading'
<1>1. stack # <<>> /\ top \in Frames /\ io.size \in Sizes
  BY StepsOn, TopIsFrame DEF Typed, Types, IoTyped, IoType
<1>2. /\ Saving(a) \in Frames /\ Saving(a).p = top.p /\ Saving(a).asked = top.asked
      /\ Saving(a).at = a /\ Saving(a).busy = top.busy /\ Saving(a).code = top.code
      /\ Enter(Saving(a), Frame(q, c))
  BY <1>1, SavingFacts
<1> DEFINE f == Saving(a)
<1> HIDE DEF f
<1>3. Held(f, past'.first)
  BY <1>2 DEF Asking, Held, f
<1>4. f.p = "check" =>
        f.at # "start" /\ f.busy = (IF top.at = "start" THEN io.error ELSE top.busy)
  BY <1>2 DEF Asking, f
<1> QED
  BY <1>2, <1>3, <1>4, ReadEnter DEF Asking, f

(* What is known of the call in progress.                                  *)
LEMMA TopReads ==
  ASSUME Typed, Reading, Proceed, ~Crash
  PROVE  /\ stack # <<>> /\ past.wrote = "none" /\ (~TurnRead => past'.wrote = "none")
         /\ Right(top.p, top.asked, top.at, top.code, result, io, past.first)
         /\ Held(top, past.first)
BY StepsOn, TopIsFrame, WroteSame DEF Typed, Reading

LEMMA ReadingProceed ==
  ASSUME Typed, Sizing, Reading, Proceed, ~Crash
  PROVE  Reading'
<1> USE Names, TopReads, TopFields, ReadLeaves
    DEF At, Return, Settled, Typed, Types, IoTyped, IoType, PastTyped, PastType, Right, Gives,
        Held, Reads, Asking
<1>1. CASE CommandWait
  BY <1>1, GotoReads, CallReads, ZenonT(30) DEF CommandWait
<1>2. CASE CommandResetFirst
  BY <1>2, DecidedReads DEF CommandResetFirst, Results
<1>3. CASE CommandDone
  <2>1. ASSUME top.asked = "read", ~past.first, ~io'.error PROVE io'.buffer = "data"
    <3>1. Filled(io) /\ Sent("read") = "read"
      BY <1>3, <2>1 DEF CommandDone, Filled, Sent
    <3>2. io.size = "data" /\ SizeOf["read"] = "data"
      BY <1>3, <2>1, SentSize DEF CommandDone, SizeOf, Commands
    <3>3. Transferred(SizeOf[Sent(top.asked)]) = "data"
      BY <2>1, <3>1, <3>2 DEF Transferred
    <3>4. io' # [io EXCEPT !.error = TRUE]
      BY <2>1
    <3>5. io' = [io EXCEPT !.error = FALSE, !.buffer = Transferred(SizeOf[Sent(top.asked)])]
      BY <1>3, <3>4 DEF CommandDone
    <3> QED
      BY <3>3, <3>5
  <2>2. past' = past
    BY <1>3 DEF CommandDone
  <2> QED
    BY <1>3, <2>1, <2>2, GotoReads DEF CommandDone
<1>4. CASE CommandHangs
  BY <1>4, DecidedReads, DecidedCallReads DEF CommandHangs, Results
<1>5. CASE CommandDisturbed
  BY <1>5, DecidedReads, DecidedCallReads DEF CommandDisturbed, Results
<1>6. CASE CommandStopped
  BY <1>6 DEF CommandStopped
<1>7. CASE CommandResetAfter
  BY <1>7, TopFields, DecidedReads DEF CommandResetAfter, Results
<1>8. CASE CommandFinish
  BY <1>8 DEF CommandFinish
<1>9. CASE SoftRefused
  BY <1>9 DEF SoftRefused
<1>10. CASE SoftStart
  BY <1>10, GotoReads, SavingReads, SavingCallReads DEF SoftStart
<1>11. CASE SoftWait
  BY <1>11, CallReads, DecidedReads DEF SoftWait, Results
<1>12. CASE SoftHardDone
  BY <1>12, DecidedReads DEF SoftHardDone, Types, ResultTyped
<1>13. CASE SoftAfter
  BY <1>13, CallReads DEF SoftAfter
<1>14. CASE SoftIdentified
  BY <1>14, CallReads DEF SoftIdentified
<1>15. CASE SoftLast
  BY <1>15 DEF SoftLast
<1>16. CASE SoftIde
  BY <1>16, CallReads DEF SoftIde
<1>17. CASE HardStart
  BY <1>17, SavingReads, CallReads DEF HardStart
<1>18. CASE HardWait
  BY <1>18, GotoReads, CallReads DEF HardWait
<1>19. CASE HardCycled
  BY <1>19, GotoReads DEF HardCycled
<1>20. CASE HardAfter
  BY <1>20, CallReads DEF HardAfter
<1>21. CASE HardIdentified
  BY <1>21, CallReads DEF HardIdentified
<1>22. CASE HardLast
  BY <1>22 DEF HardLast
<1>23. CASE HardForced
  BY <1>23, CallReads DEF HardForced
<1>24. CASE PowerStart
  BY <1>24, GotoReads DEF PowerStart
<1>25. CASE PowerCycle
  BY <1>25, CallReads DEF PowerCycle
<1>26. CASE PowerDone
  BY <1>26 DEF PowerDone
<1>27. CASE ModeStart
  BY <1>27, SavingCallReads DEF ModeStart
<1>28. CASE ModeDone
  BY <1>28 DEF ModeDone
<1>29. CASE IdentifyStart
  <2>1. /\ Aside \in Frames /\ Aside.p = "identify" /\ Aside.asked = top.asked
        /\ Aside.at = "sent"
    BY <1>29, AsideFacts, AsideMoves, TopIsFrame
  <2>2. Enter(Aside, Frame("rw", "identify")) /\ top.p = "identify"
    BY <1>29, AsideMoves
  <2> QED
    BY <1>29, <2>1, <2>2, ReadEnter DEF IdentifyStart
<1>30. CASE IdentifyDone
  BY <1>30 DEF IdentifyDone
<1>31. CASE ReadStart
  <2>1. Filled(io')
    <3>1. Load("read") \in IoType /\ Filled(Load("read"))
      BY LoadFacts DEF Filled, Commands
    <3>2. io'.low = Load("read").low /\ io'.high = Load("read").high
      BY <1>31, <3>1 DEF ReadStart
    <3> QED
      BY <3>1, <3>2 DEF Filled
  <2> QED
    BY <1>31, <2>1, CallReads DEF ReadStart
<1>32. CASE ReadAgain
  <2>1. Filled(io')
    BY <1>32, LoadFacts DEF ReadAgain, Filled, Commands
  <2>2. past'.wrote = "none"
    BY <1>32 DEF ReadAgain
  <2> QED
    BY <1>32, <2>1, <2>2, CallReads DEF ReadAgain
<1>33. CASE ReadDone
  BY <1>33, DecidedCallReads DEF ReadDone, Types, ResultTyped
<1>34. CASE ReadChecked
  BY <1>34 DEF ReadChecked
<1>35. CASE CheckStart
  <2>1. /\ Marked \in Frames /\ Marked.p = "check" /\ Marked.asked = top.asked
        /\ Marked.at = "identified" /\ Marked.busy = io.error
    BY <1>35, MarkedFacts, MarkedMoves, TopIsFrame
  <2>2. Enter(Marked, Frame("identify", "none")) /\ top.p = "check" /\ top.at = "start"
    BY <1>35, MarkedMoves DEF CheckStart
  <2> QED
    BY <1>35, <2>1, <2>2, ReadEnter DEF CheckStart
<1>36. CASE CheckReset
  BY <1>36, CallReads DEF CheckReset
<1>37. CASE CheckDone
  BY <1>37 DEF CheckDone
<1>38. CASE HardReset
  BY <1>38, CallReads DEF HardReset
<1>39. CASE Choose
  BY <1>39, CallReads DEF Choose, Chosen
<1>40. CASE Connect
  BY <1>40, CallReads DEF Connect
<1>41. CASE Recover
  BY <1>41, CallReads, GotoReads DEF Recover
<1>42. CASE Turn
  <2>1. CASE TurnRead
    <3>1. CASE stack' = Below
      <4>1. stack' = <<>>
        BY <2>1, <3>1, TopFallsBack DEF TurnRead
      <4>2. RightUnlessResetFirst'
        BY <2>1 DEF TurnRead, RightUnlessResetFirst
      <4>3. Len(stack') = 0
        BY <4>1
      <4> QED
        BY <4>1, <4>2, <4>3 DEF Reading, ErrorKept
    <3>2. CASE stack' # Below
      <4>1. past'.wrote = "none"
        BY <2>1, <3>2 DEF TurnRead
      <4> QED
        BY <2>1, <3>2, <4>1, CallReads DEF TurnRead
    <3> QED
      BY <3>1, <3>2
  <2>2. CASE ~TurnRead
    BY <1>42, <2>2, CallReads DEF Turn, TurnStart, TurnChecked, TurnRecovered
  <2> QED
    BY <2>1, <2>2
<1> QED
  BY <1>1, <1>2, <1>3, <1>4, <1>5, <1>6, <1>7, <1>8, <1>9, <1>10, <1>11, <1>12, <1>13,
     <1>14, <1>15, <1>16, <1>17, <1>18, <1>19, <1>20, <1>21, <1>22, <1>23, <1>24,
     <1>25, <1>26, <1>27, <1>28, <1>29, <1>30, <1>31, <1>32, <1>33, <1>34, <1>35,
     <1>36, <1>37, <1>38, <1>39, <1>40, <1>41, <1>42
     DEF Proceed, Command, Reset, Helper

LEMMA ReadingStep ==
  ASSUME Typed, Sizing, Reading, [Next]_vars
  PROVE  Reading'
<1>1. CASE Proceed /\ ~Crash
  BY <1>1, ReadingProceed
<1>2. CASE Crash \/ Restart
  <2>1. stack' = <<>> /\ Len(stack') = 0
    BY <1>2 DEF Crash, Restart
  <2>2. RightUnlessResetFirst'
    BY <1>2 DEF Crash, Restart, Reading, RightUnlessResetFirst, NoPast
  <2> QED
    BY <2>1, <2>2 DEF Reading, ErrorKept
<1>3. CASE Stop \/ UNCHANGED vars
  <2>1. UNCHANGED <<conf, stack, result, io, past>>
    BY <1>3 DEF Stop, vars
  <2> QED
    BY <2>1 DEF Reading, ErrorKept, Faulty, Right, Filled, RightUnlessResetFirst, top
<1>4. CASE Disconnect
  <2>1. stack' = <<>> /\ Len(stack') = 0 /\ UNCHANGED past
    BY <1>4 DEF Disconnect
  <2> QED
    BY <2>1 DEF Reading, ErrorKept, RightUnlessResetFirst
<1>5. ASSUME NEW what \in Requests, Begin(what) PROVE Reading'
  <2>1. /\ Len(stack') = 1 /\ stack'[1].p \in Asked /\ stack'[1].at = "start" /\ stack' # <<>>
        /\ top' = stack'[1]
    BY <1>5, BeginFacts DEF Typed
  <2>2. past'.wrote = "none"
    BY <1>5 DEF Begin, NoPast
  <2> QED
    BY <2>1, <2>2 DEF Reading, ErrorKept, RightUnlessResetFirst, Right, Held, Asked
<1> QED
  BY <1>1, <1>2, <1>3, <1>4, <1>5 DEF Next

(* What a pass writes to the destination is what the read transferred,       *)
(* whatever resets, identifications, power cycles and repeated reads came in *)
(* between, unless the read itself had to wait for a reset before its        *)
(* command was sent.                                                         *)
THEOREM DataIsWhatWasRead == Spec => []RightUnlessResetFirst
<1>1. Init => Sizing /\ Reading
  <2> SUFFICES ASSUME Init PROVE Sizing /\ Reading
    OBVIOUS
  <2>1. stack = <<>> /\ Len(stack) = 0 /\ past.wrote = "none"
    BY DEF Init, NoPast
  <2> QED
    BY <2>1, SizingInit DEF Reading, ErrorKept, RightUnlessResetFirst
<1>2. Typed /\ Sizing /\ Reading /\ [Next]_vars => Sizing' /\ Reading'
  BY SizingStep, ReadingStep
<1>3. Reading => RightUnlessResetFirst
  BY DEF Reading
<1> QED
  BY <1>1, <1>2, <1>3, AlwaysTyped, PTL DEF Spec
=============================================================================
