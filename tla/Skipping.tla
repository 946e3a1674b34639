------------------------------ MODULE Skipping ------------------------------
(***************************************************************************)
(* The skips of phases 1 and 2: how far copy_forward_ccc and               *)
(* copy_reverse_ccc jump when a read fails or is slow (process_skip_ccc,   *)
(* reset_skip_ccc), and how a run of such skips is found again in the      *)
(* progress log and marked as a bad head (process_skip_run_ccc).           *)
(*                                                                         *)
(* The log is ProgressLog's list of lines. The drive is a surface: the     *)
(* sectors it cannot read and those it reads slowly. Sectors are blocks of *)
(* block_size_ccc; there is no domain and no rebuild assist, and the drive *)
(* does not report which sector it failed at.                              *)
(***************************************************************************)
EXTENDS Integers, Sequences, SequencesExt, FiniteSetsExt

CONSTANTS
    Size,         \* sectors of the source
    Cluster,      \* cluster_size_ccc
    MinSkip,      \* original_min_skip_size_ccc
    MaxSkips,     \* values of max_skip_size_ccc
    Fasts,        \* values of skip_fast_ccc
    Edges,        \* where the bad stretches of a surface begin and end
    LastNumber,   \* 63: the largest number of a skip in its run
    MaxRatio,     \* 16: see Grown
    MaxRetard,    \* 31: skips after which the smallest skip shrinks
    MaxStops      \* bound on stops and device errors

ASSUME SkippingAssumption ==
    /\ Size \in Nat \ {0} /\ Cluster \in 1 .. Size
    /\ MinSkip \in Nat \ {0} /\ MaxSkips \subseteq {n \in Nat : n >= MinSkip}
    /\ Fasts \subseteq BOOLEAN /\ Edges \subseteq 0 .. Size
    /\ LastNumber \in 7 .. 63
    /\ {MaxRatio, MaxRetard, MaxStops} \subseteq Nat

VARIABLES
    setup,     \* the user's choices and the surface of the drive
    lines,     \* the progress log
    phase,     \* current_status_ccc: 1, 2, or 3 when both passes are over
    copying,   \* whether a pass is running
    pos,       \* current_position_ccc
    adjust,    \* last_sector_adjust
    skips,     \* the sizes and counters of the skips
    landed,    \* last_skip_position_ccc
    first,     \* skip_position_ccc[0]
    stops,     \* interruptions so far
    chunks,    \* history: the chunks that made the skips of the current run
    ended,     \* history: the stretches of runs that have ended
    missed,    \* history: chunks whose read a stop broke off
    again      \* history: a reverse run began phase 1 a second time

log == <<lines, chunks, ended>>
vars == <<setup, log, phase, copying, pos, adjust, skips, landed, first, stops, missed,
          again>>

Kinds == {"NONTRIED", "NONTRIMMED", "FINISHED"}

\* The skip field of a status: FORWARD_SKIP or REVERSE_SKIP with the number of
\* the skip in its run.
Forward == 128
Backward == 192
Field(d, n) == d + n
Marks == {0} \cup {Field(d, n) : d \in {Forward, Backward}, n \in 0 .. LastNumber}

Log == INSTANCE ProgressLog WITH
    Kinds <- Kinds, Skips <- Marks, ret <- "none", pc <- "cloning", i <- 1

Status(k, mark) == [kind |-> k, head |-> FALSE, skip |-> mark]
DirectionOf(l) == IF l.status.skip = 0 THEN 0
                  ELSE IF l.status.skip >= Backward THEN Backward ELSE Forward
NumberOf(l) == IF l.status.skip = 0 THEN 0 ELSE l.status.skip - DirectionOf(l)
Least(a, b) == IF a < b THEN a ELSE b
Most(a, b) == IF a > b THEN a ELSE b

\* Phase 1 runs forward and phase 2 backward, with reverse_ccc the other way.
Ahead(p) == (p = 1) # setup.reverse
Direction(p) == IF Ahead(p) THEN Forward ELSE Backward

\* skip_run_limit_ccc: so many skips in a row are a bad head.
Limit == IF setup.fast THEN 3 ELSE 5

---------------------------------------------------------------------------
(* The size of a skip.                                                     *)

FirstMultiplier == IF setup.fast THEN 1250 ELSE 750

Fresh == [min |-> MinSkip, size |-> MinSkip, last |-> 0, multiplier |-> 0,
          count |-> 0, since |-> 0, history |-> <<0, 0>>, skipping |-> FALSE]

\* reset_skip_ccc: a run of skips is over. A short one makes the smallest skip
\* smaller, down to half of what the user set.
Reset(s) ==
    LET short == IF setup.fast THEN s.count = 3 ELSE s.count \in 5 .. 6
        shrunk == IF short THEN (s.min * 990) \div 1000 ELSE s.min
        min == IF shrunk < MinSkip \div 2 THEN MinSkip ELSE shrunk
    IN  [min |-> min, size |-> min, last |-> 0, multiplier |-> FirstMultiplier,
         count |-> 0, since |-> s.since,
         history |-> IF s.skipping THEN <<s.last, s.history[1]>> ELSE s.history,
         skipping |-> FALSE]

\* What a skip of size n, the c-th of its run, makes of the smallest skip.
SmallestAfter(s, min, c) ==
    LET past == s.history[1] + s.history[2]
        base == IF past \div 2 < s.size THEN (s.size + past) \div 3 ELSE s.size
        factor == IF c > (IF setup.fast THEN 10 ELSE 12) THEN 1200
                  ELSE IF c > (IF setup.fast THEN 7 ELSE 9) THEN 1100
                  ELSE IF c < (IF setup.fast THEN 5 ELSE 8) THEN 990 ELSE 1000
    IN  Most(min, ((base * factor) \div 1000) \div (IF setup.fast THEN 5 ELSE 4))

\* The skip after one of size s.size, before it is cut to max_skip_size_ccc.
NextSize(s, c) ==
    (s.size * (s.multiplier + 1000)) \div 1000 + (s.size \div 100) * (c \div 4) + c

\* A fault: the size is compared with the largest skip but not cut to it.
GrownUncut(s) ==
    LET c == Least(s.count + 1, LastNumber)
        tired == s.since + 1 > MaxRetard
        min == IF tired THEN Most((s.min * 950) \div 1000, MinSkip) ELSE s.min
    IN  [min |-> SmallestAfter(s, min, c), size |-> NextSize(s, c),
         last |-> s.size, count |-> c, since |-> IF tired THEN 0 ELSE s.since + 1,
         multiplier |-> (s.multiplier * 1000) \div (IF setup.fast THEN 1925 ELSE 1750),
         history |-> s.history, skipping |-> TRUE]

\* process_skip_ccc: the skip was made, the next one of the run is larger.
Grown(s) ==
    LET c == Least(s.count + 1, LastNumber)
        tired == s.since + 1 > MaxRetard
        min == IF tired THEN Most((s.min * 950) \div 1000, MinSkip) ELSE s.min
    IN  [min |-> SmallestAfter(s, min, c), size |-> Least(NextSize(s, c), setup.max),
         last |-> s.size, count |-> c, since |-> IF tired THEN 0 ELSE s.since + 1,
         multiplier |-> (s.multiplier * 1000) \div (IF setup.fast THEN 1925 ELSE 1750),
         history |-> s.history, skipping |-> TRUE]

\* When the numbers of a run are used up, it ends and the smallest skip is what
\* the user set; unless the largest skip is small and was reached, so does the
\* pass.
UsedUp(s) == s.count = LastNumber
PassGoesOn(s) == Grown(s).size = setup.max /\ setup.max <= MinSkip * MaxRatio

---------------------------------------------------------------------------
(* process_skip_run_ccc: the run that started at first is looked up in the *)
(* log, line by line in the direction of the pass, and marked.             *)

\* One line of the walk. n is the number of the skip found last, at the line
\* `at`, with the skip before it at `before`; `end` is the last of its lines.
Walk(w, l, d, count) ==
    LET k == w.k + 1 IN
      IF w.over \/ DirectionOf(l) # d THEN [w EXCEPT !.k = k]
      ELSE IF NumberOf(l) \in {w.n + 1, LastNumber}
           THEN [k |-> k, n |-> w.n + 1, at |-> k, before |-> w.at, end |-> k,
                 over |-> w.n + 1 > count]
      ELSE IF NumberOf(l) = w.n /\ k = w.end + 1 THEN [w EXCEPT !.k = k, !.end = k]
      ELSE [w EXCEPT !.k = k, !.over = TRUE]

\* The walk after each of the lines, and at its end.
WalkAlong(path, d, count) ==
    LET none == [k |-> 0, n |-> 0, at |-> 0, before |-> 0, end |-> 0, over |-> FALSE]
        w[k \in 0 .. Len(path)] ==
            IF k = 0 THEN none ELSE Walk(w[k - 1], path[k], d, count)
    IN  w

Found(path, d, count) == WalkAlong(path, d, count)[Len(path)]

\* The line with the first skip of a run: at most two lines below the one that
\* holds its position; backward the last of several.
StartLine(ls, d) ==
    LET b == Log!FindBlock(ls, first)
        near == {k \in b .. Least(b + 2, Len(ls)) : DirectionOf(ls[k]) = d}
        a == Min(near)
        isFirst(k) == DirectionOf(ls[k]) = d /\ NumberOf(ls[k]) = 0
    IN  IF near = {} \/ ~isFirst(a) THEN 0
        ELSE IF d = Forward THEN a
        ELSE Max({k \in a .. Len(ls) : \A j \in a .. k : isFirst(j)})

\* Lines a to b of ls get the bad-head bit. (SubSeq makes TLC keep a tuple.)
WithHeads(ls, a, b) ==
    SubSeq([k \in 1 .. Len(ls) |->
              [ls[k] EXCEPT !.status.head = @ \/ k \in a .. b]], 1, Len(ls))

\* A fault: the last line of a run that is not fast is marked, too.
MarkedToTheLast(ls, d, count) ==
    LET b == StartLine(ls, d)
        path == IF d = Forward THEN SubSeq(ls, b + 1, Len(ls)) ELSE Reverse(SubSeq(ls, 1, b - 1))
        found == Found(path, d, count)
    IN  IF b = 0 \/ found.n + 1 < Limit THEN ls
        ELSE IF d = Forward THEN WithHeads(ls, b, b + found.at) ELSE WithHeads(ls, b - found.at, b)

MarkRun(ls, d, count) ==
    LET b == StartLine(ls, d)
        path == IF d = Forward THEN SubSeq(ls, b + 1, Len(ls)) ELSE Reverse(SubSeq(ls, 1, b - 1))
        found == Found(path, d, count)
        reach == IF setup.fast THEN found.at ELSE found.before
    IN  IF b = 0 \/ found.n + 1 < Limit THEN ls
        ELSE IF d = Forward THEN WithHeads(ls, b, b + reach) ELSE WithHeads(ls, b - reach, b)

\* History: from the first to the last chunk of a run that marks a head; a run
\* that is not fast leaves its last chunk out.
Stretch(run) ==
    LET part == IF setup.fast THEN run ELSE Front(run)
    IN  [from |-> Min({c.from : c \in ToSet(part)}), to |-> Max({c.to : c \in ToSet(part)})]

\* reset_skip_ccc, its effect on the log: a run of Limit skips or more is marked.
RunOver(ls, run, s, d) ==
    /\ lines' = IF s.count < Limit THEN ls ELSE MarkRun(ls, d, s.count)
    /\ ended' = IF s.count < Limit THEN ended ELSE ended \cup {Stretch(run)}

---------------------------------------------------------------------------
(* The passes.                                                             *)

\* Stretches of sectors; a surface has two, the second one bad or only slow.
Stretches == {a .. b - 1 : a, b \in Edges}

Init ==
    /\ \E fast \in Fasts, reverse \in BOOLEAN, max \in MaxSkips, one, two \in Stretches :
         setup \in [fast : {fast}, reverse : {reverse}, max : {max},
                   bad : {one \cup two}, slow : {{}}]
                  \cup [fast : {fast}, reverse : {reverse}, max : {max},
                        bad : {one}, slow : {two}]
    /\ lines = Log!NewLog
    /\ phase = 1 /\ copying = FALSE /\ pos = 0 /\ adjust = FALSE
    /\ skips = Fresh /\ landed = 0 /\ first = 0
    /\ stops = 0 /\ chunks = <<>> /\ ended = {} /\ missed = {} /\ again = FALSE

\* Where clone_forward_ccc and clone_reverse_ccc take a stopped run up.
Resumed ==
    LET p == IF pos < 0 THEN 0
             ELSE IF pos >= Size THEN (IF setup.reverse THEN Size ELSE Size - 1) ELSE pos
    IN  IF setup.reverse /\ phase = 1 /\ p = 0 THEN Size ELSE p

\* The start of copy_forward_ccc or copy_reverse_ccc for phase p at q.
StartPass(p, q) ==
    LET at == IF Ahead(p) THEN q ELSE Least(q, Size - 1) IN
      /\ phase' = p /\ copying' = TRUE
      /\ pos' = at /\ landed' = at
      /\ adjust' = (~Ahead(p) /\ q >= Size)

Begin ==
    /\ ~copying /\ phase < 3
    /\ StartPass(phase, Resumed)
    /\ skips' = Reset(skips)
    /\ RunOver(lines, chunks, skips, Direction(phase)) /\ chunks' = <<>>
    /\ again' = (again \/ (Resumed = Size /\ lines # Log!NewLog))
    /\ UNCHANGED <<setup, first, stops, missed>>

\* The line the next chunk is in: the one at the position when it is NONTRIED,
\* else the next one in the direction of the pass.
\* A fault: whatever is not finished is read again.
SoughtUnfinished(b) == lines[b].status.kind # "FINISHED"

Sought(b) == lines[b].status.kind = "NONTRIED"
NextLine(b) ==
    LET others == {k \in DOMAIN lines : Sought(k) /\ (IF Ahead(phase) THEN k > b ELSE k < b)}
    IN  IF Sought(b) THEN {b}
        ELSE IF others = {} THEN {}
        ELSE {IF Ahead(phase) THEN Min(others) ELSE Max(others)}

\* A fault: a line met on the way back is read from its start.
ChunkFromStart(k, b) ==
    LET from == IF Ahead(phase) THEN (IF k = b THEN pos ELSE lines[k].pos) ELSE lines[k].pos
    IN  [from |-> from, to |-> Least(from + Cluster, Log!EndOf(lines[k]))]

\* The chunk a turn reads in line k, when the position is in line b.
ChunkIn(k, b) ==
    LET from == IF Ahead(phase) THEN (IF k = b THEN pos ELSE lines[k].pos)
                ELSE Most(lines[k].pos, (IF k # b THEN Log!EndOf(lines[k])
                                         ELSE IF adjust THEN Size ELSE pos) - Cluster)
    IN  [from |-> from, to |-> Least(from + Cluster, Log!EndOf(lines[k]))]

\* The chunk the next turn reads: none when the pass is over.
InRange == IF Ahead(phase) THEN pos < Size ELSE pos > 0
Chunks ==
    IF ~InRange THEN {}
    ELSE LET b == Log!FindBlock(lines, pos) IN {ChunkIn(k, b) : k \in NextLine(b)}

\* A chunk well behind the place where the last skip landed ends the run.
Past(c) ==
    IF Ahead(phase) THEN c.from > landed + skips.min ELSE c.from < landed - skips.min

\* The skips, the log and the run as the read of chunk c finds them.
Current(c) == IF Past(c) THEN Reset(skips) ELSE skips
Marked(c) ==
    IF Past(c) /\ skips.count >= Limit THEN MarkRun(lines, Direction(phase), skips.count)
    ELSE lines
Ended(c) == IF Past(c) /\ skips.count >= Limit THEN ended \cup {Stretch(chunks)} ELSE ended
Run(c) == IF Past(c) THEN <<>> ELSE chunks

\* change_chunk_status_ccc for chunk c, which is in one line of ls.
Change(ls, c, status) ==
    LET b == Log!FindBlock(ls, c.from)
        new == Log!Keep(ls[b].status, status)
    IN  IF ls[b].status = status THEN ls
        ELSE Log!Marked(ls, b, c.from, c.to - c.from, new)

Meets(c, sectors) == (c.from .. c.to - 1) \cap sectors # {}

\* The read works and is fast.
TurnGood ==
    /\ copying
    /\ \E c \in Chunks :
         /\ ~Meets(c, setup.bad) /\ ~Meets(c, setup.slow)
         /\ lines' = Change(Marked(c), c, Status("FINISHED", 0))
         /\ pos' = IF Ahead(phase) THEN c.to ELSE c.from
         /\ skips' = Current(c) /\ ended' = Ended(c) /\ chunks' = Run(c)
    /\ adjust' = FALSE
    /\ UNCHANGED <<setup, phase, copying, landed, first, stops, missed, again>>

\* The marks a read of chunk c leaves that makes a skip: one that worked is
\* marked as finished first.
SkipMarks(c) ==
    LET mark == Field(Direction(phase), Current(c).count)
    IN  IF Meets(c, setup.bad) THEN Change(Marked(c), c, Status("NONTRIMMED", mark))
        ELSE Change(Change(Marked(c), c, Status("FINISHED", 0)), c, Status("FINISHED", mark))

Target(c) == IF Ahead(phase) THEN c.from + Current(c).size ELSE c.from - Current(c).size

\* The read fails or is slow: the chunk is marked with the number of its skip and
\* the position jumps. Forward the turn then adds the chunk's size as after any
\* other read.
Skip(c) ==
    /\ copying
    /\ Meets(c, setup.bad) \/ Meets(c, setup.slow)
    /\ landed' = Target(c)
    /\ first' = IF Current(c).count = 0 THEN c.from ELSE first
    /\ adjust' = FALSE
    /\ UNCHANGED <<setup, phase, missed, again>>

Onward(c) == IF Ahead(phase) THEN Target(c) + (c.to - c.from) ELSE Target(c)

TurnSkip ==
    \E c \in Chunks : \E s \in {Current(c)} :
        /\ Skip(c) /\ ~UsedUp(s)
        /\ lines' = SkipMarks(c) /\ chunks' = Append(Run(c), c) /\ ended' = Ended(c)
        /\ skips' = Grown(s)
        /\ pos' = Onward(c)
        /\ UNCHANGED <<copying, stops>>

\* The numbers of the run are used up: it is marked, all sizes start over, and
\* unless the largest skip is small the pass fails.
TurnUsedUp ==
    \E c \in Chunks : \E s \in {Current(c)} :
      LET last == [Grown(s) EXCEPT !.min = MinSkip] IN
        /\ Skip(c) /\ UsedUp(s)
        /\ RunOver(SkipMarks(c), Append(Run(c), c), last, Direction(phase))
        /\ chunks' = <<>>
        /\ skips' = Reset(last)
        /\ \/ PassGoesOn(s) /\ pos' = Onward(c) /\ UNCHANGED copying
           \/ ~PassGoesOn(s) /\ pos' = Target(c) /\ copying' = FALSE
        /\ UNCHANGED stops

\* After a failed read the drive may be lost: the turn ends the pass before the
\* chunk's size is added.
TurnDeviceLost ==
    /\ stops < MaxStops /\ stops' = stops + 1
    /\ \E c \in Chunks : \E s \in {Current(c)} :
         /\ Skip(c) /\ Meets(c, setup.bad) /\ ~UsedUp(s)
         /\ lines' = SkipMarks(c) /\ chunks' = Append(Run(c), c) /\ ended' = Ended(c)
         /\ skips' = Grown(s)
         /\ pos' = Target(c) /\ copying' = FALSE

\* The user stops the run at the top of a turn, or during a read, when the
\* position is that of the chunk already.
Stop ==
    /\ copying /\ InRange
    /\ stops < MaxStops /\ stops' = stops + 1
    /\ copying' = FALSE
    /\ UNCHANGED <<setup, log, phase, pos, adjust, skips, landed, first, missed, again>>

StopInRead ==
    /\ copying
    /\ stops < MaxStops /\ stops' = stops + 1
    /\ \E c \in Chunks :
         /\ pos' = c.from /\ missed' = missed \cup {c}
         /\ lines' = Marked(c) /\ skips' = Current(c) /\ ended' = Ended(c) /\ chunks' = Run(c)
    /\ copying' = FALSE
    /\ UNCHANGED <<setup, phase, adjust, landed, first, again>>

\* The pass ends; phase 2 follows phase 1, and after phase 2 the smallest skip is
\* what the user set.
PassEnd ==
    /\ copying /\ Chunks = {}
    /\ RunOver(lines, chunks, skips, Direction(phase)) /\ chunks' = <<>>
    /\ \/ /\ phase = 1
          /\ StartPass(2, IF setup.reverse THEN 0 ELSE Size - 1)
          /\ skips' = Reset(Reset(skips))
       \/ /\ phase = 2
          /\ phase' = 3 /\ copying' = FALSE
          /\ skips' = [Reset(skips) EXCEPT !.min = MinSkip, !.size = MinSkip]
          /\ UNCHANGED <<pos, adjust, landed>>
    /\ UNCHANGED <<setup, first, stops, missed, again>>

Turn == TurnGood \/ TurnSkip \/ TurnUsedUp \/ PassEnd
\* Both passes are over: the phases without skips are CloneRun's.
Terminating == phase = 3 /\ UNCHANGED vars

Next == Begin \/ Turn \/ TurnDeviceLost \/ Stop \/ StopInRead \/ Terminating

Spec == Init /\ [][Next]_vars

---------------------------------------------------------------------------
(* Properties.                                                             *)

Sectors(stretches) == UNION {r.from .. r.to - 1 : r \in stretches}

\* The bad-head bit is on the lines that hold sectors from the first to the last
\* chunk of a run of Limit skips or more (to the last but one, when skipping is
\* not fast) and on no others: process_skip_run_ccc finds the run it is called
\* for in the log, whatever was split, merged and read in between. Except that a
\* reverse run that is interrupted when its last skip has jumped below the source
\* starts phase 1 over (its position is taken for that of a new run), and the
\* numbers of the two passes over the same sectors are then mistaken for one run.
HeadsAreRuns ==
    ~again => \A k \in DOMAIN lines :
      lines[k].status.head
        <=> (lines[k].pos .. Log!EndOf(lines[k]) - 1) \cap Sectors(ended) # {}

\* However runs follow each other, the smallest skip stays between half of what
\* the user set and a quarter of the largest, or what the user set, and a skip
\* is never longer than the largest. A skip can be shorter than the smallest one
\* only when the latter was raised to what the user set while a run of smaller
\* skips was going on.
SizesBounded ==
    /\ skips.min >= MinSkip \div 2
    /\ skips.min <= Most(MinSkip, (setup.max * 1200) \div 4000)
    /\ skips.size \in MinSkip \div 2 .. setup.max
    /\ skips.size >= skips.min \/ skips.min = MinSkip
    /\ skips.count \in 0 .. LastNumber

\* "Together they offer the best attempt to get the most good data first": when
\* both passes are over, all sectors before the first and behind the last bad or
\* slow one were read. Left out are the chunks at the edges, chunks whose read
\* was stopped in a backward pass, and, with phase 2 backward, the last sector
\* of the source: the pass starts at it and reads what is below.
OutsideIsRead ==
    LET hard == setup.bad \cup setup.slow
        outside == {x \in 0 .. Size - 1 : \A y \in hard : Most(x - y, y - x) >= Cluster}
        clear == {x \in outside : (\A y \in hard : x < y) \/ (\A y \in hard : x > y)}
    IN  phase = 3 =>
          \A x \in clear \ (Sectors(missed) \cup {Size - 1}) :
            Log!StatusAt(lines, x).kind = "FINISHED"

\* No turn is in vain: while a pass goes on, each turn leaves fewer sectors that
\* were not tried, whatever the direction, the skips and the edges of lines. A
\* pass ends for this reason; the position alone may stay where it is.
NonTried(ls) ==
    Sectors({[from |-> ls[k].pos, to |-> Log!EndOf(ls[k])] :
               k \in {k \in DOMAIN ls : ls[k].status.kind = "NONTRIED"}})
TurnsProgress ==
    [][copying /\ copying' =>
         phase' > phase \/ (NonTried(lines') \subseteq NonTried(lines)
                              /\ NonTried(lines') # NonTried(lines))]_vars

=============================================================================
