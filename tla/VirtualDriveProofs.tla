------------------------- MODULE VirtualDriveProofs -------------------------
(***************************************************************************)
(* Proofs about VirtualDrive: for a source of any size, any cluster size   *)
(* and any modes, no posted request is lost, what is reported as read is   *)
(* the data of the sectors asked for until a request is given up, and an   *)
(* error is then the error of a sector.                                    *)
(***************************************************************************)
EXTENDS VirtualDrive, TLAPS

(* The steps of the program that belong to a request: until it is taken    *)
(* back, and until the answer is raised.                                   *)
Working == {"start", "small", "big", "count", "window", "saved", "copy",
            "rescue", "clear", "answer"}
Answering == {"valid", "ready"}
Gone == upc = "gone"

(* What holds at all times.                                                *)
Handshake ==
  /\ upc \in {"off", "settle"} => kpc = "idle" /\ ~active
  /\ upc \in {"settle", "activated"} => ~ctrl.DATA_READY
  /\ NoRequestLost
  /\ ctrl.RETURN_NO_DATA_FAST => mode > 4
  /\ upc \in Working \cup Answering => (mode > 4 => ctrl.RETURN_NO_DATA_FAST)
  /\ Gone => ~ctrl.DATA_VALID /\ ~ctrl.RETURN_NO_DATA_FAST

(* Neither length of a request is longer than the source, even of one read  *)
(* while the next one was posted over it.                                  *)
Lengths ==
  /\ upc \in {"big", "count", "window"} => ask.small - ask.start \in 0 .. Size
  /\ upc \in {"count", "window"} => ask.big - ask.start \in 0 .. Size

(* While no request was given up and the program lives: whose turn it is.   *)
Turns ==
  /\ ctrl.DATA_REQUEST => kpc = "wait" /\ ~ctrl.DATA_READY
  /\ upc \in Working => kpc = "wait" /\ ctrl.DATA_REQUEST /\ ~ctrl.DATA_READY
  /\ upc \in Answering => kpc = "wait" /\ ~ctrl.DATA_REQUEST /\ ~ctrl.DATA_READY
  /\ ctrl.DATA_READY => kpc \in {"wait", "taken"}
  /\ kpc = "taken" => ctrl.DATA_READY

(* The words of the request in hand, as they are posted and answered. A     *)
(* window shorter than the transfer is possible in mode 3 only.             *)
Covers == 3 \notin Modes \/ Cluster = Size
Posting == {"KSECTOR_START", "KSECTOR_COUNT", "KSECTORS_REQUESTED",
            "DATA_READY", "DATA_REQUEST"}
Pending == kpc = "wait" /\ ctrl.DATA_REQUEST
Filling == {"saved", "copy", "rescue", "clear", "answer"}
Answered == upc = "ready" \/ ctrl.DATA_READY \/ kpc \in {"taken", "match"}
Words ==
  /\ kpc \in Posting \/ Pending \/ upc = "valid" => ~ctrl.DATA_VALID
  /\ kpc \in Posting \cup {"wait", "taken", "match"} => fresh
  /\ kpc \in (Posting \ {"KSECTOR_START"}) \cup {"wait", "taken", "match"} =>
       ctrl.KSECTOR_START = req.sect
  /\ kpc \in Posting \ {"KSECTOR_START", "KSECTOR_COUNT"} => ctrl.KSECTOR_COUNT = req.nsect
  /\ Pending /\ upc \in {"activated", "poll", "show", "start", "small"} =>
       ctrl.KSECTOR_COUNT = req.nsect
  /\ kpc \in {"DATA_READY", "DATA_REQUEST"} \/ Pending =>
       ctrl.KSECTORS_REQUESTED = req.tsect
  /\ Answered => ctrl.DATA_VALID
  /\ Covers /\ (upc \in Filling \cup {"valid"} \/ Answered) =>
       ctrl.KSECTOR_COUNT >= req.nsect

(* What the program has read of it.                                        *)
Asks ==
  /\ upc \in {"small", "big", "count", "window", "saved", "copy", "rescue"} =>
       ask.start = req.sect
  /\ upc \in {"big", "count", "window"} => ask.small = req.sect + req.nsect
  /\ upc \in {"count", "window"} => ask.big = req.sect + req.tsect
  /\ upc \in {"saved", "copy", "rescue"} =>
       ask.end \in {req.sect + ctrl.KSECTOR_COUNT, Least(req.sect + ctrl.KSECTOR_COUNT, Size)}
  /\ upc \in {"saved", "copy", "rescue", "clear"} => ~(mode > 4)
  /\ upc = "saved" => ask.at >= ask.start
  /\ upc \in {"copy", "rescue"} => ask.at = ask.start

(* A slot without an error holds its sector, and a finished sector of the   *)
(* window has no error.                                                    *)
Sound == \A i \in Slots : ~errors[i] => buffer[i] = ctrl.KSECTOR_START + i
Complete(end) ==
  \A s \in Sectors : ctrl.KSECTOR_START <= s /\ s < end /\ map[s] = "finished" =>
                       ~errors[s - ctrl.KSECTOR_START]
WindowEnd == ctrl.KSECTOR_START + ctrl.KSECTOR_COUNT
Data ==
  /\ upc \in {"count", "window"} => \A i \in Slots : errors[i]
  /\ upc \in Filling \cup {"valid"} => Sound
  /\ upc = "saved" => Complete(ask.at)
  /\ upc \in {"copy", "rescue", "clear"} => Complete(WindowEnd)
  /\ upc \in {"answer", "valid"} => mode > 4 \/ Complete(WindowEnd)
  /\ ctrl.DATA_VALID /\ fresh =>
       ctrl.RETURN_NO_DATA_FAST \/ (Sound /\ Complete(WindowEnd))

IInv ==
  /\ TypeOK /\ Lengths /\ Handshake
  /\ ~abandoned /\ ~Gone => Turns /\ Words /\ Asks /\ Data
  /\ RightUntilAbandoned
  /\ Covers => ErrorIsReal

USE VirtualDriveAssumption

-----------------------------------------------------------------------------
(* Types.                                                                  *)

Page == [DATA_VALID : BOOLEAN, KSECTOR_START : Sectors,
         KSECTOR_COUNT : 0 .. Size, KSECTORS_REQUESTED : 0 .. Size,
         DATA_READY : BOOLEAN, DATA_REQUEST : BOOLEAN,
         RESET_READ_TIMER : BOOLEAN, RETURN_NO_DATA_FAST : BOOLEAN]
Asked == [start : Sectors, small : 0 .. 2 * Size, big : 0 .. 2 * Size,
          end : 0 .. 2 * Size, at : 0 .. Size]

LEMMA Whole ==
  ASSUME TypeOK
  PROVE  /\ mode \in Modes /\ mode \in 1 .. 5
         /\ ctrl \in Page /\ ask \in Asked /\ req \in Requests
         /\ buffer \in [Slots -> Sectors \cup {Blank}] /\ errors \in [Slots -> BOOLEAN]
         /\ map \in [Sectors -> Statuses]
         /\ stop \in BOOLEAN /\ active \in BOOLEAN /\ lockup \in BOOLEAN
         /\ abandoned \in BOOLEAN /\ fresh \in BOOLEAN
         /\ 0 \in Sectors /\ Size \in Nat
BY DEF TypeOK, Page, Asked, Sectors

LEMMA RequestType ==
  ASSUME NEW r \in Requests
  PROVE  /\ r.sect \in Sectors /\ r.nsect \in 1 .. Size /\ r.tsect \in 1 .. Size
         /\ r.sect + r.tsect <= Size /\ r.nsect <= r.tsect
BY DEF Requests

LEMMA NoRequestType == NoRequest \in Requests
BY DEF NoRequest, Requests, Sectors

\* Every word keeps its type when one of them is written.
LEMMA PageFlags ==
  ASSUME NEW c \in Page
  PROVE  /\ [c EXCEPT !.DATA_VALID = FALSE] \in Page /\ [c EXCEPT !.DATA_VALID = TRUE] \in Page
         /\ [c EXCEPT !.DATA_READY = FALSE] \in Page /\ [c EXCEPT !.DATA_READY = TRUE] \in Page
         /\ [c EXCEPT !.DATA_REQUEST = FALSE] \in Page /\ [c EXCEPT !.DATA_REQUEST = TRUE] \in Page
         /\ [c EXCEPT !.RESET_READ_TIMER = FALSE] \in Page
         /\ [c EXCEPT !.RESET_READ_TIMER = TRUE] \in Page
         /\ \A b \in BOOLEAN : [c EXCEPT !.RETURN_NO_DATA_FAST = b] \in Page
BY DEF Page

LEMMA PageNumbers ==
  ASSUME NEW c \in Page
  PROVE  /\ \A s \in Sectors : [c EXCEPT !.KSECTOR_START = s] \in Page
         /\ \A n \in 0 .. Size : [c EXCEPT !.KSECTOR_COUNT = n] \in Page
         /\ \A n \in 0 .. Size : [c EXCEPT !.KSECTORS_REQUESTED = n] \in Page
BY DEF Page

\* The words as they are posted, one by one.
LEMMA PostSteps ==
  ASSUME TypeOK, Post
  PROVE  /\ kpc \in {"DATA_VALID", "KSECTOR_START", "KSECTOR_COUNT",
                     "KSECTORS_REQUESTED", "DATA_READY", "DATA_REQUEST"}
         /\ Gone => ctrl' = ctrl
         /\ kpc = "DATA_VALID" => kpc' = "KSECTOR_START" /\
              (~Gone => ctrl' = [ctrl EXCEPT !.DATA_VALID = FALSE])
         /\ kpc = "KSECTOR_START" => kpc' = "KSECTOR_COUNT" /\
              (~Gone => ctrl' = [ctrl EXCEPT !.KSECTOR_START = req.sect])
         /\ kpc = "KSECTOR_COUNT" => kpc' = "KSECTORS_REQUESTED" /\
              (~Gone => ctrl' = [ctrl EXCEPT !.KSECTOR_COUNT = req.nsect])
         /\ kpc = "KSECTORS_REQUESTED" => kpc' = "DATA_READY" /\
              (~Gone => ctrl' = [ctrl EXCEPT !.KSECTORS_REQUESTED = req.tsect])
         /\ kpc = "DATA_READY" => kpc' = "DATA_REQUEST" /\
              (~Gone => ctrl' = [ctrl EXCEPT !.DATA_READY = FALSE])
         /\ kpc = "DATA_REQUEST" => kpc' = "wait" /\
              (~Gone => ctrl' = [ctrl EXCEPT !.DATA_REQUEST = TRUE])
<1>1. kpc \in {"DATA_VALID", "KSECTOR_START", "KSECTOR_COUNT",
               "KSECTORS_REQUESTED", "DATA_READY", "DATA_REQUEST"}
  BY DEF Post, After
<1>2. Gone => ctrl' = ctrl
  BY DEF Post, Gone
<1>3. kpc' = After[kpc] /\ (~Gone => ctrl' = [ctrl EXCEPT ![kpc] = Posted(req)[kpc]])
  BY DEF Post, Gone
<1>4. CASE kpc = "DATA_VALID"
  BY <1>2, <1>3, <1>4 DEF After, Posted
<1>5. CASE kpc = "KSECTOR_START"
  BY <1>2, <1>3, <1>5 DEF After, Posted
<1>6. CASE kpc = "KSECTOR_COUNT"
  BY <1>2, <1>3, <1>6 DEF After, Posted
<1>7. CASE kpc = "KSECTORS_REQUESTED"
  BY <1>2, <1>3, <1>7 DEF After, Posted
<1>8. CASE kpc = "DATA_READY"
  BY <1>2, <1>3, <1>8 DEF After, Posted
<1>9. CASE kpc = "DATA_REQUEST"
  BY <1>2, <1>3, <1>9 DEF After, Posted
<1> QED
  BY <1>1, <1>4, <1>5, <1>6, <1>7, <1>8, <1>9

LEMMA LengthsOfWindow ==
  ASSUME TypeOK, Lengths, upc = "window", NEW n \in WindowLengths
  PROVE  n \in 0 .. Size
<1>0. ask.small - ask.start \in 0 .. Size /\ ask.big - ask.start \in 0 .. Size
  BY DEF Lengths
<1>1. /\ Cluster \in 1 .. Size /\ Size \in Nat
      /\ Most(Least(ask.big - ask.start, Cluster), ask.small - ask.start) \in 0 .. Size
  BY <1>0 DEF Most, Least
<1>2. \A m \in 1 .. Cluster, k \in 0 .. Size : Least(Cluster, Most(k, m)) \in 0 .. Size
  BY <1>1 DEF Most, Least
<1>3. \A k \in 0 .. Size : Most(k, ask.small - ask.start) \in 0 .. Size
  BY <1>0 DEF Most
<1>4. CASE mode # 3
  BY <1>1, <1>4 DEF WindowLengths
<1>5. CASE mode = 3
  <2> DEFINE w == Most(Least(ask.big - ask.start, Cluster), ask.small - ask.start)
             ahead == {Least(Cluster, Most(w, m)) : m \in 1 .. Cluster}
  <2>1. n \in ahead \/ \E k \in ahead : n = Most(k, ask.small - ask.start)
    BY <1>5 DEF WindowLengths
  <2>2. \A k \in ahead : k \in 0 .. Size
    BY <1>1, <1>2
  <2> QED
    BY <1>3, <2>1, <2>2
<1> QED
  BY <1>4, <1>5

\* What is put in the buffer is a sector of the request.
LEMMA FillType ==
  ASSUME TypeOK, NEW q \in Sectors, NEW n \in Nat, q + n <= Size, NEW good \in BOOLEAN,
         Fill(q, n, good)
  PROVE  /\ buffer' \in [Slots -> Sectors \cup {Blank}]
         /\ errors' \in [Slots -> BOOLEAN]
<1> DEFINE off == q - ctrl.KSECTOR_START
           filled == off .. off + n - 1
<1>0. /\ q \in Int /\ ctrl.KSECTOR_START \in Int /\ off \in Int
      /\ buffer \in [Slots -> Sectors \cup {Blank}] /\ errors \in [Slots -> BOOLEAN]
  BY Whole DEF Page, Sectors
<1>1. CASE off >= 0 /\ off + n <= Size
  <2>1. \A i \in filled : q + i - off \in Sectors
    BY <1>0 DEF Sectors
  <2>2. /\ buffer' = [i \in Slots |-> IF i \notin filled THEN buffer[i]
                                      ELSE IF good THEN q + i - off ELSE Blank]
        /\ errors' = [i \in Slots |-> IF i \in filled THEN ~good ELSE errors[i]]
    BY <1>1 DEF Fill
  <2> HIDE DEF filled
  <2>3. \A i \in Slots : buffer'[i] \in Sectors \cup {Blank}
    BY <1>0, <2>1, <2>2
  <2>4. \A i \in Slots : errors'[i] \in BOOLEAN
    BY <1>0, <2>2
  <2> QED
    BY <2>2, <2>3, <2>4
<1>2. CASE ~(off >= 0 /\ off + n <= Size)
  BY <1>0, <1>2 DEF Fill
<1> QED
  BY <1>1, <1>2

\* A run of the window lies in the source.
LEMMA RunType ==
  ASSUME TypeOK, NEW q, NEW n \in Nat \ {0}, NEW status, IsRun(q, n, status)
  PROVE  /\ q \in Sectors /\ q + n <= Size /\ q >= ask.at /\ q + n - 1 < ask.end
         /\ q .. q + n - 1 \subseteq Left
<1>1. ask.at \in Nat /\ ask.end \in Nat /\ Size \in Nat
  BY Whole DEF Asked
<1>2. q \in Left /\ q + n - 1 \in Left
  BY DEF IsRun
<1>3. Left = ask.at .. Least(ask.end, Size) - 1 /\ Least(ask.end, Size) \in Nat
      /\ Least(ask.end, Size) <= Size /\ Least(ask.end, Size) <= ask.end
  BY <1>1 DEF Left, Least
<1> QED
  BY <1>1, <1>2, <1>3 DEF Sectors

Steps == {"DATA_VALID", "KSECTOR_START", "KSECTOR_COUNT", "KSECTORS_REQUESTED",
          "DATA_READY", "DATA_REQUEST", "idle", "wait", "taken", "match"}

LEMMA MakeTypes ==
  ASSUME mode' \in Modes, ctrl' \in Page, ask' \in Asked, req' \in Requests,
         buffer' \in [Slots -> Sectors \cup {Blank}], errors' \in [Slots -> BOOLEAN],
         map' \in [Sectors -> Statuses], kpc' \in Steps,
         stop' \in BOOLEAN, active' \in BOOLEAN, lockup' \in BOOLEAN,
         abandoned' \in BOOLEAN, fresh' \in BOOLEAN
  PROVE  TypeOK'
<1>1. DOMAIN After \cup {"idle", "wait", "taken", "match"} = Steps
  BY DEF After, Steps
<1> QED
  BY <1>1 DEF TypeOK, Page, Asked

LEMMA KernelTypes ==
  ASSUME TypeOK,
         Refuse \/ ServeCached \/ Ask \/ Post \/ RestartTimer \/ GiveUp
           \/ WaitStopped \/ Take \/ Match \/ RequestTimesOut
  PROVE  TypeOK'
<1>0. /\ mode' \in Modes /\ ask' \in Asked /\ map' \in [Sectors -> Statuses]
      /\ buffer' \in [Slots -> Sectors \cup {Blank}] /\ errors' \in [Slots -> BOOLEAN]
      /\ stop' \in BOOLEAN /\ active' \in BOOLEAN
  BY Whole DEF user, Refuse, ServeCached, Ask, Post, RestartTimer, GiveUp, WaitStopped,
               Take, Match, RequestTimesOut
<1>1. lockup' \in BOOLEAN /\ abandoned' \in BOOLEAN /\ fresh' \in BOOLEAN
  BY Whole DEF history, kernel, Refuse, ServeCached, Ask, Post, RestartTimer, GiveUp,
               WaitStopped, Take, Match, RequestTimesOut
<1>2. kpc' \in Steps /\ req' \in Requests /\ ctrl' \in Page
  <2>0. kpc \in Steps
    BY DEF TypeOK, After, Steps
  <2>1. CASE Refuse
    BY <2>1, Whole, NoRequestType DEF Refuse, Return, Steps
  <2>2. CASE ServeCached
    BY <2>2, Whole, NoRequestType DEF ServeCached, Serve, Return, Steps
  <2>3. CASE Ask
    BY <2>3, Whole DEF Ask, Steps
  <2>4. CASE Post
    <3>1. /\ req.sect \in Sectors /\ req.nsect \in 0 .. Size /\ req.tsect \in 0 .. Size
          /\ TRUE \in BOOLEAN /\ FALSE \in BOOLEAN /\ ctrl \in Page
      BY Whole, RequestType
    <3>2. ctrl' \in Page
      BY <2>4, <3>1, PostSteps, PageFlags, PageNumbers
    <3> QED
      BY <2>4, <3>2, Whole, PostSteps DEF Post, Steps
  <2>5. CASE RestartTimer
    BY <2>0, <2>5, Whole, PageFlags, PageNumbers DEF RestartTimer, Steps
  <2>6. CASE GiveUp
    BY <2>6, Whole, NoRequestType, PageFlags, PageNumbers DEF GiveUp, Return, Steps
  <2>7. CASE WaitStopped
    BY <2>7, Whole, NoRequestType DEF WaitStopped, Return, Steps
  <2>8. CASE Take
    BY <2>8, Whole, PageFlags, PageNumbers DEF Take, Steps
  <2>9. CASE Match
    BY <2>9, Whole, NoRequestType DEF Match, Serve, Return, Steps
  <2>10. CASE RequestTimesOut
    BY <2>0, <2>10, Whole DEF RequestTimesOut, kernel
  <2> QED
    BY <2>1, <2>2, <2>3, <2>4, <2>5, <2>6, <2>7, <2>8, <2>9, <2>10
<1> QED
  BY <1>0, <1>1, <1>2, MakeTypes

LEMMA ProgramTypes ==
  ASSUME TypeOK, Lengths,
         Poll \/ ReadStart \/ ReadCount \/ ReadRequested \/ WindowRequested
           \/ WindowSettled \/ ReadSaved \/ SavedDone \/ CopyChunk \/ RescueSector
           \/ PassDone \/ ClearUnread \/ Answer \/ Show \/ Leave \/ Die
           \/ StopDriver \/ StartDriver \/ Reconnect
  PROVE  TypeOK'
<1>0. kpc \in Steps /\ NoAsk \in Asked /\ NoWords \in Page /\ ctrl \in Page /\ ask \in Asked
  BY Whole DEF TypeOK, After, Steps, NoAsk, Asked, NoWords, Page, Sectors
<1>1. /\ kpc' \in Steps /\ req' \in Requests /\ lockup' \in BOOLEAN
      /\ abandoned' \in BOOLEAN /\ fresh' \in BOOLEAN /\ mode' \in Modes
      /\ stop' \in BOOLEAN /\ active' \in BOOLEAN
  BY <1>0, Whole DEF kernel, history, Goto, Read, Poll, ReadStart, ReadCount,
       ReadRequested, WindowRequested, WindowSettled, ReadSaved, SavedDone, CopyChunk,
       RescueSector, PassDone, ClearUnread, Answer, Show, Leave, Die, StopDriver,
       StartDriver, Reconnect
<1>2. ctrl' \in Page
  <2>1. CASE WindowSettled
    <3>1. PICK n \in WindowLengths : ctrl' = [ctrl EXCEPT !.KSECTOR_COUNT = n]
      BY <2>1 DEF WindowSettled
    <3>2. n \in 0 .. Size
      BY <2>1, LengthsOfWindow DEF WindowSettled
    <3> QED
      BY <1>0, <3>1, <3>2, PageNumbers
  <2>2. CASE WindowRequested
    BY <1>0, <2>2 DEF WindowRequested, Page
  <2>3. CASE Poll
    <3>1. ctrl' = [ctrl EXCEPT !.RETURN_NO_DATA_FAST = (mode > 4)] /\ (mode > 4) \in BOOLEAN
      BY <2>3 DEF Poll
    <3> QED
      BY <1>0, <3>1, PageFlags
  <2>4. CASE StartDriver
    <3>1. [ctrl EXCEPT !.RETURN_NO_DATA_FAST = FALSE, !.DATA_READY = FALSE] \in Page
      BY <1>0 DEF Page
    <3> QED
      BY <1>0, <2>4, <3>1, PageFlags, PageNumbers DEF StartDriver, Goto
  <2>5. CASE ReadStart \/ ReadCount \/ ReadRequested \/ SavedDone \/ PassDone
               \/ ClearUnread \/ Leave \/ StopDriver \/ Reconnect
    BY <1>0, <2>5 DEF ReadStart, ReadCount, ReadRequested, SavedDone, PassDone,
                      ClearUnread, Leave, StopDriver, Reconnect
  <2>6. CASE ReadSaved \/ CopyChunk \/ RescueSector \/ Show \/ Answer \/ Die
    BY <1>0, <2>6, PageFlags, PageNumbers DEF ReadSaved, CopyChunk, RescueSector, Read, Show, Answer, Goto, Die
  <2> QED
    BY <2>1, <2>2, <2>3, <2>4, <2>5, <2>6
<1>3. buffer' \in [Slots -> Sectors \cup {Blank}] /\ errors' \in [Slots -> BOOLEAN]
  <2>1. CASE ReadSaved
    <3>1. PICK q \in Left, n \in 1 .. Size : IsRun(q, n, "finished") /\ Fill(q, n, TRUE)
      BY <2>1 DEF ReadSaved
    <3>0. n \in Nat \ {0}
      OBVIOUS
    <3>2. q \in Sectors /\ q + n <= Size /\ n \in Nat
      BY <3>0, <3>1, RunType
    <3> QED
      BY <3>1, <3>2, FillType
  <2>2. CASE CopyChunk
    <3>1. PICK q \in Left, n \in 1 .. Cluster, good \in BOOLEAN :
            IsRun(q, n, "nontried") /\ Fill(q, n, good)
      BY <2>2 DEF CopyChunk, Read
    <3>0. n \in Nat \ {0}
      OBVIOUS
    <3>2. q \in Sectors /\ q + n <= Size /\ n \in Nat
      BY <3>0, <3>1, RunType
    <3> QED
      BY <3>1, <3>2, FillType
  <2>3. CASE RescueSector
    <3>1. PICK q \in Left, good \in BOOLEAN : IsRun(q, 1, "tried") /\ Fill(q, 1, good)
      BY <2>3 DEF RescueSector, Read
    <3>2. q \in Sectors /\ q + 1 <= Size
      BY <3>1, RunType
    <3> QED
      BY <3>1, <3>2, FillType
  <2>4. CASE ClearUnread
    BY <2>4, Whole DEF ClearUnread
  <2>5. CASE Die \/ Reconnect
    BY <2>5, Whole DEF Die, Reconnect
  <2>6. CASE ReadRequested
    BY <2>6, Whole DEF ReadRequested
  <2>7. CASE Poll \/ ReadStart \/ ReadCount \/ WindowRequested \/ WindowSettled
               \/ SavedDone \/ PassDone \/ Answer \/ Show \/ Leave \/ StopDriver \/ StartDriver
    BY <2>7, Whole DEF Goto, Poll, ReadStart, ReadCount, WindowRequested, WindowSettled,
         SavedDone, PassDone, Answer, Show, Leave, StopDriver, StartDriver
  <2> QED
    BY <2>1, <2>2, <2>3, <2>4, <2>5, <2>6, <2>7
<1>4. ask' \in Asked
  <2>1. CASE ReadStart \/ ReadCount \/ ReadRequested
    BY <1>0, <2>1 DEF ReadStart, ReadCount, ReadRequested, Asked, Page, Sectors
  <2>2. CASE WindowSettled
    <3>1. PICK n \in WindowLengths :
            IF mode > 4 THEN ask' = NoAsk
            ELSE ask' = [NoAsk EXCEPT !.start = ask.start, !.at = ask.start,
                           !.end = IF mode = 3 THEN Least(ask.start + n, Size)
                                   ELSE ask.start + n]
      BY <2>2 DEF WindowSettled
    <3>2. n \in 0 .. Size
      BY <2>2, LengthsOfWindow DEF WindowSettled
    <3>3. ask.start \in Sectors /\ ask.start \in 0 .. Size
          /\ ask.start + n \in 0 .. 2 * Size /\ Least(ask.start + n, Size) \in 0 .. 2 * Size
      BY <1>0, <3>2 DEF Asked, Least, Sectors
    <3> QED
      BY <1>0, <3>1, <3>3 DEF Asked
  <2>3. CASE ReadSaved
    <3>1. PICK q \in Left, n \in 1 .. Size :
            IsRun(q, n, "finished") /\ ask' = [ask EXCEPT !.at = q + n]
      BY <2>3 DEF ReadSaved
    <3>2. q + n \in 0 .. Size
      BY <3>1, RunType DEF Sectors
    <3> QED
      BY <1>0, <3>1, <3>2 DEF Asked
  <2>4. CASE SavedDone
    <3>1. ask' = NoAsk \/ ask' = [ask EXCEPT !.at = ask.start]
      BY <2>4 DEF SavedDone
    <3> QED
      BY <1>0, <3>1 DEF Asked, Sectors
  <2>5. CASE PassDone \/ Leave \/ Die
    BY <1>0, <2>5 DEF PassDone, Leave, Die
  <2>6. CASE Poll \/ WindowRequested \/ CopyChunk \/ RescueSector \/ ClearUnread \/ Answer
               \/ Show \/ StopDriver \/ StartDriver \/ Reconnect
    BY <1>0, <2>6 DEF Goto, Read, Poll, WindowRequested, CopyChunk, RescueSector,
         ClearUnread, Answer, Show, StopDriver, StartDriver, Reconnect
  <2> QED
    BY <2>1, <2>2, <2>3, <2>4, <2>5, <2>6
<1>5. map' \in [Sectors -> Statuses]
  <2>1. CASE CopyChunk \/ RescueSector
    <3>1. PICK q \in Left, n \in Nat, good \in BOOLEAN, failed \in {"bad", "tried"} :
            Read(q, n, good, failed)
      BY <2>1 DEF CopyChunk, RescueSector
    <3> QED
      BY <3>1, Whole DEF Read, Statuses
  <2>2. CASE Reconnect
    BY <2>2 DEF Reconnect, Statuses
  <2>3. CASE ~CopyChunk /\ ~RescueSector /\ ~Reconnect
    <3>1. map' = map
      BY <2>3 DEF Goto, Poll, ReadStart, ReadCount, ReadRequested, WindowRequested,
           WindowSettled, ReadSaved, SavedDone, PassDone, ClearUnread, Answer, Show,
           Leave, Die, StopDriver, StartDriver
    <3> QED
      BY <3>1, Whole
  <2> QED
    BY <2>1, <2>2, <2>3
<1> QED
  BY <1>1, <1>2, <1>3, <1>4, <1>5, MakeTypes

LEMMA NextLengths == ASSUME TypeOK, Lengths, [Next]_vars PROVE Lengths'
<1>0. ctrl \in Page /\ ask \in Asked /\ Size \in Nat
  BY Whole
<1>1. CASE ReadStart
  BY <1>1 DEF ReadStart, Lengths
<1>2. CASE ReadCount
  <2>1. ask'.small = ask.start + ctrl.KSECTOR_COUNT /\ ask'.start = ask.start /\ upc' = "big"
    BY <1>0, <1>2 DEF ReadCount, Asked
  <2>2. ctrl.KSECTOR_COUNT \in 0 .. Size /\ ask.start \in Nat
    BY <1>0 DEF Page, Asked, Sectors
  <2> QED
    BY <2>1, <2>2 DEF Lengths
<1>3. CASE ReadRequested
  <2>1. /\ ask'.big = ask.start + ctrl.KSECTORS_REQUESTED /\ ask'.start = ask.start
        /\ ask'.small = ask.small /\ upc = "big" /\ upc' = "count"
    BY <1>0, <1>3 DEF ReadRequested, Asked
  <2>2. ctrl.KSECTORS_REQUESTED \in 0 .. Size /\ ask.start \in Nat
    BY <1>0 DEF Page, Asked, Sectors
  <2> QED
    BY <2>1, <2>2 DEF Lengths
<1>4. CASE WindowRequested
  BY <1>4 DEF WindowRequested, Goto, Lengths
<1>5. CASE Refuse \/ ServeCached \/ Ask \/ Post \/ RestartTimer \/ GiveUp
             \/ WaitStopped \/ Take \/ Match \/ RequestTimesOut
  <2>1. upc' = upc /\ ask' = ask
    BY <1>5 DEF user, Refuse, ServeCached, Ask, Post, RestartTimer, GiveUp, WaitStopped,
                Take, Match, RequestTimesOut
  <2> QED
    BY <2>1 DEF Lengths
<1>6. CASE Poll \/ WindowSettled \/ ReadSaved \/ SavedDone \/ CopyChunk \/ RescueSector
             \/ PassDone \/ ClearUnread \/ Answer \/ Show \/ Leave \/ Die
             \/ StopDriver \/ StartDriver \/ Reconnect
  <2>1. upc' \notin {"big", "count", "window"}
    BY <1>6 DEF Goto, Read, Poll, WindowSettled, ReadSaved, SavedDone, CopyChunk,
         RescueSector, PassDone, ClearUnread, Answer, Show, Leave, Die, StopDriver,
         StartDriver, Reconnect
  <2> QED
    BY <2>1 DEF Lengths
<1>7. CASE UNCHANGED vars
  BY <1>7 DEF vars, Lengths
<1> QED
  BY <1>1, <1>2, <1>3, <1>4, <1>5, <1>6, <1>7 DEF Next

LEMMA NextTypes == ASSUME TypeOK, Lengths, [Next]_vars PROVE TypeOK'
<1>1. CASE UNCHANGED vars
  BY <1>1 DEF vars, TypeOK
<1> QED
  BY <1>1, KernelTypes, ProgramTypes DEF Next

-----------------------------------------------------------------------------
(* The handshake: no request is lost.                                       *)

LEMMA NextHandshake == ASSUME TypeOK, Handshake, [Next]_vars PROVE Handshake'
<1>0. ctrl \in Page /\ mode \in 1 .. 5 /\ active \in BOOLEAN /\ stop \in BOOLEAN
  BY Whole
<1> USE <1>0 DEF Handshake, NoRequestLost, Working, Answering, Gone, Page
<1>1. CASE Refuse
  BY <1>1 DEF Refuse, Return, user
<1>2. CASE ServeCached
  BY <1>2 DEF ServeCached, Admitted, Serve, Return, user
<1>3. CASE Ask
  BY <1>3 DEF Ask, Admitted, user
<1>4. CASE Post
  <2>1. UNCHANGED <<upc, mode, stop, active>>
    BY <1>4 DEF Post, user
  <2> QED
    BY <1>4, <2>1, PostSteps
<1>5. CASE RestartTimer
  BY <1>5 DEF RestartTimer, user
<1>6. CASE GiveUp
  BY <1>6 DEF GiveUp, Return, user
<1>7. CASE WaitStopped
  BY <1>7 DEF WaitStopped, Return, user
<1>8. CASE Take
  BY <1>8 DEF Take, user
<1>9. CASE Match
  BY <1>9 DEF Match, Serve, Return, user
<1>10. CASE RequestTimesOut
  BY <1>10 DEF RequestTimesOut, user, kernel
<1>11. CASE Poll
  BY <1>11 DEF Poll, kernel, Goto
<1>12. CASE ReadStart
  BY <1>12 DEF ReadStart, kernel, Goto
<1>13. CASE ReadCount
  BY <1>13 DEF ReadCount, kernel, Goto
<1>14. CASE ReadRequested
  BY <1>14 DEF ReadRequested, kernel, Goto
<1>15. CASE WindowRequested
  BY <1>15 DEF WindowRequested, kernel, Goto
<1>16. CASE WindowSettled
  BY <1>16 DEF WindowSettled, kernel, Goto
<1>17. CASE ReadSaved
  BY <1>17 DEF ReadSaved, kernel, Goto
<1>18. CASE SavedDone
  BY <1>18 DEF SavedDone, kernel, Goto
<1>19. CASE CopyChunk
  BY <1>19 DEF CopyChunk, Read, kernel
<1>20. CASE RescueSector
  BY <1>20 DEF RescueSector, Read, kernel
<1>21. CASE PassDone
  BY <1>21 DEF PassDone, kernel, Goto
<1>22. CASE ClearUnread
  BY <1>22 DEF ClearUnread, kernel, Goto
<1>23. CASE Answer
  BY <1>23 DEF Answer, kernel, Goto
<1>24. CASE Show
  BY <1>24 DEF Show, kernel, Goto
<1>25. CASE Leave
  BY <1>25 DEF Leave, kernel, Goto
<1>26. CASE Die
  BY <1>26 DEF Die, kernel, NoWords
<1>27. CASE StopDriver
  <2>1. CASE upc = "stop"
    BY <1>27, <2>1 DEF StopDriver, kernel
  <2>2. CASE upc = "remove"
    BY <1>27, <2>2 DEF StopDriver, kernel
  <2> QED
    BY <1>27, <2>1, <2>2 DEF StopDriver
<1>28. CASE StartDriver
  <2>1. CASE upc = "off"
    <3>1. /\ upc' = "settle" /\ kpc' = kpc /\ active' = active
          /\ ctrl' = [ctrl EXCEPT !.RETURN_NO_DATA_FAST = FALSE, !.DATA_READY = FALSE]
      BY <1>28, <2>1 DEF StartDriver, Goto, kernel
    <3>2. ~ctrl'.RETURN_NO_DATA_FAST /\ ~ctrl'.DATA_READY
      BY <3>1
    <3> QED
      BY <2>1, <3>1, <3>2
  <2>2. CASE upc = "settle"
    BY <1>28, <2>2 DEF StartDriver, Goto, kernel
  <2>3. CASE upc = "activated"
    BY <1>28, <2>3 DEF StartDriver, Goto, kernel
  <2> QED
    BY <1>28, <2>1, <2>2, <2>3 DEF StartDriver, Goto
<1>29. CASE Reconnect
  BY <1>29 DEF Reconnect, kernel, Goto
<1>30. CASE UNCHANGED vars
  BY <1>30 DEF vars
<1> QED
  BY <1>1, <1>2, <1>3, <1>4, <1>5, <1>6, <1>7, <1>8, <1>9, <1>10, <1>11, <1>12, <1>13, <1>14, <1>15, <1>16, <1>17, <1>18, <1>19, <1>20, <1>21, <1>22, <1>23, <1>24, <1>25, <1>26, <1>27, <1>28, <1>29, <1>30 DEF Next

-----------------------------------------------------------------------------
(* Whose turn it is, as long as no request was given up.                    *)

Live == ~abandoned /\ ~Gone

\* Neither a request given up nor the program's death is undone.
LEMMA LiveBefore == ASSUME [Next]_vars, Live' PROVE Live
<1>1. UNCHANGED abandoned \/ abandoned' = TRUE
  BY DEF vars, Next, kernel, history, Goto, Read, Refuse, ServeCached, Ask, Post,
       RestartTimer, GiveUp, WaitStopped, Take, Match, RequestTimesOut, Poll, ReadStart,
       ReadCount, ReadRequested, WindowRequested, WindowSettled, ReadSaved, SavedDone,
       CopyChunk, RescueSector, PassDone, ClearUnread, Answer, Show, Leave, Die,
       StopDriver, StartDriver, Reconnect
<1>2. upc = "gone" => upc' = "gone"
  BY DEF vars, Next, user, Goto, Read, Refuse, ServeCached, Ask, Post,
       RestartTimer, GiveUp, WaitStopped, Take, Match, RequestTimesOut, Poll, ReadStart,
       ReadCount, ReadRequested, WindowRequested, WindowSettled, ReadSaved, SavedDone,
       CopyChunk, RescueSector, PassDone, ClearUnread, Answer, Show, Leave, Die,
       StopDriver, StartDriver, Reconnect
<1> QED
  BY <1>1, <1>2 DEF Live, Gone

LEMMA NextTurns ==
  ASSUME TypeOK, Handshake, Turns, Live, [Next]_vars, Live'
  PROVE  Turns'
<1>0. ctrl \in Page
  BY Whole
<1> USE <1>0 DEF Turns, Working, Answering, Page
<1>1. CASE Refuse
  BY <1>1 DEF Refuse, Return, user, history
<1>2. CASE ServeCached
  BY <1>2 DEF ServeCached, Admitted, Serve, Return, user, history
<1>3. CASE Ask
  BY <1>3 DEF Ask, Admitted, user, history
<1>4. CASE Post
  <2>1. upc' = upc /\ ~Gone
    BY <1>4 DEF Post, user, Live
  <2> QED
    BY <1>4, <2>1, PostSteps
<1>5. CASE RestartTimer
  BY <1>5 DEF RestartTimer, user, history
<1>6. CASE GiveUp
  BY <1>6 DEF GiveUp, Live
<1>7. CASE WaitStopped
  BY <1>7 DEF WaitStopped, Live
<1>8. CASE Take
  BY <1>8 DEF Take, user, history
<1>9. CASE Match
  BY <1>9 DEF Match, Serve, Return, user, history
<1>10. CASE RequestTimesOut
  BY <1>10 DEF RequestTimesOut, user, kernel, history
<1>11. CASE Poll
  BY <1>11 DEF Poll, kernel, Goto
<1>12. CASE ReadStart
  BY <1>12 DEF ReadStart, kernel, Goto
<1>13. CASE ReadCount
  BY <1>13 DEF ReadCount, kernel, Goto
<1>14. CASE ReadRequested
  BY <1>14 DEF ReadRequested, kernel, Goto
<1>15. CASE WindowRequested
  BY <1>15 DEF WindowRequested, kernel, Goto
<1>16. CASE WindowSettled
  BY <1>16 DEF WindowSettled, kernel, Goto
<1>17. CASE ReadSaved
  BY <1>17 DEF ReadSaved, kernel, Goto
<1>18. CASE SavedDone
  BY <1>18 DEF SavedDone, kernel, Goto
<1>19. CASE CopyChunk
  BY <1>19 DEF CopyChunk, Read, kernel, history
<1>20. CASE RescueSector
  BY <1>20 DEF RescueSector, Read, kernel, history
<1>21. CASE PassDone
  BY <1>21 DEF PassDone, kernel, Goto
<1>22. CASE ClearUnread
  BY <1>22 DEF ClearUnread, kernel, Goto
<1>23. CASE Answer
  BY <1>23 DEF Answer, kernel, Goto
<1>24. CASE Show
  BY <1>24 DEF Show, kernel, Goto
<1>25. CASE Leave
  BY <1>25 DEF Leave, kernel, Goto
<1>26. CASE Die
  BY <1>26 DEF Die, Live, Gone
<1>27. CASE StopDriver
  <2>1. CASE upc = "stop"
    BY <1>27, <2>1 DEF StopDriver, kernel
  <2>2. CASE upc = "remove"
    BY <1>27, <2>2 DEF StopDriver, kernel
  <2> QED
    BY <1>27, <2>1, <2>2 DEF StopDriver
<1>28. CASE StartDriver
  <2>1. CASE upc = "off"
    <3>1. /\ upc' = "settle" /\ kpc' = kpc /\ kpc = "idle"
          /\ ctrl' = [ctrl EXCEPT !.RETURN_NO_DATA_FAST = FALSE, !.DATA_READY = FALSE]
      BY <1>28, <2>1 DEF StartDriver, Goto, kernel, Handshake
    <3>2. ~ctrl'.DATA_READY /\ ctrl'.DATA_REQUEST = ctrl.DATA_REQUEST
      BY <3>1
    <3> QED
      BY <2>1, <3>1, <3>2
  <2>2. CASE upc = "settle"
    BY <1>28, <2>2 DEF StartDriver, Goto, kernel
  <2>3. CASE upc = "activated"
    BY <1>28, <2>3 DEF StartDriver, Goto, kernel, Handshake
  <2> QED
    BY <1>28, <2>1, <2>2, <2>3 DEF StartDriver, Goto
<1>29. CASE Reconnect
  BY <1>29 DEF Reconnect, kernel, Goto
<1>30. CASE UNCHANGED vars
  BY <1>30 DEF vars
<1> QED
  BY <1>1, <1>2, <1>3, <1>4, <1>5, <1>6, <1>7, <1>8, <1>9, <1>10, <1>11, <1>12, <1>13, <1>14, <1>15, <1>16, <1>17, <1>18, <1>19, <1>20, <1>21, <1>22, <1>23, <1>24, <1>25, <1>26, <1>27, <1>28, <1>29, <1>30 DEF Next

-----------------------------------------------------------------------------
(* The words of the request in hand.                                        *)

\* The window covers the transfer, unless the cluster is smaller and cuts a
\* request in mode 3.
LEMMA WindowCovers ==
  ASSUME TypeOK, Asks, Covers, upc = "window", NEW n \in WindowLengths
  PROVE  n >= req.nsect
<1>0. /\ ask.small - ask.start = req.nsect /\ req.nsect \in 1 .. Size
      /\ ask.big - ask.start = req.tsect /\ req.tsect \in 1 .. Size /\ Cluster \in 1 .. Size
  <2>1. /\ ask.start = req.sect /\ ask.small = req.sect + req.nsect
        /\ ask.big = req.sect + req.tsect
    BY DEF Asks
  <2> QED
    BY <2>1, Whole, RequestType DEF Sectors
<1>1. CASE mode # 3
  BY <1>0, <1>1 DEF WindowLengths, Most, Least
<1>2. CASE mode = 3
  <2>0. Cluster = Size
    BY <1>2, Whole DEF Covers
  <2> DEFINE w == Most(Least(ask.big - ask.start, Cluster), ask.small - ask.start)
             ahead == {Least(Cluster, Most(w, m)) : m \in 1 .. Cluster}
  <2>1. w \in Int /\ w >= req.nsect
    BY <1>0 DEF Most, Least
  <2>2. \A k \in ahead : k \in Int /\ k >= req.nsect
    <3> HIDE DEF w
    <3> QED
      BY <1>0, <2>0, <2>1 DEF Most, Least
  <2>3. n \in ahead \/ \E k \in ahead : n = Most(k, ask.small - ask.start)
    BY <1>2 DEF WindowLengths
  <2> HIDE DEF ahead
  <2> QED
    BY <1>0, <2>2, <2>3 DEF Most
<1> QED
  BY <1>1, <1>2

LEMMA NextWords ==
  ASSUME TypeOK, Lengths, Handshake, Turns, Words, Asks, Live, [Next]_vars, Live'
  PROVE  Words'
<1>0. ctrl \in Page
  BY Whole
<1> USE <1>0 DEF Words, Posting, Pending, Answered, Filling, Page
<1>1. CASE Refuse
  BY <1>1 DEF Refuse, Return, user, history, Turns, Working, Answering
<1>2. CASE ServeCached
  BY <1>2 DEF ServeCached, Admitted, Serve, Return, user, history, Turns, Working, Answering
<1>3. CASE Ask
  BY <1>3 DEF Ask, Admitted, user, history, Turns, Working, Answering
<1>4. CASE Post
  <2>1. upc' = upc /\ req' = req /\ ~Gone /\ fresh'
    BY <1>4 DEF Post, user, Live
  <2>2. upc \notin Working \cup Answering /\ ~ctrl.DATA_READY
    BY <1>4, PostSteps DEF Turns
  <2> QED
    BY <1>4, <2>1, <2>2, PostSteps DEF Working, Answering
<1>5. CASE RestartTimer
  BY <1>5 DEF RestartTimer, user, history
<1>6. CASE GiveUp
  BY <1>6 DEF GiveUp, Live
<1>7. CASE WaitStopped
  BY <1>7 DEF WaitStopped, Live
<1>8. CASE Take
  BY <1>8 DEF Take, user, history, Turns, Working, Answering
<1>9. CASE Match
  BY <1>9 DEF Match, Serve, Return, user, history, Turns, Working, Answering
<1>10. CASE RequestTimesOut
  BY <1>10 DEF RequestTimesOut, user, kernel, history
<1>11. CASE Poll
  BY <1>11 DEF Poll, kernel, Goto, history
<1>12. CASE ReadStart
  BY <1>12 DEF ReadStart, Goto, kernel, history, Turns, Working
<1>13. CASE ReadCount
  BY <1>13 DEF ReadCount, Goto, kernel, history, Turns, Working
<1>14. CASE ReadRequested
  BY <1>14 DEF ReadRequested, Goto, kernel, history, Turns, Working
<1>15. CASE WindowRequested
  BY <1>15 DEF WindowRequested, Goto, kernel, history, Turns, Working
<1>16. CASE WindowSettled
  <2>1. PICK n \in WindowLengths : ctrl' = [ctrl EXCEPT !.KSECTOR_COUNT = n]
    BY <1>16 DEF WindowSettled
  <2>2. /\ UNCHANGED <<kpc, req, fresh>> /\ upc = "window" /\ upc' \in {"answer", "saved"}
        /\ Covers => n >= req.nsect /\ n \in 0 .. Size
    BY <1>16, WindowCovers, LengthsOfWindow DEF WindowSettled, kernel, history
  <2>3. kpc = "wait" /\ ctrl.DATA_REQUEST /\ ~ctrl.DATA_READY
    BY <2>2 DEF Turns, Working
  <2> QED
    BY <2>1, <2>2, <2>3
<1>17. CASE ReadSaved
  BY <1>17 DEF ReadSaved, kernel, Goto, history
<1>18. CASE SavedDone
  BY <1>18 DEF SavedDone, kernel, Goto, history
<1>19. CASE CopyChunk
  BY <1>19 DEF CopyChunk, Read, kernel, history
<1>20. CASE RescueSector
  BY <1>20 DEF RescueSector, Read, kernel, history
<1>21. CASE PassDone
  BY <1>21 DEF PassDone, kernel, Goto, history
<1>22. CASE ClearUnread
  BY <1>22 DEF ClearUnread, kernel, Goto, history
<1>23. CASE Answer
  BY <1>23 DEF Answer, Goto, kernel, history, Turns, Working, Answering
<1>24. CASE Show
  BY <1>24 DEF Show, kernel, Goto, history
<1>25. CASE Leave
  BY <1>25 DEF Leave, kernel, Goto, history
<1>26. CASE Die
  BY <1>26 DEF Die, Live, Gone
<1>27. CASE StopDriver
  <2>1. CASE upc = "stop"
    BY <1>27, <2>1 DEF StopDriver, kernel, history
  <2>2. CASE upc = "remove"
    BY <1>27, <2>2 DEF StopDriver, kernel, history
  <2> QED
    BY <1>27, <2>1, <2>2 DEF StopDriver
<1>28. CASE StartDriver
  <2>1. CASE upc = "off"
    <3>1. /\ upc' = "settle" /\ kpc' = kpc /\ kpc = "idle"
          /\ ctrl' = [ctrl EXCEPT !.RETURN_NO_DATA_FAST = FALSE, !.DATA_READY = FALSE]
      BY <1>28, <2>1 DEF StartDriver, Goto, kernel, Handshake
    <3>2. ~ctrl'.DATA_READY
      BY <3>1
    <3> QED
      BY <2>1, <3>1, <3>2
  <2>2. CASE upc = "settle"
    BY <1>28, <2>2 DEF StartDriver, Goto, kernel, history, Handshake
  <2>3. CASE upc = "activated"
    BY <1>28, <2>3 DEF StartDriver, Goto, kernel, history, Handshake
  <2> QED
    BY <1>28, <2>1, <2>2, <2>3 DEF StartDriver, Goto
<1>29. CASE Reconnect
  BY <1>29 DEF Reconnect, kernel, Handshake
<1>30. CASE UNCHANGED vars
  BY <1>30 DEF vars
<1> QED
  BY <1>1, <1>2, <1>3, <1>4, <1>5, <1>6, <1>7, <1>8, <1>9, <1>10, <1>11, <1>12, <1>13, <1>14, <1>15, <1>16, <1>17, <1>18, <1>19, <1>20, <1>21, <1>22, <1>23, <1>24, <1>25, <1>26, <1>27, <1>28, <1>29, <1>30 DEF Next

-----------------------------------------------------------------------------
(* What the program reads of the request is the request.                    *)

LEMMA NextAsks ==
  ASSUME TypeOK, Turns, Words, Asks, Live, [Next]_vars, Live'
  PROVE  Asks'
<1>0. ctrl \in Page /\ ask \in Asked /\ req \in Requests
  BY Whole
<1>a. upc \in Working => kpc = "wait" /\ ctrl.DATA_REQUEST /\ ~ctrl.DATA_READY
  BY DEF Turns
<1> USE <1>0, <1>a DEF Asks, Working
<1>1. CASE Refuse
  <2>1. upc \notin Working
    BY <1>1 DEF Refuse
  <2> QED
    BY <1>1, <2>1 DEF Refuse, Return, user
<1>2. CASE ServeCached
  <2>1. upc \notin Working
    BY <1>2 DEF ServeCached, Admitted
  <2> QED
    BY <1>2, <2>1 DEF ServeCached, Serve, Return, user
<1>3. CASE Ask
  <2>1. upc \notin Working
    BY <1>3 DEF Ask, Admitted
  <2> QED
    BY <1>3, <2>1 DEF Ask, user
<1>4. CASE Post
  <2>1. upc \notin Working /\ upc' = upc
    BY <1>4, PostSteps DEF Post, user
  <2> QED
    BY <2>1
<1>5. CASE RestartTimer
  <2>1. UNCHANGED <<upc, ask, mode, req>>
        /\ ctrl' = [ctrl EXCEPT !.RESET_READ_TIMER = FALSE]
    BY <1>5 DEF RestartTimer, user
  <2>2. ctrl'.KSECTOR_COUNT = ctrl.KSECTOR_COUNT
    BY <2>1 DEF Page
  <2> QED
    BY <2>1, <2>2
<1>6. CASE GiveUp
  BY <1>6 DEF GiveUp, Live
<1>7. CASE WaitStopped
  BY <1>7 DEF WaitStopped, Live
<1>8. CASE Take
  <2>1. upc \notin Working
    BY <1>8 DEF Take
  <2> QED
    BY <1>8, <2>1 DEF Take, user
<1>9. CASE Match
  <2>1. upc \notin Working
    BY <1>9 DEF Match
  <2> QED
    BY <1>9, <2>1 DEF Match, Serve, Return, user
<1>10. CASE RequestTimesOut
  BY <1>10 DEF RequestTimesOut, user, kernel, history
<1>11. CASE Poll
  BY <1>11 DEF Poll, kernel, Goto, history
<1>12. CASE ReadStart
  <2>1. ask' = [ask EXCEPT !.start = ctrl.KSECTOR_START] /\ upc = "start" /\ upc' = "small"
    BY <1>12 DEF ReadStart
  <2>2. ctrl.KSECTOR_START = req.sect /\ req' = req
    BY <1>12, <2>1 DEF ReadStart, kernel, Words
  <2> QED
    BY <2>1, <2>2 DEF Asked
<1>13. CASE ReadCount
  <2>1. /\ ask' = [ask EXCEPT !.small = ask.start + ctrl.KSECTOR_COUNT]
        /\ upc = "small" /\ upc' = "big"
    BY <1>13 DEF ReadCount
  <2>2. ctrl.KSECTOR_COUNT = req.nsect /\ req' = req
    BY <1>13, <2>1 DEF ReadCount, kernel, Words, Pending
  <2> QED
    BY <2>1, <2>2 DEF Asked
<1>14. CASE ReadRequested
  <2>1. /\ ask' = [ask EXCEPT !.big = ask.start + ctrl.KSECTORS_REQUESTED]
        /\ upc = "big" /\ upc' = "count"
    BY <1>14 DEF ReadRequested
  <2>2. ctrl.KSECTORS_REQUESTED = req.tsect /\ req' = req
    BY <1>14, <2>1 DEF ReadRequested, kernel, Words, Pending
  <2> QED
    BY <2>1, <2>2 DEF Asked
<1>15. CASE WindowRequested
  BY <1>15 DEF WindowRequested, kernel, Goto, history
<1>16. CASE WindowSettled
  <2>1. PICK n \in WindowLengths :
          /\ IF mode > 4 THEN upc' = "answer" /\ ask' = NoAsk
             ELSE /\ upc' = "saved"
                  /\ ask' = [NoAsk EXCEPT !.start = ask.start, !.at = ask.start,
                                !.end = IF mode = 3 THEN Least(ask.start + n, Size)
                                        ELSE ask.start + n]
          /\ ctrl' = [ctrl EXCEPT !.KSECTOR_COUNT = n]
    BY <1>16 DEF WindowSettled
  <2>2. UNCHANGED <<mode, req>> /\ upc = "window" /\ ask.start = req.sect
    BY <1>16 DEF WindowSettled, kernel
  <2>3. CASE mode > 4
    BY <2>1, <2>2, <2>3
  <2>4. CASE ~(mode > 4)
    <3>1. /\ upc' = "saved" /\ ask'.start = ask.start /\ ask'.at = ask.start
          /\ ask'.end \in {ask.start + n, Least(ask.start + n, Size)}
      BY <2>1, <2>4 DEF NoAsk
    <3>2. ctrl'.KSECTOR_COUNT = n
      BY <2>1 DEF Page
    <3>3. ask.start \in Int
      BY DEF Asked, Sectors
    <3> QED
      BY <2>2, <2>4, <3>1, <3>2, <3>3
  <2> QED
    BY <2>3, <2>4
<1>17. CASE ReadSaved
  <2>1. PICK q \in Left, n \in 1 .. Size :
          IsRun(q, n, "finished") /\ ask' = [ask EXCEPT !.at = q + n]
    BY <1>17 DEF ReadSaved
  <2>2. upc = "saved" /\ ctrl' = [ctrl EXCEPT !.RESET_READ_TIMER = TRUE]
        /\ UNCHANGED <<upc, mode, req>>
    BY <1>17 DEF ReadSaved, kernel
  <2>3. n \in Nat \ {0}
    OBVIOUS
  <2>4. q >= ask.at /\ q \in Nat /\ ask.at \in Nat /\ ask.start \in Nat
    BY <2>1, <2>3, RunType DEF Sectors, Asked
  <2>5. ask'.at >= ask.start /\ ask'.start = ask.start /\ ask'.end = ask.end
    BY <2>1, <2>2, <2>3, <2>4 DEF Asked
  <2>6. ctrl'.KSECTOR_COUNT = ctrl.KSECTOR_COUNT
    BY <2>2 DEF Page
  <2> QED
    BY <2>2, <2>5, <2>6
<1>18. CASE SavedDone
  <2>1. UNCHANGED <<ctrl, mode, req>> /\ upc = "saved"
    BY <1>18 DEF SavedDone, kernel
  <2>2. \/ upc' = "clear" /\ ask' = NoAsk
        \/ upc' = "copy" /\ ask' = [ask EXCEPT !.at = ask.start]
    BY <1>18 DEF SavedDone
  <2> QED
    BY <2>1, <2>2 DEF Asked
<1>19. CASE CopyChunk
  <2>1. UNCHANGED <<upc, ask, mode, req>>
        /\ ctrl' = [ctrl EXCEPT !.RESET_READ_TIMER = TRUE]
    BY <1>19 DEF CopyChunk, Read, kernel
  <2>2. ctrl'.KSECTOR_COUNT = ctrl.KSECTOR_COUNT
    BY <2>1 DEF Page
  <2> QED
    BY <2>1, <2>2
<1>20. CASE RescueSector
  <2>1. UNCHANGED <<upc, ask, mode, req>>
        /\ ctrl' = [ctrl EXCEPT !.RESET_READ_TIMER = TRUE]
    BY <1>20 DEF RescueSector, Read, kernel
  <2>2. ctrl'.KSECTOR_COUNT = ctrl.KSECTOR_COUNT
    BY <2>1 DEF Page
  <2> QED
    BY <2>1, <2>2
<1>21. CASE PassDone
  BY <1>21 DEF PassDone, kernel, Goto, history
<1>22. CASE ClearUnread
  BY <1>22 DEF ClearUnread, kernel, Goto, history
<1>23. CASE Answer
  BY <1>23 DEF Answer, kernel, Goto, history
<1>24. CASE Show
  BY <1>24 DEF Show, kernel, Goto, history
<1>25. CASE Leave
  BY <1>25 DEF Leave, kernel, Goto, history
<1>26. CASE Die
  BY <1>26 DEF Die, Live, Gone
<1>27. CASE StopDriver
  BY <1>27 DEF StopDriver, kernel, Goto, history
<1>28. CASE StartDriver
  BY <1>28 DEF StartDriver, kernel, Goto, history
<1>29. CASE Reconnect
  BY <1>29 DEF Reconnect, kernel, Goto, history
<1>30. CASE UNCHANGED vars
  BY <1>30 DEF vars
<1> QED
  BY <1>1, <1>2, <1>3, <1>4, <1>5, <1>6, <1>7, <1>8, <1>9, <1>10, <1>11, <1>12, <1>13, <1>14, <1>15, <1>16, <1>17, <1>18, <1>19, <1>20, <1>21, <1>22, <1>23, <1>24, <1>25, <1>26, <1>27, <1>28, <1>29, <1>30 DEF Next

-----------------------------------------------------------------------------
(* The buffer holds what its window says.                                   *)

\* A step that touches neither the buffer nor the window nor the log.
LEMMA Untouched ==
  ASSUME UNCHANGED <<buffer, errors, map>>,
         ctrl'.KSECTOR_START = ctrl.KSECTOR_START, ctrl'.KSECTOR_COUNT = ctrl.KSECTOR_COUNT
  PROVE  /\ Sound => Sound'
         /\ Complete(WindowEnd) => Complete(WindowEnd)'
         /\ ask' = ask /\ Complete(ask.at) => Complete(ask.at)'
BY DEF Sound, Complete, WindowEnd

LEMMA KeepsData ==
  ASSUME Data, UNCHANGED <<buffer, errors, map, upc, ask, mode>>,
         ctrl'.KSECTOR_START = ctrl.KSECTOR_START, ctrl'.KSECTOR_COUNT = ctrl.KSECTOR_COUNT,
         ctrl'.DATA_VALID /\ fresh' =>
           /\ ctrl.DATA_VALID /\ fresh
           /\ ctrl.RETURN_NO_DATA_FAST => ctrl'.RETURN_NO_DATA_FAST
  PROVE  Data'
BY Untouched DEF Data, Filling

\* Sectors put in the buffer are in their slots, with or without an error.
LEMMA FillSound ==
  ASSUME TypeOK, Sound, NEW q \in Sectors, NEW n \in Nat, q + n <= Size, NEW good \in BOOLEAN,
         q >= ctrl.KSECTOR_START, Fill(q, n, good), ctrl'.KSECTOR_START = ctrl.KSECTOR_START
  PROVE  /\ Sound'
         /\ \A s \in Sectors : s >= ctrl.KSECTOR_START =>
              /\ s \in q .. q + n - 1 => errors'[s - ctrl.KSECTOR_START] = ~good
              /\ s \notin q .. q + n - 1 =>
                   errors'[s - ctrl.KSECTOR_START] = errors[s - ctrl.KSECTOR_START]
<1> DEFINE start == ctrl.KSECTOR_START
           off == q - ctrl.KSECTOR_START
           filled == off .. off + n - 1
<1>0. /\ q \in Nat /\ start \in Nat /\ Size \in Nat /\ off \in Nat /\ off + n <= Size
      /\ buffer \in [Slots -> Sectors \cup {Blank}] /\ errors \in [Slots -> BOOLEAN]
  BY Whole DEF Page, Sectors
<1>1. /\ buffer' = [i \in Slots |-> IF i \notin filled THEN buffer[i]
                                    ELSE IF good THEN q + i - off ELSE Blank]
      /\ errors' = [i \in Slots |-> IF i \in filled THEN ~good ELSE errors[i]]
  BY <1>0 DEF Fill
<1>2. ASSUME NEW i \in Slots, ~errors'[i]
      PROVE  buffer'[i] = start + i
  <2>0. i \in Int
    BY DEF Slots
  <2>1. CASE i \in filled
    <3>1. good
      BY <1>1, <1>2, <2>1
    <3>2. buffer'[i] = q + i - off
      BY <1>1, <2>1, <3>1
    <3> QED
      BY <1>0, <2>0, <3>2
  <2>2. CASE i \notin filled
    <3>1. ~errors[i] /\ buffer'[i] = buffer[i]
      BY <1>1, <1>2, <2>2
    <3> QED
      BY <3>1 DEF Sound
  <2> QED
    BY <2>1, <2>2
<1>3. ASSUME NEW s \in Sectors, s >= start
      PROVE  /\ s \in q .. q + n - 1 => errors'[s - start] = ~good
             /\ s \notin q .. q + n - 1 => errors'[s - start] = errors[s - start]
  <2>1. s - start \in Slots
    BY <1>0, <1>3 DEF Sectors, Slots
  <2>2. s \in q .. q + n - 1 <=> s - start \in filled
    BY <1>0, <1>3 DEF Sectors
  <2> HIDE DEF filled, start, off
  <2> QED
    BY <1>1, <2>1, <2>2
<1> QED
  BY <1>2, <1>3 DEF Sound

\* A chunk that is read leaves no finished sector of the window with an error.
LEMMA ReadComplete ==
  ASSUME TypeOK, Turns, Words, Asks, Data, upc \in {"copy", "rescue"},
         NEW q, NEW n \in Nat \ {0}, NEW status, IsRun(q, n, status),
         NEW good \in BOOLEAN, NEW failed \in {"bad", "tried"}, Read(q, n, good, failed)
  PROVE  /\ Sound' /\ Complete(WindowEnd)'
         /\ upc' = upc /\ ~ctrl'.DATA_VALID
<1>0. ctrl \in Page /\ map \in [Sectors -> Statuses] /\ ask \in Asked /\ req \in Requests
  BY Whole
<1>1. kpc = "wait" /\ ctrl.DATA_REQUEST
  BY DEF Turns, Working
<1>2. /\ ctrl.KSECTOR_START = req.sect /\ ~ctrl.DATA_VALID /\ ask.at = req.sect
      /\ Sound /\ Complete(WindowEnd)
  BY <1>1 DEF Words, Pending, Asks, Data, Filling
<1>3. ctrl' = [ctrl EXCEPT !.RESET_READ_TIMER = TRUE] /\ Fill(q, n, good) /\ upc' = upc
  BY DEF Read
<1>4. /\ ctrl'.KSECTOR_START = ctrl.KSECTOR_START /\ ctrl'.KSECTOR_COUNT = ctrl.KSECTOR_COUNT
      /\ ~ctrl'.DATA_VALID
  BY <1>0, <1>2, <1>3 DEF Page
<1>5. q \in Sectors /\ q + n <= Size /\ q >= ctrl.KSECTOR_START /\ n \in Nat
  BY <1>2, RunType
<1>6. /\ Sound'
      /\ \A s \in Sectors : s >= ctrl.KSECTOR_START =>
              /\ s \in q .. q + n - 1 => errors'[s - ctrl.KSECTOR_START] = ~good
              /\ s \notin q .. q + n - 1 =>
                   errors'[s - ctrl.KSECTOR_START] = errors[s - ctrl.KSECTOR_START]
  BY <1>2, <1>3, <1>4, <1>5, FillSound
<1>7. map' = [s \in Sectors |-> IF s \notin q .. q + n - 1 THEN map[s]
                                ELSE IF good THEN "finished" ELSE failed]
  BY DEF Read
<1>8. ASSUME NEW s \in Sectors, ctrl.KSECTOR_START <= s, s < WindowEnd, map'[s] = "finished"
      PROVE  ~errors'[s - ctrl.KSECTOR_START]
  <2>0. s \in Int /\ ctrl.KSECTOR_START \in Int
    BY <1>0 DEF Sectors, Page
  <2>1. CASE s \in q .. q + n - 1
    <3>1. good
      BY <1>7, <1>8, <2>1
    <3> QED
      BY <1>6, <1>8, <2>0, <2>1, <3>1
  <2>2. CASE s \notin q .. q + n - 1
    <3>1. map[s] = "finished"
      BY <1>7, <1>8, <2>2
    <3>2. ~errors[s - ctrl.KSECTOR_START]
      BY <1>2, <1>8, <3>1 DEF Complete
    <3> QED
      BY <1>6, <1>8, <2>0, <2>2, <3>2
  <2> QED
    BY <2>1, <2>2
<1>9. WindowEnd' = WindowEnd
  BY <1>4 DEF WindowEnd
<1> QED
  BY <1>3, <1>4, <1>6, <1>8, <1>9 DEF Complete

\* A line of the log read back from the destination.
LEMMA SavedComplete ==
  ASSUME TypeOK, Turns, Words, Asks, Data, ReadSaved
  PROVE  /\ Sound' /\ Complete(ask.at)'
         /\ upc' = "saved" /\ ~ctrl'.DATA_VALID
<1>0. ctrl \in Page /\ map \in [Sectors -> Statuses] /\ ask \in Asked /\ req \in Requests
  BY Whole
<1>1. kpc = "wait" /\ ctrl.DATA_REQUEST /\ upc = "saved" /\ upc' = upc /\ map' = map
  BY DEF Turns, Working, ReadSaved
<1>2. /\ ctrl.KSECTOR_START = req.sect /\ ~ctrl.DATA_VALID /\ ask.start = req.sect
      /\ ask.at >= ask.start /\ Sound /\ Complete(ask.at)
  BY <1>1 DEF Words, Pending, Asks, Data, Filling
<1>3. PICK q \in Left, n \in 1 .. Size :
        IsRun(q, n, "finished") /\ Fill(q, n, TRUE) /\ ask' = [ask EXCEPT !.at = q + n]
  BY DEF ReadSaved
<1>4. /\ ctrl'.KSECTOR_START = ctrl.KSECTOR_START /\ ~ctrl'.DATA_VALID /\ ask'.at = q + n
  BY <1>0, <1>2, <1>3 DEF Page, Asked, ReadSaved
<1>a. n \in Nat \ {0} /\ n \in Nat
  OBVIOUS
<1>5. /\ q \in Sectors /\ q + n <= Size /\ q >= ask.at /\ q >= ctrl.KSECTOR_START
  <2>1. q \in Sectors /\ q + n <= Size /\ q >= ask.at
    BY <1>3, <1>a, RunType
  <2> QED
    BY <1>0, <1>2, <2>1 DEF Sectors, Asked
<1>6. /\ Sound'
      /\ \A s \in Sectors : s >= ctrl.KSECTOR_START =>
              /\ s \in q .. q + n - 1 => errors'[s - ctrl.KSECTOR_START] = ~TRUE
              /\ s \notin q .. q + n - 1 =>
                   errors'[s - ctrl.KSECTOR_START] = errors[s - ctrl.KSECTOR_START]
  BY <1>2, <1>3, <1>4, <1>5, <1>a, FillSound
<1>7. ASSUME NEW s \in Sectors, ctrl.KSECTOR_START <= s, s < q + n, map[s] = "finished"
      PROVE  ~errors'[s - ctrl.KSECTOR_START]
  <2>0. /\ s \in Int /\ ctrl.KSECTOR_START \in Int /\ q \in Int /\ ask.at \in Int
        /\ s >= ctrl.KSECTOR_START
    BY <1>0, <1>5, <1>7 DEF Sectors, Page, Asked
  <2>1. CASE s >= q
    <3>1. s \in q .. q + n - 1
      BY <1>7, <1>a, <2>0, <2>1
    <3> QED
      BY <1>6, <2>0, <3>1
  <2>2. CASE s < ask.at
    <3>1. ~errors[s - ctrl.KSECTOR_START]
      BY <1>2, <1>7, <2>2 DEF Complete
    <3>2. s \notin q .. q + n - 1
      BY <1>5, <2>0, <2>2
    <3> QED
      BY <1>6, <2>0, <3>1, <3>2
  <2>3. CASE ask.at <= s /\ s < q
    <3>1. s \in Left
      <4>1. Left = ask.at .. Least(ask.end, Size) - 1 /\ Least(ask.end, Size) \in Int
        BY <1>0 DEF Left, Least, Asked
      <4> QED
        BY <1>3, <2>0, <2>3, <4>1
    <3> QED
      BY <1>3, <1>7, <2>3, <3>1 DEF IsRun
  <2> QED
    BY <2>0, <2>1, <2>2, <2>3
<1> QED
  BY <1>1, <1>4, <1>6, <1>7 DEF Complete

\* When no finished line is left in the window, it is complete.
LEMMA SavedAll ==
  ASSUME TypeOK, Turns, Words, Asks, Data, SavedDone
  PROVE  Sound /\ Complete(WindowEnd) /\ ~ctrl.DATA_VALID
<1>0. ctrl \in Page /\ map \in [Sectors -> Statuses] /\ ask \in Asked /\ req \in Requests
  BY Whole
<1>1. kpc = "wait" /\ ctrl.DATA_REQUEST /\ upc = "saved"
  BY DEF Turns, Working, SavedDone
<1>2. /\ ctrl.KSECTOR_START = req.sect /\ ~ctrl.DATA_VALID
      /\ ask.end \in {WindowEnd, Least(WindowEnd, Size)} /\ Sound /\ Complete(ask.at)
  BY <1>1 DEF Words, Pending, Asks, Data, Filling, WindowEnd
<1>3. ASSUME NEW s \in Sectors, ctrl.KSECTOR_START <= s, s < WindowEnd, map[s] = "finished"
      PROVE  ~errors[s - ctrl.KSECTOR_START]
  <2>1. /\ WindowEnd \in Nat /\ ask.at \in Nat /\ s \in Nat /\ s < Size
    BY <1>0 DEF WindowEnd, Page, Asked, Sectors
  <2>2. CASE s < ask.at
    BY <1>2, <1>3, <2>2 DEF Complete
  <2>3. CASE s >= ask.at
    <3>1. s \in Left
      BY <1>2, <1>3, <2>1, <2>3 DEF Left, Least
    <3> QED
      BY <1>3, <3>1 DEF SavedDone
  <2> QED
    BY <2>1, <2>2, <2>3
<1> QED
  BY <1>2, <1>3 DEF Complete

LEMMA NextData ==
  ASSUME TypeOK, Handshake, Turns, Words, Asks, Data, Live, [Next]_vars, Live'
  PROVE  Data'
<1>0. ctrl \in Page /\ mode \in 1 .. 5 /\ req \in Requests
  BY Whole
<1>a. upc \in Working => kpc = "wait" /\ ctrl.DATA_REQUEST /\ ~ctrl.DATA_VALID
  BY DEF Turns, Words, Pending
<1>1. CASE Refuse
  <2>1. UNCHANGED <<buffer, errors, map, upc, ask, mode, ctrl, fresh>>
    BY <1>1 DEF Refuse, Return, user, history
  <2> QED
    BY <2>1, KeepsData
<1>2. CASE ServeCached
  <2>1. UNCHANGED <<buffer, errors, map, upc, ask, mode, ctrl, fresh>>
    BY <1>2 DEF ServeCached, Serve, Return, user, history
  <2> QED
    BY <2>1, KeepsData
<1>3. CASE Ask
  <2>1. UNCHANGED <<buffer, errors, map, upc, ask, mode, ctrl, fresh>>
    BY <1>3 DEF Ask, user, history
  <2> QED
    BY <2>1, KeepsData
<1>4. CASE Post
  <2>1. UNCHANGED <<buffer, errors, map, upc, ask, mode>> /\ ~Gone
    BY <1>4 DEF Post, user, Live
  <2>2. upc \notin Working \cup Answering
    BY <1>4, PostSteps DEF Turns
  <2>3. ~ctrl'.DATA_VALID
    BY <1>0, <1>4, <2>1, PostSteps DEF Page, Words, Posting
  <2> QED
    BY <2>1, <2>2, <2>3 DEF Data, Filling, Working, Answering
<1>5. CASE RestartTimer
  <2>1. /\ UNCHANGED <<buffer, errors, map, upc, ask, mode, fresh>>
        /\ ctrl' = [ctrl EXCEPT !.RESET_READ_TIMER = FALSE]
    BY <1>5 DEF RestartTimer, user, history
  <2> QED
    BY <1>0, <2>1, KeepsData DEF Page
<1>6. CASE GiveUp
  BY <1>6 DEF GiveUp, Live
<1>7. CASE WaitStopped
  BY <1>7 DEF WaitStopped, Live
<1>8. CASE Take
  <2>1. /\ UNCHANGED <<buffer, errors, map, upc, ask, mode, fresh>>
        /\ \/ ctrl' = [ctrl EXCEPT !.DATA_REQUEST = FALSE]
           \/ ctrl' = [ctrl EXCEPT !.DATA_READY = FALSE]
    BY <1>8 DEF Take, user, history
  <2> QED
    BY <1>0, <2>1, KeepsData DEF Page
<1>9. CASE Match
  <2>1. UNCHANGED <<buffer, errors, map, upc, ask, mode, ctrl, fresh>>
    BY <1>9 DEF Match, Serve, Return, user, history
  <2> QED
    BY <2>1, KeepsData
<1>10. CASE RequestTimesOut
  <2>1. UNCHANGED <<buffer, errors, map, upc, ask, mode, ctrl, fresh>>
    BY <1>10 DEF RequestTimesOut, user, kernel, history
  <2> QED
    BY <2>1, KeepsData
<1>11. CASE Poll
  <2>1. /\ UNCHANGED <<buffer, errors, map, mode, fresh>> /\ upc' \in {"start", "show"}
        /\ ctrl' = [ctrl EXCEPT !.RETURN_NO_DATA_FAST = (mode > 4)]
    BY <1>11 DEF Poll, Goto, history
  <2>2. /\ ctrl'.KSECTOR_START = ctrl.KSECTOR_START /\ ctrl'.KSECTOR_COUNT = ctrl.KSECTOR_COUNT
        /\ ctrl'.DATA_VALID = ctrl.DATA_VALID /\ ctrl'.RETURN_NO_DATA_FAST = (mode > 4)
    BY <1>0, <2>1 DEF Page
  <2> QED
    BY <2>1, <2>2, Untouched DEF Data, Filling, Handshake
<1>12. CASE ReadStart
  <2>1. UNCHANGED ctrl /\ upc' \in {"small", "big"} /\ ~ctrl.DATA_VALID
    BY <1>a, <1>12 DEF ReadStart, Working
  <2> QED
    BY <2>1 DEF Data, Filling
<1>13. CASE ReadCount
  <2>1. UNCHANGED ctrl /\ upc' \in {"small", "big"} /\ ~ctrl.DATA_VALID
    BY <1>a, <1>13 DEF ReadCount, Working
  <2> QED
    BY <2>1 DEF Data, Filling
<1>14. CASE ReadRequested
  <2>1. UNCHANGED ctrl /\ upc' = "count" /\ ~ctrl.DATA_VALID /\ errors' = [i \in Slots |-> TRUE]
    BY <1>a, <1>14 DEF ReadRequested, Working
  <2> QED
    BY <2>1 DEF Data, Filling
<1>15. CASE WindowRequested
  <2>1. /\ upc = "count" /\ upc' = "window" /\ ~ctrl.DATA_VALID /\ errors' = errors
        /\ ctrl' = [ctrl EXCEPT !.KSECTOR_COUNT = ctrl.KSECTORS_REQUESTED]
    BY <1>a, <1>15 DEF WindowRequested, Goto, Working
  <2>2. ~ctrl'.DATA_VALID
    BY <1>0, <2>1 DEF Page
  <2> QED
    BY <2>1, <2>2 DEF Data, Filling
<1>16. CASE WindowSettled
  <2>1. /\ upc = "window" /\ ~ctrl.DATA_VALID /\ UNCHANGED <<errors, map, mode, buffer>>
        /\ ctrl.KSECTOR_START = req.sect /\ ask.start = req.sect
    BY <1>a, <1>16 DEF WindowSettled, Working, Words, Asks
  <2>2. PICK n \in WindowLengths : ctrl' = [ctrl EXCEPT !.KSECTOR_COUNT = n]
    BY <1>16 DEF WindowSettled
  <2>3. ~ctrl'.DATA_VALID /\ ctrl'.KSECTOR_START = req.sect /\ req.sect \in Int
    BY <1>0, <2>1, <2>2, RequestType DEF Page, Sectors
  <2>4. \A i \in Slots : errors'[i]
    BY <2>1 DEF Data
  <2>5. \/ upc' = "answer" /\ mode' > 4
        \/ upc' = "saved" /\ ask'.at = req.sect
    BY <1>16, <2>1 DEF WindowSettled, NoAsk
  <2>6. upc' = "saved" => Complete(ask.at)'
    BY <2>3, <2>5 DEF Complete, Sectors
  <2> QED
    BY <2>3, <2>4, <2>5, <2>6 DEF Data, Filling, Sound
<1>17. CASE ReadSaved
  <2>1. Sound' /\ Complete(ask.at)' /\ upc' = "saved" /\ ~ctrl'.DATA_VALID
    BY <1>17, SavedComplete
  <2> QED
    BY <2>1 DEF Data
<1>18. CASE SavedDone
  <2>1. Sound /\ Complete(WindowEnd) /\ ~ctrl.DATA_VALID
    BY <1>18, SavedAll
  <2>2. UNCHANGED <<buffer, errors, map, ctrl>> /\ upc' \in {"clear", "copy"}
    BY <1>18 DEF SavedDone
  <2>3. Sound' /\ Complete(WindowEnd)' /\ ~ctrl'.DATA_VALID
    BY <2>1, <2>2, Untouched
  <2> QED
    BY <2>2, <2>3 DEF Data
<1>19. CASE CopyChunk
  <2>1. PICK q \in Left, n \in 1 .. Cluster, good \in BOOLEAN :
          IsRun(q, n, "nontried") /\ Read(q, n, good, IF n = 1 THEN "bad" ELSE "tried")
    BY <1>19 DEF CopyChunk
  <2>2. PICK failed \in {"bad", "tried"} : Read(q, n, good, failed)
    BY <2>1
  <2>3. upc = "copy" /\ n \in Nat \ {0}
    BY <1>19 DEF CopyChunk
  <2>4. Sound' /\ Complete(WindowEnd)' /\ upc' = "copy" /\ ~ctrl'.DATA_VALID
    BY <2>1, <2>2, <2>3, ReadComplete
  <2> QED
    BY <2>4 DEF Data
<1>20. CASE RescueSector
  <2>1. PICK q \in Left, good \in BOOLEAN : IsRun(q, 1, "tried") /\ Read(q, 1, good, "bad")
    BY <1>20 DEF RescueSector
  <2>2. upc = "rescue"
    BY <1>20 DEF RescueSector
  <2>3. 1 \in Nat \ {0}
    OBVIOUS
  <2>4. Sound' /\ Complete(WindowEnd)' /\ upc' = "rescue" /\ ~ctrl'.DATA_VALID
    BY <2>1, <2>2, <2>3, ReadComplete
  <2> QED
    BY <2>4 DEF Data
<1>21. CASE PassDone
  <2>1. /\ UNCHANGED <<buffer, errors, map, ctrl>> /\ upc \in {"copy", "rescue"}
        /\ upc' \in {"rescue", "clear"} /\ ~ctrl.DATA_VALID
    BY <1>a, <1>21 DEF PassDone, Working
  <2>2. Sound' /\ Complete(WindowEnd)' /\ ~ctrl'.DATA_VALID
    BY <2>1, Untouched DEF Data, Filling
  <2> QED
    BY <2>1, <2>2 DEF Data
<1>22. CASE ClearUnread
  <2>1. /\ UNCHANGED <<errors, map, ctrl>> /\ upc = "clear" /\ upc' = "answer" /\ ~ctrl.DATA_VALID
        /\ \A i \in Slots : ~errors[i] => buffer'[i] = buffer[i]
    BY <1>a, <1>22 DEF ClearUnread, Working
  <2>2. Sound /\ Complete(WindowEnd)
    BY <2>1 DEF Data, Filling
  <2>3. Sound'
    BY <2>1, <2>2 DEF Sound
  <2>4. Complete(WindowEnd)'
    BY <2>1, <2>2 DEF Complete, WindowEnd
  <2> QED
    BY <2>1, <2>3, <2>4 DEF Data
<1>23. CASE Answer
  <2>1. UNCHANGED <<buffer, errors, map, mode, fresh>>
    BY <1>23 DEF Answer, Goto, history
  <2>2. CASE upc = "answer"
    <3>1. upc' = "valid" /\ ctrl' = [ctrl EXCEPT !.DATA_REQUEST = FALSE] /\ ~ctrl.DATA_VALID
      BY <1>a, <1>23, <2>2 DEF Answer, Goto, Working
    <3>2. /\ ctrl'.KSECTOR_START = ctrl.KSECTOR_START /\ ctrl'.KSECTOR_COUNT = ctrl.KSECTOR_COUNT
          /\ ~ctrl'.DATA_VALID
      BY <1>0, <3>1 DEF Page
    <3> QED
      BY <2>1, <2>2, <3>1, <3>2, Untouched DEF Data, Filling
  <2>3. CASE upc = "valid"
    <3>1. upc' = "ready" /\ ctrl' = [ctrl EXCEPT !.DATA_VALID = TRUE]
      BY <1>23, <2>3 DEF Answer, Goto
    <3>2. /\ ctrl'.KSECTOR_START = ctrl.KSECTOR_START /\ ctrl'.KSECTOR_COUNT = ctrl.KSECTOR_COUNT
          /\ ctrl'.RETURN_NO_DATA_FAST = ctrl.RETURN_NO_DATA_FAST
      BY <1>0, <3>1 DEF Page
    <3>3. mode > 4 => ctrl.RETURN_NO_DATA_FAST
      BY <2>3 DEF Handshake, Answering
    <3> QED
      BY <2>1, <2>3, <3>1, <3>2, <3>3, Untouched DEF Data, Filling
  <2>4. CASE upc = "ready"
    <3>1. upc' = "show" /\ ctrl' = [ctrl EXCEPT !.DATA_READY = TRUE]
      BY <1>23, <2>4 DEF Answer, Goto
    <3>2. /\ ctrl'.KSECTOR_START = ctrl.KSECTOR_START /\ ctrl'.KSECTOR_COUNT = ctrl.KSECTOR_COUNT
          /\ ctrl'.RETURN_NO_DATA_FAST = ctrl.RETURN_NO_DATA_FAST
          /\ ctrl'.DATA_VALID = ctrl.DATA_VALID
      BY <1>0, <3>1 DEF Page
    <3> QED
      BY <2>1, <2>4, <3>1, <3>2, Untouched DEF Data, Filling
  <2> QED
    BY <1>23, <2>2, <2>3, <2>4 DEF Answer, Goto
<1>24. CASE Show
  <2>1. /\ UNCHANGED <<buffer, errors, map, fresh>> /\ upc' \in {"stop", "poll"}
        /\ ctrl' = [ctrl EXCEPT !.RESET_READ_TIMER = TRUE]
    BY <1>24 DEF Show, Goto, history
  <2>2. /\ ctrl'.KSECTOR_START = ctrl.KSECTOR_START /\ ctrl'.KSECTOR_COUNT = ctrl.KSECTOR_COUNT
        /\ ctrl'.RETURN_NO_DATA_FAST = ctrl.RETURN_NO_DATA_FAST
        /\ ctrl'.DATA_VALID = ctrl.DATA_VALID
    BY <1>0, <2>1 DEF Page
  <2> QED
    BY <2>1, <2>2, Untouched DEF Data, Filling
<1>25. CASE Leave
  <2>1. /\ UNCHANGED <<buffer, errors, map, fresh>> /\ upc' = "stop"
        /\ ctrl' = ctrl
    BY <1>25 DEF Leave, history
  <2>2. /\ ctrl'.KSECTOR_START = ctrl.KSECTOR_START /\ ctrl'.KSECTOR_COUNT = ctrl.KSECTOR_COUNT
        /\ ctrl'.RETURN_NO_DATA_FAST = ctrl.RETURN_NO_DATA_FAST
        /\ ctrl'.DATA_VALID = ctrl.DATA_VALID
    BY <1>0, <2>1 DEF Page
  <2> QED
    BY <2>1, <2>2, Untouched DEF Data, Filling
<1>26. CASE Die
  BY <1>26 DEF Die, Live, Gone
<1>27. CASE StopDriver
  <2>1. /\ UNCHANGED <<buffer, errors, map, fresh>> /\ upc' \in {"remove", "off"}
        /\ ctrl' = ctrl
    BY <1>27 DEF StopDriver, history
  <2>2. /\ ctrl'.KSECTOR_START = ctrl.KSECTOR_START /\ ctrl'.KSECTOR_COUNT = ctrl.KSECTOR_COUNT
        /\ ctrl'.RETURN_NO_DATA_FAST = ctrl.RETURN_NO_DATA_FAST
        /\ ctrl'.DATA_VALID = ctrl.DATA_VALID
    BY <1>0, <2>1 DEF Page
  <2> QED
    BY <2>1, <2>2, Untouched DEF Data, Filling
<1>28. CASE StartDriver
  <2>1. CASE upc = "off"
    <3>1. /\ upc' = "settle" /\ UNCHANGED <<buffer, errors, map>> /\ fresh' = (fresh /\ mode # 5)
          /\ ctrl' = [ctrl EXCEPT !.RETURN_NO_DATA_FAST = FALSE, !.DATA_READY = FALSE]
      BY <1>28, <2>1 DEF StartDriver, Goto
    <3>2. /\ ctrl'.KSECTOR_START = ctrl.KSECTOR_START /\ ctrl'.KSECTOR_COUNT = ctrl.KSECTOR_COUNT
          /\ ctrl'.DATA_VALID = ctrl.DATA_VALID
      BY <1>0, <3>1 DEF Page
    <3>3. fresh' => fresh /\ ~ctrl.RETURN_NO_DATA_FAST
      <4>1. ctrl.RETURN_NO_DATA_FAST => mode = 5
        BY <1>0 DEF Handshake
      <4>2. fresh' => fresh /\ mode # 5
        BY <3>1
      <4> QED
        BY <4>1, <4>2
    <3> QED
      BY <3>1, <3>2, <3>3, Untouched DEF Data, Filling
  <2>2. CASE upc \in {"settle", "activated"}
    <3>1. /\ UNCHANGED <<buffer, errors, map, fresh>> /\ upc' \in {"activated", "poll"}
          /\ ctrl' = ctrl \/ ctrl' = [ctrl EXCEPT !.DATA_READY = FALSE]
      BY <1>28, <2>2 DEF StartDriver, Goto, history
    <3>2. /\ ctrl'.KSECTOR_START = ctrl.KSECTOR_START /\ ctrl'.KSECTOR_COUNT = ctrl.KSECTOR_COUNT
          /\ ctrl'.RETURN_NO_DATA_FAST = ctrl.RETURN_NO_DATA_FAST
          /\ ctrl'.DATA_VALID = ctrl.DATA_VALID
      BY <1>0, <3>1 DEF Page
    <3> QED
      BY <3>1, <3>2, Untouched DEF Data, Filling
  <2> QED
    BY <1>28, <2>1, <2>2 DEF StartDriver, Goto
<1>29. CASE Reconnect
  <2>1. upc' = "off" /\ ~fresh'
    BY <1>29 DEF Reconnect
  <2> QED
    BY <2>1 DEF Data, Filling
<1>30. CASE UNCHANGED vars
  <2>1. UNCHANGED <<buffer, errors, map, upc, ask, mode, ctrl, fresh>>
    BY <1>30 DEF vars
  <2> QED
    BY <2>1, KeepsData
<1> QED
  BY <1>1, <1>2, <1>3, <1>4, <1>5, <1>6, <1>7, <1>8, <1>9, <1>10, <1>11, <1>12, <1>13, <1>14, <1>15, <1>16, <1>17, <1>18, <1>19, <1>20, <1>21, <1>22, <1>23, <1>24, <1>25, <1>26, <1>27, <1>28, <1>29, <1>30 DEF Next

-----------------------------------------------------------------------------
(* What is handed out.                                                      *)

\* A transfer out of the window hands out the sectors asked for, and reports an
\* error only of one of them that is not finished.
LEMMA Served ==
  ASSUME TypeOK, Live => Data, NEW r \in Requests, InBuffer(r), NEW cached \in BOOLEAN,
         Serve(r, cached), UNCHANGED <<map, upc, abandoned, fresh>>,
         Gone => ~ctrl.DATA_VALID
  PROVE  RightUntilAbandoned' /\ ErrorIsReal'
<1>0. ctrl \in Page /\ errors \in [Slots -> BOOLEAN]
  BY Whole
<1>1. /\ ctrl.DATA_VALID /\ r.sect >= ctrl.KSECTOR_START
      /\ r.sect + r.nsect <= ctrl.KSECTOR_START + ctrl.KSECTOR_COUNT
      /\ r.sect \in Nat /\ r.nsect \in Nat /\ ctrl.KSECTOR_START \in Nat
      /\ ctrl.KSECTOR_COUNT \in Nat /\ r.sect + r.nsect <= Size /\ ~Gone
  BY <1>0, RequestType DEF InBuffer, Page, Sectors
<1>2. ASSUME NEW s \in Range(r)
      PROVE  /\ s \in Sectors /\ s >= ctrl.KSECTOR_START /\ s < WindowEnd
             /\ Slot(s) = s - ctrl.KSECTOR_START
             /\ ctrl.KSECTOR_COUNT <= Size => Slot(s) \in Slots
  BY <1>1 DEF Range, Sectors, WindowEnd, Slot, Slots
<1>3. ctrl.KSECTOR_COUNT <= Size
  BY <1>0 DEF Page
<1>4. CASE ctrl.RETURN_NO_DATA_FAST
  BY <1>4 DEF Serve, Return, RightUntilAbandoned, DataIsOfTheSector, ErrorIsReal
<1>5. CASE ~ctrl.RETURN_NO_DATA_FAST /\ ~BufferFails(r)
  <2>1. reply' = [result |-> "read", got |-> FromBuffer(r)]
    BY <1>5 DEF Serve, Return
  <2>2. ErrorIsReal'
    BY <2>1 DEF ErrorIsReal
  <2>3. ASSUME ~abandoned', fresh', NEW s \in Range(r)
        PROVE  FromBuffer(r)[s] = s
    <3>1. Sound
      BY <1>1, <1>5, <2>3 DEF Live, Data
    <3>2. ~errors[Slot(s)] /\ Slot(s) \in Slots
      BY <1>2, <1>3, <1>5 DEF BufferFails
    <3>3. buffer[Slot(s)] = ctrl.KSECTOR_START + Slot(s)
      BY <3>1, <3>2 DEF Sound
    <3> QED
      BY <1>1, <1>2, <3>3 DEF FromBuffer, Sectors
  <2>4. DOMAIN FromBuffer(r) = Range(r)
    BY DEF FromBuffer
  <2> QED
    BY <2>1, <2>2, <2>3, <2>4 DEF RightUntilAbandoned, DataIsOfTheSector
<1>6. CASE ~ctrl.RETURN_NO_DATA_FAST /\ BufferFails(r)
  <2>1. PICK s \in Range(r) : errors[Slot(s)]
    BY <1>6 DEF BufferFails
  <2>2. /\ reply'.result \in {"zeros", "error"}
        /\ DOMAIN reply'.got = Range(r)
    <3>1. reply' = [result |-> IF ReturnZeros THEN "zeros" ELSE "error",
                    got |-> IF ReturnZeros /\ cached THEN Blanks(r) ELSE FromBuffer(r)]
      BY <1>6 DEF Serve, Return
    <3>2. DOMAIN Blanks(r) = Range(r) /\ DOMAIN FromBuffer(r) = Range(r)
      BY DEF Blanks, FromBuffer
    <3>3. reply'.result = IF ReturnZeros THEN "zeros" ELSE "error"
      BY <3>1
    <3>4. reply'.got = IF ReturnZeros /\ cached THEN Blanks(r) ELSE FromBuffer(r)
      BY <3>1
    <3> QED
      BY <3>2, <3>3, <3>4
  <2>3. ASSUME ~abandoned', fresh'
        PROVE  map[s] # "finished"
    <3>1. Complete(WindowEnd)
      BY <1>1, <1>6, <2>3 DEF Live, Data
    <3> QED
      BY <1>2, <2>1, <3>1 DEF Complete
  <2>4. ErrorIsReal'
    BY <2>2, <2>3 DEF ErrorIsReal
  <2>5. RightUntilAbandoned'
    BY <2>2 DEF RightUntilAbandoned, DataIsOfTheSector
  <2> QED
    BY <2>4, <2>5
<1> QED
  BY <1>4, <1>5, <1>6

LEMMA NextReply ==
  ASSUME TypeOK, Handshake, Live => Turns /\ Words /\ Asks /\ Data,
         RightUntilAbandoned, Covers => ErrorIsReal, [Next]_vars
  PROVE  RightUntilAbandoned' /\ (Covers => ErrorIsReal')
<1>1. CASE ServeCached
  <2>1. PICK r \in Requests : InBuffer(r) /\ Serve(r, TRUE)
    BY <1>1 DEF ServeCached
  <2>2. UNCHANGED <<map, upc, abandoned, fresh>> /\ (Gone => ~ctrl.DATA_VALID)
    BY <1>1 DEF ServeCached, user, history, Handshake
  <2> QED
    BY <2>1, <2>2, Served
<1>2. CASE Match
  <2>0. /\ UNCHANGED <<map, upc, abandoned, fresh>> /\ (Gone => ~ctrl.DATA_VALID)
        /\ req \in Requests
    BY <1>2, Whole DEF Match, user, history, Handshake
  <2>1. CASE InBuffer(req)
    <3>1. Serve(req, FALSE)
      BY <1>2, <2>1 DEF Match
    <3> QED
      BY <2>0, <2>1, <3>1, Served
  <2>2. CASE ~InBuffer(req) /\ ctrl.RETURN_NO_DATA_FAST
    <3>1. Serve(req, FALSE)
      BY <1>2, <2>2 DEF Match
    <3> QED
      BY <2>2, <3>1 DEF Serve, Return, RightUntilAbandoned, DataIsOfTheSector, ErrorIsReal
  <2>3. CASE ~InBuffer(req) /\ ~ctrl.RETURN_NO_DATA_FAST
    <3>1. reply' = [result |-> "error", got |-> Blanks(req)]
      BY <1>2, <2>3 DEF Match, Return
    <3>2. RightUntilAbandoned'
      BY <3>1 DEF RightUntilAbandoned, DataIsOfTheSector
    <3>3. ASSUME Covers, Live PROVE FALSE
      <4>1. /\ ctrl.DATA_VALID /\ ctrl.KSECTOR_START = req.sect
            /\ ctrl.KSECTOR_COUNT >= req.nsect
        BY <1>2, <3>3 DEF Match, Words, Answered
      <4>2. /\ req.sect \in Int /\ req.nsect \in Int /\ ctrl.KSECTOR_COUNT \in Int
        BY Whole, RequestType DEF Sectors, Page
      <4> QED
        BY <2>3, <4>1, <4>2 DEF InBuffer
    <3> QED
      BY <2>0, <3>2, <3>3 DEF Live, Gone, ErrorIsReal
  <2> QED
    BY <2>1, <2>2, <2>3
<1>3. CASE UNCHANGED vars
  BY <1>3 DEF vars, RightUntilAbandoned, DataIsOfTheSector, ErrorIsReal
<1>4. CASE Next /\ ~ServeCached /\ ~Match
  <2>1. reply'.result \notin {"read", "error"}
    <3>1. CASE reply' = NoReply
      BY <3>1 DEF NoReply
    <3>2. CASE Refuse
      BY <3>2 DEF Refuse, Return
    <3>3. CASE GiveUp \/ WaitStopped
      BY <3>3 DEF GiveUp, WaitStopped, Return
    <3>4. CASE Ask \/ Post \/ RestartTimer \/ Take \/ RequestTimesOut
      BY <3>1, <3>4 DEF Ask, Post, RestartTimer, Take, RequestTimesOut, Silent
    <3>5. CASE Poll \/ ReadStart \/ ReadCount \/ ReadRequested \/ WindowRequested
                 \/ WindowSettled \/ ReadSaved \/ SavedDone \/ CopyChunk \/ RescueSector
                 \/ PassDone \/ ClearUnread \/ Answer \/ Show \/ Leave \/ Die
                 \/ StopDriver \/ StartDriver \/ Reconnect
      <4>1. Silent
        BY <3>5 DEF Goto, Read, Poll, ReadStart, ReadCount, ReadRequested, WindowRequested,
             WindowSettled, ReadSaved, SavedDone, CopyChunk, RescueSector, PassDone,
             ClearUnread, Answer, Show, Leave, Die, StopDriver, StartDriver, Reconnect
      <4> QED
        BY <3>1, <4>1 DEF Silent
    <3> QED
      BY <1>4, <3>2, <3>3, <3>4, <3>5 DEF Next
  <2> QED
    BY <2>1 DEF RightUntilAbandoned, DataIsOfTheSector, ErrorIsReal
<1> QED
  BY <1>1, <1>2, <1>3, <1>4

-----------------------------------------------------------------------------
(* The invariant, and what follows from it.                                 *)

LEMMA InitIInv == ASSUME Init PROVE IInv
<1>1. TypeOK
  <2>1. NoWords \in Page /\ NoAsk \in Asked /\ NoRequest \in Requests
    BY NoRequestType DEF NoWords, Page, NoAsk, Asked, Sectors
  <2>2. /\ buffer \in [Slots -> Sectors \cup {Blank}] /\ errors \in [Slots -> BOOLEAN]
        /\ map \in [Sectors -> Statuses] /\ mode \in Modes
    BY DEF Init, Statuses
  <2>3. {stop, active, lockup, abandoned, fresh} \subseteq BOOLEAN
    BY DEF Init
  <2> QED
    BY <2>1, <2>2, <2>3 DEF Init, TypeOK, Page, Asked
<1>2. Lengths /\ Handshake
  BY DEF Init, Lengths, Handshake, NoRequestLost, NoWords, Gone, Working, Answering
<1>3. Turns /\ Words /\ Asks /\ Data
  BY DEF Init, NoWords, Turns, Words, Asks, Data, Working, Answering, Posting, Pending,
         Filling, Answered
<1>4. RightUntilAbandoned /\ ErrorIsReal
  BY DEF Init, NoReply, RightUntilAbandoned, DataIsOfTheSector, ErrorIsReal
<1> QED
  BY <1>1, <1>2, <1>3, <1>4 DEF IInv

LEMMA NextIInv == ASSUME IInv, [Next]_vars PROVE IInv'
<1>1. TypeOK' /\ Lengths'
  BY NextTypes, NextLengths DEF IInv
<1>2. Handshake'
  BY NextHandshake DEF IInv
<1>3. ASSUME Live'
      PROVE  Turns' /\ Words' /\ Asks' /\ Data'
  <2>1. Live
    BY <1>3, LiveBefore
  <2>2. Turns /\ Words /\ Asks /\ Data
    BY <2>1 DEF IInv, Live
  <2>3. Turns'
    BY <1>3, <2>1, <2>2, NextTurns DEF IInv
  <2>4. Words'
    BY <1>3, <2>1, <2>2, NextWords DEF IInv
  <2>5. Asks'
    BY <1>3, <2>1, <2>2, NextAsks DEF IInv
  <2>6. Data'
    BY <1>3, <2>1, <2>2, NextData DEF IInv
  <2> QED
    BY <2>3, <2>4, <2>5, <2>6
<1>4. RightUntilAbandoned' /\ (Covers => ErrorIsReal')
  BY NextReply DEF IInv, Live
<1> QED
  BY <1>1, <1>2, <1>3, <1>4 DEF IInv, Live, Covers

LEMMA Invariant == Spec => []IInv
<1>1. Init => IInv
  BY InitIInv
<1>2. IInv /\ [Next]_vars => IInv'
  BY NextIInv
<1> QED
  BY <1>1, <1>2, PTL DEF Spec

\* The control words, the buffer and what both sides hold of a request stay
\* within the source, even when a request is read while the next one is posted
\* over it.
THEOREM TypeCorrect == Spec => []TypeOK
<1>1. IInv => TypeOK
  BY DEF IInv
<1> QED
  BY <1>1, Invariant, PTL

\* Whatever the program does, and after any number of timeouts, stops and
\* restarts: while data_transfer waits, its request stands, or its answer does,
\* or the program is about to raise it.
THEOREM RequestsStand == Spec => []NoRequestLost
<1>1. IInv => NoRequestLost
  BY DEF IInv, Handshake
<1> QED
  BY <1>1, Invariant, PTL

\* For a source of any size and in every mode, what the drive reports as read is
\* the data of the sectors asked for, until a request is given up.
THEOREM DataIsRight == Spec => []RightUntilAbandoned
<1>1. IInv => RightUntilAbandoned
  BY DEF IInv
<1> QED
  BY <1>1, Invariant, PTL

\* Until then an error is the error of a sector that could not be read. In mode 3
\* this needs transfers no longer than a cluster: driver_clone_forward_ccc cuts a
\* request that is not in sequence to the cluster, even below the transfer.
THEOREM ErrorsAreReal == ASSUME Covers PROVE Spec => []ErrorIsReal
<1>1. IInv => ErrorIsReal
  BY DEF IInv
<1> QED
  BY <1>1, Invariant, PTL
=============================================================================
