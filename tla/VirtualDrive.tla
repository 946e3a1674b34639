--------------------------- MODULE VirtualDrive ---------------------------
(***************************************************************************)
(* The virtual drive: a block device of the kernel module                  *)
(* (driver/hddsuperclone_driver.c) whose sectors are read on demand by the *)
(* cloning program (begin_driver_ccc in hddsuperclone.c).                  *)
(*                                                                         *)
(* The two sides share a page of control words, a transfer buffer and a    *)
(* byte per buffer slot that is 0 when the slot holds a sector and not 0   *)
(* when it could not be read. There is no lock: the module posts a request *)
(* word by word and polls DATA_READY, the program polls DATA_REQUEST and   *)
(* answers word by word. Every read or write of a word that the other side *)
(* writes is a step of its own; a copy into the buffer is one step, and so *)
(* is the test and copy that ends a transfer.                              *)
(***************************************************************************)
EXTENDS Integers

CONSTANTS
    Size,         \* sectors of the source, and slots of the transfer buffer
    Cluster,      \* original_cluster_size_ccc: sectors read ahead at most
    Modes,        \* the values driver_mode_ccc is given by the user
    ReturnZeros,  \* return_zeros_on_error: report a bad sector as read
    Reconnects    \* whether other sources are connected as the program runs

ASSUME VirtualDriveAssumption ==
    /\ Size \in Nat \ {0}
    /\ Cluster \in 1 .. Size
    /\ Modes \subseteq 1 .. 5
    /\ {ReturnZeros, Reconnects} \subseteq BOOLEAN

VARIABLES
    mode,       \* driver_mode_ccc
    ctrl,       \* the page of control words
    buffer,     \* the transfer buffer: the sector each slot holds the data of
    errors,     \* the error bitmap: the slots whose byte is not 0
    stop,       \* stop_signal and CTRL_STOP_SIGNAL, always written together
    active,     \* data_drive_active
    lockup,     \* lockup_detected
    kpc,        \* where data_transfer is; the word it writes next while posting
    req,        \* the transfer in hand: sect, nsect and tsect
    reply,      \* what the step just taken returned to the caller of the drive
    upc,        \* where begin_driver_ccc is
    ask,        \* its start, small_end and big_end, and the_end
    map,        \* the progress log: the status of every sector
    abandoned,  \* history: a request was given up before it was answered
    fresh       \* history: something was asked for since another source was
                \* connected or the drive was last started after mode 5

kernel == <<kpc, req, lockup>>
user == <<upc, ask, map>>
history == <<abandoned, fresh>>
vars == <<mode, ctrl, buffer, errors, stop, active, lockup, kpc, req, reply,
          upc, ask, map, abandoned, fresh>>

Sectors == 0 .. Size - 1
Slots == 0 .. Size - 1
Blank == -1          \* a slot with no sector of the source: zeros, the unread mark
                     \* or what was read from another source before

\* NONTRIED; failed but not given up; BAD; FINISHED
Statuses == {"nontried", "tried", "bad", "finished"}

Requests ==
    {r \in [sect : Sectors, nsect : 1 .. Size, tsect : 1 .. Size] :
        r.sect + r.tsect <= Size /\ r.nsect <= r.tsect}

Least(a, b) == IF a <= b THEN a ELSE b
Most(a, b) == IF a >= b THEN a ELSE b

\* The control words of a page just mapped, and of none.
NoWords ==
    [DATA_VALID |-> FALSE, KSECTOR_START |-> 0, KSECTOR_COUNT |-> 0,
     KSECTORS_REQUESTED |-> 0, DATA_READY |-> FALSE, DATA_REQUEST |-> FALSE,
     RESET_READ_TIMER |-> FALSE, RETURN_NO_DATA_FAST |-> FALSE]

---------------------------------------------------------------------------
(* The kernel module *)

\* The words of a request in the order data_transfer writes them, with the
\* step that follows each of them. (ACK_REQUEST only says that the shorter of
\* two timeouts applies no more; it is left out, as GiveUp has no clock.)
After == [DATA_VALID         |-> "KSECTOR_START",
          KSECTOR_START      |-> "KSECTOR_COUNT",
          KSECTOR_COUNT      |-> "KSECTORS_REQUESTED",
          KSECTORS_REQUESTED |-> "DATA_READY",
          DATA_READY         |-> "DATA_REQUEST",
          DATA_REQUEST       |-> "wait"]

Posted(r) == [DATA_VALID         |-> FALSE,
              KSECTOR_START      |-> r.sect,
              KSECTOR_COUNT      |-> r.nsect,
              KSECTORS_REQUESTED |-> r.tsect,
              DATA_READY         |-> FALSE,
              DATA_REQUEST       |-> TRUE]

NoData == [s \in {} |-> Blank]
NoReply == [result |-> "none", got |-> NoData]
Silent == reply' = NoReply
Range(r) == r.sect .. r.sect + r.nsect - 1

NoRequest == [sect |-> 0, nsect |-> 1, tsect |-> 1]

\* The transfer ends with this result, its data in the caller's buffer. (The
\* values of req and ask are forgotten when no step can read them any more.)
Return(result, got) ==
    /\ kpc' = "idle" /\ req' = NoRequest
    /\ reply' = [result |-> result, got |-> got]

\* DATA_VALID is set and the sectors lie inside the buffer's window.
InBuffer(r) ==
    /\ ctrl.DATA_VALID
    /\ r.sect >= ctrl.KSECTOR_START
    /\ r.sect + r.nsect <= ctrl.KSECTOR_START + ctrl.KSECTOR_COUNT

Slot(s) == s - ctrl.KSECTOR_START
BufferFails(r) == \E s \in Range(r) : errors[Slot(s)]
FromBuffer(r) == [s \in Range(r) |-> buffer[Slot(s)]]
Blanks(r) == [s \in Range(r) |-> Blank]

\* What is handed out of the buffer when one of the sectors was not read: the
\* cached path wipes the data of all of them when errors are not reported.
Serve(r, cached) ==
    CASE ctrl.RETURN_NO_DATA_FAST -> Return("fast", NoData)
      [] ~ctrl.RETURN_NO_DATA_FAST /\ ~BufferFails(r) -> Return("read", FromBuffer(r))
      [] ~ctrl.RETURN_NO_DATA_FAST /\ BufferFails(r) ->
            Return(IF ReturnZeros THEN "zeros" ELSE "error",
                   IF ReturnZeros /\ cached THEN Blanks(r) ELSE FromBuffer(r))

\* A transfer the module ends at once: the drive is not activated, it is being
\* stopped, or an earlier request locked up and the program gave no sign since.
\* (The zeros it puts in the caller's buffer are not looked at.)
Refuse ==
    /\ kpc = "idle"
    /\ \/ ~active /\ Return("inactive", NoData)
       \/ active /\ stop /\ Return("stopped", NoData)
       \/ active /\ ~stop /\ lockup /\ ~ctrl.RESET_READ_TIMER /\ Return("again", NoData)
    /\ UNCHANGED <<mode, ctrl, buffer, errors, stop, active, lockup, user, history>>

Admitted == kpc = "idle" /\ active /\ ~stop /\ (lockup => ctrl.RESET_READ_TIMER)

\* A transfer served from what the buffer already holds.
ServeCached ==
    /\ Admitted
    /\ \E r \in Requests : InBuffer(r) /\ Serve(r, TRUE)
    /\ UNCHANGED <<mode, ctrl, buffer, errors, stop, active, lockup, user, history>>

\* A transfer that has to ask the program.
Ask ==
    /\ Admitted
    /\ \E r \in Requests : ~InBuffer(r) /\ req' = r
    /\ kpc' = "DATA_VALID"
    /\ UNCHANGED <<mode, ctrl, buffer, errors, stop, active, lockup, user, history>> /\ Silent

\* The request is posted, one word at a time. (Without the program's memory the
\* words are dropped; the other words the module writes are 0 then already.)
Post ==
    /\ kpc \in DOMAIN After
    /\ ctrl' = IF upc = "gone" THEN ctrl ELSE [ctrl EXCEPT ![kpc] = Posted(req)[kpc]]
    /\ kpc' = After[kpc]
    /\ fresh' = TRUE
    /\ UNCHANGED <<mode, buffer, errors, stop, active, lockup, req, user, abandoned>> /\ Silent

\* A fault: the sign of life is not taken back once it is seen.
RestartTimerKept ==
    /\ kpc = "wait" /\ ~ctrl.DATA_READY /\ ctrl.RESET_READ_TIMER
    /\ lockup' = FALSE
    /\ UNCHANGED <<mode, ctrl, buffer, errors, stop, active, kpc, req, user, history>> /\ Silent

\* The program shows that it lives: the timer of the wait starts again.
RestartTimer ==
    /\ kpc = "wait" /\ ~ctrl.DATA_READY /\ ctrl.RESET_READ_TIMER
    /\ ctrl' = [ctrl EXCEPT !.RESET_READ_TIMER = FALSE]
    /\ lockup' = FALSE
    /\ UNCHANGED <<mode, buffer, errors, stop, active, kpc, req, user, history>> /\ Silent

\* No answer for READ_TIMEOUT, or no ACK_REQUEST for ACK_TIMEOUT, since the
\* timer started. How long that is against the program's steps is not fixed.
GiveUp ==
    /\ kpc = "wait" /\ ~ctrl.DATA_READY /\ ~ctrl.RESET_READ_TIMER
    /\ ctrl' = [ctrl EXCEPT !.DATA_REQUEST = FALSE]
    /\ lockup' = TRUE
    /\ Return("again", NoData)
    /\ abandoned' = TRUE
    /\ UNCHANGED <<mode, buffer, errors, stop, active, user, fresh>>

\* The drive is being stopped: the wait ends, DATA_REQUEST stays as it is.
WaitStopped ==
    /\ kpc = "wait" /\ ~ctrl.DATA_READY /\ stop
    /\ Return("stopped", NoData)
    /\ abandoned' = TRUE
    /\ UNCHANGED <<mode, ctrl, buffer, errors, stop, active, lockup, user, fresh>>

\* DATA_READY is seen; both words of the handshake are cleared.
Take ==
    \/ /\ kpc = "wait" /\ ctrl.DATA_READY
       /\ ctrl' = [ctrl EXCEPT !.DATA_REQUEST = FALSE]
       /\ kpc' = "taken"
       /\ UNCHANGED <<mode, buffer, errors, stop, active, lockup, req, user, history>> /\ Silent
    \/ /\ kpc = "taken"
       /\ ctrl' = [ctrl EXCEPT !.DATA_READY = FALSE]
       /\ kpc' = "match"
       /\ UNCHANGED <<mode, buffer, errors, stop, active, lockup, req, user, history>> /\ Silent

\* The answer is copied if the window in the control words covers the request.
Match ==
    /\ kpc = "match"
    /\ IF ctrl.RETURN_NO_DATA_FAST \/ InBuffer(req)
       THEN Serve(req, FALSE)
       ELSE Return("error", Blanks(req))
    /\ UNCHANGED <<mode, ctrl, buffer, errors, stop, active, lockup, user, history>>

\* A block request, made of one or more transfers, took longer than
\* REQUEST_TIMEOUT: the module stops the drive.
RequestTimesOut ==
    /\ kpc = "idle" /\ active
    /\ stop' = TRUE
    /\ UNCHANGED <<mode, ctrl, buffer, errors, active, kernel, user, history>> /\ Silent

\* The steps of a transfer that has begun.
Transferring == Post \/ RestartTimer \/ GiveUp \/ WaitStopped \/ Take \/ Match

---------------------------------------------------------------------------
(* The program *)

NoAsk == [start |-> 0, small |-> 0, big |-> 0, end |-> 0, at |-> 0]

\* Let the program go from one step to another with only ctrl changed.
Goto(from, to) ==
    /\ upc = from /\ upc' = to
    /\ UNCHANGED <<mode, buffer, errors, stop, active, kernel, ask, map, history>> /\ Silent

\* The head of the loop: RETURN_NO_DATA_FAST follows the mode, then
\* DATA_REQUEST is read.
Poll ==
    /\ Goto("poll", IF ctrl.DATA_REQUEST THEN "start" ELSE "show")
    /\ ctrl' = [ctrl EXCEPT !.RETURN_NO_DATA_FAST = (mode > 4)]

\* The request is read in three reads; the error bitmap is set with the last.
ReadStart ==
    /\ upc = "start" /\ upc' = "small"
    /\ ask' = [ask EXCEPT !.start = ctrl.KSECTOR_START]
    /\ UNCHANGED <<mode, ctrl, buffer, errors, stop, active, kernel, map, history>> /\ Silent

ReadCount ==
    /\ upc = "small" /\ upc' = "big"
    /\ ask' = [ask EXCEPT !.small = ask.start + ctrl.KSECTOR_COUNT]
    /\ UNCHANGED <<mode, ctrl, buffer, errors, stop, active, kernel, map, history>> /\ Silent

\* A fault: the error bitmap keeps the bytes of the request before.
ReadRequestedOldErrors ==
    /\ upc = "big" /\ upc' = "count"
    /\ ask' = [ask EXCEPT !.big = ask.start + ctrl.KSECTORS_REQUESTED]
    /\ UNCHANGED <<mode, ctrl, buffer, errors, stop, active, kernel, map, history>> /\ Silent

ReadRequested ==
    /\ upc = "big" /\ upc' = "count"
    /\ ask' = [ask EXCEPT !.big = ask.start + ctrl.KSECTORS_REQUESTED]
    /\ errors' = [i \in Slots |-> TRUE]
    /\ UNCHANGED <<mode, ctrl, buffer, stop, active, kernel, map, history>> /\ Silent

\* driver_clone_forward_ccc first takes the whole request as the window.
WindowRequested ==
    /\ Goto("count", "window")
    /\ ctrl' = [ctrl EXCEPT !.KSECTOR_COUNT = ctrl.KSECTORS_REQUESTED]

\* The lengths it may then settle on: the request cut to a cluster but never
\* below the transfer, and in mode 3 read ahead (m stands for the least cluster
\* size and the multiplier of requests in sequence), which may be cut below it.
WindowLengths ==
    LET n == Most(Least(ask.big - ask.start, Cluster), ask.small - ask.start)
    IN IF mode # 3 THEN {n}
       ELSE LET ahead == {Least(Cluster, Most(n, m)) : m \in 1 .. Cluster}
            IN ahead \cup {Most(k, ask.small - ask.start) : k \in ahead}

\* The window becomes the one the answer will cover.
WindowSettled ==
    /\ upc = "window"
    /\ \E n \in WindowLengths :
        /\ IF mode > 4 THEN upc' = "answer" /\ ask' = NoAsk
           ELSE /\ upc' = "saved"
                /\ ask' = [NoAsk EXCEPT !.start = ask.start, !.at = ask.start,
                              !.end = IF mode = 3 THEN Least(ask.start + n, Size)
                                      ELSE ask.start + n]
        /\ ctrl' = [ctrl EXCEPT !.KSECTOR_COUNT = n]
    /\ UNCHANGED <<mode, buffer, errors, stop, active, kernel, map, history>> /\ Silent

\* Put sectors q .. q + n - 1 in the buffer, at their distance from the start
\* of the request as the control words have it now.
Fill(q, n, good) ==
    LET off == q - ctrl.KSECTOR_START
        filled == off .. off + n - 1
    IN IF off >= 0 /\ off + n <= Size
       THEN /\ buffer' = [i \in Slots |->
                            IF i \notin filled THEN buffer[i]
                            ELSE IF good THEN q + i - off ELSE Blank]
            /\ errors' = [i \in Slots |-> IF i \in filled THEN ~good ELSE errors[i]]
       ELSE UNCHANGED <<buffer, errors>>

\* The sectors of the window not passed yet; no line of the log goes beyond the
\* end of the source, even if the window does.
Left == ask.at .. Least(ask.end, Size) - 1

\* The sectors q .. q + n - 1 are the next ones of the request with the status.
IsRun(q, n, status) ==
    /\ q \in Left /\ q + n - 1 \in Left
    /\ \A s \in q .. q + n - 1 : map[s] = status
    /\ \A s \in Left : s < q => map[s] # status

\* Finished sectors come from the destination, a whole line of the log at once.
ReadSaved ==
    /\ upc = "saved"
    /\ \E q \in Left, n \in 1 .. Size :
        /\ IsRun(q, n, "finished") /\ (q + n \in Left => map[q + n] # "finished")
        /\ Fill(q, n, TRUE)
        /\ ask' = [ask EXCEPT !.at = q + n]
    /\ ctrl' = [ctrl EXCEPT !.RESET_READ_TIMER = TRUE]
    /\ UNCHANGED <<mode, upc, map, stop, active, kernel, history>> /\ Silent

\* The whole window came from the destination, or the mode reads no more.
SavedDone ==
    /\ upc = "saved"
    /\ \A s \in Left : map[s] # "finished"
    /\ LET complete == \A i \in 0 .. ask.end - ask.start - 1 : i \in Slots /\ ~errors[i]
       IN IF complete \/ mode > 3
          THEN upc' = "clear" /\ ask' = NoAsk
          ELSE upc' = "copy" /\ ask' = [ask EXCEPT !.at = ask.start]
    /\ UNCHANGED <<mode, ctrl, buffer, errors, map, stop, active, kernel, history>> /\ Silent

\* A chunk of the source is read: written to the destination and put in the
\* buffer, or marked failed (bad when nothing smaller is left to read).
Read(q, n, good, failed) ==
    /\ map' = [s \in Sectors |->
                IF s \notin q .. q + n - 1 THEN map[s]
                ELSE IF good THEN "finished" ELSE failed]
    /\ Fill(q, n, good)
    /\ ctrl' = [ctrl EXCEPT !.RESET_READ_TIMER = TRUE]
    /\ UNCHANGED <<mode, upc, ask, stop, active, kernel, history>> /\ Silent

\* Phase 4 over the window: sectors never tried, in chunks of a cluster.
CopyChunk ==
    /\ upc = "copy"
    /\ \E q \in Left, n \in 1 .. Cluster, good \in BOOLEAN :
        /\ IsRun(q, n, "nontried")
        /\ q + n \in Left /\ n < Cluster => map[q + n] # "nontried"
        /\ Read(q, n, good, IF n = 1 THEN "bad" ELSE "tried")

\* Mode 1 goes on with trimming, dividing and scraping: what failed is read
\* again until each sector is read or bad.
RescueSector ==
    /\ upc = "rescue"
    /\ \E q \in Left, good \in BOOLEAN :
        IsRun(q, 1, "tried") /\ Read(q, 1, good, "bad")

\* A pass found no more sectors of its kind.
PassDone ==
    \E kind \in {"nontried", "tried"} :
        /\ upc = (IF kind = "nontried" THEN "copy" ELSE "rescue")
        /\ \A s \in Left : map[s] # kind
        /\ IF kind = "nontried" /\ mode = 1
           THEN upc' = "rescue" /\ UNCHANGED ask
           ELSE upc' = "clear" /\ ask' = NoAsk
        /\ UNCHANGED <<mode, ctrl, buffer, errors, map, stop, active, kernel, history>> /\ Silent

\* Whatever was not read is wiped, up to the window as the words have it now.
ClearUnread ==
    /\ upc = "clear" /\ upc' = "answer"
    /\ buffer' = [i \in Slots |->
                    IF i < ctrl.KSECTOR_COUNT /\ errors[i] THEN Blank ELSE buffer[i]]
    /\ UNCHANGED <<mode, ctrl, errors, ask, map, stop, active, kernel, history>> /\ Silent

\* A fault: the answer is raised before the buffer is declared valid.
AnswerEarly ==
    \/ Goto("answer", "valid") /\ ctrl' = [ctrl EXCEPT !.DATA_REQUEST = FALSE]
    \/ Goto("valid", "ready") /\ ctrl' = [ctrl EXCEPT !.DATA_READY = TRUE]
    \/ Goto("ready", "show") /\ ctrl' = [ctrl EXCEPT !.DATA_VALID = TRUE]

\* A fault: the request is taken back only after the answer is raised.
AnswerThenClear ==
    \/ Goto("answer", "valid") /\ ctrl' = [ctrl EXCEPT !.DATA_VALID = TRUE]
    \/ Goto("valid", "ready") /\ ctrl' = [ctrl EXCEPT !.DATA_READY = TRUE]
    \/ Goto("ready", "show") /\ ctrl' = [ctrl EXCEPT !.DATA_REQUEST = FALSE]

\* The answer, in three writes.
Answer ==
    \/ Goto("answer", "valid") /\ ctrl' = [ctrl EXCEPT !.DATA_REQUEST = FALSE]
    \/ Goto("valid", "ready") /\ ctrl' = [ctrl EXCEPT !.DATA_VALID = TRUE]
    \/ Goto("ready", "show") /\ ctrl' = [ctrl EXCEPT !.DATA_READY = TRUE]

\* The end of the loop: the display update restarts the module's timers, then
\* CTRL_STOP_SIGNAL is read.
Show ==
    /\ Goto("show", IF stop THEN "stop" ELSE "poll")
    /\ ctrl' = [ctrl EXCEPT !.RESET_READ_TIMER = TRUE]

\* The user stops the program, or a device error ends the request.
Leave ==
    /\ upc \in {"saved", "copy", "rescue", "show"} /\ upc' = "stop" /\ ask' = NoAsk
    /\ UNCHANGED <<mode, ctrl, buffer, errors, stop, active, kernel, map, history>> /\ Silent

\* The program is killed: its files are closed, and the module gives up the
\* memory behind them. It reads every word as 0 from then on.
Die ==
    /\ upc \notin {"stop", "remove", "off", "gone"} /\ upc' = "gone" /\ ask' = NoAsk
    /\ ctrl' = NoWords /\ buffer' = [i \in Slots |-> Blank] /\ errors' = [i \in Slots |-> FALSE]
    /\ UNCHANGED <<mode, stop, active, kernel, map, history>> /\ Silent

\* stop_driver_ccc: the module raises the stop signal, waits for the transfer
\* in hand as it removes the disk, and is not active any more.
StopDriver ==
    \/ /\ upc = "stop" /\ upc' = "remove" /\ stop' = TRUE
       /\ UNCHANGED <<mode, ctrl, buffer, errors, active, kernel, ask, map, history>> /\ Silent
    \/ /\ upc = "remove" /\ kpc = "idle" /\ upc' = "off" /\ active' = FALSE
       /\ UNCHANGED <<mode, ctrl, buffer, errors, stop, kernel, ask, map, history>> /\ Silent

\* begin_driver_ccc up to its loop: the words of the handshake but DATA_READY
\* stay as they were, and so does lockup_detected.
StartDriver ==
    \/ /\ upc = "off" /\ upc' = "settle" /\ mode' \in Modes /\ stop' = FALSE
       /\ ctrl' = [ctrl EXCEPT !.RETURN_NO_DATA_FAST = FALSE, !.DATA_READY = FALSE]
       /\ fresh' = (fresh /\ mode # 5)
       /\ UNCHANGED <<buffer, errors, active, kernel, ask, map, abandoned>> /\ Silent
    \/ /\ upc = "settle" /\ upc' = "activated" /\ active' = TRUE
       /\ UNCHANGED <<mode, ctrl, buffer, errors, stop, kernel, ask, map, history>> /\ Silent
    \/ Goto("activated", "poll") /\ ctrl' = [ctrl EXCEPT !.DATA_READY = FALSE]

\* Another source is connected, with a log of its own. The control words and the
\* buffer are not touched: the buffer stays valid with data of the source before.
Reconnect ==
    /\ Reconnects /\ upc = "off"
    /\ fresh' = FALSE
    /\ map' = [s \in Sectors |-> "nontried"]
    /\ buffer' = [i \in Slots |-> Blank]
    /\ UNCHANGED <<mode, ctrl, errors, stop, active, kernel, upc, ask, abandoned>> /\ Silent

---------------------------------------------------------------------------
Init ==
    /\ mode \in Modes
    /\ ctrl = NoWords
    /\ buffer = [i \in Slots |-> Blank] /\ errors = [i \in Slots |-> FALSE]
    /\ stop = FALSE /\ active = FALSE /\ lockup = FALSE
    /\ kpc = "idle" /\ req = NoRequest
    /\ reply = NoReply
    /\ upc = "off" /\ ask = NoAsk
    /\ map = [s \in Sectors |-> "nontried"]
    /\ abandoned = FALSE /\ fresh = TRUE

Next ==
    \/ Refuse \/ ServeCached \/ Ask \/ Post \/ RestartTimer \/ GiveUp
    \/ WaitStopped \/ Take \/ Match \/ RequestTimesOut
    \/ Poll \/ ReadStart \/ ReadCount \/ ReadRequested
    \/ WindowRequested \/ WindowSettled \/ ReadSaved \/ SavedDone \/ CopyChunk
    \/ RescueSector \/ PassDone \/ ClearUnread \/ Answer \/ Show
    \/ Leave \/ Die \/ StopDriver \/ StartDriver \/ Reconnect

Spec == Init /\ [][Next]_vars

\* Only the module's own steps are fair: the program may stop at any point.
FairSpec == Spec /\ WF_vars(Transferring)

---------------------------------------------------------------------------
(* Properties *)

\* The words, the buffer and both sides' registers keep their types; no window
\* the program settles on is longer than the source.
TypeOK ==
    /\ mode \in Modes
    /\ ctrl \in [DATA_VALID : BOOLEAN, KSECTOR_START : Sectors,
                  KSECTOR_COUNT : 0 .. Size, KSECTORS_REQUESTED : 0 .. Size,
                  DATA_READY : BOOLEAN, DATA_REQUEST : BOOLEAN,
                  RESET_READ_TIMER : BOOLEAN, RETURN_NO_DATA_FAST : BOOLEAN]
    /\ buffer \in [Slots -> Sectors \cup {Blank}]
    /\ errors \in [Slots -> BOOLEAN]
    /\ {stop, active, lockup, abandoned, fresh} \subseteq BOOLEAN
    /\ kpc \in DOMAIN After \cup {"idle", "wait", "taken", "match"}
    /\ req \in Requests
    /\ ask \in [start : Sectors, small : 0 .. 2 * Size, big : 0 .. 2 * Size,
                 end : 0 .. 2 * Size, at : 0 .. Size]
    /\ map \in [Sectors -> Statuses]

\* What is reported as read is the data of the very sectors asked for: the
\* module checks "if chunk matches what we are looking for" before it copies.
DataIsOfTheSector ==
    reply.result = "read" => \A s \in DOMAIN reply.got : reply.got[s] = s

\* It is, until for the first time a request is given up before its answer (by
\* a timeout of the module or a stop). From then on the program may still be at
\* work on the old request when the module posts the next one over it. Nothing
\* is said of reads served from a buffer filled for another source, or declared
\* valid unfilled by mode 5, before something is asked for anew.
RightUntilAbandoned == ~abandoned /\ fresh => DataIsOfTheSector

\* Until then, and while the program lives, a transfer of an active drive fails
\* only if one of its sectors could not be read: the handshake itself never
\* costs the caller a sector.
ErrorIsReal ==
    ~abandoned /\ fresh /\ upc # "gone" /\ reply.result = "error" =>
        \E s \in DOMAIN reply.got : map[s] # "finished"

\* A posted request is never lost, not even after a timeout: while the module
\* waits, the request stands, its answer stands, or the program, having taken
\* the request back, is about to raise the answer.
NoRequestLost ==
    kpc = "wait" /\ ~stop =>
        \/ ctrl.DATA_REQUEST \/ ctrl.DATA_READY
        \/ upc \in {"valid", "ready"}
        \/ upc = "gone"

\* No caller of the drive hangs: every transfer ends, whatever the program does
\* or fails to do, be it stopped or killed in the middle of a request.
TransferEnds == kpc # "idle" ~> kpc = "idle"

===========================================================================
