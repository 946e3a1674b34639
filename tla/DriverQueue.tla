---------------------------- MODULE DriverQueue ----------------------------
(***************************************************************************)
(* The request queue of the kernel module: the tickets that let one        *)
(* request at a time use the transfer buffer of the virtual drive          *)
(* (wait_for_queue and next_queue in driver/hddsuperclone_driver.c).       *)
(*                                                                         *)
(* A caller is the block layer (main_data_request) or a process that sends *)
(* SCSI commands (the SG_IO ioctl). The three counters are plain globals   *)
(* that no lock guards, so an increment is a read and a write that other   *)
(* callers may come between. What a caller does in its turn is VirtualDrive. *)
(***************************************************************************)
EXTENDS Integers, FiniteSets

CONSTANTS
    Blocks,      \* callers of the block layer: one per tag of the queue
    Processes,   \* processes with an SG_IO ioctl
    Limit,       \* queue_limit: callers that may wait or work
    MaxTicket    \* 65535: the counters wrap to 0 above it

Callers == Blocks \cup Processes

ASSUME DriverQueueAssumption ==
    /\ Blocks \cap Processes = {} /\ IsFiniteSet(Callers)
    /\ Limit \in Nat \ {0}
    /\ MaxTicket \in Nat /\ MaxTicket + 1 >= Cardinality(Callers)

VARIABLES
    working_queue,   \* the ticket whose turn it is
    request_queue,   \* the ticket the next caller gets
    queue_count,     \* callers counted in and not yet out
    pc,              \* where each caller is
    ticket,          \* current_queue: the ticket of each caller
    reg,             \* the counter each caller has read and not yet written
    displaced,       \* history: a caller passed on a turn that was not its own
    muddled          \* history: two updates of a counter met, or a restart and a call

counters == <<working_queue, request_queue, queue_count>>
vars == <<counters, pc, ticket, reg, displaced, muddled>>

InFlight == {c \in Callers : pc[c] # "idle"}
AtWork == {c \in Callers : pc[c] = "work"}

\* A fault: the counter does not wrap.
UpForever(n) == n + 1

\* A counter goes up by one and wraps.
Up(n) == IF n + 1 > MaxTicket THEN 0 ELSE n + 1

---------------------------------------------------------------------------
(* The steps of a caller. One that writes a counter reads the next one in the *)
(* same step; between the read and the write of a counter anyone may come.   *)

\* The counter that has been read is written: a change that another caller made
\* in the meantime is undone.
Write(c, counter) ==
    /\ muddled' = (muddled \/ counter # reg[c])
    /\ displaced' = (displaced \/ muddled')

Move(c, from, to, read) ==
    /\ pc[c] = from
    /\ pc' = [pc EXCEPT ![c] = to]
    /\ reg' = [reg EXCEPT ![c] = read]

\* wait_for_queue(request_queue): the ticket is an argument, passed by value,
\* and request_queue++ starts from the same read. (A bound of the model: once
\* callers got in each other's way those in flight finish and nobody calls
\* until the drive is started anew.)
Call(c) ==
    /\ ~muddled
    /\ Move(c, "idle", "issue", request_queue)
    /\ ticket' = [ticket EXCEPT ![c] = request_queue]
    /\ UNCHANGED <<counters, displaced, muddled>>

\* The new value of request_queue is written.
IssueTicket(c) ==
    /\ Move(c, "issue", "joined", queue_count)
    /\ request_queue' = Up(reg[c])
    /\ Write(c, request_queue)
    /\ UNCHANGED <<working_queue, queue_count, ticket>>

\* queue_count++, and the test of the limit on the value just written.
CountIn(c) ==
    /\ reg[c] + 1 <= Limit
    /\ Move(c, "joined", "wait", 0)
    /\ queue_count' = reg[c] + 1
    /\ Write(c, queue_count)
    /\ UNCHANGED <<working_queue, request_queue, ticket>>

\* A fault: a refused caller returns without next_queue.
RefuseAndReturn(c) ==
    /\ reg[c] + 1 > Limit
    /\ Move(c, "joined", "idle", 0)
    /\ queue_count' = reg[c]
    /\ muddled' = (muddled \/ queue_count # reg[c]) /\ displaced' = TRUE
    /\ ticket' = [ticket EXCEPT ![c] = 0]
    /\ UNCHANGED <<working_queue, request_queue>>

\* A caller beyond the limit gets -EBUSY.
Refuse(c) ==
    /\ reg[c] + 1 > Limit
    /\ Move(c, "joined", "turn", 0)
    /\ queue_count' = reg[c] + 1
    /\ muddled' = (muddled \/ queue_count # reg[c]) /\ displaced' = TRUE
    /\ ticket' = [ticket EXCEPT ![c] = 0]
    /\ UNCHANGED <<working_queue, request_queue>>

\* A fault: a caller within the limit does not wait.
TakeAnyTurn(c) ==
    /\ Move(c, "wait", "work", 0)
    /\ ticket' = [ticket EXCEPT ![c] = 0]
    /\ UNCHANGED <<counters, displaced, muddled>>

\* The wait ends when the ticket's turn comes.
TakeTurn(c) ==
    /\ ticket[c] = working_queue
    /\ Move(c, "wait", "work", 0)
    /\ ticket' = [ticket EXCEPT ![c] = 0]
    /\ UNCHANGED <<counters, displaced, muddled>>

\* A fault: only a caller whose turn is still to come gives up.
WaitOn(c) ==
    /\ ticket[c] > working_queue
    /\ Move(c, "wait", "turn", 0)
    /\ displaced' = TRUE
    /\ ticket' = [ticket EXCEPT ![c] = 0]
    /\ UNCHANGED <<counters, muddled>>

\* It ends, too, after CTRL_REQUEST_TIMEOUT, with -ETIME.
TimeOut(c) ==
    /\ ticket[c] # working_queue
    /\ Move(c, "wait", "turn", 0)
    /\ displaced' = TRUE
    /\ ticket' = [ticket EXCEPT ![c] = 0]
    /\ UNCHANGED <<counters, muddled>>

\* next_queue: working_queue++ is begun by a caller whose transfers have ended
\* (VirtualDrive: they do), and by one that was refused or timed out as well ...
BeginNext(c) ==
    /\ \E from \in {"work", "turn"} : Move(c, from, "turned", working_queue)
    /\ UNCHANGED <<counters, ticket, displaced, muddled>>

PassTurn(c) ==
    /\ Move(c, "turned", "left", queue_count)
    /\ working_queue' = Up(reg[c])
    /\ Write(c, working_queue)
    /\ UNCHANGED <<request_queue, queue_count, ticket>>

\* ... and queue_count--, which stays at 0 with a message.
CountOut(c) ==
    /\ Move(c, "left", "idle", 0)
    /\ queue_count' = IF reg[c] > 0 THEN reg[c] - 1 ELSE 0
    /\ Write(c, queue_count)
    /\ UNCHANGED <<working_queue, request_queue, ticket>>

\* START_DRIVE_COMMAND: the disk is removed, which waits for the requests of
\* the block layer but not for an ioctl in progress, and the counters restart.
\* With nobody in the module that is a new beginning.
StartDrive ==
    /\ \A b \in Blocks : pc[b] = "idle"
    /\ working_queue' = 0 /\ request_queue' = 0 /\ queue_count' = 0
    /\ InFlight # {} => ~muddled
    /\ muddled' = (InFlight # {}) /\ displaced' = muddled'
    /\ UNCHANGED <<pc, ticket, reg>>

\* What a caller does once it has begun.
Proceed(c) ==
    \/ IssueTicket(c) \/ CountIn(c) \/ Refuse(c) \/ TakeTurn(c) \/ TimeOut(c)
    \/ BeginNext(c) \/ PassTurn(c) \/ CountOut(c)

---------------------------------------------------------------------------
Init ==
    /\ working_queue = 0 /\ request_queue = 0 /\ queue_count = 0
    /\ pc = [c \in Callers |-> "idle"]
    /\ ticket = [c \in Callers |-> 0]
    /\ reg = [c \in Callers |-> 0]
    /\ displaced = FALSE /\ muddled = FALSE

Next == StartDrive \/ \E c \in Callers : Call(c) \/ Proceed(c)

Spec == Init /\ [][Next]_vars

\* A caller in the module runs on; nobody has to call.
FairSpec == Spec /\ \A c \in Callers : WF_vars(Proceed(c))

---------------------------------------------------------------------------
(* Properties *)

\* The counters stay within their range: tickets wrap where they should.
TypeOK ==
    /\ {working_queue, request_queue} \subseteq 0 .. MaxTicket
    /\ queue_count \in Nat
    /\ pc \in [Callers -> {"idle", "issue", "joined", "wait", "work",
                           "turn", "turned", "left"}]
    /\ ticket \in [Callers -> 0 .. MaxTicket]
    /\ {displaced, muddled} \subseteq BOOLEAN

\* What the tickets are for: one request at a time uses the transfer buffer and
\* the control words. They achieve it as long as no caller is turned away, gives
\* up waiting, races with another or lives through a restart of the drive.
OneAtATime == ~displaced => Cardinality(AtWork) <= 1

\* Callers turned away or timed out upset the order but not for good: whenever
\* nobody is in the module, the next caller's turn is the current one and the
\* count is zero, unless two updates of a counter met or a restart came between.
IdleIsAligned ==
    ~muddled /\ InFlight = {} =>
        request_queue = working_queue /\ queue_count = 0

\* Nobody stays in the module for ever, not even a caller whose ticket has been
\* skipped by one that was turned away.
CallsReturn == \A c \in Callers : pc[c] # "idle" ~> pc[c] = "idle"

===========================================================================
