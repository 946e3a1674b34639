------------------------------ MODULE DirectIO ------------------------------
(***************************************************************************)
(* Commands to a drive in direct mode (io.c): a command waits for the      *)
(* drive, and when it waits in vain it resets it. A soft reset falls back  *)
(* on a hard one and that on a power cycle, each identifies the drive with *)
(* a command of its own, and a power cycle ends with another. So the       *)
(* functions call each other in a circle, and what they share are globals: *)
(* the registers of the next command, the transfer buffer and its size,    *)
(* the timers and the flags of the reset.                                  *)
(*                                                                         *)
(* A step of the model goes from one wait or call to the next. "stack"     *)
(* holds the calls in progress. The drive is hung or it is not; what the   *)
(* hardware does wrong is counted in "faults".                             *)
(***************************************************************************)
EXTENDS Integers, SequencesExt

CONSTANTS
    Ahci,        \* the settings a run may have, each a set of Booleans: AHCI or IDE,
    Wide,        \* 48-bit commands (extended_support),
    Power,       \* a command or a relay that cycles the power,
    Twice,       \* read twice on timeout,
    Forced,      \* reset_wait_time = 0: no hard reset, power cycle at once
    MaxFaults    \* a bound of the model: what may go wrong with the hardware

ASSUME DirectIOAssumption ==
    /\ Ahci \cup Wide \cup Power \cup Twice \cup Forced \subseteq BOOLEAN
    /\ MaxFaults \in Nat

VARIABLES
    conf,      \* the settings of this run
    stack,     \* the calls in progress, the innermost last
    result,    \* what the last call returned
    doing,     \* what the program asked for last
    io,        \* registers of the next command, the buffer and its size, the status
    flag,      \* performing_reset, did_reset, did_hard_reset, did_power_cycle
    timer,     \* initial_busy_wait_time, soft_reset_time, hard_reset_time
    mapped,    \* memory_mapped / io_permissions: the registers can be accessed
    stop,      \* stop_signal
    source,    \* source_chosen, connected: "none", "chosen" or "connected"
    drive,     \* "ready" or "hung"
    faults,
    crashed,   \* the program accessed registers that are not mapped
    past       \* history of the request in progress (see Begin)

hardware == <<mapped, source, drive, faults>>
vars == <<conf, stack, result, doing, io, flag, timer, hardware, stop, crashed, past>>

Commands == {"read", "identify", "mode"}
SizeOf == [read |-> "data", identify |-> "identify", mode |-> "none"]

\* What a program that has just started has in them.
NoRegisters == [low |-> "none", high |-> "none", size |-> "none", buffer |-> "zero",
                error |-> FALSE, known |-> FALSE, saved |-> FALSE]
NoFlags == [performing |-> FALSE, reset |-> FALSE, hard |-> FALSE, power |-> FALSE]
Timers == [busy |-> "initial_busy_wait_time", soft |-> "soft_reset_time", hard |-> 1]
NoPast == [first |-> FALSE, cycled |-> FALSE, answered |-> FALSE, lost |-> FALSE,
           wrote |-> "none"]

\* A call: what it is, where it is, the command it is to send and what it has
\* saved to put back.
Frame(p, asked) ==
    [p |-> p, at |-> "start", asked |-> asked,
     size |-> "none", kept |-> "none", busy |-> "none", code |-> "ok"]

top == Last(stack)
Below == Front(stack)

\* The next step of the call in progress accesses the registers.
Accessing ==
    \/ top.p = "rw"
    \/ top.p = "soft" /\ top.at = "start" /\ ~flag.performing
    \/ top.p = "soft" /\ top.at = "after"
    \/ top.p = "hard" /\ top.at = "start" /\ ~conf.forced
    \/ top.p = "hard" /\ top.at = "after"

At(p, at) ==
    /\ stack # <<>> /\ top.p = p /\ top.at = at
    /\ Accessing => mapped

\* Where the call in progress goes on: as it is, with the status it will return,
\* with the buffer's size put aside.
Onward(at) == [top EXCEPT !.at = at]
Decided(at, code) == [top EXCEPT !.at = at, !.code = code]
Saving(at) == [top EXCEPT !.at = at, !.size = io.size]

Now(f) == stack' = Below \o <<f>>
Enter(f, callee) == stack' = Below \o <<f, callee>>
Goto(at) == Now(Onward(at))
Call(at, callee) == Enter(Onward(at), callee)
Return(r) == stack' = Below /\ result' = r

\* The hardware does something wrong.
Fault == faults < MaxFaults /\ faults' = faults + 1

\* A reset or a power cycle may leave the drive hung.
Treat ==
    \/ drive' = "ready" /\ UNCHANGED faults
    \/ drive' = "hung" /\ drive = "hung" /\ Fault

\* wait_not_busy_or_drq: 0 when the drive is or gets ready, 1 or 2 at the end
\* of the time given or of the general timeout.
Wait(r) ==
    \/ r = "ok" /\ drive' = "ready" /\ UNCHANGED faults
    \/ r \in {"time", "general"} /\ drive = "hung" /\ UNCHANGED <<drive, faults>>

---------------------------------------------------------------------------
(* A command *)

\* The registers a command of 48 bits sends are all of them, one of 28 bits
\* sends the first seven. They are globals, filled by whoever asked last.
Load(asked) ==
    [io EXCEPT !.low = asked, !.high = IF asked = "read" /\ conf.wide THEN asked ELSE @]

Sent(asked) ==
    IF asked = "read" /\ conf.wide /\ io.low # io.high THEN "mixed" ELSE io.low

\* What is in the buffer after a command: none transfers nothing, whatever the size.
Transferred(size) == IF "none" \in {io.size, size} THEN io.buffer ELSE size

\* ahci_rw, do_ata_pio_read: the drive must be ready before a command is sent.
CommandWait ==
    /\ At("rw", "start")
    /\ IF stop THEN Return("stop") /\ UNCHANGED <<drive, faults, past>>
       ELSE \E r \in {"ok", "time", "general"} :
              /\ Wait(r)
              /\ IF r = "ok" THEN Goto("send") /\ UNCHANGED past
                 ELSE /\ Call("reset_first", Frame("soft", "none"))
                      /\ past' = [past EXCEPT !.first = @ \/ top.asked = "read"]
              /\ UNCHANGED result
    /\ UNCHANGED <<conf, doing, io, flag, timer, mapped, source, stop, crashed>>

\* After a reset that failed nothing is sent.
CommandResetFirst ==
    /\ At("rw", "reset_first")
    /\ IF result = "ok" THEN Now(Decided("send", "ok")) ELSE Now(Decided("finish", "fail"))
    /\ UNCHANGED <<conf, result, doing, io, flag, timer, hardware, stop, crashed, past>>

\* The drive carries the command out. Past its end it can only fail.
CommandDone ==
    /\ At("rw", "send") /\ drive = "ready" /\ ~stop
    /\ \/ /\ Sent(top.asked) # "mixed"
          /\ io' = [io EXCEPT !.error = FALSE, !.buffer = Transferred(SizeOf[Sent(top.asked)])]
       \/ io' = [io EXCEPT !.error = TRUE]
    /\ Goto("finish")
    /\ UNCHANGED <<conf, result, doing, flag, timer, hardware, stop, crashed, past>>

\* It hangs: after soft_reset_time it is reset, after the general timeout it is not.
CommandHangs ==
    /\ At("rw", "send") /\ ~stop
    /\ IF drive = "ready" THEN Fault ELSE UNCHANGED faults
    /\ drive' = "hung"
    /\ io' = [io EXCEPT !.error = FALSE]
    /\ \/ Enter(Decided("reset_after", "time"), Frame("soft", "none"))
       \/ Now(Decided("finish", "fail"))
    /\ UNCHANGED <<conf, result, doing, flag, timer, mapped, source, stop, crashed, past>>

\* It is disturbed: something changed the port's settings (AHCI), or the drive
\* hangs in the middle of the data (IDE). It is reset if it is hung.
CommandDisturbed ==
    /\ At("rw", "send") /\ drive = "ready" /\ ~stop
    /\ conf.ahci \/ io.size # "none"
    /\ Fault
    /\ \/ /\ drive' = "hung"
          /\ Enter(Decided("reset_after", "fail"), Frame("soft", "none"))
       \/ /\ drive' = "ready"
          /\ Now(Decided("finish", "fail"))
    /\ io' = [io EXCEPT !.buffer = "other"]
    /\ UNCHANGED <<conf, result, doing, flag, timer, mapped, source, stop, crashed, past>>

\* A stop ends the wait for the command and leaves it to the drive.
CommandStopped ==
    /\ At("rw", "send") /\ stop
    /\ Return("stop")
    /\ UNCHANGED <<drive, faults>> \/ (drive' = "hung" /\ Fault)
    /\ UNCHANGED <<conf, doing, io, flag, timer, mapped, source, stop, crashed, past>>

CommandResetAfter ==
    /\ At("rw", "reset_after")
    /\ Now(Decided("finish", IF result = "ok" THEN top.code ELSE "fail"))
    /\ UNCHANGED <<conf, result, doing, io, flag, timer, hardware, stop, crashed, past>>

CommandFinish ==
    /\ At("rw", "finish")
    /\ Return(top.code)
    /\ UNCHANGED <<conf, doing, io, flag, timer, hardware, stop, crashed, past>>

Command ==
    \/ CommandWait \/ CommandResetFirst \/ CommandDone \/ CommandHangs \/ CommandDisturbed
    \/ CommandStopped \/ CommandResetAfter \/ CommandFinish

---------------------------------------------------------------------------
(* Resets *)

\* soft_reset refuses to work within a reset.
SoftRefused ==
    /\ At("soft", "start") /\ flag.performing
    /\ Return("fail")
    /\ UNCHANGED <<conf, doing, io, flag, timer, hardware, stop, crashed, past>>

\* No data is to be transferred: the size of the buffer is put aside. With
\* hard_reset_time = 0 it is a hard reset at once.
SoftStart ==
    /\ At("soft", "start") /\ ~flag.performing
    /\ flag' = [flag EXCEPT !.hard = FALSE, !.reset = TRUE]
    /\ IF ~conf.ahci THEN Goto("ide_wait") /\ Treat /\ UNCHANGED io
       ELSE /\ io' = [io EXCEPT !.size = "none"]
            /\ IF timer.hard = 0
               THEN Enter(Saving("forced"), Frame("hard", "none")) /\ UNCHANGED <<drive, faults>>
               ELSE Now(Saving("wait")) /\ Treat
    /\ UNCHANGED <<conf, result, doing, timer, mapped, source, stop, crashed, past>>

\* A drive that is not ready after the reset gets a hard one; stopped here, the
\* buffer does not get its size back.
SoftWait ==
    /\ At("soft", "wait")
    /\ IF stop THEN Return("stop") /\ UNCHANGED <<drive, faults, flag>>
       ELSE \E r \in {"ok", "time", "general"} :
              /\ Wait(r)
              /\ UNCHANGED result
              /\ IF r = "time"
                 THEN /\ flag' = [flag EXCEPT !.performing = TRUE]
                      /\ Call("escalated", Frame("hard", "none"))
                 ELSE /\ Now(Decided("after", IF r = "ok" THEN "ok" ELSE "fail"))
                      /\ UNCHANGED flag
    /\ UNCHANGED <<conf, doing, io, timer, mapped, source, stop, crashed, past>>

SoftHardDone ==
    /\ At("soft", "forced") \/ At("soft", "escalated")
    /\ flag' = [flag EXCEPT !.hard = TRUE,
                            !.performing = @ /\ top.at # "escalated"]
    /\ Now(Decided("after", result))
    /\ UNCHANGED <<conf, result, doing, io, timer, hardware, stop, crashed, past>>

\* A fault: the buffer does not get its size back.
SoftAfterWithoutSize ==
    /\ At("soft", "after")
    /\ IF flag.hard THEN Return(top.code) /\ flag' = [flag EXCEPT !.performing = FALSE]
       ELSE /\ Call("identified", Frame("identify", "none"))
            /\ flag' = [flag EXCEPT !.performing = TRUE] /\ UNCHANGED result
    /\ UNCHANGED <<conf, doing, io, timer, hardware, stop, crashed, past>>

\* The buffer gets its size back. Unless there was a hard reset, which did so
\* itself, the drive must identify.
SoftAfter ==
    /\ At("soft", "after")
    /\ io' = [io EXCEPT !.size = top.size]
    /\ IF flag.hard THEN Return(top.code) /\ flag' = [flag EXCEPT !.performing = FALSE]
       ELSE /\ Call("identified", Frame("identify", "none"))
            /\ flag' = [flag EXCEPT !.performing = TRUE] /\ UNCHANGED result
    /\ UNCHANGED <<conf, doing, timer, hardware, stop, crashed, past>>

\* A fault: a failed identify does not matter.
SoftIdentifiedOrNot ==
    /\ At("soft", "identified")
    /\ Return(top.code)
    /\ flag' = [flag EXCEPT !.performing = FALSE]
    /\ UNCHANGED <<conf, doing, io, timer, hardware, stop, crashed, past>>

SoftIdentified ==
    /\ At("soft", "identified")
    /\ IF result = "ok" THEN Return(top.code) /\ flag' = [flag EXCEPT !.performing = FALSE]
       ELSE IF flag.hard THEN Return("fail") /\ flag' = [flag EXCEPT !.performing = FALSE]
       ELSE Call("last", Frame("hard", "none")) /\ UNCHANGED <<flag, result>>
    /\ UNCHANGED <<conf, doing, io, timer, hardware, stop, crashed, past>>

SoftLast ==
    /\ At("soft", "last")
    /\ flag' = [flag EXCEPT !.performing = FALSE]
    /\ Return(result)
    /\ UNCHANGED <<conf, doing, io, timer, hardware, stop, crashed, past>>

\* IDE has no hard reset: a drive that stays busy has its power cycled.
SoftIde ==
    /\ \/ /\ At("soft", "ide_wait")
          /\ IF stop THEN Return("stop") /\ UNCHANGED <<drive, faults, flag>>
             ELSE \E r \in {"ok", "time", "general"} :
                    /\ Wait(r) /\ UNCHANGED result
                    /\ IF r = "ok" THEN /\ Call("ide_identified", Frame("identify", "none"))
                                        /\ flag' = [flag EXCEPT !.performing = TRUE]
                       ELSE Call("ide_cycled", Frame("power", "none")) /\ UNCHANGED flag
       \/ /\ At("soft", "ide_cycled")
          /\ IF result # "ok" THEN Return(result) /\ UNCHANGED flag
             ELSE /\ Call("ide_identified", Frame("identify", "none"))
                  /\ flag' = [flag EXCEPT !.performing = TRUE] /\ UNCHANGED result
          /\ UNCHANGED <<drive, faults>>
       \/ /\ At("soft", "ide_identified")
          /\ flag' = [flag EXCEPT !.performing = FALSE]
          /\ Return(IF result = "ok" THEN "ok" ELSE "fail")
          /\ UNCHANGED <<drive, faults>>
    /\ UNCHANGED <<conf, doing, io, timer, mapped, source, stop, crashed, past>>

\* hard_reset, of AHCI.
HardStart ==
    /\ At("hard", "start")
    /\ flag' = [flag EXCEPT !.power = FALSE]
    /\ IF conf.forced
       THEN Call("forced", Frame("power", "none")) /\ UNCHANGED <<io, drive, faults>>
       ELSE /\ io' = [io EXCEPT !.size = "none"]
            /\ Now(Saving("wait"))
            /\ Treat
    /\ UNCHANGED <<conf, result, doing, timer, mapped, source, stop, crashed, past>>

HardWait ==
    /\ At("hard", "wait")
    /\ IF stop THEN Return("stop") /\ UNCHANGED <<drive, faults>>
       ELSE \E r \in {"ok", "time", "general"} :
              /\ Wait(r) /\ UNCHANGED result
              /\ IF r = "ok" THEN Goto("after") ELSE Call("cycled", Frame("power", "none"))
    /\ UNCHANGED <<conf, doing, io, flag, timer, mapped, source, stop, crashed, past>>

\* When the power could not be cycled the buffer does not get its size back.
HardCycled ==
    /\ At("hard", "cycled")
    /\ flag' = [flag EXCEPT !.power = TRUE]
    /\ IF result # "ok" THEN Return(result) ELSE Goto("after") /\ UNCHANGED result
    /\ UNCHANGED <<conf, doing, io, timer, hardware, stop, crashed, past>>

\* A fault: the identify may reset the drive.
HardAfterAllowsReset ==
    /\ At("hard", "after")
    /\ io' = [io EXCEPT !.size = top.size]
    /\ flag' = [flag EXCEPT !.performing = FALSE]
    /\ Call("identified", Frame("identify", "none"))
    /\ UNCHANGED <<conf, result, doing, timer, hardware, stop, crashed, past>>

HardAfter ==
    /\ At("hard", "after")
    /\ io' = [io EXCEPT !.size = top.size]
    /\ flag' = [flag EXCEPT !.performing = TRUE]
    /\ Call("identified", Frame("identify", "none"))
    /\ UNCHANGED <<conf, result, doing, timer, hardware, stop, crashed, past>>

\* A drive that does not identify has its power cycled, and that is that.
HardIdentified ==
    /\ At("hard", "identified")
    /\ flag' = [flag EXCEPT !.performing = FALSE]
    /\ IF result = "ok" THEN Return("ok")
       ELSE IF flag.power THEN Return("fail")
       ELSE Call("last", Frame("power", "none")) /\ UNCHANGED result
    /\ UNCHANGED <<conf, doing, io, timer, hardware, stop, crashed, past>>

HardLast ==
    /\ At("hard", "last")
    /\ flag' = [flag EXCEPT !.power = TRUE,
                            !.performing = @ /\ result # "ok"]
    /\ Return(result)
    /\ UNCHANGED <<conf, doing, io, timer, hardware, stop, crashed, past>>

\* reset_wait_time = 0: after the power cycle the drive must identify.
HardForced ==
    /\ \/ /\ At("hard", "forced")
          /\ IF result # "ok" THEN Return(result) /\ UNCHANGED flag
             ELSE /\ Call("forced_identified", Frame("identify", "none"))
                  /\ flag' = [flag EXCEPT !.performing = TRUE] /\ UNCHANGED result
       \/ /\ At("hard", "forced_identified")
          /\ flag' = [flag EXCEPT !.performing = FALSE]
          /\ Return(IF result = "ok" THEN "ok" ELSE "fail")
    /\ UNCHANGED <<conf, doing, io, timer, hardware, stop, crashed, past>>

Reset ==
    \/ SoftRefused \/ SoftStart \/ SoftWait \/ SoftHardDone \/ SoftAfter \/ SoftIdentified
    \/ SoftLast \/ SoftIde \/ HardStart \/ HardWait \/ HardCycled \/ HardAfter
    \/ HardIdentified \/ HardLast \/ HardForced

---------------------------------------------------------------------------
(* What resets call: power cycle, identify, set the transfer mode *)

\* call_command_on_power_cycle: the devices are released before the power goes.
PowerStart ==
    /\ At("power", "start")
    /\ IF ~conf.power THEN Return("fail") /\ UNCHANGED mapped
       ELSE Goto("off") /\ mapped' = FALSE /\ UNCHANGED result
    /\ UNCHANGED <<conf, doing, io, flag, timer, source, drive, faults, stop, crashed, past>>

\* The command or the relay may fail, and so may the reconnection: then they
\* stay released. Otherwise the transfer mode is set (AHCI), if the source was
\* identified when it was chosen.
PowerCycle ==
    /\ At("power", "off")
    /\ \/ /\ Fault /\ Return("fail")
          /\ past' = [past EXCEPT !.lost = TRUE]
          /\ UNCHANGED <<mapped, drive>>
       \/ /\ Treat /\ mapped' = TRUE
          /\ past' = [past EXCEPT !.cycled = TRUE, !.lost = FALSE]
          /\ IF conf.ahci /\ io.saved
             THEN Call("mode", Frame("mode", "none")) /\ UNCHANGED result
             ELSE Return("ok")
    /\ UNCHANGED <<conf, doing, io, flag, timer, source, stop, crashed>>

PowerDone ==
    /\ At("power", "mode")
    /\ Return("ok")
    /\ UNCHANGED <<conf, doing, io, flag, timer, hardware, stop, crashed, past>>

\* set_dma_mode.
ModeStart ==
    /\ At("mode", "start")
    /\ io' = [Load("mode") EXCEPT !.size = "none"]
    /\ Enter(Saving("sent"), Frame("rw", "mode"))
    /\ UNCHANGED <<conf, result, doing, flag, timer, hardware, stop, crashed, past>>

ModeDone ==
    /\ At("mode", "sent")
    /\ io' = [io EXCEPT !.size = top.size]
    /\ Return(result)
    /\ UNCHANGED <<conf, doing, flag, timer, hardware, stop, crashed, past>>

\* identify_device: buffer, its size and the initial timer are put aside.
IdentifyStart ==
    /\ At("identify", "start")
    /\ io' = [Load("identify") EXCEPT !.size = "identify", !.buffer = "zero", !.known = FALSE]
    /\ timer' = [timer EXCEPT !.busy = "busy_wait_time"]
    /\ Enter([Saving("sent") EXCEPT !.kept = io.buffer, !.busy = timer.busy],
             Frame("rw", "identify"))
    /\ UNCHANGED <<conf, result, doing, flag, hardware, stop, crashed, past>>

IdentifyDone ==
    /\ At("identify", "sent")
    /\ io' = [io EXCEPT !.known = (io.buffer = "identify"), !.size = top.size, !.buffer = top.kept]
    /\ timer' = [timer EXCEPT !.busy = top.busy]
    /\ past' = [past EXCEPT !.answered = (result = "ok")]
    /\ Return(result)
    /\ UNCHANGED <<conf, doing, flag, hardware, stop, crashed>>

Helper ==
    \/ PowerStart \/ PowerCycle \/ PowerDone \/ ModeStart \/ ModeDone
    \/ IdentifyStart \/ IdentifyDone

---------------------------------------------------------------------------
(* What the program asks for *)

\* read_chunk: the buffer gets its size and is cleared, the registers are filled.
ReadStart ==
    /\ At("read", "start")
    /\ io' = [Load("read") EXCEPT !.size = "data", !.buffer = "zero"]
    /\ Call("read", Frame("rw", "read"))
    /\ UNCHANGED <<conf, result, doing, flag, timer, hardware, stop, crashed, past>>

\* A fault: the registers are not filled again.
ReadAgainUnfilled ==
    /\ At("read", "read") /\ ~stop /\ conf.twice /\ result = "time"
    /\ timer' = [timer EXCEPT !.soft = "rt_soft_reset_time"]
    /\ Call("again", Frame("rw", "read"))
    /\ past' = [past EXCEPT !.first = FALSE]
    /\ UNCHANGED <<conf, result, doing, io, flag, hardware, stop, crashed>>

\* After a timeout whose reset succeeded it may read again, with a timer of its
\* own; buffer and size are as the first read left them.
ReadAgain ==
    /\ At("read", "read") /\ ~stop /\ conf.twice /\ result = "time"
    /\ io' = Load("read")
    /\ timer' = [timer EXCEPT !.soft = "rt_soft_reset_time"]
    /\ Call("again", Frame("rw", "read"))
    /\ past' = [past EXCEPT !.first = FALSE]
    /\ UNCHANGED <<conf, result, doing, flag, hardware, stop, crashed>>

\* A read that ends with a device fault has the drive checked. The status is
\* that of the read again after a check that went well.
ReadDone ==
    /\ At("read", "read") \/ At("read", "again")
    /\ top.at = "read" /\ ~stop => ~(conf.twice /\ result = "time")
    /\ timer' = [timer EXCEPT !.soft = IF top.at = "again" THEN "soft_reset_time" ELSE @]
    /\ IF top.at = "read" /\ stop THEN Return("stop")
       ELSE \/ Return(result)
            \/ /\ io.error /\ UNCHANGED result
               /\ Enter(Decided("fault", result), Frame("check", "none"))
    /\ UNCHANGED <<conf, doing, io, flag, hardware, stop, crashed, past>>

ReadChecked ==
    /\ At("read", "fault")
    /\ Return(IF result = "ok" THEN top.code ELSE "fault")
    /\ UNCHANGED <<conf, doing, io, flag, timer, hardware, stop, crashed, past>>

\* check_device: the drive must identify, if need be after a reset, and have
\* the size it had.
CheckStart ==
    /\ At("check", "start")
    /\ flag' = [flag EXCEPT !.reset = FALSE]
    /\ Enter([Onward("identified") EXCEPT !.busy = io.error], Frame("identify", "none"))
    /\ UNCHANGED <<conf, result, doing, io, timer, hardware, stop, crashed, past>>

\* A fault: after the reset the check begins anew.
CheckUntilIdentified ==
    /\ At("check", "identified")
    /\ result # "ok" \/ io.error
    /\ ~flag.reset
    /\ Call("start", Frame("soft", "none"))
    /\ UNCHANGED <<conf, result, doing, io, flag, timer, hardware, stop, crashed, past>>

CheckReset ==
    /\ At("check", "identified")
    /\ result # "ok" \/ io.error
    /\ ~flag.reset
    /\ Call("reset", Frame("soft", "none"))
    /\ UNCHANGED <<conf, result, doing, io, flag, timer, hardware, stop, crashed, past>>

CheckDone ==
    /\ \/ At("check", "identified") /\ ((result = "ok" /\ ~io.error) \/ flag.reset)
       \/ At("check", "reset")
    /\ IF result = "ok" /\ ~io.error /\ io.known
       THEN Return("ok") /\ io' = [io EXCEPT !.error = top.busy]
       ELSE Return("fail") /\ UNCHANGED io
    /\ UNCHANGED <<conf, doing, flag, timer, hardware, stop, crashed, past>>

\* do_hard_reset: a soft reset told, on AHCI, to do without. On IDE the status
\* it returns is not the one it got, which is a variable of an inner block.
HardReset ==
    \/ /\ At("hard_reset", "start")
       /\ timer' = [timer EXCEPT !.hard = IF conf.ahci THEN 0 ELSE @]
       /\ Call("reset", Frame("soft", "none"))
       /\ UNCHANGED <<conf, result, doing, io, flag, hardware, stop, crashed, past>>
    \/ /\ At("hard_reset", "reset")
       /\ timer' = [timer EXCEPT !.hard = 1]
       /\ Return(IF conf.ahci THEN result ELSE "ok")
       /\ UNCHANGED <<conf, doing, io, flag, hardware, stop, crashed, past>>

\* choose_source, process_source: map the registers, reset in case it is locked
\* up, identify, once more after another reset, and release the drive again.
Chosen(ok) ==
    /\ Return(IF ok THEN "ok" ELSE "fail")
    /\ source' = IF ok THEN "chosen" ELSE "none"
    /\ mapped' = FALSE
    /\ io' = [io EXCEPT !.saved = ok /\ io.known]

Choose ==
    \/ /\ At("choose", "start")
       /\ \/ /\ Fault /\ Chosen(FALSE)
          \/ /\ mapped' = TRUE
             /\ io' = [io EXCEPT !.saved = FALSE]
             /\ Call("reset", Frame(IF conf.ahci THEN "hard_reset" ELSE "soft", "none"))
             /\ UNCHANGED <<result, source, faults>>
       /\ UNCHANGED <<conf, doing, flag, timer, drive, stop, crashed, past>>
    \/ /\ At("choose", "reset") \/ At("choose", "reset_again")
       /\ Call(IF top.at = "reset" THEN "identified" ELSE "last", Frame("identify", "none"))
       /\ UNCHANGED <<conf, result, doing, io, flag, timer, hardware, stop, crashed, past>>
    \/ /\ At("choose", "identified")
       /\ IF result # "ok" \/ io.error
          THEN Call("reset_again", Frame("soft", "none")) /\ UNCHANGED <<io, result, mapped, source>>
          ELSE Chosen(TRUE)
       /\ UNCHANGED <<conf, doing, flag, timer, drive, faults, stop, crashed, past>>
    \/ /\ At("choose", "last")
       /\ Chosen(result = "ok" /\ ~io.error)
       /\ UNCHANGED <<conf, doing, flag, timer, drive, faults, stop, crashed, past>>

\* connect_devices: map the registers, take back a stop, set the transfer mode.
Connect ==
    \/ /\ At("connect", "start")
       /\ \/ /\ Fault /\ Return("fail")
             /\ UNCHANGED <<mapped, source, stop>>
          \/ /\ mapped' = TRUE /\ source' = "connected" /\ stop' = FALSE
             /\ IF conf.ahci /\ io.saved
                THEN Call("mode", Frame("mode", "none")) /\ UNCHANGED result
                ELSE Return("ok")
             /\ UNCHANGED faults
       /\ UNCHANGED <<conf, doing, io, flag, timer, drive, crashed, past>>
    \/ /\ At("connect", "mode")
       /\ Return("ok")
       /\ UNCHANGED <<conf, doing, io, flag, timer, hardware, stop, crashed, past>>

\* call_command_on_error: release the devices, run the user's command or cycle
\* the relay, connect, check, once more after reconnecting if need be (with the
\* relay only if the user wants that), set the mode.
Recover ==
    \/ /\ At("recover", "start") /\ ~conf.power
       /\ Return("fail")
       /\ UNCHANGED <<conf, doing, io, flag, timer, hardware, stop, crashed, past>>
    \/ /\ (At("recover", "start") /\ conf.power) \/ (At("recover", "checked") /\ result # "ok")
       /\ Goto(IF top.at = "start" THEN "released" ELSE "released_again")
       /\ mapped' = FALSE
       /\ UNCHANGED <<conf, result, doing, io, flag, timer, source, drive, faults, stop, crashed, past>>
    \/ /\ At("recover", "released") \/ At("recover", "released_again")
       /\ \/ /\ Fault /\ Return("fail") /\ UNCHANGED <<mapped, drive, past>>
          \/ /\ past' = [past EXCEPT !.lost = FALSE]
             /\ IF top.at = "released" THEN Treat ELSE UNCHANGED <<drive, faults>>
             /\ mapped' = TRUE
             /\ Call(IF top.at = "released" THEN "checked" ELSE "checked_again",
                     Frame("check", "none"))
             /\ UNCHANGED result
       /\ UNCHANGED <<conf, doing, io, flag, timer, source, stop, crashed>>
    \/ /\ At("recover", "checked")
       /\ Call("checked_again", Frame("check", "none"))
       /\ UNCHANGED <<conf, result, doing, io, flag, timer, hardware, stop, crashed, past>>
    \/ /\ At("recover", "checked_again")
       /\ IF result = "ok" /\ conf.ahci /\ io.saved
          THEN Call("mode", Frame("mode", "none")) /\ UNCHANGED result
          ELSE Return(result)
       /\ UNCHANGED <<conf, doing, io, flag, timer, hardware, stop, crashed, past>>
    \/ /\ At("recover", "mode")
       /\ Return("ok")
       /\ UNCHANGED <<conf, doing, io, flag, timer, hardware, stop, crashed, past>>

\* A turn of the loop of a pass: read, write what was read without error;
\* otherwise check the drive and recover it, or recover it at once. (Which of
\* them depends on the number a read returned. A fault always recovers.)
TurnStart ==
    /\ At("turn", "start")
    /\ Call("read", Frame("read", "none")) \/ Call("slow", Frame("recover", "none"))
    /\ UNCHANGED <<conf, result, doing, io, flag, timer, hardware, stop, crashed, past>>

TurnRead ==
    /\ At("turn", "read")
    /\ IF stop THEN Return("stop") /\ UNCHANGED past
       ELSE IF result = "ok" /\ ~io.error
       THEN /\ past' = [past EXCEPT !.wrote = io.buffer]
            /\ Return("ok")
       ELSE /\ \/ result # "fault" /\ Call("checked", Frame("check", "none"))
               \/ Call("recovered", Frame("recover", "none"))
            /\ UNCHANGED <<result, past>>
    /\ UNCHANGED <<conf, doing, io, flag, timer, hardware, stop, crashed>>

TurnChecked ==
    /\ At("turn", "checked")
    /\ IF result = "ok" THEN Return("ok")
       ELSE Call("recovered", Frame("recover", "none")) /\ UNCHANGED result
    /\ UNCHANGED <<conf, doing, io, flag, timer, hardware, stop, crashed, past>>

\* A fault: it stays connected.
TurnGivenUp ==
    /\ At("turn", "recovered") \/ At("turn", "slow")
    /\ IF top.at = "slow" /\ result = "ok"
       THEN Call("read", Frame("read", "none")) /\ UNCHANGED result
       ELSE Return(result)
    /\ UNCHANGED <<conf, doing, io, flag, timer, hardware, stop, crashed, past>>

\* A drive that could not be recovered is disconnected (start_cloning).
TurnRecovered ==
    /\ At("turn", "recovered") \/ At("turn", "slow")
    /\ IF result # "ok"
       THEN /\ Return("fail")
            /\ mapped' = FALSE /\ source' = "chosen"
            /\ io' = [io EXCEPT !.error = FALSE]
       ELSE /\ IF top.at = "slow" THEN Call("read", Frame("read", "none")) /\ UNCHANGED result
               ELSE Return("ok")
            /\ UNCHANGED <<mapped, source, io>>
    /\ UNCHANGED <<conf, doing, flag, timer, drive, faults, stop, crashed, past>>

Turn == TurnStart \/ TurnRead \/ TurnChecked \/ TurnRecovered

\* What the user may ask for depends on what the buttons allow. A run takes back
\* an earlier stop, a reset does not.
Requests ==
    CASE source = "none" -> {"choose"}
      [] source = "chosen" -> {"choose", "connect"}
      [] source = "connected" -> {"turn", "soft", "hard_reset"}

Begin(what) ==
    /\ stack = <<>> /\ ~crashed
    /\ stack' = << Frame(what, "none") >>
    /\ doing' = what
    /\ result' = "none"
    /\ stop' = (stop /\ what # "turn")
    /\ past' = [NoPast EXCEPT !.lost = past.lost /\ source = "connected"]
    /\ UNCHANGED <<conf, io, flag, timer, hardware, crashed>>

\* disconnect_devices.
Disconnect ==
    /\ stack = <<>> /\ ~crashed /\ source = "connected"
    /\ source' = "chosen" /\ mapped' = FALSE
    /\ io' = [io EXCEPT !.error = FALSE]
    /\ UNCHANGED <<conf, stack, result, doing, flag, timer, drive, faults, stop, crashed, past>>

\* The user presses stop, which only a run lets him.
Stop ==
    /\ stack # <<>> /\ stack[1].p = "turn" /\ ~stop
    /\ stop' = TRUE
    /\ UNCHANGED <<conf, stack, result, doing, io, flag, timer, hardware, crashed, past>>

\* Registers that are not mapped any more: the program dies of the access.
Crash ==
    /\ stack # <<>> /\ Accessing /\ ~mapped
    /\ crashed' = TRUE
    /\ stack' = <<>>
    /\ UNCHANGED <<conf, result, doing, io, flag, timer, hardware, stop, past>>

---------------------------------------------------------------------------
Init ==
    /\ conf \in [ahci : Ahci, wide : Wide, power : Power, twice : Twice, forced : Forced]
    /\ conf.forced => conf.ahci    \* only AHCI has the hard reset it does without
    /\ stack = <<>> /\ result = "none" /\ doing = "none"
    /\ io = NoRegisters /\ flag = NoFlags /\ timer = Timers /\ past = NoPast
    /\ mapped = FALSE /\ source = "none" /\ stop = FALSE /\ crashed = FALSE
    /\ drive \in {"ready", "hung"} /\ faults = 0

\* The program starts again after it died.
Restart ==
    /\ crashed
    /\ stack' = <<>> /\ result' = "none" /\ doing' = "none"
    /\ io' = NoRegisters /\ flag' = NoFlags /\ timer' = Timers /\ past' = NoPast
    /\ mapped' = FALSE /\ source' = "none" /\ stop' = FALSE /\ crashed' = FALSE
    /\ UNCHANGED <<conf, drive, faults>>

Proceed ==
    \/ Command \/ Reset \/ Helper
    \/ ReadStart \/ ReadAgain \/ ReadDone \/ ReadChecked
    \/ CheckStart \/ CheckReset \/ CheckDone
    \/ HardReset \/ Choose \/ Connect \/ Recover \/ Turn \/ Crash

Next == Proceed \/ Stop \/ Disconnect \/ Restart \/ \E what \in Requests : Begin(what)

Spec == Init /\ [][Next]_vars

\* A call in progress goes on; nobody has to ask for anything.
FairSpec == Spec /\ WF_vars(Proceed)

---------------------------------------------------------------------------
(* Properties *)

TypeOK ==
    /\ \A i \in DOMAIN stack : stack[i].p \in
         {"rw", "soft", "hard", "power", "mode", "identify", "read", "check",
          "hard_reset", "choose", "connect", "recover", "turn"}
    /\ result \in {"none", "ok", "time", "fail", "stop", "fault"}
    /\ {io.low, io.high} \subseteq Commands \cup {"none"}
    /\ io.size \in {"none", "data", "identify"}
    /\ io.buffer \in {"zero", "data", "identify", "other"}
    /\ flag \in [{"performing", "reset", "hard", "power"} -> BOOLEAN]
    /\ source \in {"none", "chosen", "connected"}
    /\ drive \in {"ready", "hung"} /\ faults \in 0 .. MaxFaults
    /\ {io.error, io.known, io.saved, mapped, stop, crashed} \subseteq BOOLEAN

Idle == stack = <<>> /\ ~crashed

\* The functions change timers, flags and the size of the transfer buffer for
\* the calls they make. However these calls end and however deep they nest, by
\* failure, stop or power cycle, all is put back: timers and flags in the end,
\* else every later command would wait too long or too short, and a
\* performing_reset left set would forbid all resets to come; the size before a
\* command is sent, whatever reset or identify came between.
SettingsKept ==
    /\ Idle => timer = Timers /\ ~flag.performing
    /\ stack # <<>> /\ top.p = "rw" /\ top.at = "send" => io.size = SizeOf[top.asked]

\* What a pass writes to the destination as sectors are sectors, with one
\* exception: see ReadIsWhatWasAsked.
RightUnlessResetFirst == ~past.first => past.wrote \in {"none", "data"}

\* "if read was successful then write the chunk" (hddsuperclone.c): what is
\* written to the destination is what the read asked for. But a drive that is
\* busy before the read is reset first, and the identify of that reset leaves
\* its own command in the registers the read is then sent from.
ReadIsWhatWasAsked == past.wrote \in {"none", "data"}

\* performing_reset keeps a reset from starting another: one in progress below
\* another got there through a power cycle, which ends with a command.
NestedOnlyByPowerCycle ==
    \A i, j \in DOMAIN stack :
        i < j /\ stack[i].p = "soft" /\ stack[j].p = "soft" /\ stack[j].at # "start" =>
            \E k \in i .. j : stack[k].p = "power"

\* A reset that reports success has seen the drive identify, unless it cycled
\* the power, after which the last chance is not checked, or was a hard reset on
\* IDE, which always reports success.
ResetOkMeansAnswered ==
    Idle /\ result = "ok" /\ doing \in {"soft", "hard_reset"} =>
        past.answered \/ past.cycled \/ (doing = "hard_reset" /\ ~conf.ahci)

\* Registers are only touched while they are mapped, and a drive shown as
\* connected is, unless a power cycle failed within a command or a reset: no
\* recovery that fails, no stop and no failing connection gets there.
DiesOnlyOfPowerFailure ==
    crashed \/ (Idle /\ source = "connected" /\ ~mapped) => past.lost

\* Every request comes to its end: reset, power cycle and identify, which call
\* each other in a circle, do not go on for ever once the hardware does not fail
\* any more (MaxFaults), and a stop does not keep a check from ending.
CommandsEnd == stack # <<>> ~> stack = <<>>

===========================================================================
