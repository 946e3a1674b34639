# A TLA+ verification of HDDSuperClone

HDDSuperClone copies failing drives. It reads what is easy to read first, comes
back for the rest in ever smaller pieces, keeps a log of what became of every
sector so that a run can be interrupted and resumed for weeks, and can offer
the drive under recovery as a virtual block device whose sectors are read on
demand. This directory models the parts of it whose correctness depends on the
order of many small steps, checks them with TLC and proves the main results
with TLAPS for every size of drive.

Line numbers below refer to `src/hddsuperclone.c` unless another file is named.

## 1. Inventory: the system and its parts

| part | state | operations | with whom it interacts |
|---|---|---|---|
| progress log in memory (4229-4602, 5854-6141) | a list of lines: position, size and 64-bit status of each block of sectors | `change_chunk_status_ccc`, `check_log_ccc`, `check_and_repair_log_ccc`, `reset_log_status_ccc`, `complete_log_reset_ccc` | every pass marks chunks in it; the GUI checks, repairs and resets it |
| progress log on disk (3696-3982, 4358-4375, 795-895) | `<log>`, `<log>.tmp`, `<log>.bak`; the flag `logfile_changed_ccc` | write to the temporary file, sync, rename twice; save, save as, phase logs; `cleanup_ccc` from the GUI and from the signal handler | called from every pass each 30 seconds, at the end of passes, at exit |
| cloning passes (6385-9420, 11103-11243) | phase, position and direction, retries left | nine phases forward, the same in reverse, resume after a stop | read chunks, write them to the destination, mark them in the log |
| domain (5899-5927, 6146-6381, 11248-11560) | a second list of lines that limits the run | mark, test and cut a chunk by the domain | passes ask it before each read; the virtual drive adds what the kernel asks for, an import the ranges of a file |
| skipping, bad heads, rebuild assist (9847-10450, 10854-11100) | smallest and current skip, number of the skip in its run, multiplier, history; the skip's number in the status of its line | grow, reset, find a run in the log and mark it as a bad head | called from the copy passes of phases 1 and 2; reads and writes the log |
| error recovery (12474-13134) | which devices are open, the registers mapped | check the drive, release it, call a command or a relay, reconnect, cycle its power | between a failed read and the next one; a power cycle also in the middle of a reset |
| virtual drive, program's side (932-1150, 7199-7575) | window of the request, mode | poll for a request, read it through the phases, answer | a page of control words, a transfer buffer and an error byte map, shared with the kernel module |
| virtual drive, kernel module (`driver/hddsuperclone_driver.c`) | the same words; lockup and stop flags; tickets and a count of waiting requests (252-318) | take a turn; post a request, poll for the answer, time out; serve from the buffer; start and stop | block layer and ioctls on one side, the program on the other |
| device access (`io.c`, `usbrelay.c`) | registers of the next command, transfer buffer and its size, timers, flags of the reset | ATA, SCSI and USB commands; soft and hard reset; identify; set transfer mode; relays | called by every read, by connecting and by the recovery, which it calls in turn |
| script engine (`tool.c`, `hddsupertool.c`, `commands.c`) | variables and buffers of a script | interprets a script | shares `io.c` |
| GUI, viewer (`clone_gui*.c`, `hddscviewer*.c`) | widgets, settings | menus and dialogs | calls the parts above; cloning runs in the same process |

What is hard in it:

* *Concurrency without locks.* The kernel module and the program answer each
  other through shared words, and either can give up, stop or die at any point.
* *Interrupts.* Ctrl-C runs the whole clean-up, a write of the log included, in
  the signal handler, wherever the program is.
* *Crashes.* The log is what the user has after a power failure.
* *Resumption.* Every pass can be stopped at every turn and picked up by a later
  run, possibly with another range or other phases.
* *Functions that call each other in a circle.* A command that waits in vain
  resets the drive, a reset identifies it with a command and may cycle its power, and
  that ends with a command; all of them work on globals.
* *Boundaries.* Blocks are split, joined and trimmed at ends that coincide in
  many ways: of the block, of the chunk, of the range, of the drive.

What makes each part correct:

* log in memory: it covers the source exactly, and a call changes the sectors
  it names and no other;
* log on disk: what was reported written is on the disk in one whole file,
  whatever fails; what was done is written in the end;
* passes: FINISHED means copied, BAD means the drive failed there, nothing goes
  back, nothing is forgotten, the run ends;
* domain: its FINISHED lines are the sectors it was given or asked for; a pass
  reads nothing else of a chunk, and finds what there is of the domain in it;
* skipping: a skip stays within its bounds, what lies outside the bad stretches is
  read, no turn is in vain, and the lines marked as a bad head are those of a run;
* device access and recovery: what counts as read is what was asked for, what a
  reset changes is put back, the circle of calls ends, and nothing touches
  registers of a drive that was released;
* queue of the kernel module: one request at a time is at work, and the
  counters are right again when it is empty;
* virtual drive: what is returned as read is the data of that sector, an error
  is a sector that could not be read, no request is lost and no caller hangs.

`PROJECT.json` lists all components, and under `hazards` each place in the code
where one of these could go wrong, with the property that would notice.

## 2. Modules

| module | models | state |
|---|---|---|
| `SectorMap` | what the log promises: one status per sector, changed by marking a uniform chunk, by a reset, by nothing else | `map` |
| `ProgressLog` | the list of lines and all that changes it; implements `SectorMap` | `lines`, `ret`, `pc`, `i` |
| `SavedLog` | what saving the log promises: the log on the disk changes in one step, a report comes after it, the next session begins with it | version at work, on the disk, reported; whether the program runs |
| `LogFile` | the writing of the log to disk, its callers, interrupts, failures, crashes, the next session; implements `SavedLog` | three files, memory, flags, where the program is |
| `CloneRun` | runs of cloning through all phases, forward and reverse, with resets between them | kinds of sectors, data copied, phase, position, pass state; the drive's behaviour |
| `CloneRestarts` | sessions: `CloneRun` with a program that goes down anywhere and begins again from the log as last written | as `CloneRun`, and the log on the disk |
| `Domain` | the domain: adding requests to it, taking pieces of chunks from it | the list, the rest of the request being added |
| `Skipping` | phases 1 and 2 with the sizes of skips, their numbers in the log and the marking of bad heads | lines of the log, position, sizes and counters of skips |
| `VirtualDrive` | the mailbox of the kernel module and the program | control words, buffer, error bytes, both sides' registers |
| `DriverQueue` | the tickets in front of that mailbox | three counters, where each caller is |
| `DirectIO` | commands, resets, power cycles, connecting and recovery in direct mode | calls in progress, registers, buffer, timers, flags, the drive |
| `ProgressLogProofs` | what the operators on a list of lines do; proofs about `ProgressLog` | |
| `CloneRunProofs` | proofs about `CloneRun` and `CloneRestarts` | |
| `LogFileProofs`, `DomainProofs`, `SkippingProofs`, `VirtualDriveProofs`, `DriverQueueProofs`, `DirectIOProofs` | proofs about the module of the name | |

`ProgressLog` composes with `SectorMap` by `INSTANCE SectorMap WITH map <-
SectorStatus`. `CloneRun` sits on top of the abstract map: it keeps one kind per
sector and, because other fields of a status can split a line, takes any stretch
of sectors of one kind for a line. `Skipping` works on the list of lines itself
and takes marks, splits and joins from `INSTANCE ProgressLog`. `LogFile` takes a
log as a version number and composes with `SavedLog` by an `INSTANCE` that maps the log on the disk to the
main file or, while that is missing, the backup. `CloneRestarts` extends `CloneRun` with what `SavedLog` says
of the disk: what is there was saved as a whole, and is what the next session has. `DriverQueue` lets a caller's turn be one step, which is
`VirtualDrive`; `VirtualDrive` has one caller at a time, which is what `DriverQueue`
promises until a caller is turned away. In `DirectIO` a turn of a pass is a read, its
check and the recovery.

### 2.1 ProgressLog and the code

`lines` is `lposition_ccc`, `lsize_ccc`, `lstatus_ccc`. `Marked` with its four
cases is `change_chunk_status_ccc` after its checks (6066-6135); `Keep` is 6053-6062, where
the old bad-head bit and skip run stay. `ChangeRefused`, `ChangeUnneeded` and
`ChangeChunk` are its three ways out. `CheckLog` is `check_log_ccc`, as the set
of complaints instead of their bit mask. `MergeTurn` is one turn of the loop at
4514-4530 and of the same loop in the reset (4567-4581); the step back is the
`i--` that does not happen on the first line. `ConnectClean`, `ConnectRepair`
and `ConnectRecheck` are `connect_devices_ccc` of the GUI,
`ResetLogStatus` and `ResetRecheck` its reset. Left out: error registers and read time in a
status (they take part only in the test for equality, as the skip run does),
masks (all callers pass the full one), the memory of the arrays, and the first half of the
repair, which sorts and cuts malformed logs: `Covers` proves that no log the
program makes needs it.

### 2.2 LogFile and the code

`pc` and `then` are the program's place and the caller of `write_logfile_ccc`.
`OpenTmp`, `SyncTmp`, `BackupOld`, `RenameTmp` and `Export` are the calls of
3715-3982 in their order, each of which can fail (`Fail`). `ChangeChunk`,
`ChangeDone` and `FlagChange` are the critical section of
`change_chunk_status_ccc` and the flag set after it. `Signal` is the handler at
23-36, `Cleanup` is `cleanup_ccc`, `Copied` a write under another name; the history variable
`copied` says that such a write was the last to clear the flag.
`Load` the next session. A signal can come at every step; a crash keeps what was renamed
and synced, and leaves a temporary file torn that was not synced. `Kept` in the mapping to `SavedLog` is
where the log is between the two renames; the program itself looks for the main file only. Left out: the
text of a log and the domain file (a copy of the same code).

### 2.3 CloneRun and the code

`phase`, `pos`, `retries` are `current_status_ccc`, `current_position_ccc`,
`retries_ccc`. `Begin`, `PassOff`, `PassStart`, `PassEnd`, `RunEnd` are
`clone_forward_ccc` and `clone_reverse_ccc`; `CopyForward` and `CopyReverse...`
one turn of the copy functions, `Read` with its outcomes the read, write and marking
of a chunk with `process_chunk_ccc`; `Trim...` and `Scan...` the two loops of
the trimming functions over a block. `Stop` is the stop signal, or an error of
a log write, looked for at every turn. The drive is `weak` (sectors it may fail at) and `dead`
(sectors it always fails at), chosen at the start: all drives of that size.
Sectors are blocks of `block_size_ccc`. Left out: domains, the size of a skip
(a choice up to `MaxSkip`), bad heads, the rebuild-assist pass, timing.

`CloneRestarts` adds the log on the disk. `Log` is what 3909-3918 prints, `Restart` what `read_log_file_ccc`
takes from it (1957-2098); the destination keeps what was written to it after the log was. `WriteLog` is
`update_logfile_ccc` at the start of a pass and of its turns (7601, 7618 and the like of the other passes and of
the trimming loops), the write at the end of a run (925) and the user's saving. It is not enabled between
passes, where the code has no write. Left out: an interrupt's write in the middle of a
turn or between passes (section 6), and a crash that takes data off the destination.

### 2.4 VirtualDrive and the code

`ctrl` is the page of control words by their names in `common.h` without
`CTRL_`. `Ask`, `Post`, `RestartTimer`, `GiveUp`, `WaitStopped`, `Take`,
`Match` are `data_transfer` (driver 326-652); `Refuse` and `ServeCached` its early ends.
`Poll`, `ReadStart`, `ReadCount`, `ReadRequested`, `ClearUnread`, `Answer`,
`Show` are the loop of `begin_driver_ccc` (1024-1118); `WindowRequested` to
`PassDone` are `driver_clone_forward_ccc`. Each read or write of a word that
the other side writes is a step. Writes are seen in the order they are made, as on the x86 machines
the program runs on. `reply` is only what the last step returned to the caller of the drive.
`abandoned` is a history variable. Left out: the queue in front of
`data_transfer` (one transfer at a time here), the acknowledgement word (it only
selects one of two timeouts, and `GiveUp` has no clock), the options that
suppress errors, a null destination. (With an output offset the program refuses to start the drive, 936.)
`Reconnect` is the user's choosing another source while the program runs on: the words and the
buffer stay, the log is new. `Die` closes the program's files, upon which the
module drops the memory behind them (driver 1839-1848) and reads every word as 0.
`fresh` is a history variable: the properties begin to hold with the first request posted
after a reconnect or after mode 5 (section 6 says what happens before).

### 2.5 Domain and the code

`dlines` is `dposition_ccc`, `dsize_ccc`, `dstatus_ccc`. `Search` is the binary
search of `process_domain_ccc` (11253-11280) and, for one sector,
`find_domain_block_ccc`. A request is worked off by the turns of the loop in
`add_to_domain_ccc`: `NotFound` (6166), `Already` (6189), `MarkLine` (6204),
`PassLine` (6245) and, after the loop, `MarkRest` with the four cases of `MarkIn`
(6294-6363). They join neighbours by size, as the code does, and not by place. `Best` and
`Piece` are the rest of `process_domain_ccc`: which of the lines around the hit is
taken, and the part of the chunk in it. The search is a function of the window it is
left with. `Ordered` and `Gapless` ask that the lines have sectors: in a list whose
lines overlap, a join or `PassLine` can leave a line without any, or with less than
none (section 6), and what the list then means is nothing to ask about. `wanted` and `exact` are history: what
the domain should have, and whether the list began gapless and no request has yet begun
inside a line and run past it. The list starts as a new domain or as any ordered
list a domain file can hold. Left out: statuses other than NONTRIED and FINISHED (they
act as NONTRIED does), writing the domain file, `domain_size_adjustment_ccc`, which lets the
virtual drive read a little more than the piece.

### 2.6 Skipping and the code

`Reset` is `reset_skip_ccc`, `Grown` with `NextSize` and `SmallestAfter` is
`process_skip_ccc`, in the integers of the code: all divisions truncate as there.
`skips` is `min_skip_size_ccc`, `skip_size_ccc`, `last_skip_size_ccc`,
`skip_multiplier_ccc`, `skip_run_count_ccc`, `skip_count_ccc`, the two entries of
`skip_history_ccc` that are used, and `skipping_ccc`. The status of a line has the
direction of its skip and its number. `StartLine`, `Walk` and `MarkRun` are
`process_skip_run_ccc`, forward and backward in one: it looks up the line at
`skip_position_ccc[0]`, steps at most two lines to one with a skip of the
direction, and follows the numbers. The turns are those of `copy_forward_ccc` and
`copy_reverse_ccc`: which chunk comes next (`Chunks`), whether it ends the run of
skips (`Past`), and what its read leads to (`TurnGood`, `TurnSkip`, `TurnUsedUp`,
`TurnDeviceLost`, `StopInRead`). Forward, the chunk's size is added to the
position on top of the skip (7975), as the code does. `Begin` takes a stopped run
up again, `PassEnd` goes from phase 1 to 2 and out of it.

The drive is a surface: two stretches, the second one unreadable or only slow.
`chunks`, `ended`, `missed` and `again` are history. Left out: domains, rebuild
assist, alignment (sectors are blocks of `block_size_ccc`), the failing sector
reported by a drive (`CloneRun` has it), slowness that comes and goes. A
direction, once chosen, is not changed between runs, and lines behind the last
one, which the code may look at (10084), count as none.

### 2.7 DriverQueue and the code

`working_queue`, `request_queue`, `queue_count` are the module's globals.
`Call`, `IssueTicket`, `CountIn`, `Refuse`, `TakeTurn`, `TimeOut` are
`wait_for_queue` (driver 275-318), `PassTurn` and `CountOut` are `next_queue`,
`StartDrive` is the ioctl that sets all three to zero, `BeginNext` a block request
that goes from one transfer to its next. `c++` is a read and a write with others in
between. `displaced` and `muddled` are history: a caller handed on a turn that was
not its own; two updates of a counter met, or a restart met a call. Left out: what
is done in a turn (`VirtualDrive`) and the clock (a caller may time out at any point of its wait).

### 2.8 DirectIO and the code

`stack` has a frame for each function in progress, with the place it is at and
what it saved: `rw` is `ahci_rw_ccc` and `do_ata_pio_read_ccc`, `soft`, `hard`,
`hard_reset` the three reset functions, `power` is `call_command_on_power_cycle_ccc`,
`recover` is `call_command_on_error_ccc`, and `mode`, `identify`, `read`, `check`,
`choose`, `connect` are named after theirs. A step goes from one wait or call to
the next. `io` holds the registers of the next command in two parts, as commands
of 28 bits send only the first; the buffer (what it holds) and its size; the
status. `Wait` is what waiting for the drive can return, `Treat` what a reset does to it.
A `turn` is one turn of a copy pass: read, and then write, or check and recover.
`Stop` is the stop button, `Crash` an access to registers that are not mapped,
`past` is history. Left out: SCSI and ATA passthrough, USB, DMA on IDE,
`hba_reset_ccc`, the reset of the display's timer, rebuild assist when a drive is
released. One setting stands for commands and relays on error and on power
cycle. Whether a failed read is followed by a check or by the recovery at once
depends on its status; the model has both.

## 3. Runs

Every run is a `.cfg` of the same or a longer name beside the module. `v` marks
a run that is expected to end with a violation.

| run | what is asked | bounds |
|---|---|---|
| `progress_log` | `LogCoversSource`, `ResetLeavesClean`, `RefusedOnlyOnce`, `MergingEnds`, `ImplementsSectorMap` over all orders of marks, merges, resets and connections | 4 sectors, two kinds, both values of the bad-head bit |
| `log_file` | `NothingSavedIsLost`, `MainIsWhole`, `ExitKeepsAllButOne`, `ImplementsSavedLog`, `CloningIsSaved` | 4 changes over any number of sessions, with phase logs and other copies; failures, interrupts and crashes at each step |
| `clone_run` | `DataFollowsLog`, `NoGoodSectorGivenUp`, `NothingForgotten`, `NeverBack`, `RetryReadsAll`, `RunEnds` forward | 4 sectors, range of 3, cluster 3, divided cluster 2, skips up to 1, one retry, every drive |
| `clone_run_reverse` | `DataFollowsLog` in reverse | 3 sectors, cluster 3, divided cluster 2, skips up to 1, one retry; phase 3 and the second dividing off |
| `clone_restarts` | `NothingForgotten` forward, over sessions that go down | 3 sectors, cluster 2, divided cluster 1, skips up to 1, no retries; phases 2 and 3 and the second dividing off |
| `skipping` | `HeadsAreRuns`, `SizesBounded`, `OutsideIsRead`, `TurnsProgress`, both directions, fast and not | 240 blocks, cluster 2, smallest skip 6, largest 20 or 44, two stretches between three edges, one stop or lost device |
| `domain` | `StaysGapless`, `MarksAreRequests`, `PiecesAreOfTheDomain`, `AddingEnds` | 5 sectors, loaded lists of up to 3 lines, 3 requests |
| `virtual_drive` | `RightUntilAbandoned`, `ErrorIsReal`, `NoRequestLost`, `TransferEnds` | 2 sectors, cluster 2, modes 1, 3 and 5, any number of reconnects |
| `virtual_drive_late` v | `DataIsOfTheSector` | 2 sectors, mode 1, one source |
| `driver_queue` | `OneAtATime`, `IdleIsAligned`, `CallsReturn`, and that the tickets stay in range | one block request, two ioctls, a limit of 2, tickets up to 2 |
| `direct_io` | `SettingsKept`, `RightUnlessResetFirst`, `NestedOnlyByPowerCycle`, `ResetOkMeansAnswered`, `DiesOnlyOfPowerFailure`, `CommandsEnd` | AHCI and IDE, all settings, two faults of the hardware |
| `direct_io_stale` v | `ReadIsWhatWasAsked` | AHCI, 28-bit commands, one fault |

`TypeOK` is checked where a boundary is at stake (`driver_queue`); the theorems prove it of all modules.

Why the bounds are enough. A mark looks at its block and the two neighbours:
four sectors hold a block of two between neighbours that match or not, a block
cut in three, and the three equal lines in a row, one more behind them, that the repair
of the first pair needs. Skip runs are not in the run; the theorem `Refines` has
them. In `Domain` five sectors hold three lines with gaps between them or a request over three lines; three
requests make two lines and one that overlaps both. Four
changes let one be in each of the three files and one in memory. In `CloneRun`
a range of three has a first, an inner and a last sector, chunks of three, two and one, a
reported sector at each place, a block with sectors on both sides of an
error; the fourth sector makes an old block straddle the end of the range. In
`VirtualDrive` two sectors are enough for two requests for different data, for
a transfer that is part of a larger request, and for a window longer than the
transfer. In `Skipping` a stretch of 91 or 129 blocks takes
runs of up to seven skips of growing size, so that all limits are passed that lie
below: a run of three or five, the short runs that shrink the smallest skip, the
largest skip; the edges let stretches touch, overlap, be empty, or be near the ends
of the source. A run's numbers end at 7 instead of 63 (`LastNumber`), with the
factor of 16 that then decides between going on and failing scaled to 4 (`MaxRatio`);
the changes of the factor after the 8th and the 11th skip, and the shrinking after
31 skips (`MaxRetard`), are out of the run's reach. In `DriverQueue` three callers and a limit of two let one work, one wait
and one be refused, and tickets up to 2 wrap within a few calls. In
`DirectIO` two faults let a reset and the power cycle inside it fail, or
a command and the reset after it; `Twice` is always on, as its being off only leaves a call out.
None of these is the argument for the large drives; the proofs are (section 5), where there is one.

The bounds by name: `Size` (sectors), `MaxChanges` (changes to the log),
`LoadedLines` and `MaxRequests` (lines of a loaded
domain, requests added to it), `MaxSkip` (sectors a skip jumps), `Retries` (retries of a run), `Cluster` and `Divided`
(sectors of a read), `LastNumber`, `MaxRatio`, `MaxRetard`, `MaxSkips`, `Edges` and `MaxStops` (of
`Skipping`, see above), `Limit` and `MaxTicket` (of the queue), `MaxFaults` (hardware that does something wrong).
Only `MaxChanges`, `MaxRequests`, `MaxStops` and `MaxFaults` bound behaviours; the others are
parameters the code has, too, some of them as fixed numbers. CHECK_DEADLOCK is off in the runs of `LogFile`
and `Domain` alone, where the program ends and the number of changes or requests runs out.

Every property has a mutant in the modules (marked "Mutant" or "A fault"): a
definition changed the way a slip in the code would change it, with which TLC
finds the property violated.

## 4. Fairness

* `ProgressLog`: weak fairness of the merging loop. It runs in the thread that
  entered it and waits for nothing.
* `LogFile`: weak fairness of the steps of a change and of a write (calls of the file
  system return), strong fairness of a pass's coming to the end of the run: a pass ends when
  there is no block left for it, which `CloneRun` shows it to.
* `Domain`: weak fairness of the turns of a loop that waits for nothing.
* `CloneRun`: weak fairness of the run's own turns. A run is one loop in one
  thread; it waits for nothing but reads, and those time out. Nothing is
  assumed of the user's stop.
* `VirtualDrive`: weak fairness of the steps of a transfer that has begun, in
  the kernel module. Of the program nothing is assumed, it may stop anywhere;
  `GiveUp` is among the fair steps because time passes.
* `DriverQueue`: weak fairness of each caller that is in the module; nobody has to call.
* `DirectIO`: weak fairness of the call in progress: all its waits end by a timeout.
* `Skipping` assumes none. That passes end follows from `TurnsProgress`, each turn leaves less
  to be tried, and from the absence of deadlock, both checked.

## 5. What is proved

For every value of the constants that the assumptions allow:

* `ProgressLogProofs`: `TypeCorrect`, `Covers`, `MergesBehind`, `ResetsClean`,
  `RefusesOnce`, `Refines`. Assumed: the source has a sector; NONTRIED and
  FINISHED are kinds; 0 is a skip run. The inductive invariant is `TypeOK /\
  LogTiles /\ MergedBehind /\ SecondPass`. `LogCoversSource` as the code
  checks it, neighbour by neighbour, is not a form in which a split is easily
  followed; `LogTiles` says the same of any two lines and any sector, and
  `NoComplaint` leads back. `SecondPass` says that a second merging pass
  starts with at most the first pair equal, which is what makes a second
  refusal impossible. The first part of the module has what inserting, removing and
  extending a line does to the lines and to the status of each sector, once for
  all four cases of `Marked`, and derives from them that a mark keeps the tiling
  and changes just its chunk. `Refines` maps a mark to `Mark` of the same chunk, a reset
  to `Reset`, each turn of the merging loop to a stutter.
* `LogFileProofs`: `FileTypes`, `NothingLost`, `MainWhole`, `ExitKeeps`, `Implements`. The inductive
  invariant adds to the types: the main file and its backup are never torn, the
  backup is the older one, and the report is no newer than the main file or, while that is missing, the
  backup (`MainCurrent`); memory is the newest (`MemoryNewest`); between sync
  and rename the temporary file is what is in memory (`TmpCurrent`), which an
  interrupt in the middle of a write does not disturb because it starts a
  write of its own from the beginning; and who can be the caller where (`Callers`). `ExitKeeps`
  adds that a change neither saved nor flagged is the last one (`ChangesSaved`), as
  long as the flag was not cleared by a write under another name (`copied`; section 6).
  `Implements` is the refinement of `SavedLog`: the second rename is the save, because by `TmpCurrent` the temporary
  file is the version in memory; the end of the write is the report, because the main file still is that
  version; the first rename is a stutter, because the backup takes the main file's place; a failure, an interrupt
  or a crash is a stutter or the program's end.
* `CloneRunProofs`: `TypeCorrect`, `DataFollows`, `GoodSectorsKept`, `Forward`
  in both directions; `NoneForgotten` for forward runs with phase 4, dividing
  and scraping on; `RetriesRead` for forward runs. The inductive invariant is
  `TypeOK /\ Placed /\ RetriesLeft /\ BlockAhead`: where the position can be in
  each pass, and that a block's sectors ahead of the trimming loops are still
  NONTRIMMED. From it follows what one step does to one sector
  (`StepSectors`), and from that the first four theorems. `NoneForgotten` needs in addition that
  every sector that is not yet settled is still ahead of the pass that looks for
  its kind (`Awaited`); `RetriesRead` that the BAD sectors below the position of a
  retry pass were read (`RetriedBelow`).
  `SessionsDataFollows`, `SessionsKeepGood`, `SessionsForgetNone` and `SessionsRetryAll` say the same of
  `CloneRestarts`, where any run may go down and begin again from an older log. Map, phase, position and what was retried are then
  those of one earlier moment, so that each part of the invariant is stated of the log on the disk, too (`LogCopied`, `LogGood`,
  `LogAwaited`, `LogRetried`): it holds when the log is written, stays true because the destination only gains
  sectors and the drive is what it was, and gives the invariant back when the log is loaded. `LogAwaited` and `LogRetried`
  need that no log is written between passes.
* `DriverQueueProofs`: `TypeCorrect`, `TicketsExclude`, `IdleAligned`, for any finite
  number of callers and any limit. Assumed: there is a ticket for each caller, which is
  what makes wrapping harmless. A ticket in hand is as far from the turn as there are callers in
  front (`InTurn`, until someone is displaced), the three counters differ by the callers in
  the places between (`Counts`, until updates meet), and a register holds the counter it was read from
  (`Registers`). `muddled => displaced` ties the two histories together. The rest is counting:
  what a move of one caller does to the number at a place.
* `VirtualDriveProofs`: `TypeCorrect`, `RequestsStand`, `DataIsRight`, `ErrorsAreReal`. The
  invariant says of each pair of places of the two programs what the control words must be
  (`Handshake`, `Turns`), which of the words and of the caller's registers agree (`Words`,
  `Asks`), and what is in the buffer (`Data`). `Handshake` holds in every state, the others until a request is
  abandoned or the program's memory is gone, and `Data` of fresh sources: the exceptions are part of the
  properties because they are in the code (section 6). `ErrorsAreReal` is for
  configurations that satisfy `Covers`: mode 3 is off, or the cluster is as long as the source and with
  it as any transfer. With a shorter cluster it is false (section 6), as the first attempt to prove it showed.
* `DomainProofs`: `TypeCorrect`, `ListStaysGapless`, `RequestsAreMarked`, `PiecesAreRight`. The first
  is for any list a file can hold, the next two speak of gapless ones, with `RestIsOwed`: what is
  wanted is what is marked and the rest of the request. `Spliced` is a
  lemma about replacing some lines of a gapless list by others over the same sectors, which serves all cases of
  `MarkIn` and of the loop. `PiecesAreRight` holds in every ordered list and is a
  fact about the search alone. Induction is not at the provers' disposal, so
  the search's recursive function is first shown to exist, and the line it
  finds is shown right by a smallest counterexample: were there a
  window in which it is not, there would be one of least width, and its next window is smaller.
* `SkippingProofs`: `TypeCorrect`, `SizesStayBounded`, `GoodDataFirst`, `NoTurnInVain`, `HeadsMarkRuns`. The invariant of the first four is
  `TypeOK /\ Placed /\ NoneFailed /\ ReadUpward /\ ReadDownward`: where a pass can be; that no
  sector a chunk away from all bad and slow ones is marked as failed; that of those `Before` them all the pass that
  runs forward has read what it has come past, and of those `Behind` them all the pass that runs backward, but
  for the last sector and chunks whose read was stopped. The log is seen sector by sector: `INSTANCE ProgressLogProofs` brings
  what a mark does to each sector, and that marking heads (`MarkRun`) moves no line and changes no kind is
  proved along its walk. `SizesStayBounded` is arithmetic over `Grown` and `Reset` with the
  rounding of every division, and is inductive by itself. `NoTurnInVain` rests on a chunk's
  never being empty and lying in one line that is not tried.
  `HeadsMarkRuns` assumes `Cluster < MinSkip \div 2`: the smallest skip shrinks to no less than half of what
  the user set, and one no longer than a cluster can make the property false (section 6). The defaults, 128
  and 4096 sectors, satisfy it. Its invariant `HeadsInv` says: the sectors with the bit are those of the runs that
  ended as heads (`HeadsOf`); what was not tried has no number of a skip (`UntriedUnmarked`), and in phase 1 nothing has one of
  phase 2 (`OneDirection`); all numbers of the pass's direction are more than a cluster behind the position,
  but at the ends of the source (`Behindhand`); and the chunks of the run in progress lie in order in the
  log, one line each, with their numbers, and no later line or sector has a number of the direction (`RunKept`). From the last it
  follows which lines the walk goes along (`LinesOfRun`), that it starts at the first of them
  (`StartLineFacts`), and that it finds each of them (`FoundFacts`). The walk is a recursive function of the
  number of lines behind; that there is one such function, and what it returns, are shown by induction over
  the numbers, which the module states for sets of numbers (`NatInduct`) as a smallest counterexample.
* `DirectIOProofs`: `TypeCorrect`, `OnlyPowerFailureKills`, `AllIsPutBack`, `ResetsNestByPower`,
  `SuccessMeansAnswered`, `DataIsWhatWasRead`, for any sets of settings and any `MaxFaults`, and so for
  any depth the calls nest to. Each invariant says what holds of the call in progress at its
  place, and what holds of each call below it, which waits where it called from (`Shape`: who may
  be called from where). A call that returns owes its caller a promise, a call that is made is owed what
  it expects, and one lemma for each of these steps carries the invariant over all functions.
  `Mapping` names the places at which the registers may be unmapped although no power cycle failed.
  `Timing` says which call in progress is to blame for each timer or flag that is not at rest, and
  that of several identifications only the outermost saved the resting value. `Sizing`
  gives each call the buffer size it has to find and to leave: a command wants its own, and what it
  calls the same, but a hard reset within a soft one none; it holds for some assignment of sizes to the calls, because no
  variable has them. `Nesting` is about pairs: no command is sent within a reset, without a
  power cycle between, unless `performing_reset` is set. `Answering` and `Reading` follow the
  status of each function to the user's request and to the write. The proof of `Sizing` found an error of the
  model that two faults cannot reach and four can: a command that transfers nothing cleared the buffer
  (`Transferred`).

Only model-checked:

* the liveness properties (`MergingEnds`, `CloningIsSaved`, `AddingEnds`, `RunEnds`, `TransferEnds`,
  `CallsReturn`, `CommandsEnd`): TLAPS is used here for safety alone.

Every invariant and every action property of the runs is a theorem.
`MergesBehind`, `FileTypes` and the theorems `TypeCorrect`, but for that of `DriverQueue`, are proved of invariants
that no run checks any more. `SessionsDataFollows`, `SessionsKeepGood` and `SessionsRetryAll` state of
`CloneRestarts` what the runs check of `CloneRun`.

## 6. Findings

Two have a run:

* *A late answer* (`virtual_drive_late`). After a timeout of the kernel module
  the program's answer to the old request is taken for the answer to the next
  (driver 571): the caller gets another sector's data without an error.
* *A reset before a read* (`direct_io_stale`). A read fills the command
  registers, then waits for the drive. If that is busy, it is reset, and the
  identify command of the reset overwrites the registers (io.c 7233). What is sent
  afterwards is that command again (io.c 2212), or, with 48-bit commands, half of each; it
  succeeds, and its data is written as the sectors' and marked FINISHED.

More were met that no run is spent on.

*Cloning.* A reverse pass moves its position before it reads (8123): stopped during
the read, the next run looks below that position, and in the last pass for the
sector's kind the chunk is left behind (`NothingForgotten` with `Reverse = TRUE`). Reverse trimming cuts the size of a
read to zero at the end position and does not raise it again (9022): the outer
loop finds the same block for ever (`RunEnds`). Forward trimming has the same cause (8705); there dividing
picks the rest up, so that it matters only with dividing off. A retry pass of a
reverse run starts at the end position and reads forward (7144): it reads
nothing (`RetryReadsAll`). A block that straddles the start position is read below
it by trimming and reverse copying (8453). The manual says that a failed block of one sector is always
marked as bad (`hddsuperclone.texi`, 248), while an error leaves it unmarked when
the user has given scraping a longer reset timer than the phases before it
(11105-11117); `CloneRun` has both (`DontMark`).

At the end of a pass the phase is changed first and the position when the next pass starts (6552, 6565). Ctrl-C
in between saves a log with the next phase and the position where the last one ended, and the run that takes it up
passes over all below: forward runs with such a write violate `NothingForgotten` (the mutant `WriteLogAnywhere`). The
log is synced before it is renamed (3928), but the destination never is, unless it is opened for direct access: after a
crash of the system the log can call sectors FINISHED whose data was only in the page cache. The models keep what was written.

*Skipping.* The manual says that the starting size of a skip is reset to the
original when the skip grows to the largest size (`hddsuperclone.texi`, 527); the code does
it only when the 63 numbers of a run are used up (9953). A reverse run that is interrupted after its last skip jumped below the
source begins phase 1 again (6846), and numbers of two passes are taken for one
run: good lines get the bad-head bit. So do lines when the direction is changed between runs. Phase 2 of a forward run
starts at the last sector and reads what is below it (6482), so that this sector
is left to phase 3. When the drive is lost after the first skip of a run and the smallest skip is no longer than
a cluster, the next run's first chunk joins that one and both are one skip. After 31 skips a smallest skip that has shrunk
is put back to what the user set (9874-9880), in the middle of a run, too, whose own skip may be smaller. FINISHED lines of slow reads get the bit, too, after
which the virtual drive's test for saved sectors (7334) does not recognise them. The walk compares with `>` where the line
after the last one is no line (10084). `process_bad_head_ccc` is called under `if (0)`
(6499), `SKIP_RUN_RETARD_COUNT_FAST` is never used, and on a source of less than 1000
sectors the smallest skip is 0 (4676).

*Log and domain.* Saving the log under another name clears the flag that the
project's own log is behind (3979), so closing does not write it. A reset of the log is
no critical section (4559): ctrl-c in the middle writes a log that is half reset. A line of the
domain keeps the sectors it gives to the line below (6261, where a statement is
commented out); a later request that is joined to that line marks sectors nobody
asked for. In a loose domain a line is joined to a FINISHED neighbour across the
gap between them (6302, 6310, 6322), with the same effect. Where such lines overlap, the sectors a line passes on
(6244-6252) can be all it has, or more: a line of no sectors stays in the list. A forward pass whose search hits the first
FINISHED line of a chunk takes the next one instead (11355), and leaves the line
hit to a pass in the other direction. A request that ends in FINISHED sectors
returns before the domain is flagged as changed (6192).

*Kernel module.* A caller that is refused or times out calls `next_queue` all the
same (driver 721) and hands on the turn of the one at work. Two callers can get the
same ticket (driver 284); from then on turns and tickets stay apart and every caller times out until
the drive is started again. Starting the drive leaves
`CTRL_DATA_VALID`, the window and `lockup_detected` as they were (driver 1537-1552, hddsuperclone.c
1007-1008). After another source is connected the first reads, the scan for partitions among them, are served
from the buffer of the source before. In mode 3 a read that does not follow on the last one sets the window to a
cluster from its first sector (7270-7291) without the correction the sequential branch makes for a longer
transfer (7252-7255): when a transfer is longer than a cluster, an error is reported although all its sectors were read. After mode 5, which declares a buffer valid without
filling it (1101), the first reads fail even for sectors that are on the destination. This and the first last
until a sector outside the window is read.

*Device access.* A hard reset after which a power cycle was tried returns 0 without
looking at what the drive did (io.c 3572-3594), and on IDE it always does, as an inner variable
hides the status (io.c 2926). When a power cycle fails within a command or a reset the
registers stay unmapped and the next access to them ends the program. A stop in the middle
of a reset leaves the buffer's size at 0 until the next command, and during a check of the drive it
leads to the recovery and a disconnect. The stop flag is only taken back by the next run or
connection (clone_gui3.c 2970, 3233). With power cycling and a drive that never answers the
hard-reset button recurses until it does. After a reset first, setting the transfer
mode sends IDENTIFY instead.

## 7. Not modelled, and why

A domain and rebuild assist in the passes, and the SCSI and ATA emulation of
the kernel module (a stateless translation of command blocks) are not modelled.
Nor are the passthrough modes, USB and the HBA reset in
`DirectIO`: the other side of passthrough is the kernel, and the rest repeats the direct mode with
other registers. Not planned: relays' protocols; the script engine, the viewer, the
languages and the GUI's widgets, which are sequential and keep no state others
rely on; bundled programs (hdparm and others under `public`); parsing and printing of text; memory exhaustion; weak memory orders.
The script engine, the viewer, the second copy of the GUI and the bundled programs are most of
the repository's lines, which is why the models stand for a small share of it.

## 8. Plan

1. `VirtualDrive` and `DriverQueue` composed: several callers over the one mailbox.
2. The first half of `check_and_repair_log_ccc` on malformed logs: that it ends
   and leaves a log without complaints.
3. Compositions: `CloneRun` over `SectorMap` (its marks are `Mark` steps), and `CloneRestarts` with
   interrupts that write the log in the middle of a turn.
