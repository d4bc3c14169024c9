# A TLA+ model of NumWorks OS

NumWorks OS is a bare-metal firmware for the NumWorks graphing calculator: a
cooperative kernel, drivers, a log-structured filesystem on NOR flash, file
transfer over USB and a set of apps.  There is no memory protection and no
operating system underneath; the hard parts are what happens between two steps:
a power cut between two flash operations, an interrupt between two reads of a
ring index, a file write between two packets of a transfer, a second key while
the first one's question is still on the screen.

## Inventory of the system

| part | files | state | operations | module |
|---|---|---|---|---|
| flash filesystem | `fs/flashfs.c` | two flash areas (superblock, record log, data pool); in RAM the directory, `s_log_used`, `s_data_end`, `s_area`, `s_gen`, the stream | mount, format, write, delete, rename, stream begin/write/end/abort, compaction | FlashFS, FileStore |
| storage driver | `fs/storage_qspi.c` | the configuration saved at start, the QUADSPI controller, the memory chip | init, erase, program, with time-outs and verification | QspiDriver, FlashChip |
| loader | `loader/loader.c` | how far it is, whether the chip is in quad mode | from reset to the OS or to recovery | Loader |
| file transfer | `usb/usb_cdc.c` | the line, protocol state `s_st`, the file being sent or received | LIST, RECV, SEND, DEL, one step per turn | UsbTransfer, FileArea |
| USB device stack | `usb/usb_device.c` | rings, endpoint flags, endpoint 0's reply and data stage | interrupt handler, poll from the main loop | UsbDevice, UsbControl |
| scheduler | `kernel/scheduler.c` | task table | tick, run next, sleep | Scheduler |
| kernel | `kernel/kernel.c`, `hal/clocks.c`, `hal/hal.c`, `hal/backlight.c` | event queue, current app, clocks, brightness | input task, shell task, sleep and wake | Kernel, Apps |
| keyboard | `hal/keyboard.c` | debounce and key state, event ring, auto-repeat | scan, poll | Keyboard |
| display | `hal/display.c` | framebuffer, dirty rectangle | drawing calls, flush, power | Display |
| battery, LED | `hal/battery.c`, `hal/led.c` | level, charging, colours | poll, set, sleep | Settings |
| preferences, settings app | `apps/settings/*` | settings and best scores in RAM and in a file | load, save, one key | AppState, Settings |
| text editor | `apps/text_editor/text_editor.c` | text, cursor, scrolling, file name, unsaved changes, the question for a name | one key, open, new, save; a line in colour | TextEditor, CodeColours |
| file manager | `ui/filemanager.c` | the list as it was loaded last, its cursor, the open question | one key, load and draw | FileManager |
| home, games menu, help | `apps/home`, `apps/games/games.c`, `apps/docs_app` | selected item, first row, page | one key | Menus |
| games | `apps/tetris`, `apps/games/snake.c`, `apps/games/g2048.c` | board, piece, snake, score, record | one key, one tick | Tetris, Snake, G2048 |
| shell, UART | `shell/*`, `hal/uart.c` | ring of printed lines, line, history, receive ring | keys, tick, commands | Shell |
| Python app, port, `open()` | `apps/python_app`, `micropython-port/*`, `ui/line_input.c` | the block typed so far, files that scripts have open, imported modules, output not yet shown, keys | typing, running, file calls, printing, sleeping, `input()` | PythonApp, PythonFiles, Console, LineInput |
| statistics | `apps/statistics`, `apps/common/stats.c` | table, cell, file | one key; figures of a list | Statistics, Formulas |
| calculator, functions, equations | `apps/calculator`, `apps/functions`, `apps/equations`, `apps/common/expr.c` | line, history; list, view, trace, menu; fields and answers | one key; parse and evaluate | Calculator, Graphing, Equations, Formulas |

How they interact.  `main()` mounts the filesystem and then enters
`kernel_run()`, which calls one task after the other; nothing is preempted
except by interrupts.  The interrupts are SysTick (time, the tasks' sleep
counters) and OTG_FS (USB).  `usb_cdc_process()` runs once per turn of the app
task, so between two steps of a transfer an app may write, delete or rename any
file, and a write may compact the filesystem.  The USB interrupt shares the two
rings with the protocol.  Events go through the kernel's queue to the one app
that is shown; the others keep their state and are drawn as they are when they
are opened again.  Apps share files, the settings and the best scores.  Power
can go at any time, and a watchdog and the fault handler restart the processor
without restarting the memory chip.

## What is hard, and where

`PROJECT.json` lists the hazards line by line.  In short: power cuts and failing
operations inside a filesystem call; streams and transfers that live across
other calls; compaction, which moves every file; logs, pools, directories, rings,
queues, tables and histories at their limits; the interrupt handler between any
two statements of the main loop; a chip that a reset leaves in any state;
time-outs that race the answer they wait for; saves that fail half way; keys that
draw only what they change; and long sequences of keys that reach a state which
no single function was written for.

## How the project is laid out

Twelve runs.  Three of them compose modules that meet only in calls:
`system` has everything under the apps, `apps` has everything on the screen,
`kernel` the input side.  In the first two a constant `Parts` names what is
looked at, a variable `part` (chosen in `Init`, never changed) says which part a
behaviour is about, and the state of the others stays as it started.  The files,
the settings and the app that is shown are shared where the code shares them.

| run | module | about |
|---|---|---|
| `flashfs_power`, `flashfs_store`, `flashfs_fail` | FlashFS | power cuts; the abstraction; failing primitives |
| `flashfs_gap`, `flashfs_fullrename` | FlashFS | two findings |
| `usb_session`, `usb_giveup` | UsbTransfer | the protocol with a faithful PC and with one that gives up |
| `usb_recvmoved` | UsbTransfer | a finding |
| `kernel` | Kernel | keyboard, input, sleep and wake |
| `system` | System | USB device stack, endpoint 0, scheduler, display, loader and storage driver |
| `apps` | Apps | every app, and the pure functions of `apps/common` |
| `functions_pick` | Apps | a finding |

An operator that follows the words `\* mutant:` is a wrong form of the one below
it, the way a bug in the code would have it; each property has at least one that
it rejects (`PROJECT.json`, "mutants").

## Modules

### FileStore, FlashFS: the filesystem

`FlashFS` models `fs/flashfs.c` with one step per *primitive* of `fs/storage.h`
(an erase of an area, a program of some cells) together with the C code around
it.  The program counter `pc` names the primitive about to run; `op` is the
public call in progress.

| variable | code |
|---|---|
| `super[a]` | the generation in area `a`'s superblock, 0 while it is not valid |
| `log[a]` | the area's record slots: erased, torn (programmed without its kind), or a file/deletion record |
| `data[a]` | the data pool, in units of four bytes (everything is `align4`ed) |
| `area`, `gen`, `dir`, `logUsed`, `dataEnd`, `stream` | `s_area`, `s_gen`, `s_dir`, `s_log_used`, `s_data_end`, `s_stream` |
| `left`, `cur`, `nrec` | the local variables of `lay_out()` |
| `fails` | history: how many primitives have failed |
| `allowed` | history: for each name, the contents a mount may find now (the last acknowledged version and those an unfinished or failed call wrote since) |

`pc` replaces `s_mounted`: calls are possible in `"idle"` only, as the callers
find `s_mounted` false otherwise.  A call that is refused (no such file, no room)
changes nothing and is not a step.

Power cuts (`Crash`) come at any moment and may catch the primitive before it
did anything, half way, or when it was done; half a program leaves a spoiled
unit or a torn record, half an erase leaves garbage under a superblock that may
or may not still be valid.  `Fail` is a primitive that reports an error: the
call's error path runs.  `FailEffects` says what a failed primitive may have
done to the flash.  The window of a power cut inside `write_super` and the
copying of one file in `lay_out()` are one step each: until the magic is there
nobody reads the area, and it is erased before it is used again.

Two choices are inputs of the model.  `FullDirRename = FALSE` leaves out renames
while the directory is full; the run `flashfs_fullrename` shows what they do.
`MaxGen` bounds the number of compactions, `FailBudget` the number of failures.

`FileStore` is what a caller may rely on, without flash: `files` is what a power
cut right now would leave, `req` the call in progress.  A call changes only the
names it is about, in one indivisible step, and a rename goes through "both
names" and never through "neither".  `ImplementsStore` (run `flashfs_store`)
instantiates it with `files <- DurableFiles`, the directory the log of the newest
area describes.

Runs:

| run | bound | shows |
|---|---|---|
| `flashfs_power` | 2 names, 3 slots, 2 units, files of 0 or 1 unit holding data or 0xFF, 2 generations (one compaction) | the safety properties below under power cuts |
| `flashfs_store` | 3 names, a directory of 2, 1 unit | the refinement of `FileStore`, and what a mount finds, with the directory at its limit |
| `flashfs_fail` | 2 names, 1 unit, one failing primitive that did half or all of its work | the properties that survive failures |
| `flashfs_fullrename`, `flashfs_gap` | a full directory; one primitive that fails and did nothing | the two findings |

Three slots are enough for every path: a rename with room (two records), one
without, a log that fills during a stream, a torn slot in the middle.  Two
generations make both areas the active one, and a mount choose between two
valid areas.  The initial flash is blank or full of garbage, so that the format
path runs; a format that is cut short is followed by another start.  The `VIEW`
of `MCFlashFS` leaves out an area that no mount would pick and that is not being
laid out: it is erased before anything reads or programs it.

Properties.  `DurableAllowed`: at every moment, what the flash holds for each
name is one of the versions it may be.  `DirIsDurable`: the RAM directory is
what a mount would rebuild.  `ActiveOutranks`: an area under construction never
outranks the one in use.  `NeverRefused`: no program ever hits cells that are
not erased, whatever power cuts came before (the reason for the scan at the end
of `mount()`).  `WellFormed`
collects the types with `ExtentsDisjoint` and `StreamIntact`: files and the
stream do not overlap, and the stream survives other writes.
`NewestRecordWins`: no record lies beyond the end of the log as `mount()` sees
it.

What does not hold, and is left out of the runs for that reason.  When a program
reports failure although it did its work (`wait_ready` in the driver times out),
`flashfs_write` and `flashfs_delete` leave the RAM directory as it was, while the
next mount will find the change (`flashfs_rename` and compaction mount again
instead).  So `DirIsDurable` and `ImplementsStore` are checked with power cuts
only; `DurableAllowed` and `NewestRecordWins` with failures too.

Findings.  (1) `BootLosesNothing`, run `flashfs_fullrename`: `flashfs_rename`
with a full directory appends the new name's record, which the next mount skips
because the directory is full (`flashfs.c:172`), and then the old name's
deletion, which it does not skip: the file is gone.  (2) `NewestRecordWins`, run
`flashfs_gap`: a record whose program operation fails without touching the flash
still consumes its slot; the slot stays erased, and every later record lies
beyond what the next mount takes for the end of the log (`flashfs.c:202`, `:159`).


### FileArea, UsbTransfer: the transfer protocol

`UsbTransfer` models `usb/usb_cdc.c`: a call of `usb_cdc_process()` is a series
of `ProcessStep`s (at most `Guard`, the loop's own limit) and a `ProcessEnd`;
then the apps have their turn (`AppTurn`), in which they may write or delete a
file.  The PC side is `tools/upload.py`: one command, then its replies; it may
stall (`Wait`) or give up (`HostGiveUp`).  Bytes move between the PC and the
rings at any time (`HostSend`, `HostReceive`).

| variable | code |
|---|---|
| `rx`, `tx` | the rings, as sequences of tokens |
| `txUsed` | `s_tx_tail - s_tx_head`, how full the transmit ring is |
| `st`, `list`, `xfer` | `s_st`, the LIST snapshot, the fields of the file being sent or received |
| `junk`, `skipLf`, `quiet` | `s_len > 0`, `s_skip_lf`, `SEND_TIMEOUT_MS` since `s_last_rx_ms` |
| `turn`, `guard` | where the main loop is, the steps of this call |
| `fs` | the filesystem as its callers see it |
| `host` | the PC |

A token is a whole command line up to its first end-of-line character, a whole
reply line, or one unit of file data; the `\n` of a `"\r\n"` is a token of its
own, because it may arrive a packet later, and a unit of data may have the value
of `\n`.  A reply has a width, and one that does not fit the transmit ring is
cut as `usb_cdc_write()` would cut it.  A bad name, a bad size and an unknown
word are one command `BAD`.

`FileArea` is what `UsbTransfer` sees of `fs/flashfs.c`.  Every operation returns
the set of its possible results; since the log is not part of it, a call may
compact at any time, which moves every file and ends the stream.  The log itself
is FlashFS's subject.

| run | bound | shows |
|---|---|---|
| `usb_session` | one file of 0 or 3 units in a pool of 3 (a buffer holds 2), two edits of the apps, a compaction in any call, failing flash operations, lines that end in `"\r\n"`, data that looks like an end of line | `InSync`; `TransfersFaithful`: what a SEND acknowledged is stored, what a RECV delivered is the file; `ProtocolKeepsFiles` |
| `usb_giveup` | one file of 0 or 2 units in a pool of 2, the PC gives up once, one edit of an app, a compaction in any call, no failing flash operation | `RepliesWhole`, `AlwaysEnds` (every command ends, and the protocol comes back to the command line) |
| `usb_recvmoved` | one compaction during a RECV | the finding |

Fairness: the main loop and the clock go on, and the PC's USB controller moves
bytes both ways as long as there are any and the rings take them.  The last is
the PC's side of the bargain, and only while its program keeps the port open; a
PC that gives up is a step that needs no fairness.

Finding, run `usb_recvmoved`: `recv_step()` keeps the offset that `open_read`
returned.  If a file written by an app compacts the filesystem in between, the
offset is outside the active area, `flashfs_read()` fails, and the state goes
back to `ST_LINE` without a word: the PC waits for bytes that never come, which
the comment at `usb_cdc.c:252` rules out.  After a second compaction the offset
is inside the active area again, and other bytes are sent; `DownloadRight`
excepts that case (`xfer.moves > 1`: `moves` is history, the compactions since
the RECV began), `CommandsEnd` the first.

`ProtocolKeepsFiles` is the comment "the old file stays until the new one is
complete. If both don't fit, replace it" (`usb_cdc.c:181`): a SEND that begins
leaves the old file where it is, unless old and new (and all others) are more
than an area holds.  In `usb_session` old and new may fit only after a
compaction (an empty old file, and a pool filled by one that was deleted): the
begin then compacts and the old file stays.  The code falls short of the comment
in one place: line 183 looks at the answer of `flashfs_stream_begin()` and not
at its reason, so the old file also goes when both fit and the compaction the
begin needed met a failing program or erase.  The property excepts that case
and no other: `fs.broke`, history, says that the flash failed in this very
command (`fs'.broke` in `OldGoesFirst`).

The runs' lines end in `"\r\n"`, as `upload.py` sends them; a PC that ends them
with `"\n"` alone is an `eol` of its own (`Eols`), covered by the theorems.

### UsbDevice: the data path under the protocol

`UsbDevice` models both rings at the level of their indexes, the endpoint flags
of `usb/usb_device.c`, the OTG_FS core and the PC's controller.  The main loop is
cut at every point where an interrupt changes what it sees: between the store of
a byte in a ring and the move of its index, between the read of VBUS and its use.
An interrupt that is pending is taken before the main loop's next step.  Bytes
are numbered in each direction modulo `RxCount` and `TxCount`, which are larger
than what can be on its way, so that a byte lost, repeated or out of order shows
in `RxInOrder` and `TxInOrder`.

Assumptions about the world.  The core keeps the packets of its receive FIFO in
order, so that a SETUP that follows a data packet is handled after it
(`IrqSetup` waits for an empty FIFO).  Stages of an enumeration are milliseconds
apart: the interrupt handler, and a poll that has begun, are over before the
next one.  The controller sends a packet only to an endpoint that accepts it.

In the run `system` (part `"usb"`) a ring has two bytes of room and a packet at
most two, so that a ring wraps, runs full with room for one byte but not for a
packet, and a reply ends exactly on a full packet.  `BytesInOrder`: no byte is
lost, repeated or out of order either way.  `TransfersGoOn`: the endpoint is
armed again, by whoever notices the room, and the PC is not left waiting after a
full packet.  Fairness: interrupts are taken, the main loop goes on and does not
leave received bytes alone for ever (`SF(Reading)`: `usb_cdc_process()` runs in
every turn of the app task and every state but a full transmit ring reads), and
the PC goes on reading.

### UsbControl: endpoint 0

The requests of an enumeration, as `handle_setup()` answers them: replies of
several packets, the packet of no length that ends a reply shorter than asked for,
a data stage of the PC (the line coding), a status stage, a stall.  A request is a
record of what it is, how much there is and how much the PC asks for.  The PC may
give a request up and send the next SETUP at any time, also with a packet of the
old reply queued or just gone, and may reset the bus.  `RepliesExact`: a reply
that the PC took to the end is the first `wLength` bytes of what was asked for,
nothing of another request.  `RequestsEnd`: a PC that does not give up gets an
end.

`LongMasks` says whether interrupts may be masked for longer than a PC waits
before it gives a request up.  The run says no: `qspi_op()` masks them for an
erase, at most 2 s, and PCs wait 5 s for a control transfer.  With `TRUE`,
`RepliesExact` does not hold: the completion of the old reply's packet is handled
after the next SETUP's reply was begun.  `PROJECT.json` lists it as a hazard.

### Scheduler: the tasks

`Scheduler` models `kernel/scheduler.c` and `task_idle()`, with SysTick between
any two reads of the loop that picks the next task.  `readyAtStart` and `passed`
are history: who was ready when the loop began, and how often others ran since a
task became ready.

In the run `system` (part `"tasks"`) there are four tasks, as `kernel_run()` adds,
but with three priorities, so that two share the highest.  `RightTaskRuns`: the
CPU never waits in `WFI` while a task above the idle task is ready (the reason for
the masked check before it), and who runs has the highest priority; a tick in the
middle of the loop may make ready a task that was already passed over, hence "of
those ready when the loop began".  `TakeTurns`: "tasks of equal priority take
turns", each other task runs at most once before its turn.  `TasksRun` holds for
the highest priority only: nothing keeps a task from starving those below it.
Fairness: SysTick goes on, the main loop goes on, `WFI` returns once a tick is
pending.

### Keyboard, Kernel: input, sleep and wake

`Keyboard` models `hal/keyboard.c`: a scan reads one row at a time (`ScanStart`,
`ScanRow`) while contacts close, open and bounce (`Contact`); a poll then takes
one event or none (`Polled`).  `steady` counts the passes since the watched key's
contact changed, `told` what the readers of the ring know.

`Kernel` is the main loop over it: `task_input()` (`InputEvent`, `InputDone`,
`InputCheck`), `task_shell()` as far as the queue and the brightness go
(`ShellEvent`, `ShellEnd`), and `power_sleep()` (`SleepClocks` ... `Wake`).
`power_sleep()` is called from two places of `task_input()` and returns there
(`back`).  In between the user presses keys, the cable comes and goes, and time
passes.

| variable | code |
|---|---|
| `pc`, `back` | where the main loop is, and `power_sleep()`'s caller |
| `evq`, `redraw` | how full `s_evq` is, `s_redraw_pending` |
| `idle` | `AUTO_SLEEP_MS` since `s_last_input`; not tracked while asleep, as waking sets `s_last_input` |
| `low`, `clk`, `tick` | `power_sleep()`'s `low`, the clock that runs, SysTick's period and the clock it was computed for |
| `parts`, `light` | what has power; the driver's count of the backlight's level, and the chip's own |
| `grace` | history: woken, and nothing has asked it to sleep since |

The order in which the tasks run is the scheduler's; here any.  A program that
polls the keyboard itself (a running Python program, the line input) is not
modelled.

Run `kernel`: one key that repeats and ON/OFF, in two rows (a pass that reads the
one before a change and the other after it), rings so small that events are
dropped, two levels of brightness.  `Watched` is ON/OFF: what is said of debouncing
is about one key at a time, and the rest of the state distinguishes the keys only
through `Repeats`.  `KeyEvents`: after two quiet passes the driver knows the truth,
although it reads no rows at all when the last pass found nothing down, and
presses and releases in the ring add up to the keys that are down, but for a key
whose last event was dropped (`lost`): the ring then misleads about that key alone,
and its next event, or a repeat of it, puts it right.  A second repeating key,
which takes over the auto-repeat, is left to the theorem.  `AwakeRestored`, `ClocksRight`: sleeping and waking, with the cable in
and out, restores all it touched.  `WakeLasts`: after waking it does not fall
asleep again by itself.  `SleepServes`: asleep, ON/OFF wakes it and a PC that stays
connected is served; liveness under the fairness that the main loop goes on
(nothing is assumed of the user, the cable or the clock).

### FlashChip, QspiDriver, Loader: the flash under the program

`FlashChip` is the memory chip as `storage_qspi.c` and `loader.c` use it
(external): what it makes of a command depends on whether it is busy, asleep or in
continuous read, and only a power cut makes it forget that.  It may have a defect:
it hangs, does not answer, is write-protected, or does not keep its quad bit.

`QspiDriver` has one action per command that `qspi_op()` sends.  Programs run from
this very chip, so an operation takes it out of memory-mapped mode, does its work
from RAM with interrupts masked and maps it again whatever went wrong; what was
done is then compared.  `Loader` is the way from `Reset_Handler` to the OS or to
recovery, again a command at a time, with the chip in whatever state a reset or a
power cut (`Reset`, `PowerCut`) left it; `OsCall` is any call of the driver once
the OS runs.

| variable | code |
|---|---|
| `qpc`, `call`, `at`, `r`, `res` | where `qspi_op()` is, its arguments, `n` of the loops, `r`, what the call returned |
| `usable`, `usesCont` | `s_ok`, `s_cont` |
| `stage`, `lpc`, `quad` | who runs, where the loader is, and the QE bit that it read last |
| `cells`, `job`, `wel`, `cont`, `dpd`, `qe`, `defect` | the chip |
| `lost`, `resets` | history: commands that timed out, resets |

Run `system`, part `"start"`: a flash of two blocks of two pages that a big block
covers, one command that times out, two resets, every defect, and any contents of
the flash's units, continuous read, sleep and quad bit at the start.
`FlashTells`: a call that reports success has done all of it, one that fails was
kept from it by the chip or a lost command, and whenever code runs from the flash,
the flash can be read in the mode the controller reads it.  `StartsEach`: recovery
takes over only where there is a cause, and the vector table is read from a chip that
gives its contents, unless it hangs or a command was lost; on four lines only from one
that has its quad bit and is not at work.  The write of the status register makes the
chip busy, a lost command may have been carried out or not, and the third `q_ready()`
(`loader.c:282`) may fail: the code maps the flash all the same, and `Vectors`, the
first mapped read, then finds what the chip gives.  That a start comes to its end is stated without fairness: the loader always
has a step to take, or waits for a chip that will finish, and its steps go one way.

FlashFS assumes of the driver what `FlashTells` says, and of a failed primitive
whatever `FailEffects` allows, "done" included: that is the command whose end was
not seen in time.

### Display: the framebuffer and the panel

`Display` models `hal/display.c` from the clipping of a call to the pixels of the
panel: `FillRect` for all calls that fill, `Image` for those that draw pixel by
pixel, `Frame` for `display_rect()`'s four lines, `Flush`, and the panel's power.
`PanelShows`: the panel shows the framebuffer but for what is in the dirty
rectangle, which lies on the screen, whatever was drawn, clipped, off the screen
or while the panel had no power.  Run `system`, part `"display"`: four pixels of
two shades, rectangles that lie on, across and beyond every edge, also from far
outside on both sides, and empty ones.

### System: one run for what is under the apps

The parts share no state; what they do for each other are calls (the scheduler
runs the tasks in which the display is flushed and USB is polled).  So a behaviour
of `System` looks at one of them.  A leads-to or fairness property of one part
mentions only its steps, and the fairness of `SystemSpec` is stated for the
program (`Program`) and for what it works with (`Surroundings`), which for a
behaviour of one part is fairness of that part's steps.

### TextEditor, FileManager: the apps that change files

`TextEditor` models `apps/text_editor/text_editor.c`, one action per kind of key;
a key that does nothing (a character while the text is full still scrolls) is the
stutter it is in the code.  `FileManager` extends it with `ui/filemanager.c` and
with what surrounds both: the home screen and the shell that start them
(`HomeOpen`, `ShellFm`), the shell's `touch` and `rm` (`ShellFile`), uploads and
deletions over USB (`Usb`), the redraws the kernel owes (`Redraw`) and waking up
(`Wake`), which draws the app again and so loads the list again.

| variable | code |
|---|---|
| `files` | the filesystem, as `FileStore` promises it: each call is done or not |
| `app`, `redraw` | `g_kernel.app_state`, the pending redraw |
| `text`, `cpos`, `scroll`, `hscroll` | `s_text` up to `s_tlen`, `s_cpos`, `s_scroll`, `s_hscroll` |
| `filename`, `modified`, `shift`, `naming`, `name` | the variables of the same name |
| `items`, `cursor`, `top` | `s_items`, `s_cursor`, `s_scroll` of the file manager |
| `armed`, `question` | `s_del_armed`; the name the footer shows, which is on the screen only |
| `kept` | history: nobody else has changed the document's file since it was loaded or saved |

A write or a deletion that fails changes no file; both outcomes are possible
every time (what a power cut leaves is FlashFS's subject).  A name is typed as a
whole (`NamingType`): how many characters it has is not what the properties are
about.  Names do not start with a dot, the file manager hides those.

In the run `apps` (part `"files"`) there are two files, texts of up to two
characters of one glyph and the newline, a screen of one line of one column and a
list of one line, so that everything scrolls; the PC sends a text that fits and
one that does not.  Two constraints bound the files, not the document: `OneTyped`
keeps what was typed to one file at a time, as two typed files are never compared,
and `ShortTyped` to texts below the limit, so that one at its limit is saved but
not opened again.  The `VIEW` leaves out the list while another app is shown and
the typed name while none is asked for; both are set again before they are read.

`ShownSaved`: a title without the star is true, unless somebody else changed the
file.  `DeletesWhatWasAsked`: between the first and the second SHIFT the
calculator may sleep, USB may change every file, and the list may be loaded
again; what goes is what the question names.  `CursorsShown`: the
cursor of the list stays in it and on the screen when files disappear, and the
editor's on its screen, moving by lines, for every text and cursor that the keys
reach.  `NamingIsNew`: the question for
a name cannot be left behind and take the keys of another document.

Met while modelling, none of them contradicts a property above.  A new, *empty*
document whose first save fails keeps its name, as line 310 ("failed: stay
unnamed") looks at `s_modified`, which was never set; `ShownSaved` makes that
exception.  Such a document, or any other one, overwrites what the PC stored
under its name meanwhile.  The list is not loaded again when USB changes the
files, so opening may fail, or open what is there now.  Opening a file or a new
document drops unsaved changes without a question.

### AppState, Apps: what the apps share

`AppState` declares the files (as `FileStore` promises them: a call is done or
not), the app that is shown, the redraw that the kernel owes, and the settings
with the best scores, in RAM (`prefs`) and in the file (`prefsFile`; a key may have
no line, or one that is not understood).  `Apps` adds the way from one app to
another: `kernel_set_app()` draws an app *as it is*, which is why state left behind
matters.  Run `apps` looks at one part at a time, with everything that reaches that
part from elsewhere: the PC that writes its file, saves that fail, sleep, a restart.

The model of a *screen* is what was drawn last, part by part, in the order the code
draws: a key that redraws two cells changes two cells of it.  Properties compare
the screen with the state; how something looks is left out.

| module | state ↔ code | one action per | bounds in the run |
|---|---|---|---|
| Tetris | `board`, `piece` ↔ `s_board`, `s_px … s_prot`; `painted` the screen | key, tick, drop, new game | board 4 × 4, two shapes with all rotations, 6 locked pieces, a level every two lines |
| Snake | `body`, `occupied`, `dir`, `nextDir` ↔ `s_body` (the ring), `s_occupied`, `s_dir`, `s_next_dir`; `snakeScreen` | step, turn, new game | field 4 × 2, until it is full |
| G2048 | `tiles`, `points` ↔ `s_board`, `s_score`; `fours` history | move in four directions, new game | 2 × 3, to the tile 8 |
| Settings | `prefs`, LED (`led`), battery, `usb`, `suspended` | row and key, battery poll, cable, sleep, reset | three voltages around one threshold, two colours, one step of brightness |
| Menus | `selected`, `firstRow`, `game`, `docs` ↔ `s_cur`, `s_top`, `s_sel`, `s_page` with `s_scroll`; `cells`, `drawnGame`, `drawnDocs` the screen | key of the home screen, the games menu, the help | 11 items in 3 columns and 2 rows shown, 3 games, 3 pages |
| PythonFiles | `writers` ↔ `nwos_open_files`; `running` what runs; `loaded` what an import read; `owed` history | open, write, flush, close, remove, rename, import, the ends of an entry, a file, the app | 2 names, 2 slots, texts of one byte, an upload of two |
| Shell | `ring`, `cmdInput`, `cmdHist` with `head`, `count`, `pos`, `rx` ↔ `s_lines`, `s_input`, `s_hist…`, the UART's ring; `screen`; `said`, `ran` history | key, UART byte, tick, command | 2 × 2 characters, line of 2, history of 2, UART ring of 2 |
| Statistics | `table`, `place`, `edit`, `statsFile` ↔ `s_x`/`s_y`, `s_row`/`s_col`, `s_buf`, the file; `strange`, `apart` history | key, upload, restart | 2 rows, 1 shown, 3 numbers: one of them infinite, one that loses digits in the file (a y only, `LongAreY`) |
| Formulas | the text as tokens; a list of numbers | a key typed, a number added | 5 tokens of 9 kinds, 6 numbers of 3 (or 3 points) |
| Console | `script` what runs; `pending`, `graphics`, `sinceShow` ↔ `s_pending`, `s_graphics`, `s_last_show`; `seen` the screen; `late`, `backFor` history | print, draw, sleep, `input()`, poll, key, end, unit of time | SHOW_MS 5 and POLL_MS 2 units of 10 ms, 4 pieces of output, queue of 2 |
| LineInput | `buf`, `mod`, `changed` ↔ the locals of `line_input()`; `drawnBuf` the screen | key, character, turn of the loop | buffer of 3, two keys |
| CodeColours | `code`, a line; the pieces that `draw_code()` draws of it | a character typed | lines of 4 of 9 kinds of characters, 2 columns, every scroll position |
| Calculator | `hist`, `hsel`, `expr`, … ↔ `s_hist`, `s_sel`, `s_expr`; three parts of the screen | key | history of 2, line of 2, 1 row |
| Graphing | `fns`, `fsel`, `view`, `tracing`, `menu`, … ↔ `s_fn`, `s_sel`, `s_view`, `s_trace`, `s_menu`; `drawnFns` the screen | key | 2 functions, 2 texts and a wrong one, 2 analyses |
| Equations | `mode`, `fields`, `answers`, `editingField`; `drawnEq` the screen | key | quadratics with coefficients -1..1, -2..1, -1..1; four systems; one edited field |
| PythonApp | `pyLine`, `block`, `echoed` ↔ the line, the block and what is on the screen | key | line of 3, block of 6, indentation of 2 |

The bounds make every limit a place that is reached: a full board, field, history,
table, line, ring and slot; a list longer than its screen; a level that wavers.

`GamesAddUp`.  Tetris: every cell of a locked piece is on the board or in a cleared
line, no full line stays, and the cells painted piece by piece are the board and the
piece.  Snake: ring, map and screen agree, also when the head takes the cell that the
tail leaves; the apple is on a free cell.  2048: the score is what the tiles on the
board cost to merge (a number that two loops over four directions have to agree on),
and the game is over exactly when no direction moves a tile.

`SettingsTell`: what is in use is what a restart would load, and the LED shows the
charger, the chosen colour, or nothing, in this order, whatever came and went in
between.  `LevelSteady`: the level goes back only after twice the hysteresis.

`ScreensTell`: calculator, functions, equations, home, games and help show the state
they have, though most keys draw a part; the roots that are shown solve the equation
and none is missed; the Python prompt runs the block that is on the screen.
What a script prints reaches the screen within SHOW_MS and a poll (a bound that is
exact: one unit less is violated), at once before it sleeps or asks for a line, never
over what it drew, and all of it in the end; BACK is seen within POLL_MS.  This takes
for granted that MicroPython calls `nwos_mp_poll()` in every 10 ms
(`MICROPY_VM_HOOK_COUNT`); how it raises the interrupt is its own.  `line_input()` never
waits with a line on the screen that is not the line it holds.

`ShellShows`: the ring of lines is the end of what was printed (`said`, kept by
another definition), and UP recalls what ran.  `StatsKept`: leaving writes the table,
or it stays marked, and a restart reads back every row with a number, ten digits of each
(`"%.10g"`): the numbers of the run are one that is its ten digits, one that is not, and an
infinite one, which the file may hold and a cell does not take.  `ScriptsSave`: nothing that `write()` took is lost without the
script or the user being told, and slots come back.

`ReadsRight` is about what is read from a text or a list.  Its first half is
`CodeShown`: a line of Python is drawn column by column once, in the colour of what
the column is part of, at every scroll position: tokens, runs and clipping are
compared with an automaton that reads one character after the other.

Its second half, `FormulasRight`, checks the pure functions of `apps/common` against
other definitions.  `MCApps` adds them to the run as a part of their own: `Formulas`
declares `RECURSIVE` operators, which `Apps`, about which theorems are proved, cannot
reach.  The parser of `expr.c` (left to right, with a depth) is compared with
`Means`, which reads an expression from where it splits: at its last sum, else its
last product, written or not, else a sign, else its first power.  Values are trees of
operations.  Median and quartiles are compared with what they mean (how many numbers
are above and below), the bins and bars of the histogram with the values between
their ends, and the regression line, in exact fractions, with the normal
equations: what it leaves adds up to nothing, alone and times x.  The mutants are
associativity, the middle of an odd list, the largest value in a bin too many, and b from the mean of y.

Abstractions.  An equation's root is `u/d + v/d*sqrt(D)`, kept as integers; the
iteration of the single equation, the window of the graph and the analyses are
doubles, which TLC does not have: each is any outcome that the code can have.  A
calculator's result is any of a small set.  Random numbers (pieces, apples, tiles)
are any.  Names, words and texts are model values.

Finding, run `functions_pick`: trace a function, go back to the list (the trace stays
on), delete every function, open the graph, press UP: `s_sel` is computed modulo
`s_nfn`, which is 0 (`functions.c:376`); `PicksAFunction` is what the head of the file
says of UP and DOWN.

Seen while modelling, outside what the runs state:

- Tetris: J and L change into each other on a half turn, and S into Z on three
  quarters of one (`SHAPES`, `tetris.c:42`); the model takes the table as it is.
- Snake: LEFT as the first key of a game turns the snake, which starts to the right,
  into its own neck (`snake.c:151` looks at `s_started`), although the line's comment
  says "no reversing into yourself".
- equations: SHIFT does not redraw the title that shows it (`equations.c:258`);
  answers stay on the screen when a field has another value, until they are asked for
  again.
- functions: HOME leaves the graph with its menu still open, and a key that
  does nothing there forgets the banner's text while it is on the screen.
- mp_port: "Keys pressed while a script runs are consumed" (`mp_port.c:151`) holds for
  those pressed before the last poll; later ones, or all of a script that ends within
  20 ms, go to the app afterwards, or end the pause after a drawing at once.
- shell: EXE on an empty line takes a SHIFT or ALPHA back (`shell.c:193`), but nothing
  sets `s_dirty` (`:156`), so `refresh()` returns at `:174` and the title still shows it
  until something else is drawn.  `ShellShows` says of the title only that it never hides
  one that is on.
- statistics: `strtod()` takes "nan" for a number, so a line of the file that begins with
  it becomes a row, and one of two empty cells if it has no y (`statistics.c:92-98`); such
  a row is saved as a line without numbers, which the next start skips.  The text of an
  infinite number, which the same call reads, is none that `commit()` takes (`:396`).
- statistics: a failed deletion of an empty table's file is not noticed
  (`statistics.c:122`); the model allows the old file to be there.


## Proofs

Proved with TLAPS for every value of the constants that their `ASSUME`s allow.
Where a theorem has a hypothesis on a constant, it is stated here.

| module | theorems | state (of the runs' properties) |
|---|---|---|
| FlashFSProofs | `ActiveAreaOutranks`, `NewestWins`, `CrashesAreSafe`, `DirectoryIsDurable`, `NothingRefused`, `FilesWellFormed`, `NoFileVanishes`, `BehavesLikeStore` | `ActiveOutranks`, `NewestRecordWins`, `DurableAllowed`, `DirIsDurable`, `NeverRefused`, `WellFormed`, `BootLosesNothing`, `ImplementsStore` |
| UsbTransferProofs | `RepliesFit`, `OneCommandOneAnswer` | `RepliesWhole`, `InSync` |
| UsbDeviceProofs | `BytesKeepOrder`, `AcceptsWhatFits` | `BytesInOrder` |
| SystemProofs | `FlashIsTrue`, `LoaderStartsRight`, `SchedulerTypes`, `NoSleep`, `RightOneRuns`, `TurnsAreTaken`, `PanelIsRight`, `FlashTellsTrue`, `RepliesAreExact` | `RightTaskRuns`, `TakeTurns`, `PanelShows`, `FlashTells`, `RepliesExact` |
| KernelProofs | `KeysAreTold`, `AllIsRestored`, `ClocksFollow`, `WakingLasts` | `KeyEvents`, `AwakeRestored`, `ClocksRight`, `WakeLasts` |
| GamesProofs | `GamesKeepCount`, `SettingsTold`, `BatterySteady` | `GamesAddUp`, `SettingsTell`, `LevelSteady` |
| AppsProofs | `QuestionIsForNew`, `DeletesAsked`, `TitleIsTrue`, `CursorsStayShown`, `StatisticsKept`, `ShellTold`, `ScreensTold`, `ScriptsSaved` | `NamingIsNew`, `DeletesWhatWasAsked`, `ShownSaved`, `CursorsShown`, `StatsKept`, `ShellShows`, `ScreensTell`, `ScriptsSave` |

### The filesystem

The system's main promise: after a power cut in any primitive, with any effect that
a cut primitive may have, every name reads as it was last acknowledged or as it was
being written (`CrashesAreSafe`), and the whole, seen from its callers, is a store
in which each call is one change (`BehavesLikeStore`, a step-by-step refinement).

None of the properties is inductive.  The invariant is built in three layers.

`GenInv`: a mount takes the area with the greater generation, which is only the
right one because the two differ whenever one is valid, and because nothing is
valid while the flash is being formatted.  It holds with every kind of failure;
`PrimitiveSuper` says what one primitive can do to the superblocks.

`SpanInv`: where the logs end.  `s_log_used` counts a slot before it is programmed,
so it is the end of the log plus one at `body` and exactly the end elsewhere, and a
slot of a valid log is never skipped.  That needs `FailBudget = 0` or that "nothing"
is not among `FailEffects`: primitives may fail, but not without having done
anything.  This is the hypothesis of `NewestWins`; without it the run `flashfs_gap`
shows the finding.

`FSInv` adds, one conjunct each: which call can be where (`OpInv`); that what a call
looked up when it began still holds when it acts on it (`AskInv`); that the
directory in RAM is what the records up to the end of the log say, also half way
through a replay, and for the second of a rename's two records (`DirInv`); that the
files end before the space that is handed out next and everything behind is blank
(`SpaceInv`); that the stream's part on the flash is what was sent and its
reservation blank (`StreamInv`); that the area being laid out holds exactly the
files copied so far (`LaidInv`); and that what is promised to the caller covers what
a mount would find now and what it will find when the call ends (`Promised`).
The lemmas are arranged by what a primitive can do (`KeepsLog`, `CommitLog`,
`UpData`, `KeepsFiles`, `CommitDurable`, `SuperDurable`), since a power cut, a
success and a mount all run the same primitives.  `FSInv` was also checked with TLC
on the instance of `flashfs_power` before it was proved.

Hypotheses of the theorems about `FSInv`: `FailBudget = 0` and `~FullDirRename`.
So power cuts are anywhere, but no primitive reports a failure of its own accord,
and nothing is renamed while the directory is full.  Both are needed: the runs
`flashfs_fail` (with what it leaves out), `flashfs_gap` and `flashfs_fullrename`
show what happens otherwise.  `AbsentAssumption` says that "no file" is not a
content.  `NoFileVanishes` states `BootLosesNothing`, which a run only checks
where it fails.

### The transfer protocol

`RoomInv` holds the types and one fact about two rings: while a SEND is under way
the transmit ring has room for the longest reply to its end.  `SendTimeout` does
not look at the room, so this is what `RepliesFit` needs; it holds because a SEND
only begins where there is room for its READY and for one more reply
(`ReplyRoom`).  The PC may do anything, and give up at any time.

`TalkInv` tells the stages of a conversation apart: asked, listing, delivering,
inviting, taking, answered, idle.  For each it says what is on its way in both
directions, as one sequence through the PC's buffer and the ring (`Wire`), less the
`\n` that is going to be dropped (`Pending`): in a RECV, that what the PC has been
promised and has not got, less what is in the ring, is what `recv_step()` has left to
send; in a SEND, that what is pending is exactly the data still missing.  A RECV that
broke off is a stage of its own, of which the PC never returns; it is what the run
`usb_recvmoved` finds.  The hypothesis of `OneCommandOneAnswer` is `MaxGiveUps = 0`:
with a PC that gives up, late replies belong to no command, and `InSync` is false.
Flash failures and the apps' edits and compactions are unrestricted.

### The device stack

`DataInv`: a slot of a ring that is in use holds the byte that its distance from
the head says (`Ahead`, the arithmetic of a ring); the packet in the FIFO or in flight
continues it; and in each stage of a copy the index that has not moved yet is
accounted for.  Since a reset and an unplugging come in anywhere, `Linked` and
`TxOne` say what the flags still mean after one.  From the same invariant,
`AcceptsWhatFits`: an endpoint is only armed while a whole packet fits.

`ControlInv` is about requests on endpoint 0.  It says at which of eight places the
driver and the host are with the request (`Phase`: idle, asked, sending, closing,
and those of the line coding, of a status stage and of a stall) and, while a reply
is sent, that what the host has got and what is in the FIFO are consecutive parts
of the reply (`Part`, `PartsJoin`) that end where the driver goes on; a packet
shorter than `MPS` is the last.  What makes it inductive is that the handler,
when it reads a SETUP, never also finds that a packet of the old reply has just
gone.  That is the hypothesis of `RepliesAreExact`, `LongMasks = FALSE`; with
interrupts off for longer than the host waits, `RepliesExact` is false.

### Loader and storage driver, display, scheduler

`StartInv` follows the chip's mode through resets that do not reset the chip, power
cuts and lost commands (`Modes`), what has been erased or programmed so far (`Done`,
`ToDo`) and what the driver may answer (`Answers`).  `FlashIsTrue` is that a call
that answered success did all of its work, that one that failed had a cause, and
that code which runs from the flash can read it; `LoaderStartsRight` that
recovery has a cause, and that the loader reads the vector table from a chip that gives
its contents, or else one hangs or a command was lost.  What the loader knows of the
quad bit when it maps the flash (`quad`) is what it read last: before the write, which
was to set it, or after a `q_ready()` that saw the write at its end.  So four lines are
used only where the bit is on and the chip is not at work, also when a command of the
write was lost and carried out.

`DisplayInv` of `PanelIsRight`: pixels that differ from the panel lie inside the
dirty rectangle (`Shows`), which needs that the rectangle is empty or on the screen
and that growing it by clipped drawing covers both (`GrownHolds`).

`IdleInv` holds the scheduler's types and the masked check of the idle task.
`ScanInv` says what the loop has seen so far of the tasks that were ready when it
began.  `TurnInv` orders the tasks by their distance from the one that ran last: a
task that has been overtaken `k` times is at most `N - 1 - k` places from its turn;
`TakeTurns` follows.

`SystemProofs` carries the parts' theorems over to the behaviours of `System`
(`PartsHold`), in which each part's steps are those of its own specification.

### Kernel, editor, file manager

`PowerInv` says which clock runs (`low`), that SysTick follows it, and that the
driver's count of the backlight's level is the chip's while it is on; `FullRound`
and `AppliedLit` are the arithmetic of a chip that can only be stepped down and
wraps.  `GraceInv` says that waking resets the time of the last key press.

`KbdInv` of `KeysAreTold` has three parts besides the types.  `TwoPasses`: of a quiet
contact the first full pass leaves the truth in `s_debounce`, the second in
`s_state`, and half way through a pass this is already so of the rows that have been
read.  `NoneDown`: when `s_any_down` says that nothing is down, nothing was known or
read as down, so that a pass that reads no rows agrees with one that does.  `Told`:
what the readers of the ring know once they have taken all of it is `s_state`, but
for the keys whose last event was dropped, and the key that repeats is down, so a repeat that is dropped tells nobody less.  It is
kept by each key of a row (`LookedRight`) and so by the row, a loop that is a
recursive function: `RowAt` finds that it has values, `RowRight` that each keeps
`Told`, both through the least place at which it would fail.

`NamingIsNew` is inductive as it stands.  What a key deletes depends on three
variables that change at different moments, so `QuestionInv` says that while the
list is shown the question is always about the entry under the cursor of the list as
it was loaded last; `DeleteStep` then finds the only action that takes a listed file
away (`FilesNamed`, the domain of the files, is needed to say that it takes away no
other).

`SavedInv` adds to `ShownSaved` that a document without a name and without changes is
empty: so what it is named is true of it at once.

`PageInv` (texts are sequences, `CursorShown`), `ListInv` and `QuestionInv` give
`CursorsShown`.  Its second part, that UP and DOWN go to the line above and below and
keep the column as far as that line goes, is proved of the operators for every text
and every place in it (`UpGoesUp`, `DownGoesDown`): the line that the cursor is on is
the number of newlines before it (`LineAt`), which never falls on the way to the end
of the text and grows by one behind a newline, so a line starts behind the newline
that ends the line before (`BehindNewline`).  Where the argument is an induction, it
goes through the least place at which it would fail (`MinIsLeast`).
The section of `AppsProofs` on the editor is about TextEditor and FileManager alone
(`FileManager`'s `Spec`), that of `SystemProofs` on the scheduler about `SchedSpec`:
the runs check the same definitions inside `Apps` and `System`, where these are the
steps of one part.  Everything below is about `AppsSpec` itself.

### Games

`GamesInv` has one conjunct for each game.  A `...Frame` lemma says for each part that
a step of `Apps` is one of its own or leaves its variables alone, so the rest of the
proof is about the game.

Tetris (`TetrisInv`): the squares on the board and in cleared lines are four for each
piece locked, and no line is full.  The second is about `Sweep`, a loop that looks at
a row again when it dropped the ones above.  `Swept` is what holds after `i` looks:
the rows below the one it looks at are not full, each look either went up or cleared
a line, the squares that are left and those of the cleared lines are as many as there
were, and as many rows at the top are empty as lines were cleared.  So 2·BH looks are
enough.  That no more than four lines are cleared at once, which the table
of points needs, follows from `Old`: of what the board had, no line was full, so each
cleared line has a square of the piece.

Snake (`SnakeInv`): the ring has each square once, the map is the set of the ring's
squares (also when the head goes where the tail leaves), the apple is outside it or
there is no room, and the score is ten for each apple.

2048: `Slid`, `Gained` and `SumOf` are recursive functions over lines and squares.
`LineStates` are the states of the merging loop.  Each square either is empty, merges
with the one before or is appended (`Skips`, `Merges`, `Adds`), and each of these
adds as much to the score as it adds to the worth of the line (`Carries`); `Band` and
`Seg` carry this from a line to the board.  From the same loop: a line that merged has
at least half of its tiles, and the board changes exactly when `CanMove` says so, which
is a condition on two squares, so `gover` is right.

### Settings

`PrefsFit`: the settings in RAM are of their types, with every key and nothing else,
so that what `prefs_save()` wrote parses to what is in use (`PrefsSaved`); in a game
the same holds of the best scores.  `LampInv`: the LED's three inputs, whatever came
last.  `LevelInv` remembers at which voltage the level left the one it had before
(`turned`), and `BackIsFar` is the arithmetic of two thresholds and a hysteresis.

### Statistics, shell

`StatsInv`: the table has no empty row but for a `nan` of the file (`FullRows`), and is
what the file gives, or what it gave before ten digits of each number were written, unless
it is marked or the PC wrote (`OnFile`); the place in it is one of its rows or the one
behind, and in the part that is shown.  `Loaded` reads a file row by row: from one that
the app saved it takes every row with a number, the first `i` lines giving as many rows as
are not empty among them (`LoadedBack`), from another no more than fits.

`Holds` relates the shell's ring of lines to `said`, what was printed: the last rows of
both are the same, counted backwards modulo `SHELL_ROWS`.  It is kept by a character and
by a newline, and so by an output of any length (`Pairs`, the two loops run side by
side).  `ShellDrawn`: what is on the
screen is the state, but for a title from before SHIFT went (`RefreshShows`).  `RecallInv` does the same for the ring of commands, `Behind` being the place
of the one `p` commands ago.

### What is on the screen

`ScreensInv` has one conjunct for each app.  Those of the calculator, the functions, the
equations, the menus and the line input (`CalcInv`, `FnInv`, `EqInv`, `MenusInv`,
`LineInv`) say what the property says, that each part of the screen is the state, with
the types and the limits (a selection inside its list, a row in sight, a scroll that
does not leave the page) without which the parts that a key does *not* draw
would not stay right.  That the answers of `Equations` solve what is in the fields is a
matter of polynomial identities (`QuadSolved`, `LinearSolved`) for all integer
coefficients.  `PyInv`: the block's length is counted as it is joined (`LensAre`), and
it runs only from what is on the screen.

`ConsoleInv` is about time.  While output is owed it is marked (`pending`); it has
waited no longer than since the last time that the screen was shown, and after SHOW_MS
of that no longer than until the next poll (`OutputInv`).  So the bound is exactly
SHOW_MS and POLL_MS.

### Files that scripts write

`ScriptsInv`: a slot that owes bytes to its file is open and marked (`OwedIsOpen`), its
name is one of the file system's, and a script runs only while its app is shown.  With
it, every step either keeps what is owed, has saved it, or has said that it did not.
At the end all writers are closed one after another, and where two of them have the
same name the last one stays: `LastSaved` finds it.

### How recursive functions are proved about

The models write loops as recursive functions on numbers or on finite sets.  What such a
function is at a place follows from its definition by `Recursion` and its
consequences, that a property which starts and is kept holds up to a bound by `UpTo0`:
both go through the least place at which they would fail, and a sum over a set through
the least size of one (`GamesProofs`, first section).

### What is assumed of the constants

The `ASSUME`s of the modules, which TLC evaluates in the runs: sizes are numbers and
not zero (2048 at least 2 by 2, Snake at least 4 wide, as its start needs), a new piece
of Tetris fits the empty board (`TetrisSizes`), thresholds ascend (`BatterySizes`), a
setting's default is one of its allowed values (`PrefsAllowed`), a number's ten digits
read back as a number whose ten digits they are (`StatsSizes`), texts are sequences
of characters, and what stands for "nothing" or "wrong" is none of the values.
`BestAllowed`: what is allowed as a best score is what a score can be.  In the code
both are 32 bits, in the model both are numbers of any size; a score that overflows is
outside the model.  No theorem about `AppsSpec` has another hypothesis.

### Only model-checked

- Liveness (`SleepServes`, `TasksRun`, `TransfersGoOn`, `RequestsEnd`,
  `AlwaysEnds`): the prover does not reason about fairness, nor about `ENABLED`
  (`StartsEach`).
- `ReadsRight`: of `FormulasRight` the parser of expressions and `Means`, which it is
  compared with, are `RECURSIVE` operators, for which the prover loses its SMT
  backend; `CodeShown` compares the tokens of a line with an automaton that reads it
  character by character, an induction over the line that is not written yet.
- The filesystem with primitives that fail of themselves, but for `ActiveOutranks`
  and `NewestRecordWins`: `DurableAllowed` in the run `flashfs_fail`.
- Of the protocol what is about the contents of files (`TransfersFaithful`,
  `ProtocolKeepsFiles`): they need the extents of `FileArea` in the invariant, as
  `FSInv` has them for FlashFS.
- `RepliesExact` with `LongMasks`, and `InSync` with a PC that gives up: both are
  false there.

## Not modelled, and why

`PROJECT.json` lists every component with what is left out.

- Start-up (`main.c`), the bootloader, system calls, delays, the watchdog and the
  fault handler: run once, or when nothing else runs any more, or are register access.
- Drawing, fonts, icons, languages: no state that another part depends on; where what
  is on the screen may disagree with the state, it is modelled (`ScreensTell`,
  `GamesAddUp`, `ShellShows`, `PanelShows`).
- The simulator and the tests: not part of the firmware.
- `analysis.c`, the iteration of the single equation, the graph's window, the plots
  and the values of expressions: doubles, which TLC does not have.
- The Python interpreter: a library that is not in the repository; its port is
  modelled as far as files, imports, output, keys and `input()` go.

## Where to go on

Next would be theorems: `ProtocolKeepsFiles` and `TransfersFaithful` with the
extents of `FileArea`; `CodeShown`; `DurableAllowed` with failing primitives, which needs `allowed` to follow what a failed call may have left.  Then
larger instances of `kernel` and `apps`: each part of `apps` can be run alone with
`Parts`, and so with larger constants.
