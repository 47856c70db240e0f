# tigerOS in TLA+

tigerOS is a small RISC-V operating system: a supervisor kernel on one hart with
a timer, a console, a page allocator, a round-robin scheduler, a window system
with mouse and keyboard input and a shell, and next to it OTFS, a FAT file
system on an image file that host tools and tests use. This directory holds TLA+
modules that model those parts, TLC configurations that check them on small
instances, and proofs that TLAPS checks for every instance.

Paths below are relative to the repository (`src/`).

## The system

| Component | State | Operations | Met by |
|---|---|---|---|
| OTFS (`fs/otfs.c`) | a handle (directory, FAT, descriptors) and the image it mirrors | format, mount, unmount, open, close, seek, read, write | host tools and tests; the process may die between two writes |
| Page allocator (`kernel/mm`) | bitmap, free count, hint | init, alloc, free | boot thread |
| Clock and timer (`kernel/clock.c`, `arch/riscv/timer.c`) | tick count, next deadline, the firmware's timer | init, tick | boot thread and timer handler |
| Tasks and scheduler (`kernel/task`, `kernel/sched/rr.c`) | task table, queue, current slot, counters | bootstrap, create, switch | boot thread and timer handler |
| Traps and boot (`kernel/trap.c`, `kernel/main.c`, `arch/riscv`) | armed flag of the self-test, the saved frame | self-test, dispatch | boot thread and timer handler |
| Console (`kernel/console.c`, `drivers/uart`) | the UART | putc, write, polled reads | boot thread and timer handler, without a lock |
| Event queue (`kernel/input/event_queue.c`) | a ring of mouse events | reset, push, pop | mouse driver, drag dispatch |
| Mouse and drag (`drivers/input/mouse.c`, `kernel/wm/drag.c`) | buttons, window bindings, running drag | emit, dispatch | boot thread |
| Windows (`kernel/wm/window.c`, `layers.c`, `focus.c`, `compositor.c`) | frames, layer stack, active window | add, activate, hit test, reset, render | drag dispatch, applications |
| Applications (`apps/`) | window of each task | open, dispatch | drag dispatch by callback |
| Keyboard (`drivers/input/keyboard.c`, `kernel/input/keyboard_dispatch.c`) | modifiers, ring of keys with captured focus, endpoints | scancode, dispatch | boot self-test, terminals |
| Terminals (`kernel/wm/terminal_window.c`, `kernel/tty`) | sessions, two binding tables, history | init, attach, input | keyboard dispatch |
| Shell (`shell/`) | the line being edited, stdout mode, stdin and capture of `fd_table.c` | read a line, parse it, run commands, pipe, redirect | boot thread, from the serial line |
| Paths and in-memory tree (`fs/dir.c`, `fs/path.c`, `shell/path_state.c`) | node table with child lists, current directory, built-in and written files | resolve, cd, mkdir, ls, cat, write | shell, terminals |
| Framebuffer (`kernel/gfx`, `drivers/video`) | pixels | drawing | compositor |

The hard behaviours are these.

* OTFS writes directory, FAT and data as separate regions, without a journal.
  The process can die between two writes, a write can fail, the disk can be
  full half-way through a write. What makes it correct: no two files share a
  block, whatever image a crash leaves; what a call finished survives; reads
  deliver what was written; every image that was closed can be mounted.
* The timer interrupts the boot thread anywhere. The two share the clock, the
  scheduler's globals (which are not volatile) and the UART, with no lock. What
  makes it correct: ticks never run ahead of the time and never starve the boot
  thread, the scheduler's accounts add up whatever part of its queue it finds,
  no byte of output is lost.
* The window system keeps the same fact in several tables of different files
  (layers, focus, drag bindings, application bindings), and mouse events wait in
  a bounded queue while windows come and go. What makes it correct: the tables
  agree, an event reaches the owner of the window it is about, and that window is
  the one drawn at the place of the click.
* The shell runs one command after the other, but what joins them are globals
  that outlive the command and the line: stdout mode, stdin, the capture, the
  half-read line, the operator carried over by the tokenizer. Names and texts
  meet a dozen buffers of different sizes. What makes it correct: a line has the
  effect of its commands and nothing of an earlier line shows in it; the node
  table and the two tables of files are a tree, whatever fails half-way.

## Modules

| Module | Models | Notes |
|---|---|---|
| `OTFS` | `fs/otfs.c` | one caller, calls cut into steps |
| `FileStore` | what OTFS promises | abstract: named byte sequences |
| `OTFSRefinement` | the map from `OTFS` to `FileStore` | |
| `PageAlloc` | `kernel/mm/page_alloc.c` | |
| `PagePool` | what the allocator promises | abstract: a set of free pages, lowest first |
| `Clock`, `Sched` | `kernel/clock.c`, `arch/riscv/timer.c`; `kernel/task`, `kernel/sched/rr.c` | parts of `Kernel` |
| `Kernel` | `kernel/trap.c`, the boot thread of `kernel/main.c` | composes `Clock` and `Sched` with the interrupt |
| `Console` | `kernel/console.c`, `drivers/uart/uart.c` | two writers and the UART |
| `EventQueue` | `kernel/input/event_queue.c` | the ring with its indices |
| `BoundedFifo` | what the ring promises | abstract: a bounded sequence |
| `WindowManager` | `kernel/wm/window.c`, `layers.c`, `focus.c`, `compositor.c` | geometry, stacking, focus |
| `Render` | `framebuffer_fill_rect`, drawing in `compositor.c` | extends `WindowManager` |
| `Desktop` | the picture of the scene that `MouseDrag` moves | extends `MouseDrag` and `Render` |
| `Keyboard` | `drivers/input/keyboard.c`, `kernel/input/keyboard_dispatch.c` | scancodes, queue, endpoints |
| `PathState` | directories of `shell/path_state.c` and `fs/dir.c` | operators on a set of paths |
| `Terminal` | `kernel/wm/terminal_window.c`, `kernel/tty/terminal_session.c` | composes `Keyboard`, `WindowManager` and `PathState` |
| `MouseDrag` | `drivers/input/mouse.c`, `kernel/wm/drag.c`, `apps/libapp/app_window.c` | composes `WindowManager` with the queue |
| `FsPath` | `fs/path.c` | operators, and what a path means without a stack |
| `DirTree` | `fs/dir.c` | operators on the node table, over `FsPath` |
| `PathFiles` | `shell/path_state.c` of the shell | operators, over `DirTree` |
| `ShellParser` | `shell/parser_redir.c` | operators, and the grammar it implements |
| `PathTree` | what the shell's file system promises | abstract: a tree of directories with files |
| `Shell` | `shell/shell.c`, `line_io.c`, `exec_pipeline.c`, `fd_table.c`, `builtins_*.c` | composes `PathFiles` and `ShellParser`; implements `PathTree` |
| `*Proofs` | the theorems | see below |
| `MC*` | values of the constants for TLC | |

Definitions keep the names of the C functions they model; steps inside a
function have names of their own. An operator whose comment starts with
"Mutant:" is a wrong variant of the definition below it. It is not part of the
specification; it shows that some property notices the mistake.

### OTFS

A call is a sequence of steps, cut at `seek_and_write`, which writes a region and
flushes it: `SyncDir` and `SyncFat` are the two halves of `sync_metadata`,
`ResolveFirst`/`ResolveNext` the loop of `resolve_data_block` with `allocate_data_block`
inside, `WriteChunk` one turn of the loop of `fs_write`, `ReleaseStep` one turn of
`release_chain`, which gives up with `FS_ERR_STATE` when it
has freed more blocks than there are. `pc` names the next step and `r` holds the locals.
There is one caller, so nothing but `Crash` comes between two steps. With `Faults`, each
write (and the reads of `fs_read` and `fs_write`) has a failing alternative that returns
from the call with what was changed so far in place. Calls that fail before they change
anything are stutters.

A block is a function from offsets to byte values, a file name a string that
`validate_name` accepts, FAT entries keep their markers (`FAT_FREE`, `FAT_END`).
Sizes and offsets are taken modulo `Word`. A region is written as a whole:
a torn write of one region is not modelled. `fclose` succeeds after the flushes
that precede it, and the reads of `fs_mount` succeed. The caller does not mount
or format an image that it has mounted; the code does not check this.

### Kernel

`pc` is the next call of the boot thread, `ipc` the next part of the handler.
`trap_vector` runs with interrupts masked, so a handler runs to its end, and
the boot thread executes only while no interrupt is pending. Reading the time
and programming the deadline are separate steps, as time passes between them.
`sched_bootstrap_test_tasks` makes its last stores to plain globals with nothing
that orders them; `stores` is the set of those still to come, and any of them
may be next, with an interrupt before it. So it is with `task_create`: `making` is the
entry it has chosen and `fields` the fields it has still to write, and a handler may
find the entry with any of them missing. The self-tests of windows and
keyboard that lie between in `kernel_main` do not touch this state and are not
steps here. Log lines, saved registers and the halt loop are left out.

### Console

Both writers execute `console_putc`, the poll of `TX_EMPTY` and the write of
`THR` as separate steps. The handler may run between any two steps of the boot
thread, so the boot thread's poll may be stale when it writes. The UART is the
16550 of the machine, modelled from how the driver uses it.

### Windows and mouse

Everything runs on the boot thread. Programs emit mouse events, open and raise
windows in any order; `wm_drag_dispatch_pending` then pops event after event.
The geometry (`wm_window_title_bar_rect`, clamping and saturating arithmetic)
is kept. `MouseDrag` uses the queue as a sequence, which is what `EventQueue` is
proved to implement. The mouse itself is external: it presses a button that is
up and releases one that is down. Every task owns one window, as the demo
application does. `pressed` and `lost` are history variables.

`Render` is the picture as a function of the scene: `framebuffer_fill_rect` with
its wrapping sums and its clipping, the border, title bar, content and accent of
a window, and the windows from the back to the front. A pixel holds the window
and the part that was painted on it instead of a colour; the hash over the
pixels is left out.

### Shell

`line_io_readline` is one step for every byte (`SkipLineFeed`, `EditLine`,
`ReturnLine`), `shell_execute_line` one for the parser, one for each of the two
commands and one for the redirection; `pc` is the next of them. Nothing runs
between the steps (the timer handler shares nothing with the shell but the UART,
see `Console`); they are cut where the globals change hands. `fd` is the state of
`fd_table.c`: stdin is the text itself, and no stdin is the empty text, which
its only reader treats alike. Commands are functions of their words, the tree,
the files and stdin; `path_state.c`, `dir.c` and `path.c` are operators below
them that keep every limit: the pool and the stack of `fs_path_normalize`, the
join in `fs_path_resolve`, `FS_DIR_MAX_NODES`, `FS_DIR_NAME_MAX`, the slots and
the size of written files, the entries of `ls`, the capture and the pipe.

A character is its code, a name a sequence of characters, a resolved path a
sequence of names (`Spelled` gives its text where a length counts). The fixed
texts of the commands are one character of their own each, and command words are
one letter. Which slot of `g_dynamic_files` holds a file, the echo of the line
editor and the prompt are left out. The shell of a terminal session is another
one (`shell/parser.c`, `terminal_session.c`), in `Terminal`.

`FilesUnderDirs` is the property of the abstract tree and, on the node table itself,
that every node is found at its own path: a directory that is lost, or made twice,
would not show in `Dirs`, which is a set.

Three properties compare with definitions that share nothing with the code:
`ParsedByGrammar` with a grammar that looks at where the operators stand in the whole
line, `ResolvedAsMeant` and `LineAsTyped` with `Uncancelled`, which says what an undo
leaves by counting and without a stack. `LineAsTyped` also counts the line ends: every
one returns a line, and a line feed behind its carriage return does not.
`LineMeansPipeline` runs the commands of the line as functions, without the globals,
from the tree and the files as they were when the line began. `PathTree` is the abstract
store: `Dirs` maps the node table to the paths that `lookup_absolute` finds.

### Keyboard and terminals

A scancode is the prefix 0xe0 or a key with its break bit; a character is a
printable key with the shift that applies to it, which stands for the table of
`keyboard_printable_for_scancode`. The queue is a sequence of events with the
focus of the moment they were queued. `Press` may fill it while programs attach
and raise windows; `keyboard_dispatch_pending` then handles event after event
(`DispatchOne`), each through the table of endpoints and the table of terminals.
A program initialises a terminal once and attaches it as often as it likes, with
an endpoint of its choice; an attach is refused for an endpoint in use, a scene
that is full or a window that is in it. `StartSession` is the end of one run of
`multi_terminal_test_run` and the start of the next, which resets all three
tables; it falls between two sequences of the keyboard, never after a prefix.
Of the commands `cd` and `mkdir` change the session: `Commands` gives the lines
that are one of the two, with the absolute path. The directories of a session are
a set of paths (`PathState`), for which the linked nodes of `fs/dir.c` stand; names of
more than `FS_DIR_NAME_MAX` characters are those in `LongNames`. The
hash over what commands print is left out, and so is `cwd_cache`, which repeats
the directory. `held` is the keyboard, `recent` a history variable.

## Runs

| Run | Instance | Shows |
|---|---|---|
| `otfs_crash` | 3 blocks, 2 files, 2 descriptors, 8 calls, crashes | `TypeOK`, `OneReferrer`, `FreeIsFreeOnImage`, `Durable`: the process may die between any two writes; whatever is left mounts to separate chains or does not mount, and finished calls are durable |
| `otfs_content` | 7 blocks of 2 bytes, 2 files, writes of 1 or 3 bytes at offsets 0 to 6, 7 calls | `ImplementsFileStore`, `MountedSound`, `NoLeak`, `MountableOutsideSync` as long as the image is not full; the last one says at each step what a crash there would leave |
| `otfs_faults` | as `otfs_crash`, failing reads and writes and no crashes, 7 calls | `FilesDisjoint` |
| `otfs_remount_nospace` | 1 block | violated: see Findings |
| `page_alloc` | pages of 4 bytes, at most 7 pages, 4 ranges, all pointers up to 40 | `FreeCountExact`, `HintIsLowest`, `FailsOnlyWhenFull`, `ImplementsPagePool` |
| `kernel` | interval 2, handler time 1, time up to 12, 3 tasks, 4 switches to report | `TicksTrackTime`, `SwitchAccounting`, `OnlyQueuedRun`, `TurnsAlternate`, `BootCompletes` |
| `console` | two lines of the boot thread, two interrupts of one line each, a FIFO of 2 | `NoOverrun`, `TextPreserved`, `HandlerLinesWhole`, `EverythingSent` |
| `event_queue` | 2 events, a ring of 4 | `ImplementsFifo` |
| `terminal` | 2 terminals and a plain window in a scene for 2, 2 endpoints, one letter, one shift, a queue of 2, lines of one character, a history of 2, 3 lines, a name too long for a directory | `TablesAgree`, `KeyReachesFocus`, `HistoryKeepsLast` |
| `mouse_drag` | 2 overlapping windows on a screen of 6 by 4, coordinates modulo 16, 3 points, 2 buttons, a queue of 2 | `VisibleIsHitWhenIdle`, `ActiveIsFront`, `SceneIsBound`, `RoutedToOwner`, `DraggedUnderPointer`, `DragFollowsPress` |
| `shell` | all lines of up to 5 bytes that edit and of up to 7 characters that parse; all sequences of 3 out of 20 commands; 5 nodes, 2 written files of 6 characters, names of 1 and paths of 8 characters, a capture of 7 | `LineAsTyped`, `ParsedByGrammar`, `ResolvedAsMeant`, `FilesUnderDirs`, `LineMeansPipeline`, `LsShowsDirectory`, `ImplementsPathTree`, `FailedAppendKeeps` |
| `shell_ls` | as `shell` | violated: see Findings |

`otfs_crash` also checks the `TypeOK` of `OTFS`; the one of `PageAlloc`,
`Console`, `EventQueue` and of the clock is proved, as a part of the inductive
invariants.

Why the bounds are enough:

* OTFS. Sharing a block needs two files and a block that is freed and taken
  again; a chain needs a second block to have a link; the third is one that
  stays free. Eight calls are mount, two opens, two writes, a truncating open
  and what follows a crash (mount, write); the crash itself is not counted. The
  content run has blocks of two bytes so that writes start inside a block and
  span two, and enough blocks that seven calls cannot fill them: full images are
  the subject of the violation runs. `MaxCalls` bounds the calls, and TLC then
  stops: `CHECK_DEADLOCK FALSE` stands for a caller that makes no further call.
* Page allocator. Every property is about one page against another and the wrap
  of the scan; the ranges are aligned, unaligned at both ends, longer than the
  maximum and empty. The state space is complete, with no bound on the calls.
* Kernel. Twelve time units are six intervals, so the scheduler reports and
  goes on, and interrupts can be several intervals late. `MaxTime` stops the
  time and with it the interrupts; the boot thread then ends at the shell.
* Console. A FIFO of 2 is the smallest for which the claim holds; two interrupts
  cover a second one after the first has left bytes in the FIFO.
* Event queue. A ring of four goes through every combination of indices and
  count; the state space is complete.
* Mouse. The two windows overlap; the points are a title bar of each and the
  corner, where positions are clamped. A queue of two lets a press and a release
  wait together, and overruns with the third. Both windows reach over the lower
  edge of the screen and one over the right, past the largest coordinate. The
  state space is complete. Every scene is met again with an empty queue, so the
  picture is compared there only (`VisibleIsHitWhenIdle`).
* Shell. What the tokenizer carries from one token to the next is one character,
  and the longest chain of rules it can meet (word, bar, word, two operators,
  word) fits seven characters; editing needs two lines with a control between
  them, which fits five bytes. Three commands are a set-up, a command that meets
  its result and one that looks at what is left; the twenty were chosen so that
  each limit is reached and passed by some sequence: a sixth node, a third file, a
  text one longer than a file, a name one longer than an entry, a join one longer
  than a path, a capture that is cut, a line that is cut behind its operator.
  `MaxLines` bounds the lines and TLC then stops: `CHECK_DEADLOCK FALSE` stands for
  a user who types nothing more.
* Terminal. A scene for two refuses the third window, so that an attach fails
  after its first registration; a queue of two holds keys of two terminals and
  refuses the third; the third line overwrites the first of the history. One
  shift is enough for a prefixed code to look like it. The instance is symmetric
  in the terminals and the endpoints; one letter with and without shift makes the
  lines `mkdir /new` and `cd /new`, and the tree has room for one more directory. One
  command has a name that is too long.
  `MaxLines` bounds the lines of a session and stops the dispatcher.

Fairness:

* Kernel: `SF(Boot)` and `WF` of the handler. The hart keeps executing, and a
  handler takes less than an interval (`HandlerAssumption`: `CLOCK_INTERVAL_TICKS`
  is 1,000,000, a tenth of a second on the QEMU machine, and a handler prints a few
  lines at most), so
  the boot thread executes again and again although each step of it is disabled
  while an interrupt is pending. No fairness is put on time.
* Console: `WF` of each writer, of the handler's return and of the transmitter.
  Interrupts that print are bounded by `MaxIrqs`, in the code by `CLOCK_LOG_LIMIT`,
  `SCHED_SWITCH_LOG_LIMIT` and `SCHED_TASK_LOG_LIMIT`.
* The other modules state no liveness.

## Proofs

TLAPS proves these for every value of the constants that the `ASSUME`s allow.

| Theorem | Statement |
|---|---|
| `OTFSProofs!TypeCorrect` | `Spec => []TypeOK`, with crashes and faults |
| `OTFSProofs!ChainsStayApart` | `OneReferrer`, with crashes or with faults |
| `OTFSProofs!FilesStayApart` | `FilesDisjoint`, with crashes or with faults |
| `OTFSProofs!AllocationIsSafe` | `FreeIsFreeOnImage`, with crashes, without faults |
| `OTFSProofs!NothingLeaks` | `NoLeak`, without crashes and faults, on full images too |
| `OTFSProofs!WhatReturnedIsDurable` | `Durable`, with crashes, without faults, for writes of one byte or more |
| `OTFSProofs!MetadataStaysSound` | `MountedSound`, under the same hypotheses and `[]Room` |
| `OTFSProofs!ClosedImageRemounts` | `RemountAfterUnmount`, an action property, under the same hypotheses and `[]Room` |
| `OTFSProofs!OnlySyncBreaksImage` | `MountableOutsideSync`, under the same hypotheses and `[]Room` |
| `OTFSProofs!ImplementsStore` | `ImplementsFileStore`, without crashes and faults, under `[]Room`: every step is a step of `FileStore` or a stutter |
| `PageAllocProofs!FreeCountNeverDrifts` | `FreeCountExact` |
| `PageAllocProofs!HintNeverPassesFreePage` | `HintIsLowest` |
| `PageAllocProofs!FailureMeansFull` | `FailsOnlyWhenFull` |
| `PageAllocProofs!ImplementsPool` | `ImplementsPagePool`: every call is a step of `PagePool` or a stutter |
| `KernelProofs!ClockTracksTime` | `TicksTrackTime` |
| `KernelProofs!SwitchesBalance` | `SwitchAccounting` |
| `KernelProofs!OnlyQueuedTasksRun` | `OnlyQueuedRun` |
| `KernelProofs!NoTwoTurns` | `TurnsAlternate`, an action property |
| `ConsoleProofs!NeverOverrun` | `NoOverrun` |
| `ConsoleProofs!HandlerLinesStayWhole` | `HandlerLinesWhole` |
| `ConsoleProofs!TextsArePreserved` | `TextPreserved` |
| `EventQueueProofs!RingImplementsFifo` | `ImplementsFifo`: every step of the ring is a step of `BoundedFifo` or a stutter |
| `MouseDragProofs!FocusIsFront` | `ActiveIsFront` |
| `MouseDragProofs!SceneAndBindingsAgree` | `SceneIsBound` |
| `MouseDragProofs!DragKeepsPointerInside` | `DraggedUnderPointer` |
| `MouseDragProofs!OnlyPressedWindowDragged` | `DragFollowsPress` |
| `MouseDragProofs!CallbacksReachOwner` | `RoutedToOwner`, if every task opens one window |
| `TerminalProofs!TablesAlwaysAgree` | `TablesAgree` |
| `TerminalProofs!HistoryIsRecent` | `HistoryKeepsLast` |
| `TerminalProofs!KeysReachTheirWindow` | `KeyReachesFocus`, an action property |
| `MouseDragProofs!SeenIsClicked`, `SeenIsClickedWhenIdle` | `VisibleIsHit`, `VisibleIsHitWhenIdle`, if windows and mouse stay four pixels away from the largest coordinate |
| `ShellProofs!LinesAsTyped` | `LineAsTyped` |
| `ShellProofs!PathsAsMeant` | `ResolvedAsMeant` |
| `ShellProofs!LinesMeanPipelines` | `LineMeansPipeline` |
| `ShellProofs!FailedAppendsKeep` | `FailedAppendKeeps`, an action property |
| `ShellProofs!ShellIsPathTree` | `ImplementsPathTree`: every step of the shell is a step of `PathTree` or a stutter |
| `ShellProofs!TreeStaysTree` | `FilesUnderDirs` |

The arguments:

* OTFS with crashes. `OneReferrer` speaks of the mounted copy and is not inductive: a
  crash brings back the image, where the directory is one `sync_metadata` half ahead of
  the FAT. The inductive invariant is `IInv == TypeOK /\ Locals /\ Seen /\ (Sound \/
  Unwritten)`. `Sound` says that roots and links are unique in memory, on the image and
  for each directory against the FAT on the image (the directory in memory included,
  which may reach the image first), and that what is free in memory is free on the image
  except while `fs_open` truncates. With that a mount of a mixture either fails in
  `validate_entry_chain` (a root that the old FAT calls free) or yields unique
  referrers. `Unwritten` is the other case, which the first attempt missed: a crash in
  `fs_format_image` after the superblock leaves a zero FAT in which every entry links to
  block 0; it mounts, but nothing is free and no file can get a block. `OneReferrer`
  makes an exception for this image, in which all blocks lead to block 0 (`Blank`); no file owns
  any of them. `Seen` says that the counter of `release_chain` is at most the number of
  free blocks, as each turn frees a block that was taken, so its limit never stops it. `Locals` ties `pc` to the locals of the call, and is kept by every step
  whatever fails (`LocalsStep`).
* OTFS with faults. After a failed sync the image may be any mixture, so nothing
  of `Sound` holds for it. `FaultInv` speaks of memory while the image is mounted
  and of the image otherwise; the two are exchanged only by `fs_mount` and at the
  end of `fs_unmount`, where the sync before has succeeded. `ChainSteps` lists
  what a step can do to the chains in memory (a new root, a new last block, a
  released root, a block that is taken and lost), and `NewRoot`, `NewLast`,
  `DropRoot` and `NewOrphan` say what that does to `Linked`. Crashes and faults
  together do break the property, so the hypothesis `~(Faults /\ Crashes)` is
  needed: with two blocks and nine calls, a file of two blocks is truncated, its
  sync fails, the blocks go to two files, the directory reaches the image and the
  FAT does not, and a crash brings back the old link between the two blocks.
* OTFS, chains. `FilesDisjoint` and `NoLeak` follow chains of any length.
  `ChainIs` gives `ChainAt` its recursive equations; from there induction runs
  through `Upward`, about sets of numbers, which comes from the well-foundedness
  of `<`. `WalksApart`: a first common block of two walks would have two
  referrers. `LeakInv` adds to `FaultInv` that every taken block is some number of
  links from a root (`Owned`); `WalkKept` says that a change elsewhere leaves a
  walk alone, and `ReachedSoon`, with the pigeonhole principle, that a walk
  reaches what it reaches within `NumBlocks` links, which is as far as `ChainOf`
  looks.
* OTFS, what is durable. `Saved` makes `Durable` inductive: the chain in memory
  covers the size of every file (except one that is being truncated), the walk of
  `fs_write` stands on the block its step counter says, and so the size that it
  sets at its end is covered too. Which file is excepted changes with `pc`: from
  the first change of a call to the end of its `sync_metadata`.
* OTFS, remounting. `Good` adds to `Saved` what `validate_metadata` looks at: names
  that differ, sizes within the image, no chain behind an empty file. The last one
  is what a write on a full image breaks (Findings), so the theorems assume
  `[]Room`: whenever `resolve_data_block` comes to `allocate_data_block`, a block is
  free. Behaviours with `Room` and every call, crash and remount exist at every
  size of image; the image may be filled to its last block. `OnlySyncBreaksImage`
  follows: what `sync_metadata` leaves is the memory, which is `Good`, and no other step
  writes the regions of a mounted image.
* OTFS implements `FileStore`. The store of a state is what `OTFSRefinement` reads
  through the chains. `Clean` adds to `Good` that behind the size of a file its
  blocks hold zeros, except where the write that is running has put its value
  already (`Zeros`), and how far that write is (`Progress`): what it has put lies
  between its start and its offset, and offset and rest add up to its end. Hence
  the size set at the end uncovers zeros and the new bytes only. `ChunkChanges`,
  `NewBlockAddsZeros`, `ResolveChanges` and `ReleaseChanges` say what a step does
  to the byte at a position of a file, `FilesKept` that the other steps do
  nothing. Then each action is matched with one of `FileStore`: `fs_format_image` with
  `Format`, the creating `fs_open` with `Create`, the start of a truncation with
  `Truncate`, `fs_write` with `WriteBegin`, each block of it with `WritePiece`, its end
  with `WriteDone`, `fs_read` with `Read`; the rest stutters, and so do unmount,
  mount and the release of a chain.
* Page allocator. The inductive invariant joins the type, the count and the
  hint: the hint is a lower bound of the free pages, hence the scan ends at the
  lowest one, hence the next hint is a lower bound again; the lowest free page is
  what `PagePool` hands out.
* Clock. `CatchUpBounds` shows that the skipped deadline lies in
  `(now, now + Interval]`; the invariant adds what the handler has armed when.
* Scheduler. `SchedInv` says which stores of `sched_bootstrap_test_tasks` are
  still to come in terms of what the tables hold (`NotYet`, `Creating`,
  `Filling`), so that a handler that finds any part of them done finds a queue
  whose entries are created tasks (`Entries`), and counts what it runs.
* Console. `AtMostTwo` (a stale poll of the boot thread lets in one byte of the
  handler at most, since the handler leaves at most one byte behind its own poll)
  with the fact that the handler is quiet outside an interrupt. For whole lines,
  `LinesInv` looks at everything written, sent or not: what an unfinished line of
  the handler has written stands at the very end, and any two bytes of one line
  have only bytes of that line between them. `TextPreserved` is an equation of
  three parts for each party (`Balanced`): what it has put out, the bytes at hand, the
  text still to come. A step moves a byte or a character from one part to the next.
  `FlattenSeq` is a recursive function over the length; `FlatAppend` and `FlatConcat`
  give it its equations, by induction over sets of numbers (`Upward`).
* Ring. `TypeOK /\ IndicesAgree`, and two lemmas that describe `Append` and
  `Tail` as functions, so that the slots can be compared position by position.
* Windows and mouse. `SceneInv`: types, the focus on the front window, the
  windows of the scene bound once each. Raising a window shifts the others up one
  place, a permutation of the stack (`wm_layers_move_to_front`). `Grip` says where inside a
  window the pointer holds it, and clamping the position at the screen's edge
  keeps it there. `DragFollowsPress` needs the order of presses and releases in
  the queue: the left button alternates, and what the queue holds continues what
  was dispatched. `RoutedToOwner` is stated for tasks with one window each
  (`OneWindowEach`): with two, `app_window.c` really reports the wrong one.
* Terminals. `ActiveIsFront`, the agreement of the three tables, the history as a
  ring against the lines executed, and the types they need. An attach that
  the compositor refuses undoes its entry in the dispatch table; the keyboard's
  table, filled last, always has room for a window the compositor accepted.
* The picture. The fold that paints the windows from the back to the front has
  after `k` of them the pixels of the top one of the `k` (`Layered`), so the last
  window that covers a point is the one the hit test finds from the front.
  `PictureInv` keeps what drawing needs: frames of valid size whose accents do not
  wrap around, and queued events at points of the mouse. `NearPlaces` is that
  hypothesis on the constants: without it a window at the very edge of the integers
  is painted on the other side of the screen (Findings).
* Line editing. `EditInv`: the line in the buffer is `Uncancelled` of what was
  typed, and `g_skip_lf` is set just when the last byte was a carriage return. Typing a
  byte appends to the line, an erasing key takes its last item
  (`UncancelledAdds`, `UncancelledUndoes`): for an item to stay, the excess of items
  over undos from it on has to stay positive, and the last staying item is the one
  whose excess is one (`LastStaying`), which is the one that the next undo takes.
* Recursion. `Picked`, `Linked`, `PathTo` and the parser's loop are recursive
  functions, `Runs`, `FlattenSeq` and the loops over the segments of a path, the
  words of a command and the entries of a list are folds of the community modules.
  `RecExists` says that a step which maps a set to itself has a run, `FoldExists` and
  `FoldRun` that a fold is the end of one, `RunIn` that a run stays in the set; each
  loop is instantiated once (`PickedIs`, `RunsIs`, `FlatIs`, `NormRun`, `MakeRun`,
  `LookRun`, `LsRun`, `MkdirRun`, `ParsedType`). The step is a function, not an operator
  parameter, and the induction is over a set of numbers (`Reaches`).
* Paths. `Runs` of the spelled current directory, a slash and a word are the names
  of the one and the runs of the other (`RunsBehind`). `NormGood` follows
  `fs_path_normalize` over the segments: its stack is `Uncancelled` of the segments so
  far, and pool and stack are bounded by the characters that these took (`Cost`), so
  neither runs full before the join did.
* The node table. `SoundTree`: every link leads to a node, parents are older than
  their children, every node but the root has a name. That every operation keeps
  it, also a `mkdir_internal` that gives up half-way (`MadeSound`), and that the start
  has it (`InitialLinked`), makes the current directory a sequence of names, which is
  what `ResolvedAsMeant` needs of the tree.
* Lines. `ShellInv` joins the types (every text a command prints is made of
  characters) with what each `pc` promises (`LineInv`): before the first command the
  tree and the files are those of the start of the line; before the second, the
  capture holds what the first one printed, cut to its size; before the file is
  written, what the last one printed. Nothing is said of the capture, the stdin and
  the stdout mode in between lines, which is the point of `LineMeansPipeline`: each
  step sets what it uses. `CaptureCap <= PipeCap` is needed for the copy on the stack
  to be whole.
* Failed appends. When the text does not fit, the new file holds what was visible
  at its path before, a built-in content included (`CopyKeeps`).
* The node table is a tree of paths. `LinkedTrees`: the links of each node, from
  `first_child` along `next_sibling`, run through a list of its children; every node
  stands once in the list of its parent; the names in a list differ. Hence `find_child`
  finds the child of a name, so a node is found at its path and nothing else is found
  there. `insert_child_sorted` puts the new child into the list of its parent, wherever
  that is, and leaves the other lists alone. `mkdir_internal` walks where
  `lookup_absolute` walks and makes what is missing from there on, so it adds the path,
  or with `-p` the missing part of it, and nothing else. With that each command is a
  step of `PathTree` or a stutter (`ShellIsPathTree`), and `FilesUnderDirs` follows: its
  abstract part is kept by every step of `PathTree`, its concrete part is `LinkedTrees`.
  Nothing is assumed of the limits; of the built-in directories and files, that each
  directory is listed behind its parent, no path is both, and the directories fit the
  node table and its names.

Each inductive invariant was checked with TLC on the instance of its run first,
except those that range over all sequences (`EditInv`, `PictureInv`, `ShellInv`): of
these the run checks the properties that follow.

Assumptions on the constants are in the `ASSUME`s of the modules: sizes are positive,
`(NumBlocks + 1) * BlockSize <= Word` (an image is far smaller than what 32 bits count),
`NoName` and `NoFile` are no name and no content, the range given to the page allocator
lies in RAM and rounding it up does not wrap, a handler is shorter than an interval, the
transmit FIFO holds two bytes or more, what a handler prints ends with a line feed
(`kernel/clock.c:42`), enter and backspace are control keys and the prefix 0xe0 is no
key, the screen is smaller than the integers reach, the built-in files fit a file and
lie in built-in directories, which are listed behind their parents, fit the node table
and have names that fit a node, a capture fits the input of the next command, and what
is typed are bytes.

Only model-checked:

* the liveness properties (`BootCompletes`, `EverythingSent`), which are outside what
  the prover does;
* `ParsedByGrammar`, which compares a loop of unknown length with a grammar that
  looks at the whole line: the invariant would have to say for every prefix of a
  line what each of the grammar's positions has become;
* `LsShowsDirectory`, which needs that the lists of children and the list that `ls`
  prints are sorted; that the child lists are complete and without doubles is proved.

## Findings

1. `otfs_remount_nospace`, `fs/otfs.c:691`. A write that runs out of space
   returns with blocks linked to the file and the size unchanged. For a file
   that was empty, `validate_entry_chain` refuses that chain: `fs_unmount`
   returns `FS_OK` and `fs_mount` fails. `fs/fs_rw_test.c:229` expects a remount
   to succeed. `ClosedImageRemounts` is the positive counterpart: as long as
   `allocate_data_block` finds a block, a closed image mounts again.
2. `shell_ls`, `shell/path_state.c:469`. A redirection takes a file name of any
   length that fits a path, while `ls` copies the names it lists into 32
   characters and fails when one does not fit: `echo x > /tmp/` followed by a name
   of 32 characters or more makes `ls /tmp` print `ls: cannot access` from then on.
   `README.md:249` says "`ls` lists directories/files and appends `/` for
   directory entries".

Further observations have no run. A write of no bytes after a seek past the end
(`fs/otfs.c:708`) sets the size without allocating, a second way to an image that
`fs_unmount` closes with `FS_OK` and that does not mount again, hence the
hypothesis `0 \notin Lens` of the theorems on sizes and contents. Bytes stored by a
write that failed for lack of space lie behind the end of the file and show up in
the gap of a later write, against the "sparse writes with zero-filled gaps" of
`README.md:373`; `ImplementsFileStore` is checked on images that do not fill up, and
proved under `[]Room`. After a failed FAT write (without a crash
at that moment) a later crash leaves a directory and a FAT of different
generations: faults and crashes are therefore checked separately. A dropped
button-up leaves `drag_binding` set, so `DragFollowsPress` is stated for sessions
that dropped no event. A task that opens a second window takes over the
callbacks of its first one, as `app_window.c` has one entry per task. A line of
the boot thread may be split by a line of the handler, although the boot tests
(`Makefile:117`, `scripts/run_qemu.sh:36`) search for whole lines: only the
handler's lines are whole. A terminal that is initialised again with another
endpoint while it is attached, and then attached again, is refused by the
compositor after the first table has changed, which leaves the tables apart; no
program here does that. The tokenizer of the shell joins two operators across
spaces when the first one ends a word: `a> >f` appends to `f`, while `a > >f` is
refused. A redirection with `>` whose text does not fit leaves the file empty, and
one with `>>` leaves a copy of a built-in file (`FailedAppendKeeps`: its content is
the same). Deep in the tree `cd ..` is refused, because the joined path has to fit
a buffer before it is normalised. The accent of a title bar wraps around to the
other side of the screen for a window within four pixels of the largest
coordinate.

## Not modelled

* The commands of a terminal session that only print (`ls`, `cat`, `pwd`), and the
  hash over what it prints.
* The input side of the UART (polled reads): the bytes reach `Shell` in order.
* Of the graphics, the test pattern with its single pixels and blits, the hash
  over the pixels, colours and the video driver: loops over pixels without state.
* The window and keyboard self-tests of `kernel_main` and `mouse_dispatch_record`,
  fixed scripts over operations that `MouseDrag` and `Terminal` run in any order.
* `kernel/sched/sched.c` and `drivers/video/virt_fb.c`, which are not linked
  into the kernel, and `wm_focus_clear_if_active` and `wm_compositor_activate_at`,
  which nothing calls.
* `fs/mkfs_otfs.c`, scripts and tests: read for what they expect.

## Plan

In order of importance; all steps but the last are done.

1. `OTFS` with crashes and faults, `FileStore` and the refinement.
2. `PageAlloc` and `PagePool`.
3. `Kernel` from `Clock` and `Sched`.
4. `Console`.
5. `EventQueue`, `WindowManager`, `MouseDrag`.
6. `Keyboard`.
7. `Terminal`, composed with `Keyboard` and `WindowManager`.
8. `FsPath`, `DirTree` and `PathFiles`, with the abstract `PathTree`.
9. `ShellParser` and `Shell`.
10. `Render`.
11. Proofs: the scheduler over all orders of the stores, `ImplementsPagePool`, the
    tables of windows and terminals, whole lines of the console, the chains of OTFS
    with faults.
12. More proofs: `Durable`, `MountedSound` and the refinement of `FileStore` under
    their hypotheses, `TextPreserved`, the picture against the hit test, and of the
    shell its line editor, paths, pipelines and failed appends.
13. The node table as a tree of paths: `ShellIsPathTree`, `TreeStaysTree`.
14. Open: sorted lists, hence `LsShowsDirectory`; the parser against its grammar.
