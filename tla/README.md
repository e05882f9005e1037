# UIUC Computer System Engineering: models and proofs

The repository holds the projects of an operating-systems course. Its main part is
**MP3** (`src/mp3/student-distrib`), a small x86 kernel with six processes, three
terminals, round-robin scheduling, a virtual real-time clock and a read-only file
system. **MP2** (`src/mp2`) is a maze game with a graphics library and a Linux line
discipline for the Tux game controller, **MP1** (`src/mp1`) a kernel module that
blinks characters on the screen. `ps1`, `ps2` and `ps3` are exercises.

This directory models the parts with state that several actors share: TLA+ modules,
TLC configurations that check them on small instances, and theorems that hold for
every value of the constants, checked by TLAPS. `PROJECT.json` is the index: it names
the lines of source behind every definition, the properties of each run, a plausible
mistake for each property (which TLC must find), the hazards of the code and the theorems.

## 1. Inventory

### The kernel (`mp3/student-distrib`)

| Part | State | Operations | Hard behaviour | What makes it correct |
|---|---|---|---|---|
| Process control (`sys_calls.c`) | `task_array`, `pid`, one PCB per pid: `prev_pid`, saved stack frames, `file_array`, RTC fields | `execute`, `halt`, `exp_halt`, `open`, `close`, `read`, `write`, `vidmap`, `getargs` | `execute` and `halt` switch stacks; `halt` changes `pid` half way; any program may end at any time and pids are reused | the process table, TSS and page directory name one live process; programs return to the `execute` that started them; descriptors of other processes stay |
| Scheduler (`scheduler.c`, `timer.c`) | `terminal_tick`, `running_terminal`, `tm_array[].tm_pid`, frames saved by the PIT handler | `scheduler` on each tick, `switch_visible_terminal` on Alt-F1..F3 | preempts any program anywhere; starts the shells of the terminals from within the handler | a process continues exactly where it was suspended; every terminal gets its turn |
| Paging (`paging.c`) | user page, kernel and user video pages, the bitmap `task_use_vidmem` | `paging_set_user_mapping`, `paging_set_for_vedio_mem`, `paging_restore_for_vedio_mem` | the one user video page is shared by all terminals | the page a program maps stays while it needs it; output goes to the page of its terminal |
| Terminal driver and keyboard (`terminal.c`, `keyboard.c`) | `kb_buf` and `num_char` per terminal, `enter_flag`, the video pages | `terminal_read`, `terminal_write`, `line_buf_in`, `line_buf_clear`, `put_dis_ter`, `keyboard_handler` | the waiting loop of a read runs with interrupts enabled; the keyboard edits another terminal's line than the one that runs | a line is delivered as typed, to the program of its terminal, once; echo and output land on the right page |
| Virtual RTC (`rtc.c`) | in each PCB `rtc_opened`, `virtual_freq`, `current_count`, `virtual_iqr_got` | `rtc_open`, `rtc_read`, `rtc_write`, `rtc_close`, `rtc_handler` | the handler counts for all processes while they open, close, read, and wait | a read lasts one period of the frequency the process chose, and returns |
| File system (`file_sys.c`) | the boot block in memory, `file_position` of each descriptor | `file_read`, `direct_read`, `read_dentry_by_name/index`, `read_data` | block and end-of-file boundaries | consecutive reads deliver the file's bytes once, in order, to its end |
| Interrupt linkage (`asm_linkage.S`, `idt.c`, `handlers.c`, `i8259.c`) | IDT, PIC masks | dispatch | decides what may interrupt what | used as the atomicity of the models (section 3) |
| Console (`lib.c`), boot (`kernel.c`, `boot.S`, `x86_desc.*`), tests (`tests.c`) | cursor per terminal; descriptor tables | `putc`, `clear`, `printf` | cursor at the last row and column | |
| User programs (`mp3/syscalls`, `mp3/fish`) | their own | any sequence of system calls | | they are the environment of the models |

The parts interact by calls (`execute` to `paging_*`; `close` to `rtc_close`; the
scheduler to `execute`), by shared globals (`pid`, `terminal_tick`,
`terminal_display`, `enter_flag`, the PCBs) and by interrupts: PIT to `scheduler`,
keyboard to `line_buf_in` and `switch_visible_terminal`, RTC to `rtc_handler`.

### The maze game and the Tux driver (`mp2`)

| Part | State | Operations | Hard behaviour | What makes it correct |
|---|---|---|---|---|
| Tux line discipline (`module/tuxctl-ioctl.c`, `tuxctl-ld.c`) | the LED word to restore, the button word, the busy flag; ring buffers of the serial line | `TUX_INIT`, `TUX_BUTTONS`, `TUX_SET_LED`, the packets `MTCP_ACK`, `MTCP_BIOC_EVENT`, `MTCP_RESET` | commands while one is unacknowledged; reset at any time; partial packets | buttons and LEDs reflect the last command and event, also after a reset |
| Game (`mazegame.c`) | player position, direction, `next_dir`, `move_cnt`, fruit, flags of the threads | keyboard, tux and RTC threads, one mutex, one condition variable | flags shared outside the lock; joining a waiting thread | the player never leaves the corridors; presses are acted on; the program ends |
| Maze (`maze.c`) | the grid with walls, fruits, exit, mist; the count of fruits | `make_maze`, `unveil_space`, `check_for_fruit`, `check_for_win`, `fill_horiz_buffer`, `fill_vert_buffer` | made at random, with loops that must end | a maze is connected; fruits counted right; what is drawn is what the grid holds |
| Graphics (`modex.c`) | build buffer between two fences, its logical window, the status bar | `set_view_window`, `draw_*_line`, `draw_masked_block`, `draw_float_text`, their undoings, `show_screen`, `show_bar` | four planes; the window is moved and copied at the edges of the buffer; saved pixels go back in order | the buffer always shows the maze; nothing is drawn outside it; a frame shows the game |
| Text, images, input (`text.c`, `blocks.s`, `input.c`) | tables | shapes of letters and blocks | | |

### The blinker (`mp1`)

`mp1.S` keeps a singly linked list of blinking characters. Four ioctls (`add`, `remove`, `find`, `sync`)
search it, link structures in and out and poke characters on the screen; a tasklet, run at every tick of
the clock, walks the same list, counts down and repaints. The tasklet interrupts an ioctl between any two
instructions. Right if the list is whole whenever either looks at it, no structure is lost or used after it is
freed, and the screen shows what the nodes say.

### The rest

`ps2/p3/solution.c` lets two kinds of callers, melons and martians, put messages into a translator
and take translations out of it. The translator's two queues have no checks of their own; two counters
and one spin lock protect it. Inputs poll the counters without the lock and test them again with it. Right
if the translator is used by one caller at a time, never with a full queue or for an empty one, and
melons say nothing new while English messages wait for them. `ps1`: small sequential functions.

## 2. Modules

| Module | Models | Role |
|---|---|---|
| `Kernel` | process control, scheduler, page mappings | specification and properties |
| `JobStacks` | what process control promises: a stack of jobs per terminal, served in turn | abstract specification |
| `KernelJobs` | the refinement mapping from `Kernel` to `JobStacks` | |
| `KernelProofs` | the process table's inductive invariant, isolation of terminals, video pages, RTC flag, the refinement of `JobStacks` | proofs |
| `Terminal` | lines, stdin, stdout, screens, by the keys that are pressed | specification and properties |
| `Keyboard` | extends `Terminal`: scan codes, modifier keys, the tables of characters | specification |
| `TerminalProofs` | the lines, what a read delivers, the pages, that scan codes are keys of `Terminal`; the period of a read of the virtual RTC | proofs |
| `Rtc` | the virtual RTC | specification and properties |
| `FileSystem` | look-up, open, close, reads of files and of the directory | specification and properties |
| `Streams` | what the file system promises: each descriptor is a position in a sequence of items | abstract specification |
| `FileStreams` | the refinement mapping from `FileSystem` to `Streams` | |
| `Programs` | extends `FileStreams`: `execute`'s parsing and validation, the shell, `cat`, `ls`, any other program | specification and properties |
| `MCFileSystem` | a small file system image and the lines typed to two shells | values for TLC |
| `FileProofs` | the invariant of reads, the refinement of `Streams`, and what `cat` and `ls` print | proofs |
| `TuxBuffer` | the index arithmetic of the line discipline's two rings | operators |
| `TuxLine` | the receiving half of the Tux line discipline, byte by byte | specification and properties |
| `TuxCtl` | ioctls, packets and the sending half of the line discipline | specification and properties |
| `TuxProofs` | the ring buffer and the framing; whole commands, LEDs and buttons | proofs |
| `MeLock` | the four functions of the melon and martian lock | specification and properties |
| `Translator` | what they promise: two bounded queues, used in single steps | abstract specification |
| `Blink` | the list, the four ioctls and the tasklet of the blinker | specification and properties |
| `BlinkProofs` | the list between any two accesses, the screen, and nodes in step | proofs |
| `MazeView` | the player, the window that follows it and its moves, in pixels | operators |
| `MazeGame` | the threads of the game, `main`, and the moves they cause | specification and properties |
| `MazeGameProofs` | the player's way and the window; that `make_maze` makes a maze | proofs |
| `MCMazeGame` | two levels of a game | values for TLC |
| `Maze` | the grid: what is drawn of it, unveiled, eaten and won | operators |
| `MazeMaker` | `make_maze`, round by round | specification and properties |
| `MCMazeMaker` | where fruits and the exit may be | values for TLC |
| `ModeX` | the build buffer, the window in it, drawing and showing | operators |
| `MazePlay` | composes `MazeView`, `Maze` and `ModeX`: levels as they are played and shown | specification and properties |
| `MCMazePlay` | images of the player and of a text | values for TLC |
| `MazePlayProofs` | the fences, the window in the build buffer, and what a frame shows | proofs |
| `MeLockProofs` | exclusion, counters, and the refinement of `Translator` | proofs |

Each specification has one action per handler, guarded as the code's early returns
and conditions demand. Operators whose names end in `_Something` are plausible
mistakes of the definition that follows them; no action uses them. They are there to
check that the properties would notice (`mutants` in `PROJECT.json`).

## 3. How the models correspond to the code

**Atomicity.** Every gate of the IDT is an interrupt gate, so handlers and system calls
start with interrupts disabled. Only `read` and `write` execute `sti`. Therefore
`execute`, `halt`, `open`, `close`, `vidmap` and all three interrupt handlers are one
action each, and `terminal_read` and `rtc_read` are split at each test of their
waiting loops. The kernel is built without optimisation, so the loops read the
globals anew on each round.

**Kernel.** The variables are the globals and PCB fields of the same name. A stack
frame is reduced to whose kernel stack it is on and which handler saved it
(`kernel_exc` is the pair `kernel_ebp_exc`/`kernel_esp_exc`, `kernel_sch` says whether
the scheduler's pair holds a frame in which the process is suspended now). Pages are
numbered: 0 is the physical screen and `t + 1` the store of terminal `t`. `esp0` and
`user_page` name a pid instead of its addresses. Init is the state in which `entry` has
executed the first shell. `home`, `root` and `vid_user` are history: the terminal of a
process, the first shell of a terminal, the programs that called `vidmap`.
`running_terminal` stops at `MAX_PROC`; the code compares it only with pids. `PagingInit` is what
`paging_init` leaves before the first shell changes it.

**Terminal and Keyboard.** In `Terminal` a key is what the handler makes of it: a character, Enter,
backspace, Control-L, or a terminal switch. `Keyboard` has the handler itself: a scan code is a modifier
that sets or clears its flag (`SpeKeyCheck`), a code of the table with the character that SHIFT and CAPS choose, a
switch (ALT and a function key, CTRL and a digit), or nothing; pressing and releasing come in any order. A page remembers whose output it shows and whether it is
up to date (two versions), or that two outputs were mixed. `typed`, `entered` and
`quiet` are history: the line as its user sees it.

**Rtc.** `current_count` is kept modulo `WIDTH`, as the C `int` wraps and is only
compared with zero. `waited` is history, the chip's interrupts since the read began.

**FileSystem.** The image is constant: directory entries with their NUL-padded names, inodes
with their lengths and block indices, data blocks. A read is the action `FileRead` (the clipping
in `file_read` and the head of `read_data`), one `ReadBlock` per round of the loop, and
`ReadReturns` or `ReadFails`, because a program may be preempted between any two rounds. The
four branches that copy bytes are one: a round takes the bytes from `StartIdx` to `EndIdx` of its block.
`name` in a descriptor and `asked` are history. Offsets and lengths stay far below 2^32.
What the writer of the image guarantees is assumed (`ImageAssumption`: inodes of files
exist, names differ, no file is longer than its index); a missing data block is not excluded.

**Programs.** `execute` is one step: `ParseCmd` is the four loops of `_parse_cmd_` as the places where they
stop, `FileValidation` what it accepts, and the program is loaded or the shell told of a failure. `cat` takes its
argument, opens the file and writes what each read brings until one brings nothing; `ls` does so with the
directory; any other program makes the calls of `FileSystem` in any order. `halt` closes what is open.
A process stands for a terminal with its shell and the program it waits for. `_parse_cmd_` accepts a
name of 32 characters and puts its NUL behind `filename`, and validation reads 40 bytes of the first block even
of a shorter file and whatever the type of the entry (`sys_calls.c:685`); the models do so too. `output` is what was written.

**TuxLine.** A byte is its number in the order of sending, so byte `b` belongs to packet `b \div 3` and
has the framing bit of a first byte iff `b % 3 = 0`; what a packet says is left to `TuxCtl`. The ring
buffer keeps its slots and indices. The interrupt handler holds the only reference to the ring on this side; it is split into its
rounds (`ReceiveByte`, `CallBack`, `GetByte`, `GetReturns`, `LookAt`, `SaveLeftovers`) to state what
holds at each, and nothing of the model runs between them. The line discipline may be closed and opened
between two interrupts: the ring is new, `saved` is a static variable and stays. `handled`, `arrived`,
`lost` and `passed` are history.

**TuxCtl.** One packet is one element of `packets`, and may be lost on the way (`DropPacket`: the line or the full ring
drops a byte of it and the callback passes over the rest); `TuxLine` is why a packet comes once, in order, and whole or not at
all. What `TuxLine` allows besides, two damaged packets that are taken for one (the exception of `FramesTell`), is left out. The mask and the digits that follow
`MTCP_LED_SET` are one byte of `tx_buf`, which carries the word they make. The game's `display_time` gives
the argument (`DisplayTime`), `LedByte` the segments of each of the four LEDs by the table of the driver. Interrupt
handlers run to their end (one processor, and all locks disable interrupts); ioctls are interrupted
wherever they hold no lock: in each round of the conversion between the digit and its point (`ConvertLed`, `AddPoint`),
before and after `put`, between the
question for room and the lock of `write_wakeup`, before `write`, and before `TUX_INIT` clears the LED
word. `TUX_BUTTONS` copies `button_status` and has no action. The serial driver (`out`) takes what it
has room for. The controller does what `mtcp.h` says: it carries out a command and acknowledges it, tells button
events once they are enabled, and after a reset shows its clock and has lost part of what was on the
line. `mtcp.h` gives the wire format of events, `mazegame.c` the bits that programs expect.
The program calls `TUX_INIT` first. `missed`, `unseen`, `drops` and `dropped` are history: the code gave no promise about the
LEDs, the controller none about the buttons or its event was lost, how many packets were lost, and of which types since the driver last
sent the modes. The driver sends these in `TUX_INIT` and after a reset whether it is busy or not, so they make up for earlier losses.

**MeLock.** A thread calls any of the four functions; its steps are the poll (inputs only), the lock, the
test, the call of the translator, the counter, the unlock. The spin lock and the translator are
external: the translator's routines take one step, and `TranslatorUsedRight` is what they expect.

**Blink.** An action is one access of an ioctl to a listed node, to the head or to the screen, or several of
which the tasklet cannot see the first; the registers are in `op`. `Tick` and `TickNode` are the tasklet, node
by node, with its place in `cursor`, which is `NULL` between two ticks; while it runs no ioctl does. Memory handed out by `mp1_malloc` is any free block, freed memory
holds `Junk`, so that a use after a free or a pointer into freed memory breaks an invariant. A character is
named by its node and status. `order`, `raced` and `parted` are history: the list as it should be, the
nodes a tick has flipped between an ioctl's choice of a character and its poke, and the one tick that
may separate two nodes that are being synchronised.

**MazeGame.** One action per piece of a thread's code that holds the mutex or touches something another thread
touches without it: `rtc_thread` writes `tux_press_flag`, `button_press` and `winner` outside the mutex and
reads `quit_flag` there, so `Poll`, `Publish`, `SignalTux` and the step of the player are separate, and so are
the pieces of `tux_thread` behind its wait. `Signal` wakes the tux thread only if it waits. The mazes are given:
`Open` are their open lattice points. `main` waits for its threads in the order of its joins. `press` is history.
A step of the player is one tick of the clock: `TurnedDir`, `TurnedCount` and `LeaveDir` are the
two conditions before it, `Moved` the four `move_` functions of `MazeView`.

**MazeMaker.** One action per round of a loop of `make_maze`; the loops that mark an area
(`mark_maze_area`, a queue in the code) are one step, whose reference, `HangsTogether`, is about cuts and not
about a search. `random()` is a choice among all it can return; `Spots` narrows where
fruits and the exit may be. `idle` is history.

**MazePlay and ModeX.** A byte of an image is the pixel of the block it comes from, `<<block, x, y>>`, so that any
pixel drawn at a wrong place or left over shows. The four planes, their order, the offset of the window
in the buffer, the recentring with its `memmove` and the rotation of planes in
`show_screen` are modelled address by address; a drawing is a function from pixels to bytes (`Paint`).
A level starts with any maze that `MazeMaker` may leave when the inner walls
are removed, which is what the code does (`GOD_MODE`). The two pages of video memory, which are drawn in turn, are one.
`next_dir` is chosen anew at each tick, as the other threads may. The floating text stays
as long as it pleases. `screen` and `bar` are what is displayed.

## 4. Runs

| Run | Shows | Instance |
|---|---|---|
| `process` | the process table is right, handlers of one terminal leave the others alone, and process control implements `JobStacks` (refinement, with its fairness) | six pids and three terminals, the code's own numbers; no descriptors |
| `resources` | video pages, bitmap and RTC flag agree with who runs | three pids, two terminals, two free descriptors, all calls |
| `terminal` | lines are buffered, delivered and taken; pages show the right terminal | two terminals, buffer of 4, the scan codes of a letter, backspace, Enter, SHIFT, CTRL, ALT and two function keys, four typed keys, reads of 0 to 5 bytes |
| `rtc` | each read lasts exactly its period, and returns | two processes, chip frequency 4, a counter of 8 values |
| `file_system` | `cat` and `ls` print their file to its end, reads stay in the file and follow it, and every descriptor delivers its file as one stream (refinement of `Streams`) | two shells with a descriptor each, `cat`, `ls` and a free program, five entries, blocks of 2 bytes, names of 2 characters, reads of 1 and 3 bytes |
| `tux_line` | packets that come whole are handled, once and in order, whatever is lost around them | ring and `packet[]` of 5 bytes, 10 bytes sent, 2 lost by the line |
| `tux_ctl` | commands stay whole, LEDs and buttons follow, the driver does not stay busy unless the packet that would free it is lost | four LEDs, one time (1:23), one button, one reset, one lost packet, a ring of 8 |
| `me_lock` | the translator is used by one at a time and behaves as two bounded queues (refinement); callers that take output return | two threads, two messages, queues of two and one |
| `blink` | the list is whole between any two accesses, the screen follows the nodes, a sync leaves two nodes in step | three blocks of memory, two locations, lengths 2 and 1, a counter of 3 values |
| `maze_game` | the player stays on its way and in the window whatever the input threads do; presses are acted on; the game ends | two levels, blocks of 3 by 2 pixels, one button, five keys |
| `maze_maker` | `make_maze`'s counters and marks are right in every loop, its second phase ends, its maze is connected | six spaces, two fruits, scans below three spaces or after two trials |
| `maze_play` | the build buffer shows the maze, drawing stays inside it, frames show the game | two levels of two and four spaces, blocks of 2 by 2, a window of 4 by 5, two bytes to move in |

**Why the bounds are enough.** `process` needs no bound: its instance is the code's. In
`resources`, two terminals give a running one, a displayed one and their differences;
three pids give each terminal a shell and one of them a child, and two descriptors
let one be open twice or be closed under another. A line buffer of 4 has room for two
characters, the line feed and the NUL, so that a full line, a line with room and an
empty one are all reached; four keys, besides modifiers, fill the buffer, erase and enter, or enter and switch and type again. `NBYTES`
holds a read that cuts the line and one that takes all of it. With chip frequency 4 and
frequencies 2 and 4, a period is two ticks or one; `WIDTH` = 8 makes a counter that jumps over zero
wrap round. The image of `file_system` has a file that ends with its last block, one that does not, one
with a missing block, a name that begins with another and fills its field, and an RTC entry; with
blocks of two bytes, reads of 1 and 3 bytes begin and end at every offset of a block and cross
one boundary or two, and with two processes each of them is preempted between any two rounds by all
calls of the other.

Ten bytes are three packets and the beginning of a fourth, and five slots hold four bytes: the ring wraps round, fills and
overflows, a packet is split over two receives, `packet[]` is filled with bytes left in the ring,
and two losses fall into one packet or two. The theorems of `TuxProofs` hold for any sizes.
In `tux_ctl`, `MAX_UNDERWAY` = 1 lets an ioctl or an event begin while one byte or packet is still underway, so
commands meet unacknowledged ones; the bound applies to what begins, never to what a handler does.
A reset may fall between any two steps, and any one packet, an acknowledgement, an event or the news of the reset, may be lost. The LEDs
show nothing, or 1:23, which is three different digits with a point, or part of a conversion from one to the other. `DRIVER_ROOM` = 14 holds all that can be underway then, as the
serial driver's page of buffer does; with a driver that runs out of room the code loses a byte (section 7).
A queue of one message and one of two are full, empty and (the longer one) between, and two threads
race for the last place and the last message.

Three blocks make a list of two beside a structure that is being added, or of three; removals meet the
head, the middle and the end, and memory runs out. Lengths of 2 and 1 let a node flip between any two
accesses, and `Width` = 3 makes a count that starts at zero wrap round. In `maze_game`, the first level is won at once
and the second is a bend that the window has to follow right and down, past the borders of what may be shown; blocks
that are not square tell the two lengths apart. Six spaces are the fewest with a space that has three
neighbours; worms cross, leave parts behind, and the scan passes the corner of the maze. In `maze_play`, `ExtraBytes` = 2 makes
the window reach an end of the buffer after a few moves, so it is recentred again and again while the
player, the text and unveiled blocks are in it; the first level needs no pan and the second one pans in both directions.
A frame has one tick, since more ticks only leave frames out.

**Fairness.** `Kernel`: the PIT interrupts every 15 ms and programs run with interrupts
enabled, so `WF(Timer)`. Nothing is assumed of programs. `Terminal`: the same for the
scheduler; a time slice is longer than the few instructions between two tests of the
waiting loop, so a program that has a step whenever it runs takes it: `SF` for
"terminal t runs and its program steps". Output (`Write`) and keys are not fair.
This is an assumption that programs come back to `read`: `EnteredLineTaken` says that
then the keyboard is not locked. `Rtc`: the chip interrupts (`WF`), every process is
scheduled again and again, and a loop that may end is left (`SF`). `TuxCtl`: ioctls do not wait, so they run
on; packets that came are handled; the controller carries out what it has heard (`WF` each). Resets,
buttons and losses are not fair: nothing says that a packet is lost or comes through, so `BusyEnds` has to name the lost acknowledgement, and
no reset is sure to come and end a busy time. `MeLock`: who holds the lock runs on (`WF`), and a spin lock that is free again and again is
obtained (`SF`); callers need not call, and inputs may wait for room for ever, which is why this run
does not check deadlock. `MazeGame`: every thread runs, and one that asks for the mutex again and again obtains it (`SF`
for each); `main` runs (`WF`). Keys and buttons are free choices within the threads' own steps. The game, the making
of a maze and the play of the levels come to an end, so these three runs do not check deadlock; that the
end of the game is the right one is `GameEnds`. The other modules state no liveness; that the second phase of `make_maze`
ends is stated as a bound on idle rounds (`ConnectEnds`), because its random trials are not fair.

## 5. Proofs

All theorems are of the form `Spec => []P` or `Spec => [][A]_vars`, for every value of the constants
that the named assumptions allow (`SizeAssumption`, `FilesAssumption`,
`CallsAssumption`, `EarlyAssumption`; `FreqAssumption`, `WidthAssumption`,
`FdsAssumption`): any number of pids, terminals and descriptors with at least one
pid per terminal, any chip frequency. For the file system (`SizeAssumption`, `NamesAssumption`,
`RequestAssumption`, `ImageAssumption` of `FileSystem`) they hold for any image, block size, number of
processes and descriptors, and sizes of reads.

**Assumption `~EarlyCommands`.** All theorems of the process table except type correctness assume that no
program calls `execute` before every terminal has its shell, i.e. in the first ticks of the
PIT after boot. Without it the code is wrong (section 7).

**The process table** (`KernelProofs`). `RunningTask`, `HaltReturnsToParent` and the others
are not inductive alone: that `halt` leaves a right table depends on where the parent
is, and that the scheduler does depends on the foreground processes of all terminals.
`TableInv` adds
- `Shells`: while terminals are being started, the taken pids are exactly those below
  `running_terminal`, each a shell of its own terminal (so the next free pid is the next shell's);
- `Foreground`: the foreground process of a terminal is live and at home there;
- `Parents`: every other process has a live parent of its own terminal, and the frame of
  that parent's `execute`;
- `OneChild` and `Leaves`: no parent has two live children, and the foreground process
  of a terminal is the only one without;
- `RunningTask` and `SuspendedHaveFrame`.

The lemmas follow the code: `SpawnTable` for the common part of `execute` in both callers,
`StartShellTable` and `ExecuteTable` for these, `EndTaskTable` for `halt`.
The named properties follow from `TableInv`.

**Resources** (also `KernelProofs`). `TerminalsIsolated` follows from `TableInv`: a free pid is no
live process, and `halt` reaches only the parent at home. `KernelVideo` is inductive.
`VideoUsersMapped` needs that the bitmap holds the terminal of each program that mapped the
page (`BitmapCoversUsers`), which needs that a program that did is in the foreground of its terminal: it
leaves `vid_user` when it starts a child.

**Stacks of jobs** (also `KernelProofs`). `KernelImplementsJobStacks` is the refinement of `JobStacks` without its liveness. Read off the PCBs, the
stack of a terminal is a walk along `prev_pid` with a bounded number of steps. `TableInv` alone would allow a cycle of processes
that wait for each other, so `JobsInv` says that each started terminal has a `Path`: from a shell, each the parent of the
next, up to the foreground process. No process is twice in it (`PathOnce`), so it is no longer than the
process table (`PathShort`) and the bounded walk finds all of it (`PathIsChain`). `ExecuteStacks`, `EndTaskStacks` and
`StartShellStacks` say which path there is after a step, `SparedStack` that the other terminals' stay.

**Terminal** (`TerminalProofs`, from `SizeAssumption`, `ReadAssumption`, `CharsAssumption`). `LineInv` adds to
`LineBuffered` where an entered line is (`Holds`: in the buffer of the displayed terminal, closed by the one line feed
before its end), from which `LineDelivered` computes what the copying loop delivers to a read of any size. A switch
keeps it because it drops the flag. `PageInv` adds to `PagesShowTerminals` that the kernel's video address is mapped to the
page of the running terminal; `PutcShows` is a character on the page of its terminal, `SwitchShows` the two copies of the screen.
`ScanCodesImplementKeys` maps every step of `Keyboard` to one key of `Terminal` or to a stutter (`HandlerIsKey`: a code of the
table has a character that a key of `Terminal` may have), so all three properties hold of the keyboard as it is (`KeyboardCorrect`).

**Rtc** (also `TerminalProofs`). `Counting` is the invariant: a waiting reader with frequency `f` has
`current_count + waited * f = MAX_FREQ` until it is served. The step uses that `f` divides
`MAX_FREQ`, so the count never jumps over zero (lemma `StepFits`).

**File system** (`FileProofs`). `FileInv` says of each descriptor in use which entry it was
opened for and that its position is inside the file, and of each read in progress
exactly how many bytes it has delivered when it comes to block `i` (`DoneAt`) and that they are the
bytes of the file. `BufferFollowsFile` alone is not inductive: without `DoneAt` the next round
could leave a gap. `RoundCounts`, `SegmentBytes` and `RoundRead` are one round of the loop,
`LoopDone` its end; they rest on lemmas on division. `FilesImplementStreams` maps each
action to a step of `Streams` (`OpenStep`, `CloseStep`, `ReturnStep`, `DirectStep`, `FailStep`) or
to a stutter. That `Matches` finds the entry with this very name is `MatchesName`. `ReadsInFile` puts the
position and the buffer of a read together. `ProgramsUseFiles` says that every step of `Programs` is one of `FileSystem` or leaves
its variables alone, so all this holds of the programs; on top of it `ProgInv` says that before each round what `cat` or `ls` has
written is its file up to the position of its descriptor, and while a read runs, up to where that began.
`CommandPrintsFile` is its end: a read that brings nothing is at the end of the file. The refinement of `Streams`
carries this proof: what a read brings is what lies between two positions.

**Tux line** (`TuxProofs`, from `BufferAssumption` and `PacketAssumption`: at least two slots, room for a
packet). `LineInv` follows the bytes on their way from the line to the handler:
`Rising` says that the bytes being looked at, then those in the ring, are in the order of their sending, `Accounted`
that a byte which is not yet passed is on its way or lost, and `HandledPassed` that handled
packets lie behind. `PutByte`, `TakeByte` and `RingBytes` are the ring buffer's arithmetic modulo its
size. The step that matters is `LookAt`: if a whole packet begins at the byte looked at, the two bytes
that follow it are its own (`WholeIsNext`), and a byte that is passed over begins no whole packet
(`PassedOver`).

**Tux ioctls and packets** (`TuxProofs`, from `BufferAssumption`, `SizeAssumption`, `RoomAssumption` and
`ButtonsAssumption`). `CtlInv` follows the bytes of a command from the ring through the ioctl's buffer to the line. `Places`:
the ring and the buffer hold the whole command of the running ioctl or nothing. `RoomLeft`: nothing is cut off, since
what is underway and still to come is bounded by what was underway when the ioctl began and four bytes for each reset
that was answered (`Handled`, the resets less those whose packet waits). So the answer to a reset finds a whole command in
the ring and appends whole ones (`AnswerFacts`, `RestoredFacts`), and what the controller reads or is reset in leaves whole ones
(`HeardCommand`, `SuffixJoined`). `LedsCome` is the future of the LEDs: `Ends(out, leds, w)` says that a
controller that shows `leds` and hears all of `out` shows `w` in the end, because the last LED command in `out` decides
(`LastDecides`). It and `ModeComes` do not speak of a time when a reset waits to be handled or its news was lost
(`ResetUnanswered`), because its handler sends, or should have sent, the modes and the LEDs again. `EventsTell` says the same of the last event among the packets; that the driver's arithmetic on the two
nibbles of an event gives each button its bit is `StatusBits`. A lost packet (`DropPacketInv`) takes nothing from the room of
what is underway; a lost event leaves a later one to tell, or is in `unseen`. `AnswerComes` follows what frees a busy driver from
`tx_buf` to the controller and back: commands become acknowledgements (`CommandingTail`, `AnsweringAppend`), a reset
brings itself, and only `DropPacket` takes one away. That is `BusyAnswered`, the safety part of `BusyEnds`. `RoomAssumption` is what the serial driver's page of
4096 bytes gives; a program that calls `TUX_INIT` thousands of times before the line has sent them leaves it (section 7).

**Blinker** (`BlinkProofs`). `ListInv` says that following `next` from the head gives the nodes of `order` and `NULL`, what the running
ioctl holds in its registers at each of its places (a node to be added is in no list, the place found is the node before or behind),
and that every block is listed, free or held by the ioctl. `ScreenFollows` follows with `Chosen` (what an ioctl has
chosen to poke is what the node says unless a tick flipped it in between, which `raced` names); `SyncedInStep` with
`StepInv`, which says how far two nodes are apart while the tasklet is between them (`Passed`, `After`).

**Melon and martian lock** (`MeLockProofs`). `LockInv`: who holds the lock (`Holder`), what a caller inside
knows since its test (`Tested`), and that the counters differ from the queues by what the
holder has still to count (`Counted`). `Counted` is why the counters, read without the lock, may be
trusted once it is held. `TranslateStep` maps the one visible step to `Translator`; all others stutter.

**Maze game** (`MazeGameProofs`, from the assumptions of `MazeView` and `MazeGame`: a block is not empty, the border never shown
is no wider than a block, the screen has room for the player and the pan border, a level's open squares are inside its boundary, and
the first square is open). `MazeInv` is `OnTrack`, `ViewFollows` and the types of the player's position; nothing is assumed
of what the input threads write. The argument: after a reversal or without one, the player is `OnWay` between two open squares
(`WayOn`); it leaves a square only towards an open one (`WayFromSquare`, with `AheadOpen` for the arithmetic of squares and
pixels); and a pixel along the way keeps it there (`StaysOnWay`) and in the window (`StaysFramed`: both squares are inside
the boundary, so the window can follow). `LevelDims` is that the least maze fills the screen, by the division in `MAZE_MIN_X_DIM`.

**Making a maze** (also `MazeGameProofs`, from the assumptions of `Maze` and `MazeMaker`: dimensions in the allowed range, more than
one space, fewer fruits than spaces). `MakerInv` has a part for each phase, and says always that the boundary is whole (`Bounded`).
While worms dig (`DigInv`), `remaining` is the number of spaces still walls and nothing is marked. In the second phase
(`ConnectInv`) the marked spaces hang together and no opening leads out of them (`Joined`), and `ScanRight` is the reason why it
ends: a space is `Stuck` when no wall next to it can be knocked down; it stays so until the next join, and the rounds
since then are the random trials and steps of the scan through stuck spaces. After a scan of the whole maze
every space would be stuck, but while one is not marked, one that is not lies next to one that is (`SomeJoin`). At the
end (`DoneInv`) no space is a wall, nothing is marked, and the fruits are counted. Three arguments carry it:
- the array: every lattice point has its own place (`GridIndex`, `BoundaryIndex`), a wall lies between two spaces only
  (`SameWall`), and so it is known what digging a place changes (`DigOut`, `DigOne`);
- the search: `mark_maze_area` is a recursive function of its rounds; `RoundsSettle` shows that the last one finds nothing
  new, and `FoundIs` what is found. This is an induction over the rounds, written as a least counterexample (`LeastNumber`, `CountsUp`);
- the graph: what is reached from a space has no part without a way out (`SpreadsTogether`), two such sets with an
  opening between them hang together (`JoinTogether`), and for any cut there is an opening across, which is how
  `MazeMade` states that a maze hangs together, without a search.

**Playing and showing** (`MazePlayProofs`, from the assumptions of `Maze`, `ModeX` and `MazePlay`). `WindowInv` is enough for the
fences: the window is held by the buffer (`Held`: `AddrInBuffer` then puts every pixel of it between them), and all drawing is
`Drawn`, a change of bytes of the window. That two pixels have two bytes is `AddrOneToOne`; what drawing, undrawing in the opposite order,
a move of the window and the copy to the other end leave of the picture follows from it (`ErasedIs`, `SetView`).

`PlayInv` adds `GameShown`: the window lies where the player's view says, shows the maze, the maze is well formed
(`MazeOK`) and the player is at a square or on the way from one to the next (`OnTrack`). `MadeIs` and `LevelDrawn` begin it; at a move
`LineShows` says that the line drawn is the part of the window that is new; at a square `AroundShows` says that the blocks
redrawn are all whose picture changed. The last is where `BoundariesApart` is needed. In the array the right boundary of a row is the left one of
the next, so the mist that lifts at one end lifts at the other too, which is not redrawn. The proof shows that the two are
never both in the window (`NotBoth`): the window is narrower than the maze, and the player at a boundary is far enough from its
other edge. This takes three inequalities between the sizes, which the code's satisfy (320 + 6 <= 2 * 14 * 12; a pan border of 5, at
least 3; 12 * 11 <= 320) and the small screen of the run does not, so they are a hypothesis of the theorem and no assumption of the model:
run and theorem cover different sizes. `FrameShown` computes a frame from `GameShown`. For the status bar, `BarInv` says that the bar tells the
number of fruits, or one more, and then that one was eaten at a square that the player cannot leave behind before the ticks end
(`Near`); `OneNear` concludes that no second square is reached. It needs `TicksInSquare`: a frame has at most 8 ticks, a block 12 pixels.

`OneWaiterPerChild`, `KernelVideo`, `BusyAnswered` and the type invariants of the modules with proofs are proved and no run
checks them again.

**Model-checked only.** Liveness (`EnteredLineTaken`, `ReadReturns`, `BusyEnds`, `OutputsReturn`, `PressTaken`, `GameEnds`) is out
of the prover's reach. So is `Turns`, the
liveness of `JobStacks`; the rest of that refinement is proved.

## 6. Hazards

`PROJECT.json` lists under `hazards` what in this code can go wrong in a way a test hardly
reaches, with the properties that watch it. Five have no property: in
three of them the code is wrong (the stale flag in `terminal_read`, type-ahead, the second RTC descriptor; section 7), one needs
commands before all terminals have their shells (a full process table), and one is
memory behind an array, whose contents the models leave out. Others have properties that name the case in which the code fails,
such as `BusyEnds` the lost acknowledgement and `PressTaken` the press whose flag is taken too early; their notes say so.

## 7. Where the code does not do what it says

Seen while modelling. The models do what the code does; their properties name the case they leave
out, or an assumption does.

Kernel:
- `halt` closes the parent's descriptors instead of those of the program that ends (`sys_calls.c:376`): it has set
  `pid` to the parent before its closing loop. It also calls `paging_restore_for_vedio_mem` for a program that
  never called `vidmap` (`sys_calls.c:370`), so it may unmap the page under a parent that did.
- A program executed before the PIT has started the other terminals gets a pid that `halt` later takes for a shell's
  (`sys_calls.c:319`), and may leave no pid for the next shell (`scheduler.c:62`): the assumption `~EarlyCommands`.
- `terminal_read` may take and erase the line of another terminal (`terminal.c:68`): the displayed terminal is switched between its
  last test and `cli`.
- What is typed after Enter and before the read overwrites the entered line from its start (`terminal.c:161`).
- Closing one of two RTC descriptors clears `rtc_opened` and stops the clock for the other (`rtc.c:148`).
- `vidmap` maps the physical screen also for a program whose terminal is not displayed, until the next
  switch (`sys_calls.c:290`); `execute` without a free pid returns 0, as if the program had ended (`sys_calls.c:734`).

Tux controller: a reset is answered without restoring the LEDs while a command is unacknowledged
(`tuxctl-ioctl.c:107`); there is no timeout, so one lost acknowledgement keeps `is_busy` set, and `TUX_SET_LED`
refused without an error, until the next reset or `TUX_INIT` (`tuxctl-ioctl.c:234`; `BusyEnds` names this case); a reset
whose packet is lost is never answered; `TUX_INIT` sends three commands, the first acknowledgement frees the driver for
the next; it writes `buf[6]` and `buf[7]` of an array of six (`tuxctl-ioctl.c:170`).
`write_wakeup` takes one byte more than the driver has room for (`n <= room`, `tuxctl-ld.c:203`).

Game:
- A game that is won while the tux thread waits never returns to the shell: nobody signals the condition, and `main` waits in
  its join (`mazegame.c:897`). `GameEnds` names this case (`TuxStranded`).
- A press is lost if the tux thread takes the flag before `rtc_thread` has published the button
  (`mazegame.c:689`), and an arrow key if an empty read falls between its three characters.
- `*type_fruit` is overwritten with 0 when the next space is unveiled before the text is made, so the text may
  name no fruit.
- `draw_float_text` remembers between calls which mixed colour belongs to an index of the palette, but starts again
  with the first free index at each call (`modex.c:866`): colours mixed in different frames share an index, and the
  later one is shown for both.
- `copy_image` copies 16000 bytes of each plane, more than the window has, from within the buffer; what it adds is
  hidden behind the status bar. `SCROLL_Y_DIM` is a macro without parentheses (`modex.h:57`): sizes that multiply it are larger than
  meant, which does no harm; `ModeX` computes what the compiler does.

Blinker: a tick between an ioctl's choice of a character and its poke leaves the screen wrong until the node's
next flip; a tick between a sync's copies of count and status leaves the two nodes out of step for good
(`ScreenFollows` and `SyncedInStep` name these two ticks).

## 8. Not modelled, and why

Printing, string functions, boot and the programming of the PIC, PIT and RTC chips are
device I/O or straight-line code. In MP2 the registers of the VGA, the palette (also the mixed colours that a
floating text takes, so a pixel of it is `"text"` whatever is behind)
and the shapes of letters and blocks are device I/O and tables; `add_a_fruit` is never called; `input.c`
is a test driver of its own. `tests.c` is not
called. What programs other than the shell, `cat` and `ls` compute is the environment.

## 9. Plan

Built so far: sections 2 to 5. Next, in this order.

1. `Console`: the cursor of `putc`.
