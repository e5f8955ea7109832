# Verification of the legendary-journey kernel

legendary-journey is a small 32-bit x86 operating system: two boot stages, a
kernel with its own drivers, memory managers, FAT32 file system and shell, and
user programs that the shell loads and runs one at a time. This directory holds
TLA+ models of the loader and the kernel, the TLC runs that check them on small
instances, and proofs that TLAPS checks for every value of the constants.
`PROJECT.json` lists the runs, the mutants that show each property can fail,
the source lines every definition models, the hazards and the theorems.

## 1. Inventory

The kernel runs one thread. It shares memory only with interrupt handlers, of
which two are installed (timer, keyboard); interrupt gates keep interrupts off
until a handler returns. A user program runs in ring 0 and calls the kernel
through plain function pointers, so every call below is a procedure call that
ends before the next one starts. Nothing is persisted but the disk, which has
no journal.

| component | state | operations | talks to | modelled by |
|---|---|---|---|---|
| ring buffer (`kernel/util/ringbuf.c`) | `buffer`, `start`, `end` | put, take, peek, clear, len, space | keyboard driver | `RingBuf` |
| keyboard (`kernel/drivers/kbd.c`) | modifiers, pressed keys, the ring buffer | `kbdhandler` (interrupt), `kbd_getc`, `kbd_getc_blocking` | shell | `Keyboard`, `KeyQueue` |
| timer (`kernel/drivers/timer.c`) | tick count | interrupt, wait | ends every `hlt` | `Interrupts`, its end of a halt in `Keyboard` |
| frame allocator (`kernel/memory/kalloc.c`) | free list, two counters | `kalloc`, `kfree`, `kallocinit`, `kallocexpand` | page tables, buffers of fat.c, file.c, kbd.c, elf.c | `Pages` |
| page tables (`kernel/memory/virtmem.c`) | directory, tables | `kpginit`, `pg_map_range`, `pg_unmap_range` | `kalloc` | `Pages` |
| block allocator (`kernel/memory/librmalloc.h`) | list of blocks | `rm_alloc`, `rm_free`, `rm_realloc` | program loader, programs | `Heap` |
| FAT (`kernel/disk/fat.c`) | a window of the table, search start | cluster value, set, search, allocate, release, commit | file.c, ATA | `Fat` |
| files (`kernel/disk/file.c`) | handles; directory entries on disk | open, create, read, write, seek, rewind, flush, resize, close | FAT, programs, loader | `Files` |
| paths (`kernel/disk/path.c`) | none | concat, copy, simplify, load, exists | file.c, shell, programs | `Path` |
| loader, system functions (`kernel/user/{program,elf,user_functions}.c`) | a program's directory, file table and heap | start, load, end, fopen, fclose, setcwd .. | files, heap, kalloc | `Program`, `Path` |
| shell (`kernel/user/shell*.c`) | directory, command line | read, parse, `cd`, `clear`, execute | keyboard, console, loader | `Shell`; the directory `cd` leads to in `Path`, running a program in `Program` |
| console (`kernel/graphics/printf.c`) | video memory, cursor | `putc`, `puts`, `putsn`, `printf`, `printf_clear` | all | `Console` |
| interrupt dispatch (`kernel/cpu`, `x86.S`) | gates, handler tables, controller mask | `idtinit`, `isrinit`, `irqinit`, `irqinstall`, stub, dispatch, acknowledge | drivers, `main` | `Interrupts` |
| ATA driver (`kernel/disk/ata.c`) | the drive's registers | sector read, write, reset, flush | FAT, files, the drive | `Ata` |
| boot stage 1 (`boot/stage1/boot.S`) | registers, a list of extents | disk read with retry | BIOS, stage 2 | `Boot` |
| boot stage 2 (`boot/stage2`) | a sector of the table, an open file | find the kernel, read its headers, load its segments | drive, kernel | `Boot`, with the kernel in `Startup` |
| user programs, standard library | | call the system functions | | no |

What is hard here, and what makes each component correct:

* keyboard: `ringbuf_take` and the interrupt's `ringbuf_put` interleave without
  a lock, and "no key yet" is tested some instructions before `hlt`. Correct
  means that no key is lost, doubled or reordered, and that a queued key is
  eventually returned.
* frames and pages: the free list, the tables and the callers share the frames;
  calls fail half way when frames run out. Correct means that a frame has one
  role at any time and that a mapped region keeps its pages.
* heap: splitting, merging and growing must keep the list a partition of the
  memory over any sequence of calls, wrong frees included.
* FAT: a window over the table with write-back, a cached search start, and
  loops over chains. Correct means that the window is invisible, the chains on
  disk stay disjoint and ended, no cluster is lost, and the calls end.
* ATA: the drive changes its status between any two of the driver's polls, and
  may give up at any of them. Correct means that a read returns the disk, that a
  write that succeeds is on it, and that a call ends.
* loader: many ways out of loading a program, with up to four pages and a block
  taken. Correct means that they come back, and that no open file loses its slot.
* paths: `path_simplify` works from right to left in the buffer it reads. Correct
  means that any sequence of `cd` and `setcwd` leads where the user has asked.
* boot: a retry that does not repeat what failed, reads that copy more than was
  asked for, chains read through one sector of the table. Correct means that the
  kernel is entered with its segments as linked.
* interrupts: requests come at any time while gates, handlers, drivers and masks
  are set up one by one. Correct means that each meets what it needs, is
  acknowledged, and that a wait lasts as asked and ends.
* console and shell: a cursor that crosses rows and scrolls, and a line that is
  edited, then cut up in place. Correct means that the screen shows the line and
  that a command gets the words that were typed.
* files: a handle is a cache of a position, a cluster, a sector's bytes and a
  size; each call leaves it in a state the next one has to cope with. Correct
  means that a file reads back as written and that no call touches another file.

The hazards, line by line, are in `PROJECT.json`.

## 2. Modules

Definitions keep the source's names where TLA+ allows it; `map` in
`PROJECT.json` gives the lines of each. A definition marked "mutant" is a
plausible bug of the definition below it, and no module uses it.

**Boot** is the way from the BIOS to the kernel. Stage 1 is `Diskread` with its
failure, reset and retry; stage 2 is one action per call (`OpenRoot`, `FindEntry`,
`ReadElf`, `ReadHeaders`, `LoadSegment`), over the operators `FileRead`,
`FileSeek` and `fatclustervalue`, which carry the open file and the window of the
table. A file's bytes are their own numbers, so `mem` says which byte of the file
lies where; `JUNK` is what a too long copy finds behind the buffer.

**Interrupts** has the processor either running the kernel, one action per
instruction that matters, or on its way through a gate: `Gate` (external, the
processor), `Stub` (the macros of x86.S), `isrhandler`, `Eoi`, `Iret`. The
controllers (external) have masks, requests and lines at work with their
priorities. `irqinstall` is its five steps, `timer_wait` its check and its `hlt`
apart. `cpu = "astray"` stands for any interrupt that finds no present gate, no
handler, a driver that is not set up, or not its frame. **Startup** composes both:
devices may request from the moment stage 2 has interrupts off.

**Console** has the screen as a record of characters, the cells in the cursor's
color, and the cursor; `putc` is one operator, printing a text its fold.
**Shell** is `shell()` on that screen: one action per key, `shell_exec` with
`Arguments`, then the command, of which it matters what it prints. `typed` is the
line as the user has edited it.

**RingBuf** has the buffer's arithmetic as operators that take the fields as
arguments, so that `Keyboard` can read a stale `end`.

**Keyboard** has two actors. `kbdhandler(code, pressed)` and `timerinterrupt`
are atomic; `kbd_getc_blocking` is `Call`, `Check`, `Copy`, `Advance` (or
`WrapCopy`, `WrapAdvance`), `Test`, `Halt`: each is one load or store of the
shared fields. `Copy` may use the `end` that `Check` loaded or load it again,
for the compiler may do either. `sent`, `returned`, `stamp`, `chStamp` and
`lapped` record history. **KeyQueue** is what the driver promises, a bounded
first-in first-out queue, and `Keyboard` implements it under the mapping in
`Queue`, until the buffer laps.

**Pages** follows `main.c`: `kallocinit`, `kpginit`, the drivers' allocations,
`kallocexpand` with its two mappings, and then any calls. The free list is a
sequence. `pg_map_range`'s two loops and `pg_unmap_range`'s run one page per
action (`CheckPage`, `MapPage`, `UnmapPage`), each with the failure it can meet.
`held` and `regions` are what the clients know.

**Heap** has the list of blocks as a sequence of records; the merging loops
(`CombineStep`, `GrowStep`) run one iteration per action. `live` is what the
callers hold.

**Fat** models fat.c's window (`buf`, `win`, `nsec`, `dirty`), the search start
and the copies on disk. Every access to an entry first lets `MoveWindow` fetch
its sector. `Create`, `Grow` and `Shrink` are the calls file.c makes, the
loops inside them one iteration per action. The ghost `table` is the plain
array the window stands for, `chains` what the callers know.

**Files** is file.c over that plain array: one call is one action and contains
everything the call does. Its loops are functions over the rounds `0 .. K`, of which
round `k` is an operator of round `k - 1`: `ReadLoop` of `ReadSector`, `WriteLoop` of
`WriteSector`, `fatallocclusters` of `Link`, `fattraverse` of `Onward`; `fileresize` is
`Grow` or `Shrink`. A handle is a record with the fields of `struct file`. Behind a handle the model
keeps `content` (what the file should hold by the calls made) and `session`;
some legal-looking calls are not supported by the code (see below), and a file
they are made on joins `spoiled`. The bound `MaxMisuse` says how many such calls
a run contains, so that the other properties are checked with them too.

**Ata** has the driver's loops and the drive as two actors. The drive (external)
is `DriveIdle`, `DriveReady`, `DriveWrites` and `DriveFails`; each can fall
between any two accesses of the driver, whose locals (`i`, and `ready` for the
DRQ bit of `status`) are variables. `content` says what each sector may hold by
the calls' results. `Fat` and `Files` take a sector transfer as one step that
succeeds; `Ata` shows what that rests on.

**Path** has path.c as recursive operators on sequences of characters
(`Scan` is the loop of `path_simplify`), the shell's directory changed by `cd`,
and a program's copy of it changed by `setcwd`. `where` and `uwhere` are the
reference: the list of names that a walk from left to right comes to.

**Program** follows `user_mode_start`, `elfread` with every failing exit, and
the program's `fopen` and `fclose` on the table of slots. A page is only
counted, and one boolean per pointer of `elfread` says whether it holds one;
`kept` are the pages with a section that are not freed yet, or never. The block
of `program_data` is the last program's and is not cleared, so `opened` outlives
a program.

## 3. Runs

| run | question | bounds |
|---|---|---|
| `Keyboard` | no key lost, doubled, reordered or stuck, shift bit honest, implements `KeyQueue` | 3-byte buffer, 6 presses, both shifts and a letter: the indices wrap twice and the buffer fills at every start |
| `Fat` | window transparent and copies equal, chains intact, search start safe, calls return | 12 sectors of 2 entries, window of 1, 2 copies, calls with up to 4 clusters in use: every access pattern of window and chain, searches across sectors and searches that fail, at the first and at the second cluster of a growth |
| `FatWindow` (violation) | a released chain ends where it should | as above, window of 2 sectors |
| `Pages` | one role per frame, counters, regions stable, walks succeed | 8 frames, 5 virtual pages, tables of 3: two tables, running out at every place |
| `Files` | no file gets into another, contents kept, no stray writes | 2 names, 2 handles, 3 clusters of one 2-unit sector, sizes to 3, 1 unsupported call |
| `FilesSectors` | contents and reads through clusters of 2 sectors | 1 handle, every call, sizes to 5 |
| `Heap` | blocks tile the memory, pointers are backed, free neighbours merged | 31 bytes, headers of 4, alignment 2, requests 0, 1, 4, 7: up to five blocks |
| `Path` | a directory is the one asked for | buffers of 8 bytes, arguments of up to 4 characters over `/`, `.` and a letter: overlong paths, doubled separators, `..` above the root |
| `Program` | pages and blocks come back, open files keep their slots | 6 pages, 3 slots, 3 shapes of program, 4 paths: pages run out at every step, all slots taken |
| `Ata` | reads return the disk, writes are on it, calls end | 3 sectors, reads and writes of up to two, the drive answering or failing at every point |
| `Startup` | kernel loaded and started, no interrupt astray, requests served, waits as asked and ended | 160 starts (layouts of directory, clusters and segments; lists of 1 and 2), lines 0, 1 and 14, 8 ticks until the counter wraps, waits of 0, 1, 3 and 7 |
| `Shell` | the screen shows the line, commands get the words typed | 7 keys, commands of up to 4 characters, 2 arguments, a screen of 3 rows of 4 cells: the prompt's line wraps, scrolls and is too long |

In `Files`, a unit stands for the bytes a caller moves together and a sector
has two, which separates a full, a partly filled and an empty sector; with
`SPC = 1` every sector's end is a cluster's end, with `SPC = 2` both kinds
occur. Names and handles are interchangeable (`Alike`). In `Startup` the disks
put the kernel's entry before, at and behind a sector's end, its clusters in one
or in several sectors of the table, and its segments at unaligned places, with no
bytes, a part of a sector, or several sectors. In `Shell` a row of four cells is
shorter than prompt and line together, so every line that is long enough wraps,
and a third row scrolls.

### The run that ends in a violation

`FatWindow` states what a comment promises (fat.h:39) and the code does not do:
the FAT window is indexed modulo its size. `Coherent` and what follows hold for a
window of one sector, and for one that holds the whole table
(`FATSIZE <= CACHE`). The kernel's own `FAT_CACHE_SIZE` is 8: on a table of more
than 8 sectors it is exposed to what the run shows.

### Other behaviour that limits a property

The models do what the code does here, and the properties say where they stop:

* A press that fills a buffer whose `start` has moved makes `end = start`, which
  reads as empty: the whole buffer is lost. `KeysAccountedFor` and
  `ReturnsInOrder` speak of the time before that (`~lapped`); order and no
  doubling hold after it too. `kbd_getc_blocking` also returns function keys,
  which are no ASCII characters.
* `fatfindfreecluster` counts the entries left to search as the table's entries
  minus four times the start (fat.c:133, entries minus bytes): it reports a full
  disk too early. `NothingFreeBehind` speaks of the times when the last search
  has found a cluster, and after a refusal no call searches before something is
  freed: a search would run off the table.
* `fatallocclusters` does not look at a failure (fat.c:171): it links the chain's
  last cluster to 0, the mark of a free entry. A next search finds that cluster
  again; without one it stays free, the next file gets it, and both files' chains
  lead to it from then on. `ChainsIntact` says that nothing else is lost; `torn` has
  the chains that this has happened to, and no further calls are made on them.
* A read that ends at the end of the last cluster has copied its bytes and
  returns 0 (file.c:436-440), which `HandlesHonest` admits. The end is only looked
  for where the next sector starts a cluster (file.c:433).
* `fopen` leaves a slot taken when `fileopen` fails with `EISDIR`, `ENOTDIR` or
  `EPATH` (file.c:327-330, 390-398), and a program that ends without closing
  leaves its slots taken too; the table is never cleared (program.c:23). After
  four of these, `fopen` fails with `EMFILE` in every later program.
* `elfread` never frees the string table's page (elf.c:257-260): `PagesAccounted`
  says that nothing else is lost, but each start of a program costs a page.
* A `cd` that fails leaves its unsimplified text in the shell's directory
  (shell_builtins.c:18), and one with two `..` more than there are names leaves
  `../`, which is not absolute (path.c:140-156): `sound` is false after them
  until an absolute `cd` succeeds.
* file.h:48 says that `filewrite` returns the number of bytes written. A write
  behind one that ended at the end of a sector, or over the end of a sector into
  data that is there, returns its size although `fileflush` has moved the handle
  on without reading the next sector (file.c:611-616). Contents are therefore kept
  if files are written front to back: `Spoils` lists the other writes, and `Flush`,
  `Resize` and abandoning a written handle are the calls after which
  `ContentsKept` no longer speaks of the file. A resize that leaves the handle on a
  cluster it has freed makes it silent for all files, for another file may get that
  cluster and the handle still writes to it. A first version of the model took a
  resize to less than the position for that; the proof of `FilesContentsKept` showed
  that this is too little: after unsupported calls the cluster that a handle is on may
  lie further behind in the chain than the position says.
* ata.c:80 says "wait until ready to read", but `status` keeps its DRQ bit from
  the first sector on, so the others are read without waiting. `ReadsTheDisk`
  excepts a read that took a sector too early (`early`); file.c reads single
  sectors, `fatcache` eight. The drive may then still be at its read when the
  driver returns, and since `atawrite` does not reset it first (ata.c:99), a write
  that follows goes nowhere though it returns true: after an early read the model
  lets such a sector hold its old or its new value.
* Two handles on one file keep their own size and buffer, and the later close
  overwrites the entry (file.c:655): `Files` opens a file once at a time (`Users`).
* After a BIOS error stage 1 retries with the error code in `%ah` as the service
  (boot.S:136-152), and after three errors it goes on as if it had read:
  `KernelStarts` is stated for a BIOS without errors.
* Stage 2 reads past its buffer (file.c:143), over the stack for a directory entry
  at a sector's end, and takes a read that ends with the last cluster as failed
  (file.c:135). `Bootable` says from which disks it starts. On all others it halts
  or, with `bpc = "wild"`, anything may happen. The junk behind a segment is
  overwritten because segments ascend, which `BootAssumption` takes from link.ld.
* A `timer_wait` whose end does not fit 32 bits returns at once (timer.c:35), and
  one whose end is the last count may miss it.
* Backspace in column 0 leaves the last character of a full row on the screen
  (printf.c:66-77): `ScreenShowsLine` excepts that line (`blind`).
* A line of 128 characters fails, and the rest of it is read as the next command
  (shell.c:95): `ArgumentsAsTyped` excepts that command (`cut`).
* A drive that gives up without offering a sector hangs the driver (ata.c:81,
  132), and an error that comes after `atacheckerror` has looked is printed but
  `atawrite` returns true: `CallsReturn` and `DiskAsWritten` except these.
  `atacacheflush` sends its command byte to the data port (ata.c:18); the
  model's drive ignores it, for what a drive does with it is not in the code.
* Function and arrow keys index `chars` (kbd.c:70) behind its 128 elements; what
  lies there is the linker's choice, and the model keeps nothing there.
* `kallocexpand` and `main` ignore the result of `pg_map_range` (kalloc.c:95): the
  model goes on as the code does, and the fault that follows is outside it.

### Fairness

`Keyboard`: weak fairness of the kernel's own steps (the processor executes
them) and of the timer interrupt (programmed to fire at 1000 Hz for ever).
Nothing makes anybody press a key. `Fat`: weak fairness of the call in progress,
none of starting one. `Ata`: weak fairness of the driver's steps and of the
drive, which ends what it has begun, perhaps with an error. `Startup`: weak
fairness of the processor, which executes what is there, through loader, kernel
and interrupts alike, and of the timer's request; none of keys, faults or
programs. That a line only requests again after the kernel has run (`rested`)
says that a device's period is longer than a handler and an instruction: at 1000
Hz it is. The other modules check safety only.

Deadlock is not checked where the system may stop: in `Ata` after a drive that has
given up, in `Startup` after a halt or an exception, in `Shell` when the keys of
the run are used up.

## 4. Proofs

**KeyboardProofs** proves, for every buffer size, layout and number of presses,
from `CapAssumption` and `KeyboardAssumption`: `KeyboardTypeOK`,
`KeysAreAccountedFor`, `ShiftBitIsHonest`, `KeysReturnInOrder`
(`Spec => ReturnsInOrder`) and the refinement, `KeyboardImplementsQueue`
(`Spec => ImplementsKeyQueue`).

`KeysAccountedFor` is not inductive: whether a byte is in the buffer depends on
where `ringbuf_take` is and on the `end` it loaded. The inductive invariant
`IInv` adds `ContentInv`, which press is in which slot, and `TakeInv`, what the
loads so far still guarantee at each location of `ringbuf_take`: the buffer has
a byte, `endSeen` and `end` leave it room, and `Copy` took the branch that fits
`start`. Each action preserves it by arithmetic on `start` and `end`.

`IInv` is silent once the buffer is lapped, and `ReturnsInOrder` is not. A second
invariant, `SInv`, needs no distinction: presses are stored one slot after the
other, so `end` is `Mark(sent)`, `start` is `Mark(returned)`, and a slot holds the
newest press whose mark it is. A reader that has once seen more presses sent than
returned therefore takes a newer one than the last, however often the handler has
lapped it since. For the refinement each action is mapped: `kbdhandler` to `Press`,
`Lap`, `Lost` or nothing, `Advance` and `WrapAdvance` to `Take`, `Test` to `Return`,
the others to nothing; `HandInv` says that the byte in hand is the one at `start`.

**PagesProofs** proves, for any memory size, table size and heap and guard
ranges (`PagesAssumption`): `PagesTypeOK`, `FramesHaveOneRole`,
`CountersStayHonest`, `PageWalksSucceed`, `RegionsKeepPages` and, as an action
property, `MappedPagesStay`. The inductive invariant `PInv` is the conjunction of
the safety properties with `BootInv`, what `main.c` has done in each phase (no
range is being mapped or unmapped before `kallocexpand` maps the heap, none is
unmapped before the boot is over; no directory or table exists before `kpginit`,
and the free list holds every frame below 4 MB when `kpginit` takes from it), and
`LoopInv`, what the loops of `pg_map_range` have established up to their index:
every page checked is unmapped and has a table, every page passed by the second
loop is mapped, and the range being changed is apart from every mapped region.
Without `LoopInv` neither a walk's success nor the freshness of a page to be
mapped follows.

**ProgramProofs** proves, for any number of pages and slots and any programs and
paths (`ProgramAssumption`): `ProgramTypeOK`, `LoadsAreAccounted`,
`BlocksAreReturned` and `FilesStayApart`. `GInv` adds to these which of
`elfread`'s pointers can hold a page in each step and that a held symbol table is
one of the kept pages, so that the single exit, `Done`, never returns a page that
was not counted; the ways to fail are then instances of one lemma, `DoneStep`.

**HeapProofs** proves, for any memory, header size, alignment and requests
(`HeapAssumption`): `HeapTypeOK`, `HeapBlocksTile`, `HeapLiveBacked` and
`HeapNoFragments`. The invariant `HInv` keeps the list sorted, aligned and without
gaps (`BlockList`), gives each holder a block of its own that is in use and large
enough (`Holds`), and says how far a merging loop has come (`MergedTo`): up to the
iterator no two free blocks are neighbours, so that none are left when it ends.
Splitting and merging are lemmas about the list that all calls share. That there is
a best block when any fits needs a least element of a finite set: since no induction
rule can be used here, it comes from the library's theorem that strict inclusion is
well-founded on finite sets.

**AtaProofs** proves, for any number of sectors and any length of calls
(`AtaAssumption`, in which `Garbage` is no sector's data): `AtaReadsTheDisk` and
`AtaDiskAsWritten`, which contains the types. Neither is inductive, for they speak
of the end of a call. `AInv` relates the driver to the drive while both work:
`AtWrite` and `WriteGoesOn` say that in a write that has met no error the drive's
command is at the driver's sector, with as many left as the driver will still send;
`ReadGoesOn` the same of a read until it takes a sector early; `ContentOK` that each
sector holds one of the values that the results so far admit.

**FatProofs** proves, for any table, number of copies and choice of calls
(`FatAssumption`), under two hypotheses: `FatCoherent`, `FatChainsIntact`,
`FatNothingFreeBehind` and `FatDeallocEndsChain`. The hypotheses are what the code
needs and does not check:

* `Slotted`: the window has one sector or holds the whole table. With the kernel's
  own 8 sectors this is so for tables of up to 8; `FatWindow` shows what happens to
  `DeallocEndsChain` without it, and `FatDeallocEndsChain` that it holds with it.
* `Roomy`: the calls never bring the table to a quarter of its entries in use, and
  leave a few entries free. Then a search may fail, as the run `Fat` shows, but no
  second one directly after it. Without it (`MaxUsed` 5 in `Fat.cfg`) TLC finds
  `ChainsIntact` violated: a growth whose searches fail twice running sets the
  chain's last entry to 0 and then loses that cluster (fat.c:171).

`FInv` says of every step of every call that the window agrees with the ghost table
where it is dirty and the copies where it is not (`Window`), that the chains at rest
are disjoint paths in the table (`OthersOK`), that the chain being changed is one
too, with the part `r` that is still to be freed (`MineOK`), and what each program
counter has established (`Phase`). `Search` is the invariant behind
`NothingFreeBehind`: behind the start everything is in use, or, after a failed
search, the clusters in use are an initial part of the table. `Refind` describes the
one step in which neither is so: a failed growth has freed the cluster just behind
which the start stands, and the next search finds it.

**StartupProofs** proves, about the composition `Startup` and so from the BIOS
on, from `InterruptsAssumption`: `InterruptsNoneAstray` and
`InterruptsWaitsAsAsked`, for any lines, vectors, width of the counter and waits.
`IInv` has three parts. `Tables` says which gates, handlers and masks `main` has set
up at each place, among them that a line is unmasked only after its handler is in
its table and its driver is ready. `Processor` says which frame is on the stack
between a gate and its `iret`, with an error code exactly when the processor or the
stub has pushed one. `Wait` says that the ticks seen and the ticks left add up to
the target unless the sum has wrapped.

It also proves `BootKernelLoaded`, from `BootAssumption`: for any sizes of sector,
cluster, table and memory and any segments that ascend and fit the file, memory holds
them when the kernel is entered. `KernelLoaded` speaks of the end only; `LInv` says
that until then every segment that has been passed is in memory, and that the open
file is the kernel's and `Steady`: its buffer holds the sector it is at, unless it is
behind its last cluster. `Steady` is what a seek that does not read (file.c:186)
relies on. Under it lie lemmas about the loops: `ValueIs`, a lookup finds a cluster's
entry whatever sector of the table is at hand; `WalkIs`, `n` steps lead to the `n`-th
cluster; `CopyOn`, after `k` rounds of a read the bytes up to the `k`-th sector's end
are copied and the next sector is held; `FileReadCopies`, what a read that does not
fail copies begins with what was asked for; `SegmentIn`, the junk behind it touches
nothing below. Their inductions are the lemmas `Induction` and `Recursion` described
under `FilesProofs`, repeated because that module declares other variables.

**FilesProofs** proves, for any number and size of sectors, clusters, entries, names,
handles and values and any number of unsupported calls (`FilesAssumption`), all the
properties that the runs `Files` and `FilesSectors` check: `FilesChainsApart`,
`FilesContentsKept`, `FilesHandlesHonest` and `FilesNoStrayWrites`. The argument has
three layers.

* The loops. The library's induction theorems cannot be used here, so `Least` (a finite
  set that is not empty has a least element) comes from the theorem that strict
  inclusion is well-founded on finite sets, `Induction` over `0 .. K` from `Least`,
  and `Recursion` from that: a loop whose rounds go from the set `Good[k - 1]` to
  `Good[k]` exists as a function and stays in these sets. For each loop there is then a
  lemma that says what it has done after `k` rounds: `AllocIs`, the path is longer by
  `k` clusters that were free; `ReadOn` and `Got`, the handle is at the `k`-th sector and
  the units taken are those of the content up to there; `WriteOn` and `Laid`, every unit
  up to there is the value written and the others of the file are as they were.
* The chains. `ChainsApart` speaks of the directory, and is not inductive: a handle
  that is open knows the size and the last cluster of a file whose entry may be older,
  overwritten or missing. `ChainsInv` takes entries and handles together: `Apart` says
  that the chains of all their first clusters are paths in the table that share nothing,
  `OneEach` that a file has at most one entry and one handle and that these agree on
  the first cluster, `AtEnd` that the handle knows the last cluster, `Sized` that an
  unspoiled file fits its clusters.
* The contents. `ContentsKept` speaks of closed files only. `ContentsInv` adds what is
  true of a file while it is open: `StaysNear`, even a spoiled handle is on a cluster
  of its own chain or on none, unless all files are spoiled; `OpenFile`, the handle is
  on the sector its position is in, or after a write that has filled a sector still on
  that one, and the clusters, with the buffer in place of the sector it stands for,
  hold the content (`Honest`); `ClosedFile`, the clusters of the others do. That a call
  on one file leaves the others `Undisturbed` rests on `Apart` and `StaysNear`.

Each action preserves the invariants by the lemmas about its loop. The write is the one
that needs `Spoils`: the proof uses each of its three cases, for each is a way to a sector
that the handle is on and the buffer does not hold.

Model-checked only are liveness (`EveryKeyArrives`, both `CallsReturn`,
`KernelStarts`, `RequestsServed`, `WaitEnds`) and everything
about `Path`, `Console` and `Shell`. The operators of `Path` and `Arguments` of `Shell`
are declared `RECURSIVE`, which the proof system does not support.

## 5. Not modelled

Permissions and the TLB (`pg_unmap_range` has no caller), subdirectories,
directory creation (which trusts that a cluster it gets is empty, file.c:257) and
path walking on disk, two handles on one file (each would
overwrite the other's entry), running out of clusters as `Files` would see it
(`Fat` has it), disk errors as `Fat` and `Files` would see them, the arithmetic of
relocations, the conversion of names to 8.3, and printf's formats. A crash between
two writes is not modelled: the code has no recovery that could be right or wrong.
User programs and their library have no state but the one in the calls they make,
and these `Files` and `Program` let them make in any order.

Of booting: the memory map, the A20 line, the descriptor tables, and a kernel in a
subdirectory. Stage 1's list, which it reads from the memory at `S2LOC`, is taken
to have an entry. Of interrupts: the segment registers (`isrcommon` loads the code
selector into `ds`: a processor that checks segments' types, unlike the emulator
the Makefile starts, faults at a handler's first write), a spurious
request of line 7, and the levels of the second controller. `timer_wait_until`
reads a variable that is not volatile; the model reads it each time, as gcc does
around its `hlt`.

## 6. Plan

Done: `RingBuf`, `KeyQueue`, `Keyboard`, `KeyboardProofs`, `Fat`, `FatProofs`,
`Pages`, `PagesProofs`, `Files`, `FilesProofs`, `Heap`, `HeapProofs`, `Ata`, `AtaProofs`, `Path`,
`Program`, `ProgramProofs`, `Boot`, `Interrupts`, `StartupProofs`, `Startup`,
`Console`, `Shell`.

1. Subdirectories in `Files`, and calls on a file whose growth failed; an abstract disk
   that `Ata` implements and `Fat` uses.
2. Composition of `Path` and `Program`: an open fails with `EPATH` exactly when
   the program's directory is not absolute.
3. `Path` and `Arguments` of `Shell` with recursive functions in place of `RECURSIVE`
   operators, and `ScreenShowsLine` and `ArgumentsAsTyped` as theorems.
