# Home Server OS in TLA+

This directory specifies the state-keeping components of Home Server OS in
TLA+, checks them with TLC on small instances and proves the most important
properties with TLAPS for every value of the constants. All definitions are
translated from the C code; `PROJECT.json` gives the lines for each of them.

The code has no concurrency of its own: the scheduler is cooperative, nothing
handles an interrupt, and each component is a set of functions over static
tables. The one party that acts by itself is the disk behind the ATA driver. What
is hard about it is therefore not races but *long sequences of legal calls*:
entries that move in a table, state left over from an operation
that failed or was repeated, ids and frames given twice, counters that drift
from what they count, and limits that are reached or not checked at all. An
action of a model is one call of one function, in any order and with any
argument from a small set.

## 1. Inventory

| Part (source) | State | Operations | Hard behaviour | Module |
|---|---|---|---|---|
| Frame allocator (`kernel/memory/memory.c`) | bitmap, usage counter | `memory_init`, `kmalloc`, `kfree` | frame 0 is NULL; the bitmap's own frame is handed out; whole words only | `Memory` |
| Task scheduler (`kernel/scheduler/scheduler.c`) | list of tasks, current task, states, next id | `task_create`, `task_terminate`, `scheduler_next`, `scheduler_switch`, `scheduler_yield` | fairness over a list that grows at its head; terminated tasks stay | `Scheduler` |
| Scheduler over allocator | where each `task_t` lies | `task_create` calls `kmalloc` | a `task_t` is longer than a frame | `KernelTasks` |
| File system (`kernel/fs/filesystem.c`) | block and inode bitmaps, block lists, two counters | `fs_create`, `fs_write`, `fs_delete` | a write that fails half-way, rewriting, block lists left over in reused inodes, inodes written and deleted that are not in use | `FileSystem` |
| Containers (`virtualization/containers/container.c`) | table, next id, limit | create, start, stop, pause, resume, delete, expose port, set limit | entries move on deletion; pid and state; the limit is not compared with the array | `Containers` |
| Virtual machines (`virtualization/vms/vm.c`) | the same with MAC addresses and disks | the same with suspend and add disk | the same; addresses repeat | `Vms` |
| Backups (`backup/backup.c`) | table, configuration | create, execute, delete, cleanup, scheduled check | every time is 0, so ties decide which backup goes | `Backup` |
| Packet filter (`security/firewall/firewall.c`) | rules in order, counters | add, remove, check, enable, disable | the first match decides | `Firewall` |
| Accounts (the same file) | table of users | create, verify, delete | locking over interleaved attempts; the stored form of the hash; names matched by a beginning | `Auth` |
| Connections (`kernel/net/network.c`) | a state per slot | listen, connect, close | slots are never given back | `Network` |
| Monitor (`monitoring/monitor.c`) | log ring, figures, table of metrics | log, read log, record, update, alerts | wrap-around; figures from the past; names found by a beginning | `Monitor` |
| Init system (`system/init/init.c`) | table of services | `init_system`, enable, disable | runs again over services that are in use | `Services` |
| ATA driver (`drivers/storage/ata.c`) | devices found, registers | `storage_init`, identify, read, write | two disks behind one set of registers; devices that fail, refuse or drop a command; waits on hardware | `Ata` |
| Kernel entry, terminal (`kernel/core/kernel.c`) | screen, cursor | `terminal_write`, `kernel_main` | the cursor wraps and nothing is cleared | `Console` |
| API server (`web/api/api.c`) | table of routes | init, register, dispatch | paths copied without an end into slots used before | `Api` |
| Administration page, boot loader, configuration, build and tool scripts, tests | – | – | – | not modelled |

How they interact: `task_create` calls `kmalloc` (and nothing calls `kfree`);
`update_system_stats` and `check_alerts` read the allocator, the file system,
the scheduler and the connections; `init_system` calls the init functions of
memory, scheduler, file system, storage and network. Everything else stands
alone: no file system call reaches the disk driver, the API returns constant
texts, the administration page does not call it, and `kernel_main` prints "OK"
for each component and halts without calling `init_system`. The callers of every
function are hence the environment of the models, restricted only where a comment
in the module says so.

What makes each part correct:

* allocator: a frame has one owner at a time, none is lost, the usage figure is
  right, and the bitmap is not overwritten;
* scheduler: at most one task runs, the dead stay dead, nobody waits for ever,
  nobody is overtaken twice by the same task;
* file system: no block in two files, every used block accounted for, counters
  equal to bitmaps – as long as callers write and delete only inodes they were
  given;
* tables with ids (containers, machines, backups, rules, users): an id means
  one thing for ever, an operation touches the entry asked for and no other,
  the table fits its array;
* containers and machines: only permitted transitions, a process exactly while a
  container is active, addresses that differ for a whole cycle of ids;
* backups: a cleanup removes the oldest and those that have outlived their
  retention, scheduled backups happen;
* security: rules decide in order, every packet is counted once, an account
  locks after five failures in a row and stays locked, an attempt under an
  account's own name goes to that account, the documented login works;
* connections: a closed one makes room for another;
* monitor: the log reads back the latest messages in order, a metric keeps the
  last value recorded under its name;
* disk driver: a call reaches the disk and the sectors it names and no other,
  reads return what was written, and every call returns;
* API: a registered path is answered, by the handler of that path or of one it
  begins with;
* terminal: the latest lines can be read.

## 2. Modules

```
Memory --+                IdTable --+-- Containers --+
         +-- KernelTasks            +-- Vms ---------+-- Virtualization
Scheduler+                          |      (both implement Lifecycle)
                                    +-- Backup
FileSystem                          +-- Firewall --+
                                    +-- Auth ------+-- Security
Network --+
Monitor --+-- Services
Api ------+
Console --+               Ata
```

`MC*` modules instantiate the models for TLC; `*Proofs` modules hold theorems.

**Memory.** `memory_bitmap` is the set of frames whose bit is set; pointers are
frame numbers. `kmalloc(f)`, `kmalloc_frame_zero` and `kmalloc_exhausted` are the
three outcomes of `kmalloc`. Callers free only what they own (`live`), and
`owner_stores` lets the owner of a frame that holds the bitmap store anything
there, which sets `clobbered`. The properties about the bitmap speak of the
time before.

**Scheduler.** A task is its id, the list a sequence from head to tail.
`ReadyBehind` and `ReadyBefore` are the two loops of `scheduler_next`; its first
call, which makes the head current without marking it, is an action of its own.
The observer `passed` records who got the processor since a task began to wait.

**KernelTasks** instantiates both. `task_create` stores in the first and in the
last frame of the `task_t` (`Written`): `id` to `regs` at one end, `next` at the
other. Nothing in the code loads a task's registers, so the stack between them
is never used and neighbours that overlap do not disturb each other's header;
the bitmap is the one victim. Where it is hit the model ends, since from then
on one task may be given the memory of another.

**FileSystem.** The bitmaps are sets, a size is the number of blocks it needs,
and `blocks` keeps what the arrays keep after deletions and failures.
`Allocations(free, k)` is what *k* calls of `allocate_block` return.
`fs_write_no_space` is the write that fails half-way. Neither it nor `fs_write` nor
`fs_delete` looks at the bitmap of inodes, and the root can be deleted like any
other. The observer `orderly` says that callers have written and deleted only
inodes in use: what the blocks do after that is followed, but who shares one is no
longer claimed. `lost` is the set of blocks that are marked and listed by nobody.

**IdTable** has the search by id and the loop that closes the gap, which five
components share word for word. **Lifecycle** is the abstract promise of
containers and machines, without a table: fresh ids, permitted transitions, one
machine at a time. **Containers** and **Vms** implement it under the mapping
*machines = the states by id, issued = next id - 1*. **Virtualization** puts both
side by side. A limit may be any number. Where it lets a table pass the end of its
array, `container_create_past_end` and `vm_create_past_end` write there, which the
model notes and then ends (`overwritten`): what lies behind the arrays is the
linker's choice. A call that returns an error and changes nothing is not a step.
`STARTING` and `STOPPING` do not outlast a call.

**Backup.** Days are the unit of time. `current_time` is the constant 0 of the
code; `day` is the real day, which no action of the code reads, and `taken` the one
on which a backup was made.

**Firewall, Auth, Security.** A packet and a pattern are functions over the
fields compared. A password is the value of `simple_hash` as a sequence of half
bytes; `Reconstructed` is the round trip through `password_hash`, with the sign
extension of the cast. `Tried` picks the account with the code's comparison of
names. `in_a_row` is an observer: by id, the attempts that failed since the last
one that did not. `Deciding` is the set of the first rule that matches, or empty.
The filter keeps the last address a rule blocked, which the default denial leaves
alone.

**Network, Monitor, Services.** A connection is its state. The log keeps level
and number of each message, a metric the beginning of its name that fits the
entry. `Services` adds the init table, with the search for a service by any
beginning of its name, and what its services keep: the connections, and how much
memory and disk there is and is in use. Both are 0 until their service is started,
and the size of memory is a new one each time (`Sizes`): `init_system` calls
`memory_init` without the argument that says it. The monitor copies those figures
(`Refreshing`) and compares them with what is free later (`Logging`). `init_system`
may run again at any time and then empties what the services it starts keep.

**Api.** A path is a sequence of parts. What a slot holds up to its first 0 is
the path registered last, laid over what earlier ones left behind (`Copied`); a
request takes the first slot whose path it equals. Handlers answer with constant
texts and are only names.

**Console.** The screen is a function of row and column; `line` and `lines` are
observers that keep what was written as lines. `kernel_main` is the initialisation
and the banner in one step.

**Ata.** The driver moves from one look at a status to the next: `ata_identify`
and `ata_identified` are the two sides of the wait in the probe, `transfer_sector`
is a turn of either loop. The device (`device`, `Answers`) is not part of the code:
it is BUSY from the command on, offers or asks for one sector after the other,
may fail at any, fails beyond the end of the disk, and may drop a command that
comes while it still works on another one. `in_order` is the order in which the
compiler evaluates the two calls of `inb` that make up a word, chosen once. The
observers say what the disks should hold (`ideal`), whether no command came too
early (`settled`) and whether, besides, no device failed and no call exceeded the
registers (`trusted`).

## 3. Runs

| Run | Bounds | What it shows |
|---|---|---|
| `Kernel` | 7 frames in words of 2 bits, bitmap in frame 3; 5 creations of tasks | of `Memory` the types, `BitmapTracksOwners`, `UsedFramesCountsBits`, `BitmapSafeBelowItsFrames`; of `Scheduler` the types, `RunningIsCurrent`, `TerminatedIsFinal`, `NoSecondTurn`, and `NoStarvation` under fairness |
| `KernelTasks` | 7 frames, bitmap in frame 5, 2 pages to a task | `ListedTasksKeepTheirFrame`, `BitmapOutOfReach` |
| `Storage` | 4 blocks, 2 inodes, 2 entries to a list, two more calls after a misuse; 2 disks on one channel, a packet device on the other, 2 sectors to a disk, 3 in the LBA, 2 in the count | of `FileSystem` the types, `NoSharedBlock`, `BlocksAccounted`, `CountersAgree`; of `Ata` the types, `StoresWhereAsked`, `ReadsWhatIsStored`, `NothingElsewhere`, and `EveryCallReturns` under fairness |
| `Managers` | arrays of 3, limits 1, 3 and 4, 4 containers, 10 machines for a cycle of 8 addresses; 5 backups, 2 days, five configurations | the types, `ContainerPidWhileActive`, `MacsRepeatByCycle`, `OneContainerAtATime`, both refinements of `Lifecycle`, `CleanupKeepsMostRecent` |
| `Security` | 3 rules, 4 rule ids, 3 packets, 2 users, 2 failures | the types, `RulesDecideInOrder`, `LockedAtLimit`, `LockIsFinal`, `OwnNameTried` |
| `Services` | 3 services, 2 slots, memory of 2 or 3 frames, ring of 2, 4 messages, 6 metrics, 5 routes, a screen of 3 rows and 2 columns | the types, `LogKeepsLatest`, `MetricsKeepApart`, `BuiltinsAnswer`, `RoutesAnswer`, `AnswersBelowItsPath`, `LatestLinesKept` |
| `KernelTasksFit` | 5 tasks | refutes that the documented number of tasks fits |
| `VirtualizationLimits` | as `Managers` | refutes that every limit the managers accept is one they can serve |
| `BackupDaily` | 3 days | refutes that backups are made daily |
| `BackupRetention` | 4 days, retention of 2 | refutes that a cleanup leaves no backup older than the days of retention |
| `SecurityLogin` | as `Security` | refutes that the documented first login is accepted |
| `ServicesConnections` | as `Services` | refutes that a closed connection makes room for another |

Why the bounds are enough: they let the limits be reached, and passed where the code
lets them be – the last frame, the partial word, the bitmap's frame, a full disk in
the middle of a write, a full table, deletion at the front, in the middle and at the
end of it, a limit below the number of entries and one above the array, an address
given again after a whole cycle of ids with the first machine still there, a ring that
wraps around, a second account whose name begins like the first, a rule that overlaps
another, a metric whose name is cut off or that finds no place, a route over a longer
one, a second `init_system` over services in use, text longer than the screen, a
device that fails at the first, a middle or the last sector, a call for none or for
more sectors than the register counts or the disk has. Not reached are the 2^29
creations after which the product that makes a pid wraps around to 0
(`ContainerAssumption`), and, in the file system, states after more than two calls
beyond the first use of an inode that is not in use. The bounds on creations
(`Creations`, `ContainerCreations`, `VmCreations`, `BackupCreations`, `RuleCreations`,
`UserCreations`, `MaxUsed`, `Checks`, `MaxLogged`, `Days`, and `Excess` of the file
system's counters) only cut off counters that have no end in the code; all but
`Checks` leave the tables room to fill, empty and fill again. Apart from the pids, the
proofs do not depend on their values.

Parts that share no variable cannot disturb each other, and letting all move in
one behaviour would only multiply the states. `MCKernel`, `MCStorage`, `MCManagers`
and `MCServices` therefore pick the part that moves in a behaviour: allocator or
scheduler, whose interplay is the subject of `KernelTasks`; file system or driver;
containers, machines or backups; services, log, metrics, API or terminal. Machines
are tried in two ways: with all operations while at most four (`FewVms`) have been
made, and with creation and deletion alone over ten. `Virtualization` and `Services`
themselves let everything interleave, and that is the specification the theorems are
about. The log and the table of metrics share variables with the services, but
nothing reads them back: the log is tried with use of memory and disk that comes and
goes, the metrics with updates.

Every run checks for deadlock. A behaviour that has reached a bound of the model and
may stop there is given a step that changes nothing: `MemoryDone`, where a bitmap
that was stored over shows free frames but the counter is at `MaxUsed`,
`FilesDone`, after the two calls that follow a misuse, and `overwritten` in
`KernelTasks` and `Virtualization`.

Fairness. `FairSpec` of `Scheduler` assumes that the kernel calls
`scheduler_next` once there are tasks and that the current task yields sooner
or later. No function of the scheduler can bring this about: without a timer it
is what a cooperative scheduler expects of its kernel and tasks. `FairSpec` of
`Ata` assumes that the driver goes on when it can, since it runs alone and to the
end of each call, and that a device leaves the busy state sooner or later: an
ATA device answers every command, with an error if need be, and `ata_wait`, which
has no limit, relies on it. `MCKernel` and `MCStorage` state the same conditions. That
a caller makes another call is not assumed.

### Where code and documents disagree

Checked by a run of its own:

* `KernelTasksFit`: "up to 256 tasks", but the 252nd `task_create` stores over
  the allocator's bitmap (`memory.c:42`, `scheduler.c:48`).
* `VirtualizationLimits`: the limits on containers and machines "can be changed", but
  one above the length of the array is taken and the next entry is written behind it
  (`container.c:222`, `vm.c:285`).
* `BackupDaily`: "daily backups", but `current_time` and all time stamps are 0
  and no second scheduled backup is ever due (`backup.c:223`).
* `BackupRetention`: backups are kept "for 7 days" (`docs/FAQ.md:96`), but for the
  same reason no backup is ever too old (`backup.c:157`). The documents do not agree
  among themselves: `docs/technical.md:363` keeps the 7 last copies,
  `config/system.conf:42` sets `backup_retention=7`, and `backup_init` sets 7 days
  and up to 30 copies. A cleanup therefore leaves up to 30 backups of any age. That
  those are the most recent ones is what `CleanupKeepsMostRecent` claims; it permits
  the removal of backups that have outlived their retention, and fewer copies than the
  maximum for no other reason.
* `SecurityLogin`: `admin`/`admin` is refused, since the stored hash does not
  survive the widening of `char` (`firewall.c:279`). After five attempts the
  account is locked for good and no function unlocks it.
* `ServicesConnections`: "up to 64 connections at the same time", but `tcp_close` never
  gives a slot back, so 64 openings are all there ever are (`network.c:167`).

Seen while modelling, without a run:

* scheduler: of the functions that `docs/technical.md:68-75` lists none makes a
  first task current, and `scheduler_switch` returns at once while there is none
  (`scheduler.c:100`): with them alone nothing is ever scheduled. `MAX_TASKS`,
  priorities and time slices are never used; overlapping `task_t`s would destroy
  each other as soon as their stacks were used;
* allocator: the first `kmalloc` loses frame 0 and fails; `init_system` calls
  `memory_init` without the size it takes; sizes are 32 bits wide, against the
  16 GB of `CHANGELOG.md:94`;
* file system: a file that is rewritten loses its old blocks for ever (`lost`); an
  inode deleted twice gives back blocks that belong to others by then, and the
  counters then exceed the totals;
* tables: the pid of a container is made from the id of the next one, so containers started
  with no creation in between share it; `backup_get_latest` returns the oldest
  backup; with the default configuration a full table stays full after a cleanup;
* security: a beginning of a name, the empty one included, matches an account;
  `firewall.c` uses two functions before it declares them and does not compile
  as it stands;
* monitor, services: a warning at "90 %" compares
  with what is free and comes at nine nineteenths of the whole; services and
  metrics are found by a beginning of a name;
* API: `/api/monitoring` of `README.md:199-200` and a POST to `/api/containers`
  have no route and are answered by 404; a path keeps the end of a longer one
  its slot held before, and one as long as the array has no end;
* disk driver: the device gets the count modulo 256 while the loop goes on and
  `storage_write` returns the full count; errors of the device during the loops
  are not noticed; a channel without any device may read 0xFF, which the probe
  waits on for ever (the model's empty positions read 0); a size from 4 GiB on
  overflows (`ata.c:181`);
* kernel: `kernel_main` prints "OK" for components it has not initialised.

## 4. Proofs

| Module | Theorem | Property |
|---|---|---|
| `KernelProofs`, about `Memory` | `MemoryTypes`, `AllocatorExact`, `UsageExact`, `Packed`, `BitmapSafe` | `MemoryTypeOK`, `BitmapTracksOwners`, `UsedFramesCountsBits`, `FirstFitPacks`*, `BitmapSafeBelowItsFrames` |
| `KernelProofs`, about `Scheduler` | `SchedulerTypes`, `OneRunning`, `Termination`, `BoundedBypass` | `TypeOK`, `RunningIsCurrent`, `TerminatedIsFinal`, `NoSecondTurn` |
| `KernelTasksProofs` | `BitmapSafeFromTasks`, `TasksKeepTheirFrames`, `MemoryOfTheDead` | `BitmapOutOfReach`, `ListedTasksKeepTheirFrame`, `TerminatedKeepMemory`* |
| `StorageProofs`, about `FileSystem` | `TypeCorrect`, `BlocksNotShared`, `EveryBlockAccounted`, `CountersExact` | `TypeOK`, `NoSharedBlock`, `BlocksAccounted`, `CountersAgree` |
| `StorageProofs`, about `Ata` | `AtaTyped`, `WritesArrive`, `ReadsArrive`, `SparesOthers` | `AtaTypeOK`, `StoresWhereAsked`, `ReadsWhatIsStored`, `NothingElsewhere` |
| `VirtualizationProofs` | `TypeCorrect`, `IdsAscending`, `PidWhileActive`, `MacsRepeat`, `OneAtATime`, `ContainersRefine`, `VmsRefine` | `TypeOK`, `ContainerIdsAscending`*, `ContainerPidWhileActive`, `MacsRepeatByCycle`, `OneContainerAtATime`, `ContainersImplementLifecycle`, `VmsImplementLifecycle` |
| `BackupProofs` | `TypeCorrect`, `BackupIds`, `OneAtATime`, `CleanupExact` | `BackupTypeOK`, `IdsAscending`*, `OneBackupAtATime`*, `CleanupKeepsMostRecent` |
| `SecurityProofs` | `TypeCorrect`, `PacketsCounted`, `FirstRuleDecides`, `LockedExactly`, `LocksFinal`, `OnlyOwnNameTried` | `TypeOK`, `StatsAddUp`*, `RulesDecideInOrder`, `LockedAtLimit`, `LockIsFinal`, `OwnNameTried` |
| `ServicesProofs` | `ServicesTypes`, `LatestReadBack`, `OwnMetricRead`, `OwnHandlersAnswer`, `RoutesGetAnswer`, `OnlyBelowThePath`, `LatestReadable` | `TypeOK`, `LogKeepsLatest`, `MetricsKeepApart`, `BuiltinsAnswer`, `RoutesAnswer`, `AnswersBelowItsPath`, `LatestLinesKept` |
| `IdTableProofs` | lemmas about `Found`, `ShiftOut`, `Ascending`, `Entry` | cited by `VirtualizationProofs`, `BackupProofs` and `SecurityProofs` |

A property with a star is proved and no longer checked by a run: TLC agreed with
it before the proof was written. All other invariants and action properties of the
passing runs have a theorem.

They assume what the modules assume of their constants and nothing else: numbers where
numbers are meant, the bitmap above frame 0, pids that do not wrap around to 0, routes
of `api_init` that differ and fit their slots, disks and packet devices on positions
of their own, less sectors to a disk than an LBA can name.

Arguments, by what the inductive invariants add. *Memory*: the types, the owners of
set bits, the count of set bits, the packing and `ClobberedOnlyAbove` are inductive
only together: first fit returns a frame no greater than the number of set bits,
which is the counter, which is at most `peak`; and the counter survives a `kfree`
because the frame freed had an owner and so a bit. *Scheduler*: the invariant turns
places in the list into an order on ids (`NewestFirst`: ids are given in order, put
in front and never removed). `NoSecondTurn` then needs `PassedAreBehind`: going round
the list from the current task, a waiting task comes before every task that has
passed it. *KernelTasks*: no `kfree` is ever called, so task *t* starts in frame *t*
and has cost one frame; the reach of a `task_t` follows by arithmetic.

*FileSystem* (`IInv`): while `orderly` holds (`Good`), that no block is shared is
inductive only with the accounting: blocks that count have their bit set and are not
lost, so a fresh block differs from all of them; exact counters need cardinalities of
unions and of what `fs_delete` clears, which is as many as the count because a list
has no block twice. Without it (`NeverLow`) only one direction is left: a deletion
clears at most as many bits as the counter goes up by, a write sets exactly as many
as it goes down by.

*Virtualization*: ids are ascending and below the next one; so a search finds one
entry, closing the gap keeps order and every other entry, and the refinement mapping
sees one machine added, moved or removed. Each container's pid goes with its state by
the invariant on single entries, and a pid is not 0 as long as the product it is made
of does not wrap around. For `MacsRepeat` an entry's address is the function
`MacAddress` of its id; that three digits to any base agree exactly when the
difference of the numbers is divisible by the cube of the base is proved digit by
digit from the uniqueness of quotient and remainder.

*Backup*: ids as before, and every time stamp is 0; what a cleanup keeps is a
statement about what its two loops compute, written as recursive functions. The
library's induction theorems cannot be instantiated here, so the induction is done by
hand: of the numbers at which a claim fails there is a least one (`LeastNumber`, from
well-foundedness), and it can be neither 0 nor a successor (`UpTo`). *Security*: the
counters are inductive with the types. Which rule decides is the least element of a
set of places, and adding or removing a rule shifts that set. The counter in an
account's entry, which moves with it when the table closes a gap, agrees with the
failures in a row that the observer `in_a_row` keeps by id (`CountsInARow`).
`OnlyOwnNameTried` needs that places are in the order of ids: the account in front of
all that match is the oldest.

*Log* (`RingLatest`): going back *d* places from the head of the ring one finds the
*d*-th last message, for every *d* up to the count. One more message overwrites the
one place that falls out of this range, before the ring is full and after; what
`get_logs` selects then follows from reading the places in order, without any
induction, as it selects from the same sequence. *Metrics* (`TableApart`): each name
kept apart from all others recorded finds first an entry with its last value, and
finds none only once the table is full. Recording under
another name finds other entries, since "a name begins another" is what both the
search and the assumption speak of.

*API* (`ApiInv`): each slot answers to what it was registered for up to one path being
a beginning of the other (`SlotsAnswer`), and the first slots hold exactly the built-in
paths once `api_init` came first (`BuiltinsFirst`): a slot that held the same path
before is laid over with itself, so a second `api_init` leaves them as they are.
Registration writes only behind the slots in use. For `RoutesGetAnswer`, a path that
begins another of the same length is that path (`SamePath`), so a slot that holds no
more than the route's own path matches the request; the slot that answers is then this
one or an earlier one. *Terminal* (`Legible`, `AtEndOfLine`):
the lines from the cursor up are those written last. A text is put out by a recursive
function over its characters; that each of them keeps the invariant is carried over its
length by `UpTo`, as for the cleanup. Leaving a row drops the line that the cursor is
about to run into, one row below the bottom of the others, modulo the height.

*Disk driver* (`AtaInv`): whatever devices do, the registers of a channel are in order
and belong to the call under way or to what an earlier one left (`ChannelsInOrder`,
`CallUnderWay`). Until a command comes too early, a device that transfers works for the
disk the call names, and the sector it is at is one the call asked for (`WorksForCall`):
`NothingElsewhere` follows. While everybody keeps the rules, moreover, the devices found
so far are the first of the disks there are (`FindsDisks`, over the recursive function
`There`, unrolled in `ThereSteps`); the sector the device is at is the number of words
transferred behind the start of the call (`LeftAsCalled`); the disks differ from what
they should hold only at sectors of the call under way that are not sent yet
(`DisksButUnsent`), and what was read so far is what is there (`ReadSoFar`).

What the proofs found about the models. The type of the driver's table of devices was
too narrow: once a disk that is still busy drops the IDENTIFY of another position, the
driver may enter an absent position, which the instance of `MCStorage` never shows.
The conditions of two definitions, `Answers` of `Ata` and `Observe` of `Scheduler`,
overlapped, so that a `CASE` left open which value counts, although TLC takes the
first; they are now decided in order. The log, the metrics and the routes were
stated anew as functions of one record each (`Logged`, `Recorded`, `Registered`), so
that what one call does can be a lemma about values.

Only model-checked: `NoStarvation` and `EveryCallReturns`, which are liveness properties
under fairness and out of the prover's reach, and the six properties of documents
that runs refute.

## 5. Not modelled

* Texts, paths, descriptions, time stamps that are always 0, figures computed from
  an id or a constant, and placeholders: they decide nothing.
* Operations that change no state and whose result nothing uses: `fs_read`,
  `backup_restore`, `backup_get_latest` beyond the schedule, `calculate_checksum`,
  `storage_get_device_size`, `tcp_send` and `tcp_receive`, which always fail; the
  texts the API handlers return.
* What happens after an entry has been written behind the arrays of containers and
  machines, and after the allocator's bitmap has been stored over by a `task_t`: the
  models end there.
* The terminal before `terminal_initialize`, when its buffer is NULL: `kernel_main`, the
  only code that writes, initialises it first.
* `kfree` of frames handed out before a second `memory_init`, and double `kfree`: the
  allocator's callers free what they own, once.
* The administration page (a static page that makes no request), the boot loader
  (straight-line start-up code), the configuration (no C code reads it), the
  scripts and the tests (they look for files and call tools).

## 6. What could follow

1. Abstract specifications: an allocator as a set of owned frames that `Memory`
   implements until its bitmap is overwritten; a store of files as disjoint sets
   of blocks that `FileSystem` implements; a lockout policy for `Auth`. Their
   content is checked and proved as invariants already.
2. Tighter theorems where the runs' properties leave room: what `Ata` promises to a
   caller who never sees a device fail could be stated as a disk in memory that it
   implements, and `Firewall` as a filter that is a function of its rules.
