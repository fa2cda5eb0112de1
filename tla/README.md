# Sp2Module: TLA+ models, checks and proofs

The repository has three parts.

* **libnx** (`src/sp2Module/libnx/nx`): the C library the module is linked with,
  a copy of libnx with two small changes (`smSetHandle`, `hidSetSharedMemPtr`).
  It has its own threads, mutexes and waits on top of the kernel's system calls,
  and wrappers for the console's services.
* **the module** (`src/sp2Module/sp2Module`): C++ that runs inside a game, called
  through patched functions of the game. It takes over the game's connection to
  the service manager, finds the game's modules in memory, logs, and draws a
  Pong game in place of a mini game.
* **Sp2Patcher** (`src/Sp2Patcher`): the C# program that puts the module into
  the game's ExeFS and redirects functions of the game to it.

There are no tests in the repository; its own statements about behaviour are the
comments of libnx's headers and a few comments in the code.

## 1. Inventory

| Component | State | Operations | What is hard | What makes it correct | Module |
|---|---|---|---|---|---|
| Mutex, CondVar (`kernel/mutex.c`, `condvar.c`) | one word: owner and HAS_LISTENERS; the kernel's queues | lock, try, unlock, wait, timed wait, wake | several compare-and-swaps per call, hand-over by the kernel, timeout against signal | mutual exclusion; nobody parked is forgotten; every waiter gets the mutex | `MutexCondVar`, `Monitor` |
| Waiting on several objects (`wait.c`, `wait.h`, `uevent.c`, `utimer.c`) | listener lists through the stacks of waiting threads, signals, timers | waitObjects, signal, clear, start, stop | signals between any two steps of a wait, cancellations that come late, timers restarted during a wait | no lost signal, no stale timer, what is consumed is reported | `MultiWait` |
| Read/write lock, semaphore, barrier | a counter or two under a mutex, sleepers | lock, unlock, wait, signal | wake-ups overtaken by other threads, wait without a loop | exclusion, no lost wake-up, rounds do not mix | `RwLock`, `Semaphore`, `Barrier` |
| Recursive mutex, C11 condition wait | tag and counter beside the mutex | lock, try, unlock, wait | the tag is read without the mutex | the counter is the depth of its owner | `RecursiveMutex` |
| call_once | status, runs | call_once | concurrent and nested calls | back from the call means the function has run, once | `CallOnce` |
| Threads (`thread.c`, `c11-threads.c`) | descriptor, stack and its mirror, handle, start information | create, exit, join | a failure at each of five steps; start information on the creator's stack | nothing leaks, nothing is read after its frame is gone, join gives the result | `ThrdLifecycle` |
| Sp2Patcher | the slots of the ExeFS, configuration, symbols | AllocModObj, AddSdk, patches, export | its own layout against the loader's; slots renamed between configuration and output | branches land, modules are where the module looks, nothing else changes | `Patcher` |
| Display (`display/`) | slots configured, requested, dequeued | connect, configure, dequeue, queue, cancel, release | a consumer on the other side, retries, reconnection | a slot is on one side only | `Display` |
| NVIDIA fences (`nvidia/fence.c`) | a mask of event slots, registered events | wait | slots taken without a lock, timeouts, events that come late | a thread is woken by its own fence | `NvFence` |
| Audio driver (`audio/`) | free lists, the list of used voices, wave buffers and their ring | add, remove, attach, update | lists threaded through arrays, a ring that wraps, a renderer that lags | nothing is handed out twice; a buffer plays once, in its turn | `AudioPools`, `AudioVoices`, `WaveBufs` |
| Service sessions (`services/`, `nvidia/`) | a count and some sessions each | initialise, exit | a failure at each step, services that use services, exits that call each other | a session is open while it has users, and only then | `Services` |
| Messages (`kernel/ipc.h`, `services/sm.h`) | command, message area, parsed answer | add, prepare, parse, for sessions and domains | several kinds in one array, padding, lists found by counting words | the other side finds what was added, as what it was added | `IpcMessage`, `Ipc` |
| Service commands (`services/*.c`) | a session, the version of the system | some 800 requests | numbers and contents that change with the version, sessions that are domains | the server understands what the function means | `IpcMessage`, `StorageCommands`, `SystemCommands`, `AppletCommands`, `MediaCommands`, `Requests` |
| USB device (`usb_comms.c`) | interfaces, endpoints, buffers, four kinds of locks | initialise, exit, read, write | locks taken in several orders, partial transfers, exit during a transfer | a buffer belongs to one transfer; nobody finds the device half set up | `UsbComms` |
| Memory (`virtmem.c`, `tmem.c`, `shmem.c`, `jit.c`, `thread.c`) | a cursor per region, mappings, handles | reserve, create, map, unmap, transition, close | a failure at each call, cleaning up after it | what is mapped is what the object says | `Memory` |
| File systems (`fs_dev.c`, `romfs_dev.c`) | tables of mounts, positions, batches, hash chains | mount, find, open, read, write, seek, list, unmount | a transfer in pieces, a device found twice, an image of linked offsets | paths reach their file, bytes their place | `FsDev`, `FsFile`, `FsDir`, `Romfs`, `RomfsMounts` |
| UTF conversions (`runtime/util/utf`) | none | six conversions | boundaries of every encoding, strings that end early | a string comes back as it was; no byte past its end is read | `Utf` |
| Pong (`PongGame.cpp`) | ball, direction, score | one frame | steps of eight pixels against edges | a ball is turned by a paddle or scores, and stays in reach | `Pong` |
| Input state (`services/hid.c`) | the last entry of each device, keys held, pressed, released, timestamps | scan, reset, another shared memory, layouts, reads of several samples | a ring that is written while it is read, timestamps kept from scan to scan | a scan keeps the newest; keys change as the samples do | `Hid` |
| Module hooks, loggers | stolen handle, queues | one hook each | threads of the game that log at once, order of hooks | no line lost or overtaken | planned |
| Sockets, applet life cycle | descriptors, focus | calls of newlib, messages | | | planned |

The components interact in three ways. Everything in libnx that has state of its
own protects it with a `Mutex`, and the synchronisation objects are built on
`Mutex` and `CondVar`: `MutexCondVar` is therefore modelled instruction by
instruction and shown to implement `Monitor`, and the modules above it take what a
thread does between locking the mutex and releasing it, or sleeping on it, as one
step. Second, wait lists join threads through their stack frames; `MultiWait`
keeps the pointers. Third, the patcher and the module agree only through the
game's files: the addresses one writes and the module numbers the other counts
are put side by side in `Patcher`.

`PROJECT.json` lists every component with its status, the hazards with the lines
where they bite, and for every definition the lines of source it stands for.

## 2. The modules

### MutexCondVar and Monitor

A mutex word is a record of the owner's tag and the HAS_LISTENERS bit. Each
thread has a place in the code (`pc`); each compare-and-swap and each system
call is an action: `LockCas`, `LockSetFlag` and `LockArbitrate` are the loop of
`mutexLock`, `Unlock` and `UnlockArbitrate` are `mutexUnlock`, `CondWait`,
`CondTimeout` and `CondWake` the condition variable. The kernel is not in the
repository. What it does is taken from how the code uses it: `svcArbitrateLock`
parks the caller only if the word is what it was told, `svcArbitrateUnlock` and
`svcWaitProcessWideKeyAtomic` hand the word to a parked thread in one step.
A thread that calls again what it may not call (a locked mutex locked again, an
unlock by a thread that is not the owner) is not modelled.

`Monitor` is what a user sees: an owner, threads that want the mutex and threads
that sleep. `ImplementsMonitor` is the refinement, with the owner taken from the
word and "wanting" from the places in the code.

### MultiWait

A wait is split at every point where another thread can come in: each object's
`beginWait`, the system call, what follows it for each of the three ways it ends,
the removal of each listener, and the loop of `_waitLoop`. A signal takes the
object's mutex and walks the list node by node; the hand-over of the index and
the cancellation are two steps. Lists are functions `next` and `prev` over heads
and nodes, a node being named by its thread and its index in the array, as the
frame on the stack is. Time is counted in ticks and moves on at any moment.
The constants `Shared` and `WeakFails` switch on two behaviours for the runs that
show their effect: two waits on one object at a time, and a spurious failure of
the weak compare-exchange.

### RwLock, Semaphore, Barrier, RecursiveMutex, CallOnce, ThrdLifecycle

One step per critical section, as said above; sleeping threads are woken by
`condvarWake*` and take the mutex again in a step of their own, so that other
threads come first. `RecursiveMutex` is finer, since `thread_tag` and `counter`
are touched without the mutex. `ThrdLifecycle` takes every allocation and system
call of `thrd_create` as a step that may fail. `Sync` puts the six together, and two uses
of `MultiWait` with them, and exercises one object at a time: they share no state,
so nothing is lost by that, and one run has them all. `MC_Sync` gives its constants
values; `SyncProofs` is about `Sync` itself, for any values.

### Patcher

`Main` step by step: the room for the module object, `AddSdk`, each patch of the
configuration, each file written. `nsos` is `ExeFS.Nsos`; a module is
its segments, its bss and its bytes, a byte being known by where it comes from
(a file, or a patch and the branch immediate it carries). The file format, MOD0
header and compression are left out. The other side is modelled too: the loader
maps each module on a page boundary after the one before (`LoadAddress`), and
`ModuleSlot` is the count of executable regions in `ProcessMemory::ModuleAddr`.
`MC_Devices` has the games and configurations that the runs use.

### Services

Every pair `xInitialize` / `xExit` of `services/` and `nvidia/` is a recipe, a
record that says what guards it, which objects it opens in which order, what a
failure undoes and what the exit closes; the recipes are the data of the model
and the actions carry them out one call at a time. Calls do not overlap: the code
takes no lock around them. A service used by others is exercised together with
them. The counts wrap at 16 instead of 2^64, which two uses do not reach.

The code undoes a failure of Initialize in four ways: it calls Exit, closes what it
opened, takes the count back, or does nothing; some services do nothing only if their
first step fails. `surplus` is history and says by how much the count of a service is
wrong: one more for each failed Initialize that leaves it raised, one more while an
`appletExit` is deferred to the end of the process (under an NSO loader), one less for
each Exit of a service that Initialize did not call: with `AppletType_None` that is
`apm` in `appletExit`, and `hid` as the process ends. `SessionsMatchUsers` says of every
service and every sequence of calls and failures:

* `CountsAccounted`: between calls a count is the number of its users, programs and
  services, plus its surplus. A surplus above zero have only the 34 services of `Leaky`,
  each failure adding one; below zero only `apm`, with the applet type None, whose count
  is then 2^64 - 1.
* `ReadyWhileUsed`: who was told that a service is initialised has all of it, and of the
  services it uses. Excepted is a service with a surplus, unless its only step failed
  or it closes what it opened. In `fs`, `fsldr` and `ldrRo` a failed step leaves the session
  active, and the next Initialize reports success for half a service; in `hid`, `irs`,
  `time`, `fspr` and the applet it takes two failures, one of the first step, whose count
  stays, and one of a later step, whose Exit then does not close.
* `ClosedWhenUnused`: without users nothing is open but what a service with a surplus,
  or one that it uses, left.

Versions matter to the counts in two places: before 3.0.0 `nsvmInitialize` succeeds
without a session and `nsvmExit` does nothing, and before 4.0.0 four of the `spl`
services are `spl`.

### IpcMessage, Ipc

`IpcMessage` is the layout of a message word by word: `ipcPrepareHeader`,
`ipcParse` and their forms for domains. The bits of a descriptor are left out,
its words are not; at its end stand the forms in which the command modules write
requests. `Ipc` is a program that adds up to three items in any legal
order, sends and parses the answer. What a header promises of sizes nothing
checks in the code; the guard of `serviceIpcPrepareHeader` says what callers rely on.
A message says where its writer put the raw data (`data`), which in a domain is four
words further, behind the header of the domain. The header of a domain's answer differs
from that of a request only in where the number of objects stands.

### The four command modules and Requests

A function that sends requests is the set of the requests that it makes over all
its arguments: to which interface, with which number, how many words of raw data
(the size of its packed structure), which buffers, statics, handles and objects
in which order, on which versions of the system, and which object it takes from
the answer, how. A helper is an operator with the parameters that matter. What a
function checks of its arguments and the values in the request are left out.
`StorageCommands` has storage, content and networks, `SystemCommands` processes,
power, clocks, pins and USB, `AppletCommands` applets, accounts, settings and keys,
`MediaCommands` sound, pictures and input. `All` at the end of each module has the
functions that are not helpers. `usbds.h` says of some functions that 5.0.0 removes or
adds them, but the functions do not ask for the version: they send their requests on
every one (`Removed`, `Added`).

`Requests` sends them: it starts with a session of any service, converted to a
domain if its initialisation does so, on any version from 1 to 9 (the code
distinguishes none after), follows the objects that it is given, and lays out,
reads and answers every request with `IpcMessage`. The server reads a request in the form
that its session has, the program finds where to put the raw data by the form it
prepared: a plain request to a domain is not understood. One number means one command to
a version (`OneMeaning`); `Withdrawn` excepts the functions of `usbds.c` that `usbds.h`
says the version does not have, since their numbers are those of other commands then.

### Display, NvFence, AudioPools, AudioVoices, WaveBufs

`Display` has both sides of the window: what `NWindow` believes and what the
compositor's queue knows; each function holds the window's mutex to its end, so
it is one action, and every call to the queue may fail in it. `NvFence` takes each
access to the mask and each call to the driver as a step. The audio modules keep
the lists as the code threads them through arrays; `WaveBufs` has the renderer as
the other side, which may play any number of buffers between two updates.

### UsbComms, Memory

`UsbComms` takes each lock, each wait and each call as a step of a controller or
a user; the locks are those of `RwLock`, taken as what it shows of them. A failing
initialisation calls `usbCommsExit` with the device lock held, and waits for it for ever;
`HalfDoneIsLocked` says that therefore nobody finds what it left (some complete
interfaces, then perhaps a half one, then none), and that at all other times the device
is set up as asked or empty when the lock is free.
`Memory` puts the kernel's map of pages beside what the objects say; every
system call may fail, and the cleaning up that follows is part of the action.

### FsDev, FsFile, FsDir, Romfs, RomfsMounts

`FsDev` is the table of mounts and how a path finds one, by newlib and by
`fsdev_fixpath`; `FsFile` one file with its position, read and written in pieces
through the buffer when the file system refuses the caller's memory; `FsDir` a
directory in batches. `Romfs` follows paths through the hash tables and lists of
an image. `RomfsMounts` is the table of its mounts, kept apart since its run is a
violation.

### Utf, Pong

The six conversions are one loop with a decoder and an encoder, on numbers. The inputs
are strings of characters in any of the three forms, and any bytes to UTF-32; UTF-16 with
a surrogate out of place, and surrogates as UTF-32, are not among them.
`Pong` is the game along the field; heights are any outcome.

### Hid

`hidScanInput` step by step, device by device in its order, against a service that
writes an entry and then shows it, at any moment. A sample is its time and what is
marked in it; the entry of a slot is the newest sample that falls to it. A scan
reads which entry is the newest, then compares, copies and stamps it; the mouse and
the motion sensor are copied whole, the header first, entry by entry, and
`MultiRead` goes through such a copy. Readers come between scans, since both sides
hold `g_hidLock` (`WriterAlone` is proved of `RwLock`). `hidSetSharedMemPtr` puts
another memory in place, with samples of its own, and the next call is `hidReset`,
as in `MiniGameEtcDrawHook`. `seen` is history for the properties.

One thing is assumed of the service: it does not come round to the entry that a
scan is at, that is, a scan does not stop for 16 samples between two lines. Nothing
in the code makes sure of it. Without it TLC finds a scan that stamps an entry
already overwritten but not yet shown; the next scan takes the newest shown for an
older one and reports its keys as released. All layouts of a controller are written
at the same times, as the code's one timestamp per controller takes for granted.

### Devices and MC_Devices

`Devices` puts together `Services`, `Display`, `NvFence`, `UsbComms`, `Memory`,
`Pong`, `Hid`, `FsDev`, `FsFile`, `FsDir`, `AudioPools`, `AudioVoices`, `WaveBufs` and
`Utf`, and exercises one at a time, as `Sync` does; `DevicesProofs` and `IoProofs` (files
and audio) are about `Devices`, for any values of its constants. `MC_Devices` gives the
constants values and puts beside it `Ipc`, `Requests`, `Patcher` and `Romfs`, for which
nothing is proved, also one at a time. One run has them all.

`MC_MutexCondVar` has the wave buffers a second time, for the one property of theirs
that needs fairness.

## 3. The runs

| Run | Question | Bounds |
|---|---|---|
| `mutex` | mutual exclusion, nobody forgotten, refinement of Monitor, every parked or signalled thread gets the mutex; beside it, every wave buffer is played | 3 threads: an owner, one parked, one that races; wake one and wake all; 3 wave buffers for a ring of 2; about 77 000 states |
| `multiwait_mixed` | no lost signal, no stale timer, consumed is reported, a repeating timer keeps its grid | 1 waiting thread on a handle, an event and a timer, 2 signalling threads, ticks 0..4 with an interval of 2, so a timer can be two periods late |
| `multiwait_shared` | violation: two listeners on one event | 2 waiting threads, 1 event |
| `multiwait_weak_cas` | violation: a spurious failure of the weak exchange | 1 waiting thread, 1 event |
| `multiwait_two_signals` | violation: a timer late by more than one period | 1 waiting thread, 1 repeating timer, ticks 0..5 |
| `sync` | the six objects on the mutex; overlapping waits; one wait that has to end | 4 threads (3 for recursion and call_once), counter up to 3, 3 rounds, nesting 3, two nested flags; waits of 2 threads on the one event, the other, or both, that overlap when they are for different events (one listener per event); one wait on a handle, an event and a timer, ticks 0..3; about 210 000 states |
| `devices` | sessions, window, fences, USB, memory, Pong, input; audio lists, conversions, messages, requests, patches, files | see below; about 672 000 states |
| `virtmem_reserve` | violation: a reservation that runs past its block | 12 pages, two regions |
| `usb_init_fails` | violation: initialisation that never returns | 1 controller |
| `ipc_buffer_order` | violation: a send buffer added after a receive buffer | 2 items |
| `fsdev_prefix` | violation: a device found by the beginning of its name | 3 names, 3 slots |
| `romfs_unmount` | violation: a mount that cannot be unmounted | the table of mounts |

Bounds of `devices`: patcher: pages of 16 bytes, games of rtld, main and sdk, all
sequences of up to 2 of 14 patches (forward, backward, too far, misaligned, unknown
symbol, bss, gaps, overlapping). Services: each alone, or with those it shares a count
with, 2 uses, versions 1, 3 and 5 (5 for applet and apm, whose sessions do not depend on
it), four types of applet. Messages: 3 items. Requests: all of them, versions 1 to 9.
Window: 2 frame buffers that contend for 2 slots. Audio: 2 pools, 3 mixes, 2 sinks, 3
voices with 2 channels each, 3 wave buffers for a ring of 2 whose head goes round twice.
Fences: 3 threads, 3 slots of which `ffs` finds 2. USB: one controller, 2 users, 2
interfaces. Memory: 12 pages with two regions kept, one object of every kind. UTF: the
code points and the bytes around every boundary, strings of up to 5 units. Files:
transfers of 2 pieces, the second one shorter; directories of 5 entries in batches of 2,
one without a name. RomFS: 7 entries, two buckets, names that fall into one bucket,
paths of up to 3 components with `.`, `..` and empty ones. Pong: the field of the
source. Input: rings of 3 entries, 4 samples (2 of the touch screen and of the handheld
controller, which share what is held), one device at a time.

The bounds are small because the properties speak of at most two or three
parties: an owner, one who waits and one who interferes. Counters and ticks go
past every comparison the code makes with them. Each property of a passing run
is also run against a broken form of one definition (`BadX` stands before `X`),
which it has to catch.

`CHECK_DEADLOCK FALSE` is given where the system may really stop: after the
rounds of the barrier, after the patcher's end or a fatal error, when time has
reached its bound.

### The properties, by run

| Run | Property | What would break it |
|---|---|---|
| `mutex` | `MutualExclusion`, `NoForgottenWaiter`, `ImplementsMonitor` | a lost flag, a hand-over to the wrong thread, a compare-and-swap with a stale word |
| | `ParkedAcquires` | a parked thread to which the mutex is never passed |
| | `SignalledReturns` | a thread that is signalled, its timeout firing at the same time or not, and never comes back with the mutex |
| | `BufferPlayed` | a wave buffer that is added and never played, or never given back |
| `multiwait_mixed` | `NoLostSignal`, `NoStaleTimer` | a signal, start or stop between the check and the sleep that does not cancel the listener |
| | `SignalsReported` | an auto-clear signal consumed by a wait that returns something else |
| | `RepeatingKeepsPhase` | an overdue timer that drifts off its grid or stays in the past |
| `sync` | `WriterAlone`, `WriterEnters` | read/write lock: a missing wake-up when the last reader or the writer leaves |
| | `SleepersServed` | semaphore and read/write lock: several signals before the first woken thread runs, a sleeper nobody wakes |
| | `RoundsInStep` | barrier: a fast thread in the next round takes the wake-up of a slow one |
| | `CounterIsDepth` | recursive mutex: the tag read outside the mutex, the depth across a condition wait |
| | `BackMeansDone`, `CallReturns` | call_once: a second caller that returns before the function has, a waiter left behind |
| | `InfoFreedOnce` | threads: the child reads a dead stack frame, a failed step leaks |
| | `ListSound` | two waits and a walk that overlap: a node of a returned wait in a list, a walk that follows one |
| | `WaitReturns` | a wait that never looks again though its event stays signalled or its timer is due |
| `devices` | `SessionsMatchUsers` | a failure or an exit that leaves a session open or a count wrong, beyond what the code is known not to undo, or closes one in use |
| | `WindowMatchesQueue` | a slot that the window believes its own and the queue gives away |
| | `OwnFence` | an event of another thread's fence that ends a wait |
| | `TransferKeepsBuffer` | an exit that frees the buffer of a transfer |
| | `HalfDoneIsLocked` | the lock given back by an initialisation or an exit while some interfaces are set up and others not; a failure that leaves more than was set up in order |
| | `MappingsAgree` | memory still mapped after a close, or an object that says so of memory that is not |
| | `Returned` | a ball that passes a paddle or leaves the field |
| | `InputFresh` | a timestamp that outlives its shared memory, an entry that is not the newest, a key pressed twice, a read that mixes old samples with new |
| | `RequestUnderstood` | an item of a message that lands in another's place, a list not found behind its padding; a number sent to a version that means another command by it, a plain request to a domain, a message that does not fit, an object taken where it is not |
| | `AudioListsSound` | an entry in two lists, a voice linked to a removed one, a pool attached that was never mapped, a wave buffer played twice or overtaken |
| | `ConversionsExact` | a character lost at a boundary, a string not stopped at its end |
| | `PatchesExact` | layout rules, the renaming of sdk and branch encoding that disagree |
| | `MountsConsistent` | two names for a slot, a default device that is not mounted |
| | `FilesExact` | a position that moves by what was asked instead of what was done, a piece that lands beside its place, an entry skipped or given twice |
| | `ImageRead` | a path that ends at another file of the image, a listing that misses one, a read past the end |

`TypeOK`, the type invariant, is checked in every passing run.

### What the violations show

* `multiwait_shared`: `_waiterNodeAdd` (`kernel/wait.h:65`) does not set `prev`
  of the node that was first. With two listeners, removing the older one also
  unlinks the newer, and removing the newer puts the node of the returned wait
  back. `include/switch/kernel/uevent.h:32` says several threads may wait.
  All other runs keep to one listener per object (`Shared = FALSE`).
* `multiwait_weak_cas`: the weak compare-exchange of `kernel/wait.h:43` is not
  retried. `uevent.h:33` says at least one listener gets the signal. On processors
  with a single compare-and-swap instruction the failure does not occur; the
  other runs exclude it.
* `multiwait_two_signals`: `_utimerRecalculate` (`kernel/utimer.c:65`), evaluated
  exactly on the grid, leaves the timer due at once, and the next wait returns
  immediately. `utimer.h:44` promises one signal.
* `virtmem_reserve`: `virtmemReserve` (`kernel/virtmem.c:122`) compares the size
  with the whole free block, though its cursor may be in the middle of it.
* `usb_init_fails`: `usbCommsInitializeEx` (`usb_comms.c:145`) calls
  `usbCommsExit` with the lock held that it takes; `usb_comms.h` declares a `Result`.
* `ipc_buffer_order`: `appletQueryApplicationPlayStatistics` (`applet.c:1348`)
  adds a receive buffer before a send buffer, which takes its place; no other of
  the requests does so (`RequestUnderstood` excepts this one).
* `fsdev_prefix`: `fsdevFindDevice` (`fs_dev.c:143`) takes a device for any path
  that begins with its name.
* `romfs_unmount`: `romfsFindMount` (`romfs_dev.c:163`) looks for a flag that
  nothing sets.

Met while modelling, without a run: `viCloseLayer` (`vi.c:932`) sends 2021 for
stray layers and 2031 for the others, though a stray layer is created by 2030 and
the others are opened by 2020;
`audrvCreate` inverts a check (`driver.c:61`); `hidJoystickRead` clears a joystick
position with the size of a touch position; `romfs_stat` returns 1 instead of -1
for a missing path and does not find `romfs:/`; `fsdev_read_safe` asks again for
ever at the end of a file; some getters of `nifm.c` write their result when the
request has failed; the functions of `usbds.c` do not ask for the version that
`usbds.h` says they need; the calls that take `CONTROLLER_P1_AUTO` read
`g_controllerP1AutoID` outside the lock, and while a scan is at `hid.c:294` they
find the handheld controller though player 1 is connected (`hid.h:318`).

### Fairness

* Threads in `mutexLock` and `mutexUnlock` are scheduled (weak fairness of
  `MutexStep`); an owner unlocks some day (it is one of those steps); the kernel
  does not pass over the same parked thread for ever (strong fairness of
  `HandedTo`: its queue is ordered by priority and arrival). Nothing is assumed
  of `TryLock`, of new calls, timeouts or signals.
* `ParkedAcquires`, `SignalledReturns`, `WriterEnters` and `CallReturns` follow one
  thread, `t1`: the modules tell no thread from another, so the others come to the same.
  Fairness is of all of them.
* In `MultiWait` a waiting thread's steps are strongly fair, since each needs a
  mutex that others take again and again and that `MutexCondVar` shows to be
  passed on; a walk over listeners and time are weakly fair. Signals, clears,
  starts and stops have no fairness.
* `WriterEnters` and `CallReturns` assume that a thread inside leaves and that a
  function that runs returns; not that anybody calls.
* `BufferPlayed` assumes that the program goes on calling `audrvUpdate`, without
  which the driver does nothing, and that the renderer goes on playing.

## 4. Proofs

TLC checks small instances; the theorems hold for every value of the constants that
the named assumptions allow. Every invariant `IInv` below was checked by TLC, as an
invariant of the run of its module, before it was proved.

| Module | Theorems | Property of a run |
|---|---|---|
| `MutexCondVarProofs` | `TypeCorrect`, `MutualExclusionHolds`, `NobodyForgotten`, `Refinement` | `TypeOK`, `MutualExclusion`, `NoForgottenWaiter`, `ImplementsMonitor` (`mutex`) |
| `MultiWaitProofs` | `TypeCorrect`, `NoSignalLost`, `NoTimerStale`, `SignalsAreReported`, `PhaseIsKept` | `TypeOK`, `NoLostSignal`, `NoStaleTimer`, `SignalsReported`, `RepeatingKeepsPhase` (`multiwait_mixed`) |
| | `ListsSound` | `ListSound` of one `MultiWait`, which `sync` checks of two |
| `SyncProofs` | `TypeCorrect`, `WriterExclusion`, `WakeupsArrive`, `BarrierRounds`, `RecursionExact`, `OnceDone`, `ThreadsClean` | `TypeOK`, `WriterAlone`, `SleepersServed`, `RoundsInStep`, `CounterIsDepth`, `BackMeansDone`, `InfoFreedOnce` (`sync`) |
| | `ListsSound` | `ListSound` (`sync`), of the two uses of `MultiWait` that have one listener |
| | `RecursiveExclusion`, `WriterFirst` | nobody joins a thread inside a recursive mutex; no reader overtakes a writer that has claimed the lock (an action property) |
| `DevicesProofs` | `FenceIsOwn`, `BufferIsKept`, `HalfDoneStaysLocked`, `WindowAgrees`, `MappingsKept`, `BallReturned` | `OwnFence`, `TransferKeepsBuffer`, `HalfDoneIsLocked`, `WindowMatchesQueue`, `MappingsAgree`, `Returned` (`devices`) |
| | `InputIsFresh`, `ConversionsAreExact` | `InputFresh`, `ConversionsExact` (`devices`) |
| `UtfProofs` | `Invariant` | of `Utf` alone, how far a conversion is; `ConversionsAreExact` rests on it |
| `HidProofs` | `Invariant` | of `Hid` alone: its types, that a scan keeps the newest sample, that a copy is in the order of the samples; `InputIsFresh` rests on it |
| `IoProofs` | `MountsAreConsistent`, `FilesAreExact`, `AudioListsAreSound` | `MountsConsistent`, `FilesExact`, `AudioListsSound` (`devices`) |
| | `Invariant` | the types of the six modules, that a transfer moves what it answers for, that batches follow each other, that every list holds its members once and ends |

### Assumptions

* `MutexCondVar`: 0 is no thread's handle (`NoThreadAssumption`). Any set of threads,
  any wake counts.
* `MultiWait`: names of threads, objects and nodes are apart, intervals are at least
  one tick (`MultiWaitAssumption`). The theorems have two hypotheses more, and each is
  what a violation run shows to be needed: `OneListener` (no waitable is in two waits
  at once, nor twice in one array; `multiwait_shared`) and `~WeakFails` (the weak
  compare-exchange does not fail without a reason; `multiwait_weak_cas`). The run
  `multiwait_mixed` satisfies both.
* `Sync` (`SyncAssumption`, the conjunction of the modules' assumptions): finitely many
  threads, an initial count of the semaphore that its bound allows, `NoThread` no
  thread. The functions of `call_once` may call it on any flags, their own included:
  such a call never returns, which `OnceDone` does not exclude.
* `ListsSound` of `Sync` has the hypothesis `OneListener` of its instance with several
  waiting threads, which `multiwait_shared` shows to be needed.
* `Devices` (`DevicesAssumption`, the conjunction of the modules' assumptions): 0 is no
  thread's handle; at least one slot that `ffs` finds; at least one window slot and one
  interface; at least one region, sizes that are not 0; for Pong, paddles that are apart
  and no thicker than the ball is fast, which the source's 8 and 8 just satisfy; for
  `Hid`, rings of two entries at least, and nothing marked in the entry that nobody has
  written; for `FsDev`, names that do not begin with a slash and are not that of the SD
  card, and at least one slot; a piece of a transfer and a batch are not empty; for the
  audio driver, at least one pool, mix, sink, voice, mix buffer and place in the ring,
  and finitely many wave buffers, none of which is the null pointer; for `Utf`, strings
  of code points that are neither 0 nor surrogates, in any number and of any length.
  `HalfDoneIsLocked` says something of one controller only.

The promises of `Devices` have exceptions where the code breaks them, and the theorems
state these: a success is that of the own fence as long as no wait on the slot has timed
out (`late`), the window agrees until a disconnect has failed (`torn`), an object's
mappings agree until one of three errors leaves one behind (`torn` of `Memory`). A failed
initialisation of the USB device does not end: it keeps what it has set up and the lock
in front of it, which is what `HalfDoneStaysLocked` says of it. The exceptions of
`SessionsMatchUsers`, which is not proved, are in section 2.

### Along which argument

**MutexCondVar.** Mutual exclusion follows from "whoever is between lock and unlock is
named by the word" (`OwnerHolds`), but to keep that through a successful
compare-and-swap from 0 one has to know that a word without an owner is 0 as a whole
(`FreeIsZero`), and to keep it through a hand-over, that the thread named is awake
(`OwnerAwake`), so that the kernel never names a thread that is parked. The
compare-and-swap that adds the flag preserves `NoForgottenWaiter` because the word it
replaces has the same tag; that a thread never asks to be parked behind itself
(`NeverBehindItself`) excludes that its own handle is the one it compares with.
`HandOffInv` is the lemma for the step that `mutexUnlock` and the condition wait share.
The refinement has one lemma per group of actions and rests on the invariant: a
hand-over is a `PassOn` of the monitor only because the thread that gives the mutex up
is its owner.

**MultiWait.** That no thread sleeps on a signalled event is a chain: a signal puts a
walk ahead of the list (`SignalPicks`), the walk finds the node since a list holds the
one node of its listener (`ListShape`, `Apart`), the node is picked, and a thread that
was picked and still waits is about to be told, by a cancellation that is on its way or
done (`PickedIsTold`). Between two steps of a walk the list may change under it, so
`Walks` says which mutex it holds and which node it may be at. For timers the chain
ends in the time to which the thread sleeps: until it is picked, its frame's `endTick`
is the earliest of the timers it has been through (`EndFitsTimers`), and where the
thread is tells how far the frame is filled (`FrameTells`, `EndTells`). The lemmas
`FinishKeeps`, `ListenKeeps` and their like carry the invariant through what several
actions share. `SignalsAreReported` and `PhaseIsKept` are action properties: each step
is shown to fit, under the invariant.

**Sync.** Each object's invariant adds to its promise what relates a counter to places
in the code: `readers` counts the threads that read (`ReadersCounted`); the semaphore's
units are either in the counter or handed out (`Conserved`); the sleepers of a barrier
are as many as it has counted and have begun exactly one round more than the others
(`OneRoundAhead`); the tag and counter of a recursive mutex are its owner's except at
the few places between the mutex and the tag (`PlaceTells`, `FreeIsClear`); a flag is
entered before anybody waits for it (`EnteredOnce`, `InACall`); of a thread being
created, the two sides' places tell what is allocated (`ParentPlace`, `ChildPlace`).
Sets that one thread joins or leaves are counted by `CountJoin` and `CountLeave`.

**Devices.** That a success on a slot is that of the own fence needs to know which
thread each slot and each armed event belongs to, and that a signal which came in time
was preceded by its fence (`MaskIsSlots`, `OneEach`, `SlotsTaken`, `ArmedFits`,
`SignalFits`, `ReachedFirst`). A USB transfer keeps its buffer because an interface's
lock is held by whoever is inside (`LocksHeld`). That the device is whole or empty when
its lock is free needs, for every place of the controller with the lock, which
interfaces it has been through (`HowFar`); a controller whose initialisation failed
stands at one of these places for ever, so what it left is what such a place says
(`LeftBehind`). The window agrees with the compositor since slots are registered from
the first on and only while it is connected (`FirstSlots`): a reconnection would find
stale ones otherwise. For memory the step is that pages found free are in no other
object's mapping (`OnlyMade`). Pong's ball is out of reach behind a paddle only when it
moves on to the edge (`OutOfReach`).

**Hid.** A scan goes from ring to ring while samples come at any time, so the invariant
says line by line how far it is. Where a scan may be (`ScanFits`); that the sample it
found newest had been shown by then (`BegunFits`) and is still in its slot when the scan
reads it (`SlotFits`, with the guard on the service of section 2); that what is kept
of the rings behind it is that sample, and the keys are those of it (`KeptFits`,
`KeysFit`); and which samples the entries of a copy are from (`TrailFits`), from which
the order of what `MultiRead` gives follows by arithmetic modulo the size of the ring.
`HidProofs` proves it of `Hid` alone; `DevicesProofs` takes the theorem over by an
instance, whose definitions are those of its own instance of `Hid`.

**Utf.** Of a string of characters the invariant says how many have been read: the
position and the count are the lengths of their encodings in the two forms, and what is
written is the encoding of as many as fitted (`CharactersDone`). A round reads one
more because every decoder undoes its encoder, whatever follows (`Understands`), which is
division with remainder by 64 and 1024. Of bytes the invariant says that what was read
is the encoding of what was written (`OfBytes`): a decoder accepts only what its encoder
makes (`Takes`), so at an error no code point begins. The encodings of the prefixes of a
string are a recursive function; what is needed of it for every prefix follows from the
smallest for which it would not hold (`UtfLeast`).

**Files.** No two devices of `FsDev` that are set up share a name or a session
(`Consistent`), so taking one away leaves the others as they are, and the default and the
current device are set up or none. This holds of every table on the way of
`fsdevUnmountAll`, a recursive function over the slots: what it computes for every number
of slots follows from the smallest number for which it would not (`FsDevUnmountedIs`).
Of a transfer of `FsFile` the invariant says what has happened to the pieces so far: they
are in their place, the position is behind them (`InPlace`), a write takes them from what
the program gave, in its order (`OfData`), and the answer is their length (`Answered`). A
directory has delivered of its batch the entries up to the index (`BatchFits`), each
where it belongs (`Ordered`).

**Audio.** The driver's lists are numbers or pointers threaded through arrays. `Chain`
says what such a list is: a sequence that begins at the head, follows the links and
holds every member once before it meets the end; where it ends is the number of its
members (`ChainCounts`). Four lemmas are about any such list: taking the first
(`ChainTake`), putting some in front (`ChainPut`), taking one out of the middle
(`ChainSkip`), adding one at the end (`ChainAppend`); a fifth (`SameWalk`) says that a
walk along the links is that sequence, from which the properties, stated by walks,
follow. What is no list is put beside it. `PoolsFit`: the numbers not free are with the
program, and what is mapped is what the states of the pools say; of mixes none is ever
given, since the check that `driver.c:61` inverts leaves no mix buffer (`mixBuffers <=
0`), and their list, which the loop at its creation does not link, is never used.
`VoicesFit`: the links back are those of the list of used voices (`PointsBack`, without
which taking out from the middle would cut the list), and the channels of no voice are
the free ones, each held once (`ChannelsFit`). `BufsFit`: the first buffers of the
voice's list are in the ring, in their order from its head (`Holds`); none waits behind
while the ring has room, and `waiting` is the first that is not in it (`Full`); and the
renderer has those that were sent, but for as many as it has played since the last
update, which are the first ones (`Queues`). That the head goes round the ring is
arithmetic modulo its size, for which lemmas of `HidProofs` serve again.

### Only model-checked

* Liveness (`ParkedAcquires`, `SignalledReturns`, `WriterEnters`, `CallReturns`,
  `WaitReturns`, `BufferPlayed`): it needs fairness and ENABLED, which the prover
  does not do.
* `RequestUnderstood`, `PatchesExact`, `ImageRead`: inductions over
  messages, the modules of a game and the tree of an image. `RequestUnderstood`
  speaks of some 800 requests that are written down one by one, and `PatchesExact` of
  games: for other games it is false (only the last module may end inside a page).
* `SessionsMatchUsers`, whose recipes are a table of some sixty services, and `TypeOK`
  of `Devices`, which includes its types.

## 5. Not modelled, and why

* The kernel, the renderer, the services and the game: not in the repository;
  their parts that matter are external definitions of the modules that use them.
* The values in requests and answers, and the checks of arguments before them;
  the requests of `sfdnsres.c`, whose address lists are formatting.
* Formats (LZ4, SHA-256, ELF tables, parcels, NACP, PFS0): data.
* Assembly entry points, dynamic linking, the C library's stubs.
* Nanoseconds: `MultiWait` counts ticks, so rounding in `armNsToTicks` and
  `armTicksToNs` is not seen. Wrap-around of 64-bit counters is not modelled.
* Weak memory: the code uses sequentially consistent atomics where it shares
  words without a mutex; the unlocked read of `thread_tag` is one atomic access.
* Sockets, the life cycle of an applet, the loggers and the order of the hooks: not
  yet.

## 6. Plan

1. **Applets**: the message loop, focus and exit of `applet.c` (an exit that
   defers itself once).
2. **Sockets**: `socket.c`'s descriptors over `bsd.c`.
3. **The module**: hooks and their order, both loggers; PFS0 archives.
4. **Proofs**: `SessionsMatchUsers` of `Services`, for which a condition on recipes has
   to be found that the table satisfies; the layout
   lemma of `Patcher` (the two layouts agree when every module but the last ends on a
   page); `Display` against an abstract queue.
