# Verification of the NewKernel firmware core

The repository is a UEFI firmware for a Zhaoxin platform, built from an EDK2
tree (`MdePkg`, `MdeModulePkg`, `UefiCpuPkg`, ...) and the vendor's own packages
(`ByoModulePkg`, `ByoNvMediaPkg`, `PlatformPkg`). The platform's build is
`src/PlatformPkg/PlatformX64Pkg.dsc` with its `.fdf`; what they list is the
program verified here.

The project is TLA+ for the parts of that program that keep state on which
everything above depends and that are hard to test: preemption by interrupts,
flash contents across power losses, processors that meet in shared memory,
system management interrupts, and services that are entered again while they
are in progress.

1. [Inventory](#1-inventory)
2. [Modules and the code they model](#2-modules-and-the-code-they-model)
3. [Runs](#3-runs)
4. [What the runs found](#4-what-the-runs-found)
5. [Proofs](#5-proofs)
6. [What is only model-checked, and what is not modelled](#6-what-is-only-model-checked-and-what-is-not-modelled)
7. [Plan](#7-plan)

To repeat: `tlc -config <run>.cfg MC<module>.tla` for each run that
`PROJECT.json` lists, and `tlapm <module>.tla` for each module of proofs that
section 5 names.

## 1. Inventory

| Component | Source | State | Operations | What is hard | What makes it correct |
|---|---|---|---|---|---|
| Events and task priority levels | `MdeModulePkg/Core/Dxe/Event/Event.c`, `Tpl.c`, `Library/Library.c` | `gEventQueue`, `gEventPending`, `gEventSignalQueue`, `gEfiCurrentTpl`, the interrupt flag, each event's `SignalCount` and `Signature` | create, signal, check, wait, close; RaiseTPL, RestoreTPL | the timer interrupt comes between any two statements below TPL_HIGH_LEVEL and re-enters RestoreTPL; notification functions call the services | strict preemption by level; no lost or dead event; levels and interrupt flag restored; no freed event held |
| Timer events | `Event/Timer.c` | `mEfiSystemTime`, `mEfiTimerList`, trigger time and period of each event | SetTimer, CoreTimerTick, CoreCheckTimers | the tick reads the list without its lock; late periodic timers; 64-bit time | sorted list; never early; every expired timer fires |
| 8254 timer driver | `PcAtChipsetPkg/8254TimerDxe/Timer.c` | – | the interrupt handler | its RestoreTPL enables interrupts before the return from the interrupt, so ticks nest | as above |
| Fault tolerant write (FTW) | `Universal/FaultTolerantWriteDxe` | working block (header and journal), spare block, target blocks | Allocate, Write, Restart, Abort, GetLastWrite; recovery at start; reclaim | power loss at any step, those of recovery included; device errors; the journal fills up | an update happens at once or not at all; allocations are kept |
| FTW in PEI | `Universal/FaultTolerantWritePei` | a HOB | finds the spare block that stands in for a target | must decide exactly as the DXE driver would | same contents before and after recovery |
| Variable services | `Universal/Variable/RuntimeDxe` | variable store, state byte of each variable, last offsets | Get, GetNextName, Set, Reclaim | four steps per update, power losses between them; reclaim; re-entry at runtime | old or new value, never neither or both |
| MP initialisation | `ByoModulePkg/Library/MpInitLib` | state of each AP, start-up signals, FinishedCount, time-outs | StartupAllAPs, StartupThisAP, switch BSP, enable/disable AP | APs and BSP share memory without locks; an AP finishes as its time-out is handled | every AP runs the procedure once; no AP is lost |
| SMM rendezvous | `UefiCpuPkg/PiSmmCpuDxeSmm/MpService.c` | arrival counter, per-CPU semaphores, Present, AllCpusInSync | SmiRendezvous, BSPHandler, APHandler, SmmStartupThisAp, SmmSwitchBsp | late and blocked processors, BSP election | one BSP; no normal code beside handlers; nobody is left waiting |
| SMI dispatcher | `PlatformPkg/SmiDispatcher`, `PlatformPkg/SmmPlatform`, `PlatformPkg/SmmControl2` | list of children, status and enable bits of the sources, PMIO_INSMI | register, unregister, dispatch, sleep | sources become active while others are served; callbacks unregister children; the next SMI must come | every event reaches its children once; sleep only as asked |
| SMM core | `MdeModulePkg/Core/PiSmmCore` | SMI handler lists, protocol database, pools | SmiManage, register, unregister | handlers unregister during dispatch | each handler is called once while registered |
| Handle database | `Core/Dxe/Hand` | handles, interfaces, open lists, notification positions | install, uninstall, open, close, connect | notifications re-enter the database | nothing used after removal |
| Dispatcher | `Core/Dxe/Dispatcher` | discovered list, scheduled queue, flags and expression of each driver | new volumes, the search, the queue, Schedule, Trust | drivers, handlers and timer events install and remove what others depend on, and add drivers, while lists are walked | every driver whose expression holds starts once and in its order; nothing that could start is left |
| Memory and GCD | `Core/Dxe/Mem`, `Core/Dxe/Gcd` | memory map, pools, GCD map | allocate, free, convert | the map's descriptors come from the map | map covers memory without overlap |
| PEI core | `Core/Pei` | PPI lists, dispatcher position | install, notify, dispatch, migrate to memory | restart after migration | each notification once |
| Flash drivers | `ByoNvMediaPkg` | – | read, write, erase | hardware | taken as given |
| Setup, consoles, buses, update tools, security, network, shell | other packages | – | – | sequential, or hardware access | outside |

How they interact. The timer driver's interrupt handler calls the core's tick
(`CoreTimerTick`) at TPL_HIGH_LEVEL, which signals `mEfiCheckTimerEvent`; the
RestoreTPL at its end dispatches it, and `CoreCheckTimers` signals the timer
events that have expired. Every other DXE component is called through those
events: protocol notifications of the handle database, the periodic
`CheckAPsEvent` of MP initialisation, the consoles' `WaitForKey`. The handle
database starts and stops drivers, which call it in their turn. Variables are
reclaimed with one `FtwWrite` of the store; FTW reads and writes flash through
the firmware volume block drivers; both run in SMM, one call at a time
(`PlatformX64Pkg.dsc:1047-1048`). Such a call is a request in a buffer
(`SmmCommunicationCommunicate`) and an SMI, which all processors enter by way of
the rendezvous; the elected one calls the SMM core, which handles the request and
calls the SMI dispatcher. The flash update driver calls FTW with an allocation of
its own.

`PROJECT.json` lists the hazards of this code, each at its line, with the
properties that cover it or the reason why none does yet.

## 2. Modules and the code they model

| Module | Models | Kind |
|---|---|---|
| `EventList` | linked lists of events | operators |
| `DxeEvent` | `Event.c`, `Tpl.c`, the event lock, the timer interrupt handler | state machine |
| `EventNotify` | what `DxeEvent` promises: a preemptive scheduler | abstract specification |
| `EventListProofs` | lemmas about lists | proofs |
| `DxeEventProofs` | theorems about `DxeEvent`: types, queues, levels | proofs |
| `DxeEventPromise` | theorems about `DxeEvent`: no event is dead or freed, and it implements `EventNotify` | proofs |
| `DxeTimer` | `Timer.c` | state machine |
| `DxeTimerProofs` | theorems about `DxeTimer` | proofs |
| `Ftw` | `FaultTolerantWriteDxe` | state machine |
| `FtwStore` | what `Ftw` promises: an atomic store | abstract specification |
| `VarStore` | the non-volatile half of `Variable/RuntimeDxe/Variable.c`, over what `FtwStore` promises | state machine |
| `VarMap` | what `VarStore` promises: a map that changes one entry at a time | abstract specification |
| `MpInit` | `MpInitLib` in DXE | state machine of several processors |
| `MpInitProofs` | theorems about `MpInit` | proofs |
| `SmmRendezvous` | `PiSmmCpuDxeSmm/MpService.c` | state machine of several processors |
| `SmiDispatcher` | `PlatformPkg/SmiDispatcher` with the chipset, the SMM core's entry, `Communicate` and the callbacks of `SmmPlatform` | composition |
| `SmiProofs` | theorems about `SmiDispatcher` | proofs |
| `ProtocolDatabase` | `Core/Dxe/Hand` for one protocol on several handles | state machine |
| `ProtocolNotify` | what registrations are promised | abstract specification |
| `ProtocolProofs` | theorems about `ProtocolDatabase`, its refinement of `ProtocolNotify` included | proofs |
| `DxeDispatcher` | `Core/Dxe/Dispatcher` | state machine |
| `DxeDispatcherProofs` | theorems about `DxeDispatcher` | proofs |
| `MC...` | instances of the modules for TLC | – |

Most modules have a safety invariant, a conjunction of its type invariant and
named parts (`EventInv`, `TimerInv`, `FtwInv`, `StoreInv`, `MpInv`,
`RendezvousInv`, `DatabaseInv`, `SmiInv`, `DispatcherInv`); what spans steps is stated as action properties, what
must happen as leads-to formulas, and what a component promises to its callers as
an abstract specification that it refines.

### DxeEvent

One processor runs, so the whole control state is a call stack, `stack`. A
frame has the name of its next statement (`pc`), an event, and two numbers. The
last frame runs. A step is a stretch of code that no interrupt can split:
one access to shared memory with interrupts enabled, or one critical section of
`gEventQueueLock`. That lock is of TPL_HIGH_LEVEL, which disables interrupts, and
the release at its end is a call of `CoreRestoreTpl`, the source of all
preemption:

| Actions | Code |
|---|---|
| `RaiseTpl`, `LowerTpl` | code calls RaiseTPL and the matching RestoreTPL |
| `RestoreCheck`, `RestorePick`, `RestoreLower` | the loop of `CoreRestoreTpl`: its test, its body, what follows it |
| `DispatchTake`, `DispatchCall`, `DispatchDone` | `CoreDispatchEventNotifies`: take the head and drop the lock, call it, find the queue empty and clear its bit |
| `CodeSignals` (`SignalEvent`), `SignalAgain`, `SignalFirst` | `CoreSignalEvent`: the test of the Signature without the lock; its critical section for an event that is signaled already, and for a first signal |
| `GroupLock`, `GroupMember`, `GroupUnlock`, `SignalRelock` | `CoreNotifySignalList` and the return from it |
| `CodeChecks`, `CheckPeek`, `CheckEnqueue`, `CheckLook`, `CheckClear` | `CoreCheckEvent`, whose first test is made without the lock |
| `WaitForEvent`, `WaitCheck`, `WaitNext`, `WaitIdle`, `WaitReturn` | `CoreWaitForEvent` |
| `CreateEvent`, `CloseEvent`, `CloseUnlink`, `CloseFree` | `CoreCreateEventInternal`; `CoreCloseEvent`: its tests without the lock, its critical section, and what follows it |
| `Interrupt`, `InterruptReturn` | `TimerInterruptHandler`, with the tick |

What application code and notification functions do is chosen freely within the
constants `Signals`, `Checks`, `Closes`, `Creates`, `RaisesTo`, `WaitList`. The
pending mask is a set of levels. Three constants select between variants of the
environment: `LoadTwice` says whether the compiled RestoreTpl loads
`gEventPending` once or twice per iteration (the variable is not volatile, so a
compiler may do either). The services test the Signature of an event without the
lock and use the event after that; what keeps it from being freed in between is
owed by their callers. `CloserOwns` says that no code calls a service on an event
whose `CoreCloseEvent` has begun, `UsersHold` that no code closes an event on which
a service is in progress, below it on the stack. Which value each run uses is in its cfg.

`EventNotify` knows no queue, no lock, no mask and no stack: an event is wanted, is
chosen when its level is above the running code's, and its function runs once for
that choice, above everything in progress. The code in progress is a set, `active`:
whose it is and at which level, and the one at the highest level runs.
`DxeEvent!ImplementsNotify` is the refinement: an event is wanted when it is queued
(`Wanted`), chosen while a dispatcher has it in hand (`Chosen`, the `call` frames),
and in progress while it has a `run` frame (`Active`).

### DxeTimer

`mEfiTimerLock` is of the level of the check event, one below TPL_HIGH_LEVEL, so
at most one of `CoreSetTimer` and `CoreCheckTimers` is in progress: `pc` says
where, `op` and `now` are its locals. The tick is not excluded by that lock and
comes between any two of its steps. From the event services it takes what
`EventNotify` promises: a signaled event is notified at some later moment,
outside of the lock. `due` is a history variable, the time the caller asked for
without overflow. Arithmetic is modulo `2^Width`.

### Ftw

The flash is `work` (state of the work space header, journal), `spare` and
`block`. A service is a list of steps, `todo`; a call of a helper puts the
helper's steps before the rest, so each function of the source is one definition
(`FtwWrite`, `FtwWriteRecord`, `FlushSpareBlockToTargetBlock`,
`FtwReclaimWorkSpace`, `InitFtwProtocol`, ...) and each step one action (or a
disjunct of one for steps of the same kind). State bits are
cleared one at a time and are atomic; a write of more than a byte, and an erase,
may be torn. `PowerLoss` may stop any step, also those of `InitFtwProtocol`;
`PowerOn` starts it. `DeviceError` makes a step fail and its service return
EFI_ABORTED. The journal is an array of units: a header, a record, and the
private data of a record take one each, which keeps the sums that the code
computes with sizes in bytes. Counts that a torn header leaves as all ones are
`Huge`, and the wrapped sums they lead to are those of the code. The copy of the
work space in memory is read anew at the start of each service, and is not a
variable of its own. `style` is how the callers of a behaviour use the protocol:
they allocate a write before they make it, as the flash update driver does, or
write without, as the variable driver does.

`FtwStore` has blocks, values and a request; an update is one step.
`Ftw!ImplementsStore` maps a block to what recovery would leave in it now: the
image in the spare block if the journal has a record for the block that is
SPARE_COMPLETED and not DEST_COMPLETED, its own content otherwise.

### VarStore

Flash is an array of units, a header with a state byte and as many units for name
and data as `Units` says; a copy of it is the cache. `calls` holds the calls of
UpdateVariable in progress, of which there may be two: a machine check handler
enters SetVariable at runtime while one is interrupted (`Variable.c:3264`).
`scratch` is the buffer in which every call composes its variable
(`Variable.c:2278-2280`, 2487-2552); `Fill` erases it. The
steps of an update are actions of their own, `WriteHeader`, `WriteHeaderValid`,
`WriteData`, `WriteAdded`, which write from that buffer, and `Advance`, which copies
it to the cache; before them `Fill`, `MarkOld` and `Compose`, and after them
`DropTransition` and `DropCurrent`; when the store is full `ReclaimWithNew` writes
an image of the current variables and the new one at once, which is `Ftw`'s promise,
or `OutOfResources` ends the call. `PowerLoss` may come at each, and tears what is
longer than a byte; `PowerOn` reads the store anew,
`VariableWriteServiceInitialize` checks the free area, `ReclaimForOS` and
`ExitBootServices` lead to runtime. `FindVariableEx`, `GetNextVariable` and
`Variables` are the code's walks over headers, as operators.

`VarMap` has the map and the requests in progress. A request is applied at once;
it is applied when success is told; a refused one left its variable as it was; a
power loss applies a request or does not. `VarStore!ImplementsMap` maps a name to
what `GetVariable` would find in flash at this moment.

Two constants exclude what the code does not survive, so that the rest can be
shown: `Reentry` says where a handler may enter SetVariable ("safe": before the
interrupted call erases the buffer, and after it has read it for the last time), and
`Repeated = FALSE` excludes an update that fails half way on a variable that an
earlier power loss has left in two copies (section 4).

### MpInit

The bootstrap processor has a list of steps it is yet to take, `todo`; a helper of
the library (`WakeUpAP`, `ResetProcessorToIdleState`, `CheckAllAPs`, ...) is the
list of its steps, each an action that touches shared memory once. A step has the
processor that it is for or `All`, and how the call is made or what the wake-up is
for; one that the code takes in a loop over the APs has the number of the AP it is
at, and is followed by itself for the next one (`Again`). Each AP has a place, `pc`, in `ApWakeupFunction`. The lock of an AP is held for each write of its
state only, as in the code. `Call` is what drivers do: StartupAllAPs and
StartupThisAP, blocking or with a WaitEvent, EnableDisableAP, and the change of the
APs' loop at the end of boot; `CheckApsStatus` is the periodic event; `Expire` says
that the time of a call is over, and `Hang` that a procedure does not return. `by`,
`ran` and `owed` are history: which call asked an AP, whether it ran the procedure
for it, which calls have a WaitEvent to be signaled.

### SmmRendezvous

Each processor has a list of steps, empty outside of SMM. `SmiRendezvous`,
`BSPHandler` and `APHandler` are lists of steps (`BSPHandler`, `Gathered`,
`Handlers`, `Dismiss`; `Join`, `Part`) that depend on the build: relaxed or
traditional synchronisation, MTRRs set in SMM, an elected BSP, a platform that can
tell whether there is an SMI. The semaphores `Counter` and `Run`, the flags and
`BspIndex` are variables, each read or written in a step of its own; waiting for
arrivals and for the BSP may end by time-out at any moment. SMI handlers call
SmmStartupThisAp, blocking or not, and SmmSwitchBsp.

### ProtocolDatabase

A service of the handle database holds `gProtocolDatabaseLock`, which keeps
notifications away, except while it calls the Stop and Start functions of drivers.
So a service is one action unless it has let go of the lock, when it becomes a frame
of `frames`; the functions and notifications that run then call services in their
turn, which end before it goes on. One protocol is modelled, on several handles;
`list` is the list of its interfaces in the order of installation, `position` where
each registration has got to, `openList` who has opened an interface and how.

`ProtocolNotify` keeps for each registration the list of handles that it has yet
to be told of. `ProtocolDatabase!ImplementsNotify` maps that list to the
interfaces behind the position, which the code backs up when the interface at a
position is removed, and of which it signals only that there is something.

### DxeDispatcher

The dispatcher runs at TPL_APPLICATION, one step at a time: `pc` says whether it
drains the queue (`CoreLoadImage`, `CoreStartImage`), runs an entry point
(`entry`), tells the handlers of the end of a round (`round`), or searches the
list (`SearchDriver`, one driver at a time; `CoreLocateProtocol`, one PUSH of its
expression at a time; `Evaluated`). `frames` holds the calls of
`CoreInsertOnScheduledQueueWhileProcessingBeforeAndAfter`, which calls itself
(`Insert`, `InsertTail`, `InsertReturns`). `state` says for each flag of a driver
entry which drivers have it. Between any two steps a timer event may install or
remove a protocol; entry points, handlers and BDS call `InstallProtocol`,
`CoreSchedule` and `CoreTrust` as `Does` says. Trust is in two steps, for it tests
Untrusted before it takes the lock: `trusting` is the driver in between
(`CoreTrustLocks`). Only the Trust of a timer event is in one: no timer event
interrupts another one there. A volume that was installed is
processed before anything else goes on, by its notification function
(`CoreFwVolEventProtocolNotify`), and so are volumes in images that it opens; any
of them may fail to open. `Execute` is the evaluator of dependency expressions, one
instruction on a stack, for the PUSH instructions that `found` has as found (the code
replaces them by TRUE), which is what `Holds` applies at the end of an evaluation;
`Wants` says independently of it, for each driver, which protocols satisfy the
expression. What is left of a list of files or of a priori names is what `Only`
keeps of it, and a step on the flags of several drivers takes them at once (`Put`,
`Take`): no code runs between the assignments that looks at them. `log` and `late` are history: who was put on the queue while who
waited, and whether a timer event came since the last search began.

### SmiDispatcher

It composes what an SMI passes through on its way. The chipset (external): enabled
sources whose status is set raise an SMI when PMIO_INSMI is clear; a write clears the
bit, but a source that is still active raises the next one at once. The SMM core's
entry handles a request of `Communicate`, if there is one, in whichever SMI comes
first; then `SbSmmCoreDispatcher` looks for an active source, calls its children,
clears the source and PMIO_INSMI, and starts over. `Hardware` events come between any
two steps; the command port and SLP_EN are written by the processor outside of
SMM. The callbacks are those of `SmmPlatform` for ACPI on and off, the power button
and S5, one with nothing to do, and one that unregisters itself. ACPI on has two
steps: the button is cleared in the first (`SmmPlatform.c:59-60`), and SCI_EN set in
the second (83); a button pressed in between is the OS's, whose service of it, as of
all later ones, is outside of the model. S5 disables and clears the timer, and when a
capsule waits for the next boot it changes the sleep type to S3 (`Capsule`). The list of
children is one of links, forward and back, because callbacks unlink
records while it is walked.

## 3. Runs

| Run | Module / cfg | What it shows |
|---|---|---|
| `event_preempt` | `MCDxeEvent` / `DxeEvent_preempt` | the application polls an event of type EVT_NOTIFY_WAIT, which its own function and a timer signal, waits for it together with a time-out, and raises and restores the level: mask and queues agree, notifications run at strictly increasing levels, levels come back, every queued event runs, a wait ends once its event is signaled |
| `event_group` | / `DxeEvent_group` | a group of two members at two levels signaled from three places, one of them closed by its own function and by the application, which creates it again: every member is queued, no event dies, no freed event is held or used given that nobody uses an event once its close began or closes one that is in use; refinement of `EventNotify` |
| `timer` | `MCDxeTimer` / `DxeTimer` | two timers set, cancelled and set again at any time: the list is sorted when a tick looks at it, no timer is early, none is forgotten |
| `ftw` | `MCFtw` / `Ftw` | callers that write with an allocation and callers that write without one; abort, restart and get-last-write at any time; two power losses anywhere: an update happens at once or not at all (refinement of `FtwStore`). With callers of a third kind a device error at any step takes the place of one power loss: success is only told of data in the target |
| `variables` | `MCVarStore` / `VarStore` | two variables updated, grown and deleted until the store is full and reclaimed, at boot time and at runtime, with re-entry and a power loss: refinement of `VarMap`, driver and flash in step, space refused only when there is none |
| `variables_twice` | / `VarStore_twice` | two updates of one variable that both fail half way: a reclaim brings an old value back (section 4) |
| `mp` | `MCMpInit` / `MpInit` | two APs, calls for one and for all, blocking and not, procedures that hang, time-outs, APs enabled and disabled, and the end of boot: procedures run as asked, APs are available after each call, calls return and events are signaled |
| `smm` | `MCSmmRendezvous` / `SmmRendezvous` | two processors and two SMIs in three builds, with late arrivals and time-outs: no normal code beside handlers, MTRRs changed in step, everyone leaves and every SMI is served |
| `protocols` | `MCProtocolDatabase` / `ProtocolDatabase` | two drivers, one exclusive, and two applications that open, connect, install and remove on two handles, from notifications and from Stop functions as well: one manager per interface, none removed under its users, every registration told of every interface (refinement of `ProtocolNotify`), every service returns, given that drivers close what they had opened when they are stopped |
| `dispatcher` | `MCDxeDispatcher` / `DxeDispatcher` | eight drivers in two volumes, one volume an image in the other, opened at once or from the queue, with a namesake that may come first: with expressions of every kind, one with NOT, an a priori file, a driver on request, one that is rejected and promoted, one before and one after another, and protocols that come and go at any moment, between two instructions of an expression too: each starts once, in its order, when its expression holds; the dispatcher returns, and leaves nothing that could start |
| `dispatcher_trust` | / `DxeDispatcher_trust` | a driver that is promoted to the trusted state never starts (section 4) |
| `smi` | `MCSmiDispatcher` / `SmiDispatcher` | `SmmPlatform`'s children, a timer and a command that serves once are registered by two requests, in two orders, and then events come at any moment, also in the midst of an SMI: the dispatcher clears none before it was served, each is served once, requests are handled once, the machine sleeps only as asked (in S3 instead of S5 for a capsule), the next SMI always comes |

Bounds, and why they are enough.

- `MaxNest = 2` (`DxeEvent`): a tick within a tick. A handler may only be
  interrupted again when it runs RestoreTPL, whose state after one nested tick is
  one of the states it has without; a third level repeats the second. The mask, the
  queues and the level have no memory of the depth.
- Three levels, and at most five events: a level above, between and below is
  what the loop of RestoreTPL tells apart. In both runs two events share a level.
- `SignalCount` needs no bound: it is 0 or 1 because CoreSignalEvent increments it
  only from 0.
- `MaxTime = 5`, `Width = 4`: more than two periods of every timer in
  `Delays`; the clock stops at the bound, at which liveness is still checked.
  Arithmetic wraps, but the delays of the run do not overflow: one that does expires
  at once (`Timer.c:290`), and takes a delay of thousands of years.
- `QueueSize = 4` (`Ftw`): the journal holds exactly two writes, so that every other
  one reclaims with the space full to the last unit.
- `MaxCrashes = 2` (`Ftw`): a power loss during an operation, and one during its
  recovery. Recovery reads the flash only, so a third loss meets a state that one
  loss after another operation or recovery step reaches. `MaxErrors = 1`: a device
  error, which counts as one of the two, and after which the services go on. Two target blocks and two values, with any
  initial contents.
- `StoreSize = 7`, `HwErrSpace = 1` (`VarStore`): data of 1 unit fits three times
  (2 units each), data of 5 once and alone, so reclaims succeed and fail, with
  and without the new variable; one power loss, with the second one in
  `variables_twice`. With `StoreSize = 8`, `HwErrSpace = 2` and
  `MaxCrashes = 2` TLC finds no error either, in 875 thousand states.
- `N = 2` APs (`MpInit`): one AP's time is over while the other runs, is waited
  for, or is disabled; the library treats APs alike.
- `N = 2`, `MaxSmi = 2`, `MaxCalls = 2` (`SmmRendezvous`): a BSP and an AP, an SMI
  that comes during a run, and a service call after another. With three processors,
  `MaxSmi = 1` and `MaxCalls = 1` TLC finds no error in 359 thousand states.
- `MaxNest = 2`, `MaxCalls = 5` (`ProtocolDatabase`): a service within a service.
  With `MaxNest = 3` and one application TLC finds no error in 952 thousand states.
- Eight drivers and three protocols (`DxeDispatcher`): one driver of each kind of
  expression and fate. A protocol is installed once and may be removed once;
  nothing else is counted.
- `MaxEvents = 4`, `MaxCalls = 2`, `EscapeCount = 5` (`SmiDispatcher`): events
  during each phase of an SMI and after it. An SMI takes a round for each event
  and one to find nothing; the code allows 100 rounds.

Deadlock is checked in the runs of events, timers, flash and the dispatcher, none of
which may stop.
It is not checked where the system may: `mp` (after the change of loop), `smm`,
`protocols` and `smi` (when bounds are used up, or the machine is off); what must not
get stuck there is stated as liveness (`CallsReturn`, `Leaves`, `Returns`, `Answered`).

Fairness. `event_preempt`: the timer goes on ticking
(weak fairness of `Tick`: the 8254 is programmed once and interrupts for ever);
code that is not within a nested interrupt gets to run (strong fairness: it is
interrupted again and again, but a processor completes instructions between
interrupts); notification functions return and restore their level, which UEFI
demands of them. The application's own choices are not fair. The two liveness
properties (`QueuedEventRuns`, `WaitEnds`) are stated under `NotOverloaded`: again and again the interrupted code
at the bottom of the stack gets to go on. Without it the timer may tick so fast that
the first dispatch never ends, and the code has no defence against that.
`timer`: what holds the lock goes on and releases it; the check event is notified
once it is signaled again and again, because CoreReleaseLock dispatches it before
the code that held the lock; time passes.
`mp`: the BSP and each AP go on, the periodic event comes, and time-outs pass;
procedures may hang. `smm`: a processor in SMM goes on, one with a pending SMI
takes it, and one that reads AllCpusInSync all the time sees it FALSE if it is so
again and again. `protocols`: functions that are called return, and a signaled event
is dispatched; that a driver whose Stop succeeds has closed what it had opened is
`Closes`, a constant, without which services do not return (section 4). `dispatcher`: the dispatcher goes on, entry points and handlers return.
`smi`: the processor goes on, in SMM and in Communicate; nothing is
assumed of events.

Each property has a mutant in `PROJECT.json`: a definition changed as a plausible
bug would change it, with which the property fails.

## 4. What the runs found

Two disagreements have a run of their own.

`variables_twice`: a power loss between the
ADDED of a new copy and the deletion of the old one leaves two copies, and a second
update that fails after it marked the newer one leaves two copies in transition, of
which Reclaim promotes the first, the older one (`Variable.c:1117-1163`), while
FindVariableEx returns the last (1307-1320). The comment at `Variable.c:1122` takes
it that there is at most one.

`dispatcher_trust`: a driver that the security policy rejects is loaded and keeps
EFI_SECURITY_VIOLATION as the status of its load (`Image.c:1382`). `CoreTrust` puts it
back on the queue; the dispatcher skips the load, as the comment at
`Dispatcher.c:458` says, and calls `CoreStartImage`, which returns that status without
calling the entry point (`Image.c:1605`). The driver is marked as initialized and
never starts, though Trust's header tells that it "was promoted to the trusted state".

The passing runs state what they assume of environment and callers as
constants. Turning one over shows what the code does without it; each of these
was found with TLC and can be repeated with a changed cfg, or a child added to
`MCSmiDispatcher` (without its ASSUME, which excludes that one):

| Run | Change | What fails | Why |
|---|---|---|---|
| `event_preempt` | `LoadTwice = TRUE` | `EventInv` (`LevelAssertions`) | without optimisation `gEventPending` is read twice per iteration (`Tpl.c:126-127`); a tick between the reads may leave the mask empty, and `HighBitSet64 (0)` becomes the level |
| `event_group` | `CloserOwns = FALSE` | `EventsKept` (`OnlyLiveEvents`) | `CoreCloseEvent` drops the lock before it clears the signature (`Event.c:763-777`), so that the event may be queued and then freed, which the comment at `Event.c:773` means to exclude |
| `event_group` | `UsersHold = FALSE` | `EventsKept` (`OnlyLiveEvents`) | `CoreSignalEvent` and `CoreCloseEvent` test the signature (`Event.c:541`, 734) before they take the lock (545, 745) and not again: a tick in between dispatches a function that closes and frees the event, which the interrupted service then counts, queues or unlinks |
| `ftw` | allocations for two writes, `QueueSize` 5 or 6 | `AllocationKept`, `EntryWrittenOnce`, `NothingLost` | `FtwAllocate` keeps an offset across a reclaim that moves the journal (`FaultTolerantWrite.c:117-154`); a torn record that is not the first of its header is not given up at start (`FtwMisc.c:1314`), and the next write programs its record over it. The platform's callers allocate one write |
| `variables` | `Reentry = "any"` | `InSync`, `ImplementsMap` | all calls compose in one buffer (`Variable.c:2278`): one that enters between the composing (2487-2552) and the last use (2705) leaves its own variable there, which the interrupted call writes and reports as success; one that enters before the composing leaves its State, so that the header is ADDED before the data are written; and one between step 4 and the assignment at `Variable.c:2692` moves the offset, to which the interrupted call then adds its own size |
| `mp` | `Prompt = FALSE` | `MpInv` (`Available`) | the reset of an AP whose time is over sets FinishedCount to 0 and waits for it (`MpLib.c:1134`), while another AP that just finishes increments it |
| `mp` | `AllEnabled = FALSE` | `RunsAsAsked`, `MpInv` | the broadcast wakes disabled APs too |
| `mp` | `Careful = FALSE` | `RunsAsAsked` | StartupThisAP does not refuse an AP that a call for all has yet to start |
| `mp` | `Renews = TRUE` | `Remembered` | the WaitEvent is signaled before it is forgotten (`DxeMpLib.c:198`): a call made by its notification function loses its own |
| `smm` | `Timely = FALSE` | `NoNormalCode`, `Leaves`, `Served` | an AP reads InsideSmm FALSE for the last time (`MpService.c:590`), the BSP sets it, counts the AP and sends it no IPI, and the AP leaves: handlers run while it executes normal code, against the comment at `MpService.c:199-202` |
| `protocols` | `Owned = FALSE` | `OneManager`, `NotUnderItsUsers` | OpenProtocol stops drivers without the lock and does not look again whether someone else has opened exclusively meanwhile (`Handle.c:1130-1147`) |
| `protocols` | `Closes = FALSE` | `Returns`, `AllSeen` | `CoreDisconnectController` takes EFI_SUCCESS of Stop for done (`DriverSupport.c:938-943`): a driver that leaves its BY_DRIVER entry open is found and stopped for ever by the loops at `Handle.c:642-659` and 1131-1146 |
| `smi` | `Torn = TRUE` | `HandledOnce` | an SMI between the stores at `PiSmmIpl.c:483` and 484 handles the request with the size of an earlier one |
| `smi` | `Orphans = TRUE` | `Quiesced` | UnRegister of the last child leaves the source enabled (`SbSmmCore.c:432`): every SMI of it uses up EscapeCount, against the function's header |
| `smi` | two children of the timer | `NoneMissed` | Register clears an event pending for the other child; an event after the scan has passed the first child is cleared with only the second one called (`SbSmmCore.c:538`) |
| `smi` | S3's child registered after that of S5 | `CalledOnce` | the callback for S5 may change SLP_TYP to S3 (`SmmPlatform.c:361-363`), which is read again for the next child: the one for S3 is called for a request for S5. `SmmPlatform` registers S5 last (680-712) |
| `dispatcher` | `~AprioriReady`: a driver on request (SOR) in the a priori file | `DispatcherInv` (`OneState`) | it is queued and stays Unrequested (`Dispatcher.c:1322`), so Schedule makes it dependent and it is queued again |
| `dispatcher` | `~TrustedOnce`: a timer event that trusts `disk` too | `DispatcherInv` (`OneState`) | `CoreTrust` tests Untrusted before it takes the lock and not again (`Dispatcher.c:378`, 383): a timer event's Trust in between queues the entry, and the interrupted call links it to the queue again (386) |
| `dispatcher` | `~Steady`: a driver that needs `bus` without `extract`, both of which a timer event installs | `DepexHeld` | each PUSH looks for its protocol on its own (`Dependency.c:306`): `extract` was not there yet at the first one, comes before the second one, and the expression is TRUE, though it does not hold of what is installed, and where `bus` comes after `extract` never held |
| `dispatcher` | `~QuietRounds`: a handler that installs a volume with an a priori file | `NoneReady` | handlers run after the queue was drained (`Dispatcher.c:548`); if the search finds nothing (578) the dispatcher returns with drivers on the queue |

More that need no run: an event queued by a tick between the last
test of `gEventPending` and the assignment of `gEfiCurrentTpl` in `CoreRestoreTpl`
(`Tpl.c:126-138`) stays pending at a level that does not mask it, for at most one
tick (`QueuedEventRuns` holds); and `CoreDisconnectController` returns
EFI_NOT_FOUND where nothing manages the controller, for which its header
(`DriverSupport.c:709-711`) promises EFI_SUCCESS. Of the dispatcher: a driver that
names another one as before or after is queued only at the moment that one is
(`Dispatcher.c:613-657`), so it never starts if it is discovered later, if its
expression could not be read yet (`NoneReady` asks only for drivers that waited
then), or if the other one is in the a priori file; two volumes may bring drivers of
one name, for the second of which `CoreAddToDriverList` promises EFI_ALREADY_STARTED
in its header and never returns it; and if the event of the end of the round cannot
be created (`Dispatcher.c:440`) the dispatcher counts as running for ever.

## 5. Proofs

A theorem holds for every value of the constants that its hypotheses and the
assumption of its module allow: any number of events, timers, handles, drivers or
children, any depth of interrupts or of services within services, and any of the
bounds that TLC needs.

| Theorem | States | Under |
|---|---|---|
| `DxeEventProofs!TypeCorrect`, `QueuesCovered` | `TypeOK`, `PendingCoversQueues` | `~LoadTwice` |
| `DxeEventProofs!Preempted`, `LevelsKept`, `InterruptsFollow`, `AssertionsHold` | `Preemption`, `LevelKept`, `InterruptsFollowTpl`, `LevelAssertions` | `~LoadTwice` |
| `DxeEventProofs!EventSafe` | `EventInv` | `~LoadTwice` |
| `DxeEventPromise!EventsSafe` | `EventsKept`: `EventInv`, `NoDeadEvent` and `OnlyLiveEvents` | `~LoadTwice`, `OwnersClose` |
| `DxeEventPromise!PromiseKept` | `ImplementsNotify`, the refinement of `EventNotify` | `~LoadTwice` |
| `DxeTimerProofs!TimersSorted` | `TimerInv` | |
| `DxeTimerProofs!NotEarly` | `NeverEarly` | `NoWrap` |
| `ProtocolProofs!OneManagerNobodyMissed` | `DatabaseInv` | `Owned` |
| `ProtocolProofs!NoneTakenAway` | `NotUnderItsUsers` | `Owned` |
| `ProtocolProofs!NotifyImplemented` | `ImplementsNotify`, the refinement of `ProtocolNotify` | `Owned` |
| `SmiProofs!NoneMissedNoneLast` | `SmiInv` | `Platform` |
| `SmiProofs!EachCalledOnce` | `CalledOnce` | `Platform` |
| `SmiProofs!RequestsHandledOnce` | `HandledOnce` | `Platform`, `~Torn` |
| `MpInitProofs!MpIsSafe` | `MpInv` | `Orderly` |
| `MpInitProofs!SuccessIsTrue` | `SuccessMeansRan` | `Orderly` |
| `DxeDispatcherProofs!DispatcherIsSafe` | `DispatcherInv` | `WellNamed`, `AprioriReady`, `TrustedOnce` |
| `DxeDispatcherProofs!DriversWaitForTheirProtocols` | `DepexHeld` | the same, `Understood` and `Steady` |
| `DxeDispatcherProofs!NothingIsLeft` | `NoneReady` | those of `DispatcherIsSafe`, `Understood` and `QuietRounds` |

The hypotheses are no conveniences of a proof: without each of them the code fails,
as section 4 shows, or a proof attempt has shown the need for it:

- `~LoadTwice`: RestoreTpl is compiled to one load of `gEventPending` per iteration.
  With a second load the level picked may be `HighBitSet64` of an empty mask.
- `OwnersClose` (in `DxeEvent`): nobody calls a service on an event whose close has
  begun (`CloserOwns`), and nobody closes an event on which a service is in progress
  (`UsersHold`), one that code waits for included; an event with a notification function
  is closed by the application or from a level not above its own, for otherwise a
  dispatcher that the closing code has preempted may have the event in hand; and the
  events that the core signals itself, in the tick and in its idle loop, are not
  closed. An event is not in two places of the signal list when the system starts.
- `NoWrap`: the system time and the longest delay have a sum below `2^Width`, 2^64 in
  the code. `Timer.c` does not check it.
- `Owned`: what is opened exclusively is not opened by others while OpenProtocol
  stops drivers for it.
- `Platform` (in `SmiDispatcher`): no source is left without a child (`Orphans`); an
  asynchronous source has one child; children are those of `SmmPlatform`, in the
  order in which it registers them, of which it matters that the power button comes
  before the command that hands the button over to the OS (`SmmPlatform.c:602-632`),
  and no child for sleep after that for S5 (680-712);
  and there are fewer hardware events than EscapeCount, which is 100. The model counts
  the events of a behaviour, where those of one SMI would do.
- `~Torn`: no SMI comes between the two stores of `Communicate`.
- `Orderly` (in `MpInitProofs`): the four constants of `MpInit` as in the run `mp`. A
  caller neither uses nor enables an AP that another call has asked, and does not go on
  to the system while a call is outstanding (`Careful`); it uses all APs at once only
  while none is disabled (`AllEnabled`); a time-out comes only when a procedure of the
  call hangs, and no AP is at anything else when one is reset (`Prompt`); a notification
  function of a WaitEvent makes no call (`~Renews`).
- `WellNamed`: no two drivers have one name. `CoreAddToDriverList` does not look for a
  namesake, and with two drivers of one name that come before that name
  `CoreInsertOnScheduledQueueWhileProcessingBeforeAndAfter` calls itself for them by
  turns, without an end: `d # Top.driver` keeps it from the driver it was called for only.
- `AprioriReady`: a driver of an a priori file is not on request, and its expression
  can be read when its volume comes. The notification function clears Dependent and
  leaves Unrequested and DepexProtocolError as they are (`Dispatcher.c:1322`).
- `TrustedOnce`: timer events trust no driver that others trust, for one that does so
  between the test and the lock of an interrupted Trust has the entry queued twice. The
  model takes it besides that no timer event interrupts another one there.
- `Understood`: an expression, evaluated with any of its PUSH instructions found and the
  others not, says what `Wants` says of any set that has just the protocols found, of
  those it names. It is a statement about the expressions; one with two PUSH of a
  protocol, of which only one has been reached when it was there, may not satisfy it.
- `Steady`: timer events leave the protocols of an expression alone (`Untouched`), or
  more protocols never make it false (`Growing`), which is so without NOT. Otherwise what
  its instructions have found one after the other need not have been there together.
- `QuietRounds`: no handler of the end of a round and no timer event brings a driver to
  the queue, by a volume or by Trust. `CoreDispatcher` ends when the search finds
  nothing, whatever is on the queue (`Dispatcher.c:578`).

`MCDxeEvent`, `MCSmiDispatcher` and `MCDxeDispatcher` make TLC check that their
instances satisfy `OwnersClose`, `Platform` and the six hypotheses of the dispatcher.

### Events: types, queues and levels

`TypeOK` is not inductive: that `DispatchTake` reads a queue that exists needs the
dispatcher's level to be a level of some event, and that `Return` leaves a stack
needs something below. `IInv` is `Types /\ GoodStack(stack)`: the types of the
other variables, and every frame is good for its statement (a frame that picks has
a level of the mask it read, a frame that takes or calls has the level of a queue,
a frame of a group signal has an event of type EVT_NOTIFY_SIGNAL, and so on) with
the application's frame at the bottom. Lemmas say how a stack stays good when its
top is replaced, pushed on and popped; one lemma per group of actions shows that
they keep `IInv`. `~LoadTwice` is needed: with a second load the level picked may be
`HighBitSet64` of an empty mask, which is no level (section 4).

`PendingCoversQueues` is inductive on top of `IInv`, by the actions that touch
queues or mask: `NotifyEvent` sets the bit of the queue it extends, `DispatchTake`
and `CloseUnlink` only shorten queues, `DispatchDone` clears a bit when it has seen
the queue empty, in the same critical section.

The next four follow from one more invariant, `Levelled`, inductive on top of
`IInv`. None of them is inductive alone: that a notification function runs above
what it preempts depends on the dispatcher below it, that the level comes back on
what the RestoreTPL frames in between will restore, and that interrupts are enabled
on what the interrupt handler saved. `StackLevels`, its main part, says that the
stack is nested: levels can be given to its frames such that

- they never fall from the bottom of the stack to its top (`Chain`);
- a frame in which the level shows is at that level: `hi` of running code, the
  priority of a dispatcher, `NewTpl` of a RestoreTPL, the level that the interrupt
  handler saved (`FrameAt`);
- right above a RestoreTPL that dispatches is a dispatcher of a strictly higher
  level, right above a dispatcher the function it calls, and every other frame is
  at the level of its caller unless that is a RestoreTPL, which any interrupt may
  preempt at a higher level than the one it will restore (`Above`);
- `gEfiCurrentTpl` is the level of the last frame, except in a RestoreTPL, which
  runs at its own level or a higher one, and in a critical section (`TopAt`).

`FlagLevels` relates the interrupt flag and `gEfiCurrentTpl` in every state, and
`QueueLevels` says that a queue holds events of its own level, so that the function
a dispatcher calls has the dispatcher's level. Lemmas about sequences say that a
stack stays nested when its last frame is replaced by one that may stand in its
place (`MayReplace`), when a frame is pushed, and when one returns; a lemma per group
of actions reduces each action to these. `Preemption` is then two steps down the
stack from the function that runs: its dispatcher, at the level it was called at,
and the RestoreTPL below, at a lower one that is not below any code in progress.

### Events: none dead, none freed

`EventsKept` needs a third invariant on top of `IInv` and `Levelled`, `Kept`. It
says where an event that has been signaled is on its way: `SignalsKept`, it is in its
queue, its close has begun, or some frame of its group signal is on the stack; and for a
group signal in progress (`MembersKept`), it is a member that the walk of the signal
list has not reached yet. A walk keeps its place as an index (the link of the code), so
events before that place must not move: this is where the proof needs that nothing
runs between `GroupLock` and `GroupUnlock`. `FramesKept` says what is not held of an
event that a `CoreCloseEvent` is about to free (`Unlinked`): no queue, no list and
no dispatcher has it. It says also that an event that a service uses, between its test
of the Signature and its last access, is not one that is being closed, which every step
keeps because `OwnersClose` says so of the two steps at which a use or a close begins.
That no dispatcher has it is `NotTaken`: the dispatcher that
has taken it sits right below what preempted it, at the level of the event, and by
`StackLevels` the code that closes it was called above that level, which `OwnersClose`
excludes. The invariant is one about the stack as a set of frames; lemmas say what
`Goto`, `Call` and `Return` do to that set, so that the actions of the core that
only touch locks and levels need one line each.

### Events: the promise of a scheduler

`PromiseKept` maps each step of `DxeEvent` to one of `EventNotify` or to a stutter.
`DispatchTake` is `Choose`: that the event's level is above all code in progress and
above all events in the hands of other dispatchers follows from the nesting of
`StackLevels`, down the stack from the dispatcher. `DispatchCall` is `Start`,
`RaiseTpl` and `LowerTpl` are `Mask` and `Unmask`, `Return` of a notification
function is `Finish`, all critical sections that end with `NotifyEvent` are `Want`,
`CloseUnlink` is `Withdraw`, and everything else, interrupts included, is a stutter.
Apart from `IInv` and `Levelled` it takes that a queue holds an event once
(`QueuesOnce`), without which taking it would not withdraw the wish, and that the
application returns to the level it was called at (`AppLow`).

### Timers

`IInv` is `TypeOK`, `ListSorted` and `HandOff`: the timer that a service is about to
insert is not in the list. The tick reads the list between any two steps, so it is
sorted in every state and not only where the lock is free. The one lemma of substance,
`InsertEntry`, says that an insertion before the first later entry keeps the list
sorted. `NotEarly` adds `OnTime`: `due`, what the caller asked for, is not after the
trigger time of anything in the list or in hand, and the time that `CoreCheckTimers`
has read is not in the future.

### Handles and protocols

`IInv` of `ProtocolProofs` has six parts. `Positions`: the interfaces are a list without
repetitions and each registration's position is in it or at its head. `GoodStack`:
of two services on one handle that stop its drivers, the one below has opened it
exclusively as a driver does and the one above was called by that driver's
functions. `Held`: what such a service works on is still there, because Uninstall,
which could remove it, is such a service itself. `Managers` says that an interface
that someone manages is installed and has one manager; it holds across a
service's gaps only because of `Held`. `Told` says of a registration with interfaces
behind its position that it is signaled, draining, or about to be signaled by a
Reinstall that waits for connections. The refinement is mostly about lists: lemmas
on what an insertion, a removal, and a removal at the position itself (which backs
the position up) do to the handles behind it. The proof of types found that an
earlier version of `Open` had a CASE with overlapping guards, whose value TLA+ leaves
open where two are true; they are now tested in the code's order.

### System management interrupts

The invariant `IInv` of `SmiProofs` has thirteen parts, each found from a step that
the previous ones did not keep, and each checked by TLC on the instance of `smi`
before it was proved. The main lines:

- The list of children is one of links. Instead of the sequence it stands for, the
  invariant has a rank, `k`: `Ring` says that the links lead through the registered
  children in the order of `k`. Registering gives the child a rank above all others,
  unregistering keeps the ranks of the rest. `ScanAt` and `ExhaustAt` say where
  children that are due may be: the scan for a source has not passed them, and of
  the source that is being served they are those at or after `link`.
- `NoneMissed` needs `AtWork`, that the active source stays active until it is
  cleared, and from `ExhaustAt` that the walk has met every child that is due
  before that. For commands and sleep requests there may be several children, and
  that none of them becomes due behind the walk is `Calm`: the processor that would
  write the command is in the SMI itself.
- `Quiesced` needs `Budget`: the rounds that remain are at least `Need`, a round for
  every active source and one for every event that is yet to come. Clearing a source
  lowers `Need` by what the round has cost. A round that finds nothing ends the
  dispatch, or is the first one of an SMI, so one more round than events is enough:
  `EscapeCount > MaxEvents`. `Latched` says who is going to clear PMIO_INSMI.
- `SleepsAsAsked` needs `Sleepy`: the register holds the sleep type that was asked
  for, or S3 for S5, and no step between the scan and the sleep changes it except the
  callback for S5, and the power button, after which the machine is off. When that
  callback changes it, `ExhaustAt` says that no child for sleep is behind the one
  for S5, so that none is called for a type that nobody asked for (`S5Keeps`).
- `HandledOnce` is `Answer`: which of the stores of `Communicate` has been made and
  whether the request was handled, by whichever SMI came first, go together.

### Multiprocessor calls

`IInv` of `MpInitProofs` was checked by TLC for two and for three APs before it was
proved for any number. Two things make it large: the BSP's control state is a list of
steps, and every AP runs beside it.

- The lists that occur are not enumerated. `Program` says of a list which steps there
  may be (`WellFormed`), which may come right behind which (`Follows`) and which may be
  last (`Ends`). Lemmas say for each action what it makes of such a list: its first
  step is replaced by one whose successors are known, by a whole wake-up, or by itself
  for the next AP, and no other step is lost (`Kept`). `CallsOK` uses that: an
  outstanding call without a WaitEvent has a step in the list that will check it.
- `PlaceOK` relates an AP's place to its lock, state, signal and procedure, whoever
  woke it up. What it is there for is one of five: the start of the system (`BootOK`), its
  end (`LeaveOK`), nothing (`RestOK`), a call that goes on (`LiveOK`), or one that is ending
  in a time-out (`EndingOK`). `RunsAsAsked` and `Available` follow from these.
- `CountOK` bounds FinishedCount by the APs that have yet to increment it. An AP may
  still do so for one wake-up when the next has set the count to 0, so the count alone
  says nothing of an AP; that the first wake-up and a reset are over when the count
  says so needs `BootOK` and `ResetOK`: nobody else is on its way then. Without `Prompt`
  somebody is.
- `GroupOK` is the arithmetic of StartupAllAPs: those counted and those it waits for are
  all that it has started, and those counted have run the procedure. `Turn` and `Fresh`
  say, for a sequential call, which AP may be idle without having run yet.
- `SuccessMeansRan` adds what a step may do: only `DecideFinished`, `SeeFinished` and
  `Report` let go of an AP, the first when `GroupOK` says that it has run, the second by
  `LiveOK`, and a call never takes an AP from another one.

An action of the BSP keeps the invariant by a lemma of its own (`ZeroKeeps`, ...,
`LookKeeps`), those that leave the APs alone by one lemma for all of them (`Quiet`); the
ten steps of an AP have one (`ApStepKeeps`), in which the AP's reason for being where it
is takes the place of the BSP's step (`ApPlaces`).

### The dispatcher

`DxeDispatcherProofs` has two invariants, each checked by TLC on the instance of
`dispatcher`: `IInv`, from which `DispatcherInv` follows, and `JInv`, which adds what
`DepexHeld` (`Located`, `Looked`) and `NoneReady` need.

- Its operators are recursive functions: `Only` on a list of files, `Evaluate` on the
  instructions of an expression. That `Only` exists, and what it returns, is
  proved by the least length for which it would not (`OnlyDefined`, `OnlyKeeps`): the
  drivers that it keeps are those asked for, each once. What `Evaluate` returns is left
  to `Understood`; the proofs need only which instructions it has found.
- `Underway`: the driver of an interrupted Trust is still Untrusted (`Asked`), which is
  where `TrustedOnce` is needed, and the driver of an evaluation still waits (`Chosen`).
- `Located`: what an evaluation has found was there once. `Looked`: it has found what is
  there now, up to where it has come, unless a timer event came that matters for it. When
  it ends the two say that what it found is a reading of the database (`IsReading`) and,
  of the protocols it names, the database of now (`FoundIsThere`); where a timer event
  came, `Steady` gives `DepexHeld` from what it found alone.
- `Placed`: the discovered drivers have one flag each and the queue holds those with
  Scheduled. Each step gives at most one driver another flag (`Shift`), except for a
  notification (`Arrives`), whose drivers were not known before.
- The recursion of `CoreInsertOnScheduledQueueWhileProcessingBeforeAndAfter` comes to an
  end because of `Nested`: the driver of each call follows the one of the call before
  and waits, or has just been queued, and no driver is in two calls. A driver names
  one other, so a follower that was in a call already would have been called from the
  same driver (`InsertNew`): this is where `WellNamed` is needed.
- `Logged` says that who was queued never waits again, for which no step may set
  Dependent of a driver that was not asked for or could not be read: `AprioriReady`.
  `Ordered` adds where the driver is that another one comes before: further on in the
  log or in a call that has yet to queue it.
- `Served` is the promise to followers: of the drivers that waited when a call began
  (`known`), those behind its loop no longer wait, except for the one that the call
  above it is for, and none waits when it has returned. `Searched` says that of the
  drivers the search has passed none can be started unless something came back:
  ReadyToRun is set, or a timer event came. What a driver that was left lacked it
  still lacks, for nothing but a timer event installs anything during a search.

## 6. What is only model-checked, and what is not modelled

Only model-checked:

- Liveness (`QueuedEventRuns`, `WaitEnds`, `ExpiredTimerFires`, `CallsReturn`,
  `EventsSignaled`, `Leaves`, `Served`, `AllSeen`, `Returns`, `Answered`), which is out
  of the prover's reach.
- `FtwInv`, `StoreInv`, the action properties of both (`EntryWrittenOnce`,
  `AllocationKept`, `SuccessIsWritten`, `ProgramsErased`, `RefusedWhenFull`) and the
  refinements of `FtwStore` and `VarMap`: the state of
  flash is what a walk over headers finds, a function that recurs on the journal or the
  store, and what it finds after each torn write needs induction over the data.
- `RendezvousInv`, `NoNormalCode`: each processor has a list of the steps that it is yet to
  take, and any of them may be elected. The way in which `MpInitProofs` describes one
  list would have to relate all of them, with their semaphores, to each other.
- Of `MpInit`, what holds without `Orderly`.
- Of `DxeEvent`, what holds without `~LoadTwice` or `OwnersClose`.

Not modelled of the components modelled:

- events: the runtime list (`gRuntime->EventHead`), the unregistering of protocol
  notifications on close, `CoreAcquireLockOrFail`, out of memory on create,
  parameter checks that return before any change.
- timer driver: the programming of the 8254.
- FTW: updates of the boot block (`FlushSpareBlockToBootBlock`) and of the working
  block itself as a target, writes that exceed the spare block, out of memory,
  read errors, and a device error that tears a header while the machine goes on.
  With a device error `ftw` claims no more than that success is told of data in
  the target: after an error during a reclaim the services go on with a working
  block without a valid header (`WorkSpaceRefresh` does not look at it,
  `UpdateWorkingBlock.c:309`), and atomicity is lost with the next power loss.
- variables: the volatile store, which is taken to hold a variable
  (`Variable.c:1303-1309`), HOB variables, hardware error records proper (their
  attributes appear in torn headers), append, user quota, authentication, language
  variables, device errors, RecordVarErrorFlag.
- MP: the first wake-up in PEI, MWAIT and run loops (the platform uses HLT),
  SwitchBSP, processor information, microcode. ExitBootServices with a call
  outstanding may wait for ever; callers are taken not to (`Careful`).
- SMM rendezvous: relocation of SMBASE, hot plug, processors with SMIs disabled or
  blocked, page tables, the SMM profile, S3 resume. `Served` leaves out a
  candidate of SmmSwitchBsp that quits with the SMI that was its to handle.
- dispatcher: the contents of device paths and of volumes, alignment and authentication
  of volume images, images found in HOBs, out of memory, drivers that unload or that
  call ExitBootServices; drivers of one name have entries of their own.
- handle database: the life time of handles, several protocols on a handle, silent
  installs (`Image.c:1264`), children, counts of opens, the order in which drivers
  are tried, what LocateHandle does with buffer sizes, and the moment between the
  check for a duplicate and the lock in `CoreInstallProtocolInterfaceNotify`
  (`Handle.c:375-384`).
- SMIs: the USB sources, the programming of the periodic timer, the choice of a
  command value, the state saved before sleep, which processor wrote the command,
  a request within a request, a callback that
  unregisters the record that was read before it (`SbSmmCore.c:545`), which is called
  although it is no longer registered. Of the SMM core: the lists of handlers; the loop of
  `SmiManage` reads the link of a handler after the call (`Smi.c:138`), and the
  handlers of the core that unregister themselves (`PiSmmCore.c:167` and others)
  return EFI_SUCCESS, which ends the loop before.

The other components are in the plan or, being hardware access, user interface or
code of other projects, outside of it; `PROJECT.json` gives the reason for each.

## 7. Plan

Modelled are the parts on which the rest stands, in the order in which the first
plan put them. What is left, in this order:

1. Theorems: `RendezvousInv`, beginning with the part of it that is about the election.
2. `SmiManage` with its nested lists.
3. `FtwPei`, which must see the same contents as the driver that recovers after it;
   the boot block in `Ftw`.
4. `DxeMemory` and `PeiPpi`, as far as the code's state is worth it.

Each module declares its parameters as constants with a named assumption, has one
action per operation, and uses no RECURSIVE operator.
