# libvirtualhid: TLA+ specification

libvirtualhid creates virtual gamepads, keyboards, mice, touch and pen devices
for streaming hosts. This directory holds TLA+ modules that model its stateful
parts, TLC configurations that check them on small instances, and theorems
about them that TLAPS checks for every instance. Paths below are relative to
the repository root.

Tools: `tlasany M.tla` parses, `tlc -config X.cfg M` checks, `tlapm M.tla`
proves. `PROJECT.json` lists runs, mutants, findings, hazards and theorems, and
maps every definition to the source lines it stands for.

## 1. Inventory of the system

On Windows three processes take part: the client (with the library linked in),
the broker service, and the UMDF driver host. The client asks the broker over a
named pipe to create or destroy a gamepad; the broker checks the license and
sends the IOCTL through a duplicate of the client's own control handle, so that
the driver ties the gamepad to that file. Input reports and output reads then go
from the client straight to the driver. On Linux and macOS the library talks to
the kernel itself.

| component | state | operations | interacts through | hard behaviour |
|---|---|---|---|---|
| Broker service (`src/platform/windows/broker/libvirtualhid_broker.cpp`) | device ledger, license and its file, validation schedule, outage start, sticky revocation flag, evaluation window and its file, driver channel | status, create, destroy, license status/activate/validate/deactivate, sweep, validator loop, start | pipe (one client at a time), IOCTLs, HTTPS, files, process handles | two threads under two mutexes with unlocked calls in between; crash, restart, reboot; failed calls and saves; outage timing |
| UMDF driver: registry (`src/platform/windows/driver/libvirtualhid_umdf.cpp`) | devices with owner file, token and id; next id | create, destroy, reset, file cleanup | IOCTLs of broker and clients | handles closed while requests run; host restart forgets everything |
| UMDF driver: input (`libvirtualhid_umdf.cpp`, `src/platform/windows/shared/vhf_input_report_queue.hpp`) | per device: queued reports, ready flag, active operations, report in flight | submit, VHF ready callback, removal | parallel IO queue, VHF callbacks | removal during a submission; failed submission; full queue |
| UMDF driver: output (`libvirtualhid_umdf.cpp`) | pending reads and buffered events of all files | read, cancel, event, file cleanup | cancelable requests | cancellation against completion; order of events |
| Generic PID rumble (`src/platform/windows/shared/generic_pid_rumble.hpp`) | effects, gain, pause, last strength | PID output reports, time | output thread and timer thread of the Windows backend | reports racing with the next start or end of an effect; pauses |
| PlayStation and Switch Pro protocols (`src/platform/windows/shared/`) | none, or a reply to send | parse request, build answer | driver | boundaries of addresses and lengths |
| Broker client and pipe protocol (`src/platform/windows/windows_broker_client.cpp`) | none | one transaction per call | pipe | busy pipe and deadline |
| Windows backend: gamepads (`src/platform/windows/windows_backend.cpp`) | control handles, gamepads by id, output and timer threads, cancellation event | create, submit, destroy, dispatch | broker client, driver, callbacks | output event before registration; destruction by the thread that reads; cancel and drain |
| Windows keyboard, mouse, pointers (same file) | contacts with one-frame flags, repeat threads, desktop of each thread | place, release, refresh, press | SendInput, synthetic pointer API, desktop switches | refused frames; repeated edges; retry on another desktop |
| Runtime core (`src/core/runtime.cpp`) | registry of live devices, open flags, last states | create per device type, submit, close, close all, count | backend, user callbacks | close against submit; locks, joins and the application's own mutex |
| Core backend (`src/core/backend.cpp`) | per fake device: open flag, reports | as the runtime | runtime | none of its own |
| Gamepad adapter (`src/core/gamepad_adapter.cpp`) | last state | set one input, set all, submit | runtime gamepad | updates after a failed one |
| Reports (`src/core/report.cpp`) | none | pack, parse per profile | all backends | saturation, hat and trigger bounds |
| Linux UHID gamepad (`src/platform/linux/uhid_backend.cpp`) | open, running, started flags, last state; reader and periodic threads | create, submit, periodic report, kernel events, close | kernel, callbacks | start timeout; requests during creation; older report after a newer one |
| Linux uinput devices (same file) | touch slots, pen tool, pressed keys with repeat thread, rumble effects | place, release, press, upload, erase, play | kernel | writes that fail half-way; slot reuse; repeat against release |
| macOS backend (`src/platform/macos/macos_backend.cpp`) | buttons and modifiers | submit | CoreGraphics | none that spans calls |
| Rotating trace log (`src/platform/windows/driver/rotating_trace_log.cpp`) | size, files | append, rotate | files | failing renames at the limit |
| License API (`src/platform/windows/windows_license.cpp`) | none | one request per call | broker client | none of its own |
| Profiles, types, tools, build, examples | none | | | |

What makes each component correct:

- **Broker**: a revocation is never lost; every gamepad the broker created can
  still be destroyed by it; the outage rules hold at their bounds; what must go
  away goes away, also after failed calls, crashes and reboots; a validation is
  always scheduled.
- **Driver registry**: a gamepad belongs to the file and session that created it
  and dies with them.
- **Driver input**: no report reaches a device that is being removed, the newest
  state arrives, protocol answers are kept and in order, the queue is bounded,
  a submission is eventually followed by the next.
- **Driver output**: each read is completed exactly once, events of one file
  keep their order, none goes to another file.
- **Windows backend**: closing ends the threads and leaves no read pending; the
  application knows the strength of rumble; the system shows no contact the
  library has forgotten.
- **Runtime**: a closed device accepts no input, no callback after a close that
  joins (Linux) or after the runtime's end (Windows), no cycle of waiting.
- **UHID**: kernel requests are answered, close ends the threads, an older state
  never follows a newer one.
- **Touch, pen, keyboard, rumble**: the kernel holds what the calls asked for;
  what is released stays released.
- **Gamepad state**: the host sees all of it, where the descriptor says.

## 2. Plan

| | modules | status |
|---|---|---|
| 1 | `Broker`; proofs in `BrokerProofs` | checked, proved |
| 2 | `VhfInput` implementing `InputStream`; proofs in `VhfInputProofs` | checked, proved |
| 3 | `OutputReads` implementing `EventStream`; proofs in `OutputReadsProofs` | checked, proved |
| 4 | `WindowsPointers`, `WindowsRumble`; proofs in `WindowsProofs` | checked, proved |
| 5 | `Uinput` with `LinuxTouch`, `LinuxPen`, `LinuxKeyboard`; `UinputRumble`; `UhidGamepad`; proofs in `LinuxPointerProofs`, `LinuxProofs` | checked, proved |
| 6 | `PadState` over `ReportDescriptors`; proofs in `PadProofs` | checked, proved |
| 7 | `Runtime`; proofs in `RuntimeProofs` | checked, proved |

`WindowsDevices` and `LinuxDevices` check the modules of 4 to 7, and the
liveness of 2 and 3. Each puts several modules into one run (`LinuxDevices`
extends all of its modules; `WindowsDevices` extends
`WindowsPointers` and `WindowsRumble` and instantiates `VhfInput` and
`OutputReads`): a variable `part` says which of them a behaviour uses, the variables of the others stay at their
initial values. The parts share no state, so nothing is claimed of their
interplay: the run asks its questions of each. A fair action of a part that is
not in use is not enabled, or its fairness names `part`. Where the parts of a
run promise the same thing (waits end), one property asks it of the part in use.

## 3. The broker

### Model and code

`Broker.tla` models one service process with two threads, the driver as its
calls see it, its clients, its files, the license service, and time.

| code | model |
|---|---|
| pipe thread: `run_broker_loop`, `cleanup_devices`, `wait_for_pipe_client`, `handle_pipe_client` | `pipe`, `after`, `doomed`, `request`; `Sweep`, `Serve` |
| validator thread: `license_validation_loop` | `ValidationDue`, then `LicenseStep("validator")` |
| `license_operation_mutex_` | `Holds`: the steps of an operation between acquisition and release |
| `mutex_` | each action is one critical section, or one unlocked call between two |
| `devices_`, `revoke_licensed_devices_`, `driver_state_reconciled_` | `ledger`, `revoke`, `reconciled` |
| `license_state_`, `license_online_confirmed_`, `license_validation_unavailable_since_`, `next_license_validation_attempt_` | `license`, `online`, `outage`, `next` |
| license and evaluation state files | `disk`, `windowFile` |
| `DriverChannel` | `channel`: closed, open, or open to a driver host that is gone (stale) |
| driver devices, `next_driver_device_id` | `driver`, `nextId`, `epoch` (the host's life) |
| client processes and control files | `client` |

A create takes five steps (`AcceptCreate`, `Authorize...`, `DriverCreates`,
`RecordDevice`, with the failures of each), because the code leaves `mutex_`
between them and the validator may run. A sweep takes its decisions in one step
(`SweepDecides`) and then makes one driver call per candidate. License operations
are split where the code leaves `mutex_` or touches a file: request, save,
commit, delete, forget, schedule.

Times are ages and countdowns in ticks, saturated at the largest interval the
code compares them with: only the comparisons matter. `Tick` may fall between
any two steps. The wall clock matters for the evaluation window only
(`SetWallClock`); subscriptions are aged by the boot-anchored clock, which a
reboot invalidates (`anchored`).

Abstracted: report descriptors, names, key material, messages, JSON and DPAPI;
an HTTP exchange is one of granted, refused, deactivated, or unavailable; a save
works or leaves the file old, truncated or new. A request that changes nothing
(status, malformed, refused) is `Respond`.

### Bounds

`Clients` one or two, `MaxDevices` gamepads per driver life one or two,
`MaxDriverRestarts` zero or one; `RetryInterval` 1, `ValidationInterval` 2,
`OutageRetention` 1, `EvaluationWindow` 1. Two ids are what the outage rule and
the cap on unconfirmed gamepads tell apart (one stays, one goes); two clients
are needed only where an id may pass from one to another (`BrokerIdReuse`);
the safety run has lifetime licenses only, yearly ones are in `BrokerDrain` and,
for every set of plans, in the theorems; the intervals keep the order of the code's constants
(60 s < 24 h) with the smallest values that differ. Crashes, reboots, failures
and license operations are unbounded. `MaxDevices` bounds a counter the code
lets run to 2^64. Deadlock is checked in every run.

### Runs

| run | question | result |
|---|---|---|
| `BrokerLicensing` | safety over all interleavings of both threads, failures, crashes, reboots and a driver host restart | holds |
| `BrokerDrain` | gamepads without license, valid subscription or owner go away | holds |
| `BrokerOutage` | a long outage leaves at most one gamepad | holds |
| `BrokerEvaluation` | the window is saved before it is used and ends; deactivation | holds |
| `BrokerRetry` | retry every 60 seconds while unavailable | violated |
| `BrokerStaleChannel` | revocation after a driver host restart | violated |
| `BrokerIdReuse` | owners tracked after a driver host restart | violated |

Properties:

- `RevocationPending`: a licensed gamepad, existing or being created, without a
  license is always covered by the sticky flag. The flag is cleared by a sweep on
  the pipe thread while the validator may set it between any two of its steps.
- `NoOrphanGamepad`: the driver has no gamepad the reconciled broker does not
  know with its owner and token.
- `UnconfirmedCap`: of the licensed gamepads at most one was admitted without an
  online confirmation. Count and record are under the operation mutex; what the
  property depends on is that every other way into or out of the ledger (sweeps,
  restarts, a later confirmation, an id used again) keeps the count right.
- `ValidationScheduled`: three writers of the schedule on two threads never
  leave a license without a next validation.
- `OutageKeepsOne`: trimming in an outage spares one gamepad with a living owner.
- `EvaluationIsDurable`: no evaluation gamepad before its window is saved.
- `OverdueGo`: a gamepad without license, with a subscription not validated in
  time, without its process or after its evaluation goes away, whatever fails on
  the way; `UnlicensedDrains` is the part of it that the stale channel breaks.
- `OutageTrims`: a long outage leaves at most one gamepad.

`OverdueGo` says nothing of a gamepad that the driver removed with its control
file while the client's process lives: its ledger entry stays until the process
is gone. Nor does it say how long a sweep waits for an operation that is busy
with an HTTP request: requests end, but have no length.

### Fairness

`Fairness` assumes weak fairness of each thread (`PipeStep`, `LicenseStep`,
`ValidationDue`): every wait in them has a timeout. Acquiring the operation
mutex is strongly fair: the validator sleeps between attempts, so the pipe
thread finds the mutex free again and again. A driver call that is retried for
ever succeeds once (strong fairness of `SweepReconciles` and `SweepDestroys`);
without that no claim about removal can hold, and it is false when the channel
is stale, which is what `BrokerStaleChannel` shows: the call is then never
enabled. The service manager starts the service, the system closes handles of
processes that end, time passes. Nothing is assumed of clients, of the license
service, or of failures stopping.

### What the violated runs show

1. `BrokerRetry`: `schedule_after_license_validation` runs after
   `license_operation_mutex_` is released. A validation that succeeded and one
   that failed right after it can write their schedules in the opposite order:
   the outage has begun and the next attempt is a full interval away. The docs
   promise a retry every 60 seconds.
2. `BrokerStaleChannel`: `DriverChannel::open` keeps the first handle for ever.
   When the driver host restarts under the running broker, every later destroy
   and reset fails, and a revoked license keeps its gamepads until the service
   restarts.
3. `BrokerIdReuse`: the restarted host counts ids from 1 again, `try_emplace`
   keeps the old ledger record, and the new gamepad is tracked under the process
   and session of the old one.

### Proofs

TLAPS checks, for every number of clients, ids, driver restarts and every choice
of intervals allowed by the assumptions of `Broker.tla`:

| theorem | says |
|---|---|
| `TypeCorrect` | `Spec => []TypeOK` |
| `RevocationIsPending` | `Spec => []RevocationPending` |
| `ValidationIsScheduled` | `Spec => []ValidationScheduled` |
| `UnconfirmedIsCapped` | `Spec => []UnconfirmedCap` |
| `NoGamepadIsOrphaned` | `Spec => []NoOrphanGamepad` |
| `EvaluationWindowIsDurable` | `Spec => []EvaluationIsDurable` |
| `LastGamepadStays` | `Spec => OutageKeepsOne` |

The argument has three layers, each an inductive invariant relative to the one
before.

- `TypeInv` adds `ServedRequest` to `TypeOK`: while a create is served its request
  names a client, and at `record` an id. Without it a record could be made of an
  empty request, so `TypeOK` alone is not inductive.
- `LicenseInv` adds what the steps of an operation know while they hold the
  operation mutex: only one operation holds it, what is committed is what was
  saved, a validation that holds it validates a license, a license operation on
  the pipe thread keeps the pipe thread busy, and a process that is down has no
  state. From these `RevocationPending` and `ValidationScheduled` are preserved
  step by step.
- `LedgerInv` adds that a create is served only when reconciled, that ids in use
  lie below `nextId` in the first driver life, and that tracking holds; from it
  `NoOrphanGamepad` and `UnconfirmedCap` follow. `EvaluationInv` does the same for
  the saved window: a window in memory is also in the file.

- `OutageKeepsOne` is about single steps: among the licensed gamepads whose
  owners live there is a first one in id order, and no gamepad before it survives
  the sweep on its own account, so the limit does not reach it (`FirstStays`). That
  there is a first one is the library's theorem about well-founded relations.

Only model-checked: the liveness properties (TLAPS has no rules for fairness
here) and the three violations.

## 4. Input reports in the driver

### Model and code

`VhfInput.tla` models one gamepad of the driver: its `DeviceRecord`, the threads
of the parallel IO queue, the callbacks of VHF, and its removal.

| code | model |
|---|---|
| `DeviceRecord` fields | `shutting_down`, `ready`, `in_flight`, `active`, `protocol`, `states` |
| `DriverState::devices` | `registered` |
| a thread in `queue_vhf_input_report` or `submit_next_vhf_input_report` | `thread[t].at`: found the record, `prepare` (pushed, about to take), `submit` (taken, VHF not called yet), `finish` or `failed` (VHF has returned) |
| `LvhEvtVhfReadyForNextReadReport`, `LvhEvtVhfWriteReport` | threads of `ReadyThreads`, `WriteThreads` |
| `delete_vhf_device` | `remover`: `shutdown`, `drain`, `delete`, `release`, `done` |
| VHF and the host | `vhf`: exists, holds a buffer, owes a ready callback |

Each action is one critical section of `DeviceRecord::mutex` or one call made
without it. A report is its number, its class, and its discrete state, a model
value: `same_discrete_state` is an equivalence on reports of one size, and only
equal or different matters. Clients push state reports only, because
`make_vhf_input_payload` demands the configured report id; protocol replies come
from the write callback.

`InputStream.tla` is what the driver promises: a bounded buffer in front of a
consumer that takes one report at a time, without threads, locks or
permissions. A new state may supersede the newest one with the same buttons and
contacts, a full buffer gives up its oldest state, replies go first, each class
keeps its order, and after the end nothing more is taken. `ImplementsStream`
says that the driver implements it: the abstract buffer is the set of reports in
both queues, the report being taken is the one of the thread at `submit`.

VHF is external: it calls ready once after the start and once after the host has
read a report, it may or may not call after a submission it refused, and
`VhfDelete` with `Wait` returns when no callback runs.

### Runs and bounds

| run | question | result |
|---|---|---|
| `VhfInput` | safety and refinement | holds |
| `WindowsDevices`, part `input` | arrival of the newest state, end of removal | holds |

Properties:

- `NoSubmissionAfterDelete`: VHF is called without the lock, so removal counts
  these calls; none is in progress when the device is deleted.
- `OneReportAtATime`: of all threads that find the gamepad ready one submits.
- `BufferAlive`: VHF references a buffer owned by `in_flight_input_report` or by
  the thread that submits it; a ready callback may come before the submission
  has returned, and a late failure must not release a newer buffer.
- `NothingStranded`: pushing and becoming ready are separate critical sections;
  whichever comes second looks at the other.
- `ImplementsStream`: see above.
- `NewestArrives`, and `RemovalEnds` in `WindowsStops`: liveness.

Two ready callbacks, one submitting request and one output callback at a time,
two discrete states, a queue of two, and four reports: a queue of two is full,
superseded and overtaken; three threads compete for one permission. Liveness
uses one ready callback, a queue of one and three reports. `MaxReports` bounds the numbers of reports. `CHECK_DEADLOCK FALSE`:
a removed gamepad has no further steps. Threads and discrete states are
interchangeable, so the safety run uses symmetry.

Fairness: every thread inside a critical path goes on, the host reads, VHF
delivers the callbacks it owes, and removal goes on (weak fairness of
`Removal`). `VhfDeleted` is strongly fair: its guard is that no callback runs,
new ones may start until VHF stops them, and VHF does stop them.
`NewestArrives` is stated for runs in which VHF refuses nothing and protocol
replies alone do not fill the queue: in that case `make_room` drops the last
state and nothing brings it back.

### Proofs

For every number of threads, every capacity, every number of reports and every
set of discrete states (`VhfInputProofs.tla`):

| theorem | says |
|---|---|
| `TypeCorrect` | `Spec => []TypeOK` |
| `DrainedBeforeDelete` | `Spec => []NoSubmissionAfterDelete` |
| `NoLostWakeup` | `Spec => []NothingStranded` |
| `OnePermission` | `Spec => []OneReportAtATime` |
| `BufferOutlivesUse` | `Spec => []BufferAlive` |
| `StreamImplemented` | `Spec => ImplementsStream` |

`TypeOK` contains the bound of the queues and `active \in Nat`. The second is not
inductive: a count that goes down at the end of a submission stays natural only
because it is the number of threads inside one, which is `Counted`;
`TypeInv` adds it, and that such a thread has a report. From `Counted` a
count of zero means that no thread is inside, hence `DrainedBeforeDelete`, with
`Stages`: after the shutdown nobody may start a submission, and nothing waits.
`OnePermission` follows from `Token`: that VHF owes a callback, a callback runs,
the ready flag is set, a report is being handed over, and VHF holds a report are
the five places of one token.

Both later theorems need that reports are told apart by their numbers.
`DriverInv` adds `Numbered` (each queue is sorted by number, and no report is in
two of the queues, the threads and VHF) and `Buffers` (`in_flight` is the report
being submitted or the one VHF holds; a submission that failed was of another
report than the one held now; once the gamepad is released VHF holds none). A
late failure compares its report with `in_flight`, so it can release nothing but
its own: `BufferAlive`.

For the refinement the abstract variables are read off: accepted are the reports
pushed, waiting those in the queues, taken the one at `submit`, closed is
`shutting_down`. `QueueReport` is then `Accept`, `Prepare` is `Take`,
`VhfAccepts` and `VhfRefuses` are `Deliver` and `Refuse`, `ShutDown` is `Close`,
and every other action a stutter. The lemmas say what coalescing, making room
and appending do to the set of waiting reports; that the queues are sorted makes
the head the oldest of its class.

Only model-checked: liveness.

## 5. Output reads

### Model and code

A game writes output and feature reports to a gamepad (rumble, lights). The
driver turns each into an event for the control file that created the gamepad;
the runtime behind that file has one read waiting for it. `OutputReads.tla`
models this part of the driver for all files and gamepads, and the runtime's
output thread with `stop()`.

| code | model |
|---|---|
| `pending_output_requests` | `pending`, the files with a waiting read (a runtime has one read at a time) |
| `buffered_output_events`, one vector | `buffered[f]`, its entries with owner `f`: the code searches and erases by owner only |
| WDF's state of a request | `read` (not received, held, being answered, completed), `asked`, `cancelable` |
| callbacks `LvhEvtVhfWriteReport`, `LvhEvtVhfSetFeature` | `writer[d]`: made an event, took a read for it, has it back |
| `owner_file` of a `DeviceRecord` | `creator[d]`, with the runtime that had the file object at that time |
| who deletes a gamepad: broker, file cleanup, device release | `device[d]` |
| `LvhEvtFileCleanup`, `LvhEvtDeviceReleaseHardware` | `cleanup[f]`, `hardware` with `released` |
| `output_loop`, `read_output_report`, `stop` | `runtime[f]`, `stop[f]` |

Each action is one critical section of `output_requests_mutex`, or what happens
between two. Four functions take reads from the list under the lock and complete
them after it: an event (`QueueEvent`, then `CompleteEvent`), the cancel
callback, the file cleanup and the device release. `WdfRequestUnmarkCancelable`
settles who completes a read that is being canceled: it fails once WDF has
called the cancel callback, which may not have run yet (`cancelable = "called"`).

External: WDF delivers a read, cancels one that the driver has not received
itself, and calls the callback of one that is cancelable; the reads of a process
that ends are canceled and its files closed, in either order as seen by the
driver; an object of a closed file may be used for a later one (`OpenAgain`).
A read buffer of the wrong size is left out: the client
passes the driver's own structure. The gamepads of a runtime may exist while it
stops, because closing one fails when the broker does not answer, and a destroy
by the broker may be under way.

`EventStream.tla` is what driver and client promise together, without requests,
buffers or cancellations: each event of a gamepad is given at most once and never
after a newer one, and as long as the runtime reads and nothing was ended the
next event is the one given. `ImplementsStream` maps it to the events made, the
number of the last one a read was completed with, how many were (`handed`, kept
for this alone: a second read with the same event would not change the number), and
the gamepads that `InOrder` speaks of.

### Runs and bounds

| run | question | result |
|---|---|---|
| `OutputReads` | safety with all ends racing, implementation of `EventStream` | holds |
| `WindowsDevices`, part `reads` | arrival of events, stop of a quiet runtime | holds |
| `OutputStop` | stop of any runtime | violated |

Properties:

- `OneHolder`: at most one of the four has a read, and only one that is not
  completed: no read is completed twice.
- `NoneWaitsInVain`: a waiting read and a buffered event of its file never meet.
- `InOrder`: while its runtime reads and nothing ends, the events of a gamepad
  on their way (in the answer, with a read taken for it, in the buffer, about to
  be buffered) are exactly those sent since the last one received, each once and
  the older ones ahead: none lost, none twice.
- `ImplementsStream`: also when the runtime stops, ends or has its file opened again,
  what it gets only gets newer.
- `EventArrives`, `QuietStopEnds`: liveness.

One file, since files share nothing but the lock: every search is by owner. Two
gamepads of that file compete for one read with two events each
(`MaxEvents`): one is buffered while another is handed over or put back.
The file object is used twice (`MaxLives`), so that what a first runtime left
behind meets a second one. Liveness uses one gamepad and one runtime, and so does
the violation. `CHECK_DEADLOCK FALSE`: runtimes end and the
device goes.

Fairness: the output thread, each read's handling, callbacks, cleanup, release
and deletion go on once begun, `stop()` goes on after it has set the event; that
anybody stops, ends, creates or sends is not assumed. `WindowsDevices` assumes
less: the steps in the driver are one fair action. `EventArrives` is claimed
only while the runtime reads and the device stays. `QuietStopEnds` is
`StopEnds` for runs in which no callback has a read when the runtime stops.

### What the violated run shows

`OutputStop`: an event takes the waiting read out of the list; the runtime stops
and cancels the read; the cancel callback does not find the read and leaves it;
the event cannot unmark it, returns to the buffer and leaves it too. The read is
never completed and `stop()`, hence `~Runtime`, never returns.

Not claimed: that feedback reaches only the runtime that created the gamepad when
a file object is used again. A gamepad that the broker is destroying is no longer
in the registry, so the cleanup of its file neither deletes nor awaits it; its
last event may be buffered after the cleanup has emptied the buffer.

### Proofs

For every number of files, gamepads, events and reuses (`OutputReadsProofs.tla`):

| theorem | says |
|---|---|
| `TypeCorrect` | `Spec => []TypeOK` |
| `CompletedOnce` | `Spec => []OneHolder` |
| `NoReadWaitsInVain` | `Spec => []NoneWaitsInVain` |
| `EventsInOrder` | `Spec => []InOrder` |
| `StreamImplemented` | `Spec => ImplementsStream`, each step is a step of `EventStream` or none |

`TypeInv` adds that a callback at work has made an event (else the event it names
is none) and that a thread between two reads has none. `HoldInv` adds three facts
to the two invariants: `PutBack`, a read that an event could not complete is held
by nobody and stays so, so that the event returning to the buffer meets no
waiting read; `Silent`, a gamepad that does not exist has no callback; and
`Releasing`, the device release has reads only while it runs.

`InOrder` speaks of places instead of filtered sequences: `Places` gives each
event of a gamepad the places it has in the line, so that the property compares
places. `OrderInv` adds that no gamepad is of a later
life of its file object and a file is cleaned up only after its runtime is gone
(`Past`, `Ended`), that events are numbered as they are made and stay with the file
of their gamepad (`Counted`, `Homed`), and `Lines`: the events of each undisturbed
gamepad form one line without gaps. An event takes a waiting read only when none
of its file is buffered (`NoneWaitsInVain`), so it overtakes nothing; if the read
turns out canceled the event goes to the end of the buffer, where no event of
its gamepad can be yet, since the callback has not returned.

`InOrder` says nothing of a gamepad whose runtime was stopped or ended, and
`StreamImplemented` does. `RisingInv` is what is left of the line then: events on the
way are newer than the last one received, and the older ones are ahead
(`Ahead`); gaps are allowed, because the cleanup of a file or the release of the
device empties a buffer. A step that completes a read gives the next event when
the gamepad is undisturbed (by `Lines`) and a newer one otherwise (by `RisingInv`);
every other step leaves what was given alone, and no gamepad becomes undisturbed
again except by being created.

Only model-checked: liveness.

## 6. Windows: pointers and rumble

### Pointers, keyboard and mouse

`WindowsPointers.tla` models the touchscreen and the pen of the Windows backend
and what they share with keyboard and mouse: every submission is made by a
thread attached to a desktop, and one that fails is tried again once.

| code | model |
|---|---|
| `contacts_`, `contact_ids_`, `contact_touching_` | `slots`, a sequence |
| `pointer_`, `active_`, `contacting_`, `barrel_pressed_` | `stylus` |
| `pointer_edge_triggered_flags` | `EdgeFlags`, taken out by `Settled` |
| `submit_with_desktop_retry`, `last_known_input_desktop` (one per thread) | `Submit`, `attached`, `known` |
| `repeat_thread_` of a device | `Refresh`, `EndRefresher` |
| the system | `sees`, where it has each pointer; `holds`, keys; `inputDesktop` |

A call holds the device's lock for all it does, so it is one step; the repeat
thread's refresh is another one. A contact is a slot with flags; positions and
pressure are left out. A submission to a desktop that does not receive input
is refused; nothing else refuses one. `SwitchDesktop` may fall between any two
steps.

- `NoGhostContact`: a contact the system shows is one the touchscreen tracks,
  whatever was refused, so it can still be released; of a contact without
  leftover flags both say the same.
- `EdgesInOneFrame`: as long as nothing was refused no pointer in contact is
  sent down again, by a call or the repeat thread. After a refused frame the
  code does send its edges again every 50 ms until a call about that pointer
  succeeds; the property excludes it, since the repeated frame is the one that
  was never seen.
- `WindowsStops` has `PointerCloseEnds`: the joined repeat thread ends.

Three contact ids for two slots, two desktops and one switch: a slot is reused,
the last slot moves up, and both threads find the desktop changed, before and
after the other one.

### Rumble

`WindowsRumble.tla` models one generic gamepad from the driver's report to the
application's callback: `GenericPidRumbleState`, the output thread
(`output_loop`, `dispatch_output_report`), the timer thread (`pid_timer_loop`),
registration, closing, and the stop of the context.

| code | model |
|---|---|
| `effects_`, `actuators_enabled_`, `device_paused_`, pause start, last strength | `pidEffects`, `enabled`, `paused`, `pauseStarted`, `lastStrength` |
| `handle_output_report` | `HandleOutputReport`; `EffectsAfter` says what each report does |
| `advance`, `next_transition` | `ExpireEffects`, `Strength`, `NextTransition` |
| `gamepads_`, `output_dispatch_mutex_`, `pid_timer_generation_` | `padRegistered`, `dispatching`, `notified` |

The timer's turn is four steps (read generation and time; advance under the
mutex; tell; wait), the output thread's three, so that a report may come between
any two. Time is a count of ticks.

- `RumbleUpToDate`: while the timer waits undisturbed, what the application was
  told last is the strength of this moment, the effects that have ended by now
  left out. The code makes it hold by counting
  notifications, since the timer reads its time before it has the mutex.
- `PutOffTooFar` is its one exception: `continue` puts every running effect off
  by the length of the whole pause, one that was started within the pause too
  (`generic_pid_rumble.hpp:299`). Such an effect counts as started and starts
  later, and nobody wakes for it. Found with this module; nothing in the
  repository says what should happen, so it is no finding.
- `WindowsStops` has `ContextStops`: `stop()` returns.

One block, two strengths, one delay and one duration of a tick, three reports,
two ticks: an effect is started, paused and continued, or set again while it
waits.

Fairness of the run: weak, of the threads' steps as one action each (they are
never withheld for ever, since reports, switches and ticks are bounded and a
lock is released by its holder), and the fairness sections 4 and 5 state.
`CHECK_DEADLOCK FALSE`: closed devices have no further steps.

### Proofs

For every set of contact ids, slots, desktops, effect blocks, strengths, delays
and durations, and every bound (`WindowsProofs.tla`):

| theorem | says |
|---|---|
| `ContactsTracked` | `WinSpec => []NoGhostContact` |
| `EdgesOnce` | `WinSpec => []EdgesInOneFrame` |
| `RumbleKnown` | `PidSpec => []RumbleUpToDate` |
| `WindowsTypeCorrect` | `WindowsSpec => []WindowsTypeOK`, of the composition with sections 4 and 5 |

`PointerInv` says that slots have distinct contacts (`Unique`) whose flags are
those of one state (`Consistent`), that what the system shows has a slot
(`Tracked`) and a slot without leftover flags is shown as it says (`Shown`), the
same of the stylus, and that flags of an edge are left over only after a refusal
(`EdgeInv`). `ContactsAreTouches` is its assumption: the ids of contacts are
those the touchscreen uses. Removing a slot moves the later ones up; the lemmas
about that are about any predicate of the remaining slots.

`RumbleInv` says who has `output_dispatch_mutex_`, that an open gamepad is
registered, that an effect that has started began at or before the last look at
the state (`AllBegun`), that an armed timer waits for the next transition of the
effects with the strength it saw (`Armed`), that the application was told the
last strength or somebody is about to tell it (`Told`), and that nothing is
decoded while a callback is due (`Undecoded`). Between two transitions the set of
sounding effects stays the same, hence their sum (`SameStrength`): the timer may
sleep until the next one. `Spans` is its assumption: times are natural numbers or
infinite. The run's `PutOffTooFar` appears in the theorem as it does in the
property.

`WindowsTypeCorrect` joins the inductive invariants of the four parts
(`WindowsInv`): those of the driver's queues, taken from `VhfInputProofs` and
`OutputReadsProofs` by an instance (`InputSame` and `ReadsSame` show that both
instances of a component mean the same), `PointerInv` with the types of the rest
(`RestTypes`), and `RumbleInv` with `ContextTypes`. Its steps are short since a
step belongs to one part and leaves the others alone; what takes work is that the
strength told is at most the number of blocks: it is a sum over effects of 0
or 1 each (`ForcesCounted`).

Assumptions: there is a default desktop (`WindowsBounds`); there are finitely many
effect blocks (`PidBounds`), as the descriptor declares them; times are natural
numbers; and `PartsAssumption` repeats what the two driver modules assume of
their constants.

Only model-checked: liveness.

## 7. Linux devices

All of them write events to a kernel device; the kernel is modelled by what it
holds after each event. For the uinput devices, a call builds a script of events
and stops at the first write that fails (`Uinput.tla`), so every prefix is a
possible outcome and the assignments made before the failing write remain.

| module | code | state |
|---|---|---|
| `LinuxTouch` | `UinputTouchDevice`, `UinputTouchscreen`, `UinputTrackpad` | contacts with slots, cached slot, tracking ids; the kernel's slots and keys |
| `LinuxPen` | `UinputPenTablet` | last tool; the kernel's tools, pressure, distance |
| `LinuxKeyboard` | `UinputKeyboard`, `XTestKeyboard` | pressed keys, the call under way, the repeat thread and its snapshot |
| `UinputRumble` | `UinputGamepad` | effects, gain, reader thread, last strength |
| `UhidGamepad` | `UhidGamepad` | flags, reader and periodic threads, `state_mutex_`, the kernel's device and request |

Touch and pen calls run under the library's lock of the device and meet no other
thread, so a call is one step. The keyboard's thread takes only the lock of one
write and of `pressed_keys_`, so each write is a step. In `UhidGamepad` each
critical section and each write is a step; an application state is its number.

- `KernelShowsContacts`: contacts never share a slot, whatever failed; as long as
  nothing failed the kernel shows the contacts placed and not released, where
  they were put, with touch and finger-count keys that agree. Three caches of
  kernel state (slot, tracking id, number of fingers) must agree for it.
- `OneToolInOneContact`: the same for the pen's tool, whichever axes a call leaves
  unchanged; a pen that has pressure is in contact, and one in contact is at no
  distance. The converse of the first does not hold: `emit_pen_pressure` writes
  the rounded pressure but decides on contact by the pressure itself, so a
  positive one below half a unit gives contact with pressure 0. That is the only
  way to contact without pressure (`penFaint` remembers it). The tool "touch"
  shares its key with contact and is excluded from all but the first.
- `LatePressAtMostOnce`: the repeat thread may press a key once more after its
  release has returned (it works on a snapshot), and at most once. A repeated
  press leaves the key down in the kernel until it is pressed and released
  again, or the keyboard is closed.
- `SilentAfterClose`: however the reader ended, after close the application has
  heard silence last.
- `NeverStale`: the periodic report never brings back an older state.
- `RequestsAnswered`: each request of the kernel is answered or given up.
- `LinuxCallsEnd`: keyboard close, UHID create and close end, the latter with no
  device left in the kernel whatever failed; rumble that was heard is taken
  back, also when the game never stops it.

Keys that a closed XTest keyboard held stay down: the X server keeps them.
`CloseKeyboard` has it, and no property is claimed of XTest keyboards.

Bounds: three contacts for two slots and two tracking ids (a slot and an id are
reused while another contact stays), one failing write; one application key
with the keys of Unicode text, two calls; pressures and distances unchanged,
zero, one that rounds to zero and one beyond an axis of one unit (levels are
thirds of a unit, so that one rounds down and two round up, as every value but
a half does); one effect slot with an infinite and a shaped effect (delay, slope, attack),
three kernel events, four ticks; two submitted states, two kernel events, one
failure. The first failure is what leaves a call half done; that a later call
meets what it left needs no second one.

Fairness: weak, of each thread's steps; the clock of the rumble goes on; polls
do not fail unless they choose to. The X server, the kernel's requests and new
calls are not fair.

### Proofs

For every number of contacts, slots, tracking ids, levels, keys, calls, effects,
states, requests, failures and ticks:

| theorem | says |
|---|---|
| `LinuxPointerProofs.ContactsShown` | `TouchSpec => []KernelShowsContacts` |
| `LinuxPointerProofs.OneToolShown` | `PenSpec => []OneToolInOneContact` |
| `LinuxProofs.KernelNeverGoesBack` | `UhidSpec => []NeverStale` |
| `LinuxProofs.LatePresses` | `KeyboardSpec => []LatePressAtMostOnce` |
| `LinuxProofs.RumbleSilenced` | `RumbleSpec => []SilentAfterClose` |
| `LinuxProofs.PartsImplemented` | `LinuxSpec` implements the specification of each part |
| `LinuxProofs.LinuxTypeCorrect` | `LinuxSpec => []LinuxTypeOK` |

`KernelShowsContacts` and `OneToolInOneContact`: a call folds its script over what
the kernel holds. The first lemmas of `LinuxPointerProofs` take the fold apart:
the recursion it is defined by has one solution for every length (a shortest
counterexample, since inductions over data are out of the prover's reach), the
effect of an event appended is that event's, and the effect of two scripts
joined is that of the one after the other. The scripts of each call then reduce
to what their few events do to one field each, and a call to one record of what
the kernel has afterwards (`WithContact`, `WithoutContact`, `Placed`). `TouchInv`
adds to the property that the cached slot is the kernel's (`Cached`), since that
is when `select_slot` writes nothing, for which slots the kernel has a contact
and where (`ShownWhere`), and the keys (`ShownKeys`), also before the device
exists. `Apart` and the types hold whatever failed. `PenInv` says of the kernel's
tool keys and contact what the property says, for a pen that is not yet closed.
Assumptions: there is a slot and a tracking id (`SlotsAndIds`), levels are
integers and the ranges of the axes natural numbers (`LevelsAreIntegers`).

`NeverStale`: the invariant says who holds `state_mutex_` (the application
between write and assignment, the periodic thread between packing and write),
and that `last_state_` is the state the kernel has except while the application
holds the mutex after its write. So what the periodic thread has packed is what
the kernel already has.

`LatePressAtMostOnce`: `LateOnce` says that a key which was pressed late is
neither in the repeat thread's snapshot nor in `pressed_keys_`, and no press of it
waits to be noted there; so the thread cannot press it again before the
application has. `HeldDown` ties what the kernel holds, while no write failed, to
`pressed_keys_` with the event being submitted counted in, and to the keys pressed late.
Nothing is said of a key about to be pressed, because the repeat thread may press it
first.

`SilentAfterClose`: `ReaderInv` says that close joins the reader and that a reader
that has ended heard its last strength; `HeardInv` that what the application
heard last is what the reader remembers, except between the change and the call.
The reader tells silence on each of its ways out of the loop (`ReaderChecks`,
`ReaderFailsToPoll`) or leaves it to `FinishPadClose`.

`LinuxTypeOK`: a step of the composed run is a step of one part and leaves the
others alone, so `LinuxSpec` implements the specification of every part
(`PartsImplemented`), and each part's types are a theorem of its own. The ones
that take work:

- touch devices and the pen (`TouchTypeCorrect`, `PenTypeCorrect`), also after a
  write that failed half way. A set of kernel states that each event of a script
  keeps is kept by every prefix of the script (`AfterKeeps`); so it is enough that
  every event of every script is of a slot, a tracking id, a key or a level the
  device has.
- the force feedback (`RumbleTypeCorrect`): the strength is a sum over the effects
  that play. A sum over a finite set is a recursion over subsets, which has a
  solution (`SumsExist`) that is a number (`SumsTyped`), both again by a smallest
  counterexample; each summand is one because no interpolation divides by 0
  or goes back before its start (`MagnitudeTyped`). Assumptions (`RumbleBounds`): the
  fields of an effect are natural numbers, the kernel has finitely many slots.
- the UHID gamepad (`UhidTypeCorrect`): with `NeverStale`'s invariant, that no
  request is pending which was not asked.

Only model-checked: liveness.

## 8. The state of a gamepad

`PadState.tla` follows the whole state of a gamepad: `GamepadStateAdapter`
changes one input of it and submits all, `core/report.cpp` packs it into one of
six report formats, or a uinput gamepad writes it as one event per code. A
profile says which inputs the setters accept, on each path to the host (HID
reports, uinput on Linux or FreeBSD). An input is held or neutral. A report is
the set of its fields that are not neutral, with their bytes and bits; opposite
directions cancel. Scaling of axes is data and left out.

`ReportDescriptors.tla` holds what the report descriptors of `core/profiles.cpp`
declare: for each bit of an input report its usage, and the lengths of output
and feature reports.

- `PadShown`: after a submission that succeeds, whatever earlier ones left half
  written, the host has the whole state, and every accepted input makes a
  difference. The only exceptions are those of `NeverShown`: the motion of a
  Switch Pro, which no report carries, and the battery on the uinput gamepads of
  Linux, whose profiles keep the capability. The setters accept them and report success.
- `ReportsAsDeclared`: each input is packed where the descriptor declares a field
  of its usage, the sizes of the profile are those of the descriptor, and the
  feature reports that are answered have the declared lengths. Switch Pro
  reports are read without the descriptor; only their sizes are compared.

Bounds: every kind, path, and bus; one input held at a time, both motion inputs
together, one failed submission, which may end after any event. Fields of
different inputs are independent but for opposite directions, which cancel
(`Hat`) and are not held together in the run; the theorem is about any inputs
held together.

Proved (`PadProofs.WholeStateShown`): `PadSpec => []PadShown`, for every profile and
path, any inputs held together, and any number of submissions that failed after
any event. A report is one or two tables of places and a hat. The places of a
report are distinct (`Distinct`, `TablesApart`, `Beside`; they are compared as numbers),
so an input is told by a report exactly when it is in a table or is a direction
(`ReportTells`), and each direction changes the hat, also when its opposite is
held (`HatTells`). A uinput script has the same codes whatever is held, so a whole
one overwrites all that earlier ones left (`FedAnew`): `PadInv` says that
what the kernel has was written by scripts. Every accepted input outside
`NeverShown` has a code of its own among those the device was created with
(`Coded`). `PadTypeCorrect` proves the types; it needs that at least one input may be
held (`PadBounds`), since turning one of two motion sensors off leaves one. `ReportsAsDeclared` compares finite tables bit by bit, without any state
but the profile and one input, and TLC evaluates all of them.

## 9. The runtime

`Runtime.tla` models the registry, the devices' locks, and the calls `create_*`,
`submit`, `close`, the handle's destructor, `close_all`,
`active_device_count` and the runtime's destructor. The six kinds of devices
have the same code and are one. One callback of a device runs at a time.

The variable `joins` says which backend is below:

| | Linux | Windows |
|---|---|---|
| who calls the callback | the device's own thread | two threads of the backend |
| close | joins the thread (`BackendClosed`) | joins nothing; a callback copied before it may still run (`OutputArrives` to `CallbackReturns`) |
| a close that fails | its status is returned; the file is closed, so the kernel's device goes | the driver keeps the gamepad: `backend` is `"left"` |
| what ends the threads | the close (`Told`) | the backend's destructor, at the end of `~Runtime` (`StopBackend`) |

In both the device no longer looks open, whatever the status was
(`ClosesDevice`), so nothing closes it again: a gamepad that a failed destroy
left goes with the client's process (section 3). A backend that has no thread
(the fake one) behaves as one whose thread has nothing to say.

Two kinds of applications use it. One calls what it likes, and its callback
takes no lock. The other is the control tool (`tools/virtualhid_control.cpp`):
it holds its mutex while it submits, its callback takes that mutex, and it takes
a device out of its map under the mutex but closes it without.

- `NoUseAfterClose`: a submission reaches only an open backend, a device that
  looks open is open, and the last handle leaves a backend whose close was
  called. On Linux a closed device runs no callback. On Windows one may run after
  its close; when the runtime's destructor has returned none does, no thread
  that calls callbacks is left and no device is open.
- `CallsReturn`: no cycle among the runtime's lock, device locks, joins and the
  application's mutex. On Linux `close_all` joins output threads while it holds the
  runtime's lock; the tool calls it, in the runtime's destructor, only when its
  devices are gone, and the free
  application's callback takes no lock. An application that breaks both rules
  is not in the repository and not modelled.

`VisitDevice` holds a device while `close_all` uses it: the code locks a
`weak_ptr`; one that is gone by then is skipped. Two threads, two devices, four
calls, one output: a close, a close-all, a submission and a callback meet on one
device, a callback outlasts a close until the runtime's end, and a second device
gives `close_all` an order. A second callback would wait for the same mutex as
the first and hold nothing meanwhile. Calls and outputs are
bounded, so that weak fairness of the steps suffices: a lock is in the end free
for the one that waits.

Proved (`RuntimeProofs.ClosedStaysUnused`): `NoUseAfterClose`, for every number of
threads, devices, calls and outputs; the only assumption is that the value of a
free lock is not a thread (`FreeIsNoThread`). It holds for both values of `joins`. The property is not inductive. Its invariant adds
what each call works on (a device that is being created is known to no other
call), which steps hold which device's lock, and that a device which looks open
while its backend closes is held by the one that closes it. A submission holds
the lock and saw the device open, so nobody is closing it. `EndInv` follows the
runtime's destructor: no device is created any more, and one that it no longer
has to visit is not open. `RuntimeTypeCorrect`
adds that a handle the application may call is of a device that exists: a
destructor past its first step works on a device that is no longer among the
handles (`HandlesInv`). `CallsReturn` is
liveness and only model-checked.

Not claimed: the tool's members are destroyed in the reverse order of their
declaration (`tools/virtualhid_control.cpp`), its mutex before the runtime. On
Windows a callback that is still running then would take a mutex that is gone;
the model keeps the mutex until the runtime's destructor has returned.

## 10. Not modelled

`PROJECT.json` gives the reason per component. In short:

- Data: scaling of axes and coordinates, key translation, checksums, the
  contents of answers and events, parsing of output reports, names and ids of
  profiles, the second input report ids of PlayStation controllers.
- On Windows: text input, pointer motion and scrolling (single calls without
  state), the conversion of a create request, the broker client's pipe handling
  (its outcomes are in `Broker`), the allocation of effect blocks by feature
  reports, the output part that the driver appends to the generic descriptor.
- On Linux: mice, whose calls write one script each and keep no state.
- The macOS backend, the trace log, the license API, the unsupported platform
  backend, the fake devices: sequential calls. The macOS backend keeps the buttons
  and modifiers of its calls, each under a lock, and has no gamepads.
- Descriptor text, public types, the tool's user interface, build files and
  examples have no behaviour of the kind checked here.

Hazards that no property covers carry a note in `PROJECT.json`.

Only model-checked: liveness (fairness is beyond the rules of the prover); the
violations; and `ReportsAsDeclared`, which compares finite tables, one submitted
state at a time, that TLC evaluates completely.
