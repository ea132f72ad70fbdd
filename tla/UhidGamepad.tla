----------------------------- MODULE UhidGamepad ----------------------------
(* A Linux gamepad behind /dev/uhid (UhidGamepad): the application's thread  *)
(* creates, submits and closes (the library's gamepad lock serializes its    *)
(* calls); a reader thread answers the kernel; and for a PlayStation profile *)
(* a periodic thread repeats the last state.  Application states are         *)
(* numbered, so a report is the number of the state it was packed from.      *)
EXTENDS Integers, Sequences

CONSTANTS
  MaxStates,       \* bound on the submitted states
  MaxKernelEvents, \* bound on the kernel's requests and output reports
  MaxUhidFailures  \* bound on failed writes and polls

ASSUME UhidBounds == MaxStates \in Nat /\ MaxKernelEvents \in Nat

VARIABLES
  periodic,        \* is profile_ a PlayStation profile?
  app,             \* what the application's thread is about to do
  created,         \* how create ended: "unknown", "success" or "failure"
  isOpen,          \* open_
  uhidRunning,     \* running_ (and the stop tokens)
  started,         \* started_
  readerExited,    \* reader_exited_
  uhidReader,      \* what the reader thread is about to do
  current,         \* the event it handles
  reporter,        \* what the periodic thread is about to do
  packed,          \* the state of the report it packed
  stateLock,       \* holder of state_mutex_
  last_state,      \* number of last_state_
  newest,          \* number of the last state submitted
  hid,             \* the kernel's device
  uhidQueue,       \* events the kernel holds for the reader
  uhidInput,       \* state of the last input report the kernel accepted
  asked,           \* number of kernel events
  pending,         \* id of the request the kernel waits for, 0 if none
  uhidFailures     \* number of failures

uhidVars == <<periodic, app, created, isOpen, uhidRunning, started,
              readerExited, uhidReader, current, reporter, packed, stateLock,
              last_state, newest, hid, uhidQueue, uhidInput, asked, pending,
              uhidFailures>>

appVars      == <<periodic, app, created, isOpen, newest>>
lifeVars     == <<uhidRunning, started, readerExited>>
readerVars   == <<uhidReader, current>>
reportVars   == <<reporter, packed, stateLock, last_state>>
kernelVars   == <<hid, uhidQueue, uhidInput, asked, pending>>

NoEvent == [kind |-> "none", id |-> 0]

-----------------------------------------------------------------------------
UhidInit ==
  /\ periodic = FALSE
  /\ app = "new" /\ created = "unknown"
  /\ isOpen = TRUE /\ uhidRunning = FALSE
  /\ started = FALSE /\ readerExited = FALSE
  /\ uhidReader = "none" /\ current = NoEvent
  /\ reporter = "none" /\ packed = 0 /\ stateLock = "free"
  /\ last_state = 0 /\ newest = 0
  /\ hid = "none" /\ uhidQueue = <<>> /\ uhidInput = 0
  /\ asked = 0 /\ pending = 0 /\ uhidFailures = 0

Fails ==
  /\ uhidFailures < MaxUhidFailures
  /\ uhidFailures' = uhidFailures + 1

(* What an accepted write does in the kernel, which takes events of a device *)
(* that exists only.                                                         *)
WriteCreate == IF hid = "none" THEN hid' = "created" ELSE UNCHANGED hid
WriteDestroy == IF hid = "none" THEN UNCHANGED hid ELSE hid' = "destroyed"
Alive == hid \in {"created", "started"}

-----------------------------------------------------------------------------
(* The application's thread *)

(* create starts the reader before it registers the device *)
StartReader(p) ==
  /\ app = "new"
  /\ periodic' = p
  /\ app' = "register"
  /\ uhidRunning' = TRUE
  /\ uhidReader' = "poll"
  /\ UNCHANGED <<created, isOpen, newest, started, readerExited, current,
                 reportVars, kernelVars, uhidFailures>>

RegisterDevice ==
  /\ app = "register"
  /\ \/ WriteCreate /\ app' = "wait" /\ UNCHANGED <<uhidRunning, uhidFailures>>
     \/ Fails /\ app' = "stop_reader" /\ uhidRunning' = FALSE /\ UNCHANGED hid
  /\ UNCHANGED <<periodic, created, isOpen, newest, started, readerExited,
                 readerVars, reportVars, uhidQueue, uhidInput, asked, pending>>

(* wait_for_start, whose five seconds may run out at any time *)
WaitForStart ==
  /\ app = "wait"
  /\ \/ /\ started
        /\ app' = "idle" /\ created' = "success"
        /\ reporter' = IF periodic THEN "asleep" ELSE "none"
        /\ UNCHANGED uhidRunning
     \/ /\ ~started
        /\ app' = "stop_reader" /\ uhidRunning' = FALSE
        /\ UNCHANGED <<created, reporter>>
  /\ UNCHANGED <<periodic, isOpen, newest, started, readerExited, readerVars,
                 packed, stateLock, last_state, kernelVars, uhidFailures>>

(* stop_reader joins; the backend then closes the gamepad it could not       *)
(* create                                                                    *)
ReaderStopped ==
  /\ app = "stop_reader" /\ uhidReader = "ended"
  /\ app' = "idle" /\ created' = "failure"
  /\ UNCHANGED <<periodic, isOpen, newest, lifeVars, readerVars, reportVars,
                 kernelVars, uhidFailures>>

(* submit, under state_mutex_ *)
LockForSubmit ==
  /\ app = "idle" /\ created = "success" /\ newest < MaxStates /\ stateLock = "free"
  /\ app' = "submit" /\ stateLock' = "app"
  /\ newest' = newest + 1
  /\ UNCHANGED <<periodic, created, isOpen, lifeVars, readerVars, reporter,
                 packed, last_state, kernelVars, uhidFailures>>

(* write_input_report, then last_state_ if it was written *)
WriteSubmission ==
  /\ app = "submit"
  /\ \/ /\ isOpen /\ Alive
        /\ uhidInput' = newest /\ app' = "record"
        /\ UNCHANGED <<stateLock, uhidFailures>>
     \/ /\ \/ Fails
           \/ ~(isOpen /\ Alive) /\ UNCHANGED uhidFailures
        /\ app' = "idle" /\ stateLock' = "free" /\ UNCHANGED uhidInput
  /\ UNCHANGED <<periodic, created, isOpen, newest, lifeVars, readerVars,
                 reporter, packed, last_state, hid, uhidQueue, asked, pending>>

RecordState ==
  /\ app = "record"
  /\ last_state' = newest
  /\ app' = "idle" /\ stateLock' = "free"
  /\ UNCHANGED <<periodic, created, isOpen, newest, lifeVars, readerVars,
                 reporter, packed, kernelVars, uhidFailures>>

(* close: a second one returns at once *)
BeginUhidClose ==
  /\ app = "idle" /\ isOpen
  /\ isOpen' = FALSE /\ uhidRunning' = FALSE
  /\ app' = "destroy"
  /\ UNCHANGED <<periodic, created, newest, started, readerExited, readerVars,
                 reportVars, kernelVars, uhidFailures>>

Destroy ==
  /\ app = "destroy"
  /\ \/ WriteDestroy /\ UNCHANGED uhidFailures
     \/ Fails /\ UNCHANGED hid
  /\ app' = "join"
  /\ UNCHANGED <<periodic, created, isOpen, newest, lifeVars, readerVars,
                 reportVars, uhidQueue, uhidInput, asked, pending>>

(* The joins, then the close of the file, which destroys a device that is    *)
(* still there                                                               *)
FinishClose ==
  /\ app = "join" /\ reporter \in {"none", "ended"} /\ uhidReader \in {"none", "ended"}
  /\ app' = "closed"
  /\ WriteDestroy
  /\ UNCHANGED <<periodic, created, isOpen, newest, lifeVars, readerVars,
                 reportVars, uhidQueue, uhidInput, asked, pending, uhidFailures>>

-----------------------------------------------------------------------------
(* The reader thread *)

ReaderUnchanged == UNCHANGED <<appVars, uhidRunning, reportVars>>

ExitReader ==
  /\ uhidReader' = "ended" /\ readerExited' = TRUE
  /\ UNCHANGED <<current, started, kernelVars>>
  /\ ReaderUnchanged

(* read_loop is told to stop, or read_event cannot poll or read *)
ReaderStops == uhidReader = "poll" /\ ~uhidRunning /\ ExitReader /\ UNCHANGED uhidFailures
ReaderFails == uhidReader = "poll" /\ Fails /\ ExitReader

(* handle_event: START is handled at once, output and SET_REPORT first go to *)
(* the callback (dispatch_output_report, dispatch_set_report)                *)
ReadEvent ==
  /\ uhidReader = "poll" /\ uhidRunning /\ uhidQueue # <<>>
  /\ uhidQueue' = Tail(uhidQueue)
  /\ LET event == Head(uhidQueue)
     IN /\ started' = (started \/ event.kind = "start")
        /\ current' = IF event.kind = "start" THEN NoEvent ELSE event
        /\ uhidReader' = CASE event.kind = "start" -> "poll"
                           [] event.kind = "get"   -> "reply"
                           [] event.kind \in {"set", "output"} -> "callback"
  /\ UNCHANGED <<readerExited, hid, uhidInput, asked, pending, uhidFailures>>
  /\ ReaderUnchanged

\* Mutant: a SET_REPORT is passed on and not answered.
OutputReturnsToPoll ==
  /\ uhidReader = "callback"
  /\ uhidReader' = "poll" /\ current' = NoEvent
  /\ UNCHANGED <<started, readerExited, kernelVars, uhidFailures>>
  /\ ReaderUnchanged

OutputReturns ==
  /\ uhidReader = "callback"
  /\ uhidReader' = IF current.kind = "set" THEN "reply" ELSE "poll"
  /\ current' = IF current.kind = "set" THEN current ELSE NoEvent
  /\ UNCHANGED <<started, readerExited, kernelVars, uhidFailures>>
  /\ ReaderUnchanged

(* send_get_report_reply, whose payload (or error) depends on the profile    *)
(* alone, and send_set_report_reply: the status of the write is ignored      *)
Reply ==
  /\ uhidReader = "reply"
  /\ uhidReader' = "poll" /\ current' = NoEvent
  /\ \/ pending' = (IF Alive /\ pending = current.id THEN 0 ELSE pending) /\ UNCHANGED uhidFailures
     \/ Fails /\ UNCHANGED pending
  /\ UNCHANGED <<started, readerExited, hid, uhidQueue, uhidInput, asked>>
  /\ ReaderUnchanged

-----------------------------------------------------------------------------
(* The periodic thread *)

ReporterUnchanged ==
  UNCHANGED <<appVars, lifeVars, readerVars, last_state, hid, uhidQueue, asked, pending>>

ReporterEnds ==
  /\ reporter = "asleep" /\ ~(uhidRunning /\ isOpen)
  /\ reporter' = "ended"
  /\ UNCHANGED <<packed, stateLock, uhidInput, uhidFailures>>
  /\ ReporterUnchanged

(* The checks, before the lock *)
ReporterWakes ==
  /\ reporter = "asleep" /\ uhidRunning /\ isOpen
  /\ reporter' = "lock"
  /\ UNCHANGED <<packed, stateLock, uhidInput, uhidFailures>>
  /\ ReporterUnchanged

\* Mutant: the last state is packed without state_mutex_.
PackLastStateUnlocked ==
  /\ reporter = "lock"
  /\ packed' = last_state
  /\ reporter' = "write"
  /\ UNCHANGED <<stateLock, uhidInput, uhidFailures>>
  /\ ReporterUnchanged

PackLastState ==
  /\ reporter = "lock" /\ stateLock = "free"
  /\ stateLock' = "reporter"
  /\ packed' = last_state
  /\ reporter' = "write"
  /\ UNCHANGED <<uhidInput, uhidFailures>>
  /\ ReporterUnchanged

WritePeriodicReport ==
  /\ reporter = "write"
  /\ reporter' = "asleep" /\ stateLock' = "free"
  /\ \/ /\ uhidInput' = IF isOpen /\ Alive THEN packed ELSE uhidInput
        /\ UNCHANGED uhidFailures
     \/ Fails /\ UNCHANGED uhidInput
  /\ UNCHANGED packed
  /\ ReporterUnchanged

-----------------------------------------------------------------------------
(* The kernel *)

KernelUnchanged ==
  UNCHANGED <<appVars, lifeVars, readerVars, reportVars, uhidInput, uhidFailures>>

(* The HID driver binds to the registered device *)
KernelStarts ==
  /\ hid = "created"
  /\ hid' = "started"
  /\ uhidQueue' = Append(uhidQueue, [NoEvent EXCEPT !.kind = "start"])
  /\ UNCHANGED <<asked, pending>>
  /\ KernelUnchanged

(* One request at a time, during registration too; a request the kernel no   *)
(* longer waits for makes room for the next one.                             *)
KernelAsks(kind) ==
  /\ Alive /\ asked < MaxKernelEvents
  /\ asked' = asked + 1
  /\ kind \in {"get", "set"} => pending = 0
  /\ pending' = IF kind = "output" THEN pending ELSE asked'
  /\ uhidQueue' = Append(uhidQueue, [kind |-> kind, id |-> asked'])
  /\ UNCHANGED hid
  /\ KernelUnchanged

KernelGivesUp ==
  /\ pending # 0
  /\ pending' = 0
  /\ UNCHANGED <<hid, uhidQueue, asked>>
  /\ KernelUnchanged

-----------------------------------------------------------------------------
ReaderStep == ReaderStops \/ ReadEvent \/ OutputReturns \/ Reply
ReporterStep == ReporterEnds \/ ReporterWakes \/ PackLastState \/ WritePeriodicReport
AppStep == RegisterDevice \/ WaitForStart \/ ReaderStopped \/ WriteSubmission \/ RecordState
             \/ Destroy \/ FinishClose

UhidNext ==
  \/ \E p \in BOOLEAN : StartReader(p)
  \/ LockForSubmit \/ BeginUhidClose
  \/ AppStep
  \/ ReaderStep \/ ReaderFails
  \/ ReporterStep
  \/ KernelStarts \/ KernelGivesUp
  \/ \E kind \in {"get", "set", "output"} : KernelAsks(kind)

(* Threads run; poll failures, timeouts of the kernel and new calls need not *)
(* happen.  The reporter gets the lock, which the application holds briefly. *)
UhidFairness ==
  /\ WF_uhidVars(AppStep)
  /\ WF_uhidVars(ReaderStep)
  /\ WF_uhidVars(ReporterStep)

UhidSpec == UhidInit /\ [][UhidNext]_uhidVars /\ UhidFairness

-----------------------------------------------------------------------------
UhidTypeOK ==
  /\ periodic \in BOOLEAN
  /\ app \in {"new", "register", "wait", "stop_reader", "idle", "submit",
              "record", "destroy", "join", "closed"}
  /\ created \in {"unknown", "success", "failure"}
  /\ {isOpen, uhidRunning, started, readerExited} \subseteq BOOLEAN
  /\ uhidReader \in {"none", "poll", "callback", "reply", "ended"}
  /\ reporter \in {"none", "asleep", "lock", "write", "ended"}
  /\ stateLock \in {"free", "app", "reporter"}
  /\ {packed, last_state, newest, uhidInput} \subseteq 0 .. MaxStates
  /\ hid \in {"none", "created", "started", "destroyed"}
  /\ pending \in 0 .. MaxKernelEvents

(* A repeated report never brings back a state older than one the kernel has *)
(* already been given: what the kernel last saw only gets newer.             *)
NeverStale == [][uhidInput' >= uhidInput]_uhidVars

(* Every request of the kernel is answered (or given up by the kernel) while *)
(* the gamepad stays open, its reader runs and no reply fails: no thread     *)
(* keeps the reader from its loop.                                           *)
RequestsAnswered ==
  pending # 0 ~> pending = 0 \/ ~uhidRunning \/ uhidFailures > 0

(* A create ends, and if with success then the kernel has started the        *)
(* device, whatever the reader, the timeout and the kernel do meanwhile.  A  *)
(* close ends with no device left in the kernel, whichever writes failed:    *)
(* the joined threads leave their loops.                                     *)
UhidCallWaits == app \in {"register", "wait", "stop_reader", "destroy", "join"}
UhidCallOver ==
  \/ app = "idle" /\ (created = "success" => hid \in {"started", "destroyed"})
  \/ app = "closed" /\ hid \in {"none", "destroyed"}
UhidCallsEnd == UhidCallWaits ~> UhidCallOver
=============================================================================
