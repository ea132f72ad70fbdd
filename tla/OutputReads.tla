----------------------------- MODULE OutputReads -----------------------------
(***************************************************************************)
(* Output events of the gamepads on their way to the runtimes that created *)
(* them: the read requests and buffered events of the Windows driver       *)
(* (src/platform/windows/driver/libvirtualhid_umdf.cpp) and the output     *)
(* thread of the client (src/platform/windows/windows_backend.cpp).  A     *)
(* runtime reads through its control file, one read at a time.  Reads wait *)
(* in the driver until an event, a cancellation, the end of the file or    *)
(* the end of the device completes them, and all of these race.            *)
(***************************************************************************)
EXTENDS Integers, Sequences, FiniteSets

CONSTANTS
  Files,      \* control files, one per runtime
  Devices,    \* gamepads
  MaxEvents,  \* bound: output events of a gamepad
  MaxLives,   \* bound: runtimes that get the same WDFFILEOBJECT in turn
  NoEvent

ASSUME OutputAssumption == MaxEvents \in Nat /\ MaxLives \in Nat \ {0}

Events == [device : Devices, n : 1..MaxEvents]

ASSUME NoEventAssumption == NoEvent \notin Events

VARIABLES
  runtime,     \* the output thread of the runtime behind a file
  stop,        \* WindowsBackendContext::stop: event set, then stop requested
  life,        \* which runtime has this file object
  read,        \* the read request of the runtime
  answer,      \* buffered event that the read handler took for it
  asked,       \* its cancellation was asked for
  cancelable,  \* WDF's cancel state of it
  pending,     \* pending_output_requests, by file
  buffered,    \* buffered_output_events of each file
  device,      \* a gamepad and who deletes it
  creator,     \* its file and the life of it
  writer,      \* the write or feature callback of VHF that makes an event
  sent,        \* events made, numbers them
  got,         \* number of the last event a read was completed with
  handed,      \* how many reads were completed with an event
  cleanup,     \* progress of LvhEvtFileCleanup
  hardware,    \* progress of LvhEvtDeviceReleaseHardware
  released     \* files whose reads it still has to complete

runtimeVars == <<runtime, stop, life>>
requestVars == <<read, answer, asked, cancelable>>
listVars == <<pending, buffered>>
deviceVars == <<device, creator>>
eventVars == <<writer, sent, got, handed>>
endVars == <<cleanup, hardware, released>>
vars == <<runtimeVars, requestVars, listVars, deviceVars, eventVars, endVars>>

RuntimeTypes ==
  /\ runtime \in [Files -> {"idle", "reading", "draining", "stopped", "gone"}]
  /\ stop \in [Files -> {"no", "event", "requested"}]
  /\ life \in [Files -> 1..MaxLives]

RequestTypes ==
  /\ read \in [Files -> {"none", "sent", "held", "answer"}]
  /\ answer \in [Files -> Events \cup {NoEvent}]
  /\ \A f \in Files : read[f] = "answer" <=> answer[f] # NoEvent
  /\ asked \in [Files -> BOOLEAN]
  /\ cancelable \in [Files -> {"no", "yes", "called", "ran"}]

ListTypes ==
  /\ pending \subseteq Files
  /\ buffered \in [Files -> Seq(Events)]

DeviceTypes ==
  /\ device \in [Devices -> {"none", "live", "broker", "file", "reset", "gone"}]
  /\ creator \in [Devices -> [file : Files, life : 1..MaxLives]]

EventTypes ==
  /\ writer \in [Devices -> {"idle", "event", "took", "back"}]
  /\ sent \in [Devices -> 0..MaxEvents]
  /\ got \in [Devices -> 0..MaxEvents]
  /\ handed \in [Devices -> Nat]

EndTypes ==
  /\ cleanup \in [Files -> {"none", "devices", "reads", "unmark", "done"}]
  /\ hardware \in {"on", "reads", "reset", "off"}
  /\ released \subseteq Files

TypeOK ==
  /\ RuntimeTypes
  /\ RequestTypes
  /\ ListTypes
  /\ DeviceTypes
  /\ EventTypes
  /\ EndTypes

Init ==
  /\ runtime = [f \in Files |-> "idle"]
  /\ stop = [f \in Files |-> "no"]
  /\ life = [f \in Files |-> 1]
  /\ read = [f \in Files |-> "none"]
  /\ answer = [f \in Files |-> NoEvent]
  /\ asked = [f \in Files |-> FALSE]
  /\ cancelable = [f \in Files |-> "no"]
  /\ pending = {}
  /\ buffered = [f \in Files |-> <<>>]
  /\ device = [d \in Devices |-> "none"]
  /\ creator \in [Devices -> [file : Files, life : {1}]]
  /\ writer = [d \in Devices |-> "idle"]
  /\ sent = [d \in Devices |-> 0]
  /\ got = [d \in Devices |-> 0]
  /\ handed = [d \in Devices |-> 0]
  /\ cleanup = [f \in Files |-> "none"]
  /\ hardware = "on"
  /\ released = {}

-----------------------------------------------------------------------------
(* Requests *)

\* WdfRequestCompleteWithInformation
Completed(f) ==
  /\ read' = [read EXCEPT ![f] = "none"]
  /\ answer' = [answer EXCEPT ![f] = NoEvent]
  /\ asked' = [asked EXCEPT ![f] = FALSE]
  /\ cancelable' = [cancelable EXCEPT ![f] = "no"]

CompletedWith(f, event) ==
  /\ Completed(f)
  /\ got' = [got EXCEPT ![event.device] = event.n]
  /\ handed' = [handed EXCEPT ![event.device] = @ + 1]

\* CancelIoEx: WDF calls the cancel callback of a cancelable request, and
\* remembers the wish otherwise.
AskToCancel(f) ==
  /\ asked' = [asked EXCEPT ![f] = read[f] # "none"]
  /\ cancelable' =
       [cancelable EXCEPT ![f] = IF @ = "yes" THEN "called" ELSE @]
  /\ UNCHANGED <<read, answer>>

\* WdfRequestUnmarkCancelable succeeds unless the cancel callback was called.
StillCancelable(f) == cancelable[f] = "yes"

\* complete with STATUS_CANCELLED if the request can be taken back from WDF.
CompleteUnlessCanceled(f) ==
  IF StillCancelable(f) THEN Completed(f) ELSE UNCHANGED requestVars

-----------------------------------------------------------------------------
(* The runtime *)

\* read_output_report up to the wait.  A read fails at once when the device is
\* stopped; the loop then tries again.
StartRead(f) ==
  /\ runtime[f] = "idle"
  /\ stop[f] # "requested"
  /\ hardware = "on"
  /\ runtime' = [runtime EXCEPT ![f] = "reading"]
  /\ read' = [read EXCEPT ![f] = "sent"]
  /\ UNCHANGED <<stop, life, answer, asked, cancelable, listVars, deviceVars,
                 eventVars, endVars>>

\* Both waits of read_output_report return only when the read is completed.
ReadReturns(f) ==
  /\ runtime[f] \in {"reading", "draining"}
  /\ read[f] = "none"
  /\ runtime' = [runtime EXCEPT ![f] = "idle"]
  /\ UNCHANGED <<stop, life, requestVars, listVars, deviceVars, eventVars, endVars>>

\* The stop event is set: cancel_and_drain.
CancelRead(f) ==
  /\ runtime[f] = "reading"
  /\ stop[f] # "no"
  /\ read[f] # "none"
  /\ runtime' = [runtime EXCEPT ![f] = "draining"]
  /\ AskToCancel(f)
  /\ UNCHANGED <<stop, life, listVars, deviceVars, eventVars, endVars>>

\* output_loop ends.
LoopEnds(f) ==
  /\ runtime[f] = "idle"
  /\ stop[f] = "requested"
  /\ runtime' = [runtime EXCEPT ![f] = "stopped"]
  /\ UNCHANGED <<stop, life, requestVars, listVars, deviceVars, eventVars, endVars>>

\* stop sets the event.  The gamepads were closed before, but closing one fails
\* when the broker does not answer: any of them may still be alive.
SetStopEvent(f) ==
  /\ runtime[f] \in {"idle", "reading"}
  /\ stop[f] = "no"
  /\ stop' = [stop EXCEPT ![f] = "event"]
  /\ UNCHANGED <<runtime, life, requestVars, listVars, deviceVars, eventVars,
                 endVars>>

RequestStop(f) ==
  /\ stop[f] = "event"
  /\ stop' = [stop EXCEPT ![f] = "requested"]
  /\ UNCHANGED <<runtime, life, requestVars, listVars, deviceVars, eventVars,
                 endVars>>

\* The channels are destroyed after stop has returned.
CloseFile(f) ==
  /\ runtime[f] = "stopped"
  /\ runtime' = [runtime EXCEPT ![f] = "gone"]
  /\ cleanup' = [cleanup EXCEPT ![f] = "devices"]
  /\ UNCHANGED <<stop, life, requestVars, listVars, deviceVars, eventVars,
                 hardware, released>>

\* The system cancels the reads of a process that ends and closes its files.
ProcessEnds(f) ==
  /\ runtime[f] \in {"idle", "reading", "draining"}
  /\ runtime' = [runtime EXCEPT ![f] = "gone"]
  /\ cleanup' = [cleanup EXCEPT ![f] = "devices"]
  /\ AskToCancel(f)
  /\ UNCHANGED <<stop, life, listVars, deviceVars, eventVars, hardware, released>>

\* WDF may give a new file the object of one that is closed.
OpenAgain(f) ==
  /\ cleanup[f] = "done"
  /\ read[f] = "none"
  /\ hardware = "on"
  /\ life[f] < MaxLives
  /\ life' = [life EXCEPT ![f] = @ + 1]
  /\ runtime' = [runtime EXCEPT ![f] = "idle"]
  /\ stop' = [stop EXCEPT ![f] = "no"]
  /\ cleanup' = [cleanup EXCEPT ![f] = "none"]
  /\ UNCHANGED <<requestVars, listVars, deviceVars, eventVars, hardware, released>>

-----------------------------------------------------------------------------
(* Reads in the driver *)

\* WDF completes a canceled request that the driver has not got yet, and all
\* such requests when the device stops.
CancelInQueue(f) ==
  /\ read[f] = "sent"
  /\ asked[f] \/ hardware # "on"
  /\ Completed(f)
  /\ UNCHANGED <<runtimeVars, listVars, deviceVars, eventVars, endVars>>

\* Mutant: a read waits although an event is buffered.
HandleReadWithoutLooking(f) ==
  /\ read[f] = "sent"
  /\ hardware = "on"
  /\ ~asked[f]
  /\ read' = [read EXCEPT ![f] = "held"]
  /\ cancelable' = [cancelable EXCEPT ![f] = "yes"]
  /\ pending' = pending \cup {f}
  /\ UNCHANGED <<runtimeVars, answer, asked, buffered, deviceVars, eventVars,
                 endVars>>

\* Mutant: the newest buffered event is answered.
HandleReadNewestFirst(f) ==
  /\ read[f] = "sent"
  /\ hardware = "on"
  /\ IF buffered[f] # <<>>
       THEN /\ read' = [read EXCEPT ![f] = "answer"]
            /\ answer' = [answer EXCEPT ![f] = buffered[f][Len(buffered[f])]]
            /\ buffered' = [buffered EXCEPT ![f] = SubSeq(@, 1, Len(@) - 1)]
            /\ UNCHANGED <<asked, cancelable, pending>>
       ELSE /\ ~asked[f]
            /\ read' = [read EXCEPT ![f] = "held"]
            /\ cancelable' = [cancelable EXCEPT ![f] = "yes"]
            /\ pending' = pending \cup {f}
            /\ UNCHANGED <<answer, asked, buffered>>
  /\ UNCHANGED <<runtimeVars, deviceVars, eventVars, endVars>>

\* Mutant: the event that answers the read is not removed from the buffer.
HandleReadKeepingEvent(f) ==
  /\ read[f] = "sent"
  /\ hardware = "on"
  /\ IF buffered[f] # <<>>
       THEN /\ read' = [read EXCEPT ![f] = "answer"]
            /\ answer' = [answer EXCEPT ![f] = Head(buffered[f])]
            /\ UNCHANGED <<asked, cancelable, pending, buffered>>
       ELSE /\ ~asked[f]
            /\ read' = [read EXCEPT ![f] = "held"]
            /\ cancelable' = [cancelable EXCEPT ![f] = "yes"]
            /\ pending' = pending \cup {f}
            /\ UNCHANGED <<answer, asked, buffered>>
  /\ UNCHANGED <<runtimeVars, deviceVars, eventVars, endVars>>

\* handle_read_output_report_request: the first event of the file answers it,
\* otherwise it waits unless it was canceled meanwhile.
HandleRead(f) ==
  /\ read[f] = "sent"
  /\ hardware = "on"
  /\ \/ /\ buffered[f] # <<>>
        /\ read' = [read EXCEPT ![f] = "answer"]
        /\ answer' = [answer EXCEPT ![f] = Head(buffered[f])]
        /\ buffered' = [buffered EXCEPT ![f] = Tail(@)]
        /\ UNCHANGED <<asked, cancelable, pending>>
     \/ /\ buffered[f] = <<>>
        /\ asked[f]
        /\ Completed(f)
        /\ UNCHANGED listVars
     \/ /\ buffered[f] = <<>>
        /\ ~asked[f]
        /\ read' = [read EXCEPT ![f] = "held"]
        /\ cancelable' = [cancelable EXCEPT ![f] = "yes"]
        /\ pending' = pending \cup {f}
        /\ UNCHANGED <<answer, asked, buffered>>
  /\ UNCHANGED <<runtimeVars, deviceVars, eventVars, endVars>>

\* complete_output_request with the event that was buffered.
AnswerRead(f) ==
  /\ read[f] = "answer"
  /\ CompletedWith(f, answer[f])
  /\ UNCHANGED <<runtimeVars, listVars, deviceVars, writer, sent, endVars>>

\* Mutant: the callback completes the request whoever has it.
ReadCanceledCompletingAlways(f) ==
  /\ cancelable[f] = "called"
  /\ pending' = pending \ {f}
  /\ Completed(f)
  /\ UNCHANGED <<runtimeVars, buffered, deviceVars, eventVars, endVars>>

\* Mutant: the canceled request leaves the list and nothing more.
ReadCanceledForgetting(f) ==
  /\ cancelable[f] = "called"
  /\ cancelable' = [cancelable EXCEPT ![f] = "ran"]
  /\ pending' = pending \ {f}
  /\ UNCHANGED <<read, answer, asked, runtimeVars, buffered, deviceVars,
                 eventVars, endVars>>

\* LvhEvtOutputReadCanceled completes the request if it still waits.
ReadCanceled(f) ==
  /\ cancelable[f] = "called"
  /\ IF f \in pending
       THEN Completed(f)
       ELSE /\ cancelable' = [cancelable EXCEPT ![f] = "ran"]
            /\ UNCHANGED <<read, answer, asked>>
  /\ pending' = pending \ {f}
  /\ UNCHANGED <<runtimeVars, buffered, deviceVars, eventVars, endVars>>

-----------------------------------------------------------------------------
(* Events *)

Owner(d) == creator[d].file
Event(d) == [device |-> d, n |-> sent[d]]
Exists(d) == device[d] \in {"live", "broker", "file", "reset"}

\* LvhEvtVhfWriteReport or LvhEvtVhfSetFeature makes an event.
MakeEvent(d) ==
  /\ Exists(d)
  /\ writer[d] = "idle"
  /\ sent[d] < MaxEvents
  /\ sent' = [sent EXCEPT ![d] = @ + 1]
  /\ writer' = [writer EXCEPT ![d] = "event"]
  /\ UNCHANGED <<runtimeVars, requestVars, listVars, deviceVars, got, handed, endVars>>

\* Mutant: the event is buffered although a read waits.
QueueEventBuffering(d) ==
  /\ writer[d] = "event"
  /\ buffered' = [buffered EXCEPT ![Owner(d)] = Append(@, Event(d))]
  /\ writer' = [writer EXCEPT ![d] = "idle"]
  /\ UNCHANGED <<runtimeVars, requestVars, pending, deviceVars, sent, got, handed, endVars>>

\* queue_output_event: take a waiting read of the file or buffer the event.
QueueEvent(d) ==
  /\ writer[d] = "event"
  /\ IF Owner(d) \in pending
       THEN /\ pending' = pending \ {Owner(d)}
            /\ writer' = [writer EXCEPT ![d] = "took"]
            /\ UNCHANGED buffered
       ELSE /\ buffered' = [buffered EXCEPT ![Owner(d)] = Append(@, Event(d))]
            /\ writer' = [writer EXCEPT ![d] = "idle"]
            /\ UNCHANGED pending
  /\ UNCHANGED <<runtimeVars, requestVars, deviceVars, sent, got, handed, endVars>>

\* complete_output_request for a read that was waiting.
CompleteEvent(d) ==
  /\ writer[d] = "took"
  /\ IF StillCancelable(Owner(d))
       THEN /\ CompletedWith(Owner(d), Event(d))
            /\ writer' = [writer EXCEPT ![d] = "idle"]
       ELSE /\ writer' = [writer EXCEPT ![d] = "back"]
            /\ UNCHANGED <<requestVars, got, handed>>
  /\ UNCHANGED <<runtimeVars, listVars, deviceVars, sent, endVars>>

\* The read was canceled: the event waits for another one.
BufferAgain(d) ==
  /\ writer[d] = "back"
  /\ buffered' = [buffered EXCEPT ![Owner(d)] = Append(@, Event(d))]
  /\ writer' = [writer EXCEPT ![d] = "idle"]
  /\ UNCHANGED <<runtimeVars, requestVars, pending, deviceVars, sent, got, handed, endVars>>

-----------------------------------------------------------------------------
(* Gamepads *)

\* The broker creates a gamepad with the file of its client.
CreateGamepad(d, f) ==
  /\ device[d] = "none"
  /\ runtime[f] \in {"idle", "reading"}
  /\ stop[f] = "no"
  /\ hardware = "on"
  /\ device' = [device EXCEPT ![d] = "live"]
  /\ creator' = [creator EXCEPT ![d] = [file |-> f, life |-> life[f]]]
  /\ UNCHANGED <<runtimeVars, requestVars, listVars, eventVars, endVars>>

\* The broker destroys a gamepad for its client, or because the license or the
\* client is gone.
DestroyGamepad(d) ==
  /\ device[d] = "live"
  /\ device' = [device EXCEPT ![d] = "broker"]
  /\ UNCHANGED <<runtimeVars, requestVars, listVars, creator, eventVars, endVars>>

\* VhfDelete returns when no callback runs.
GamepadDeleted(d) ==
  /\ device[d] \in {"broker", "file", "reset"}
  /\ writer[d] = "idle"
  /\ device' = [device EXCEPT ![d] = "gone"]
  /\ UNCHANGED <<runtimeVars, requestVars, listVars, creator, eventVars, endVars>>

-----------------------------------------------------------------------------
(* The end of a file: LvhEvtFileCleanup *)

\* delete_vhf_devices_for_file
CleanupDevices(f) ==
  /\ cleanup[f] = "devices"
  /\ device' = [d \in Devices |->
       IF device[d] = "live" /\ Owner(d) = f THEN "file" ELSE device[d]]
  /\ cleanup' = [cleanup EXCEPT ![f] = "reads"]
  /\ UNCHANGED <<runtimeVars, requestVars, listVars, creator, eventVars,
                 hardware, released>>

\* cancel_output_requests_for_file
CleanupReads(f) ==
  /\ cleanup[f] = "reads"
  /\ \A d \in Devices : ~(device[d] = "file" /\ Owner(d) = f)
  /\ pending' = pending \ {f}
  /\ buffered' = [buffered EXCEPT ![f] = <<>>]
  /\ cleanup' = [cleanup EXCEPT ![f] = IF f \in pending THEN "unmark" ELSE "done"]
  /\ UNCHANGED <<runtimeVars, requestVars, deviceVars, eventVars, hardware,
                 released>>

CleanupCompletes(f) ==
  /\ cleanup[f] = "unmark"
  /\ CompleteUnlessCanceled(f)
  /\ cleanup' = [cleanup EXCEPT ![f] = "done"]
  /\ UNCHANGED <<runtimeVars, listVars, deviceVars, eventVars, hardware, released>>

-----------------------------------------------------------------------------
(* The end of the device: LvhEvtDeviceReleaseHardware, LvhEvtDeviceCleanup *)

\* complete_pending_output_requests
ReleaseReads ==
  /\ hardware = "on"
  /\ released' = pending
  /\ pending' = {}
  /\ buffered' = [f \in Files |-> <<>>]
  /\ hardware' = "reads"
  /\ UNCHANGED <<runtimeVars, requestVars, deviceVars, eventVars, cleanup>>

ReleaseCompletes(f) ==
  /\ f \in released
  /\ CompleteUnlessCanceled(f)
  /\ released' = released \ {f}
  /\ UNCHANGED <<runtimeVars, listVars, deviceVars, eventVars, cleanup, hardware>>

\* reset_vhf_devices
ReleaseDevices ==
  /\ hardware = "reads"
  /\ released = {}
  /\ hardware' = "reset"
  /\ device' = [d \in Devices |-> IF device[d] = "live" THEN "reset" ELSE device[d]]
  /\ UNCHANGED <<runtimeVars, requestVars, listVars, creator, eventVars, cleanup,
                 released>>

ReleaseEnds ==
  /\ hardware = "reset"
  /\ \A d \in Devices : device[d] # "reset"
  /\ hardware' = "off"
  /\ UNCHANGED <<runtimeVars, requestVars, listVars, deviceVars, eventVars,
                 cleanup, released>>

-----------------------------------------------------------------------------
\* What the output thread and the driver do once they have begun.
FileStep(f) ==
  \/ StartRead(f)
  \/ ReadReturns(f)
  \/ CancelRead(f)
  \/ LoopEnds(f)

ReadStep(f) ==
  \/ CancelInQueue(f)
  \/ HandleRead(f)
  \/ AnswerRead(f)
  \/ ReadCanceled(f)

CleanupStep(f) ==
  \/ CleanupDevices(f)
  \/ CleanupReads(f)
  \/ CleanupCompletes(f)

EventStep(d) ==
  \/ QueueEvent(d)
  \/ CompleteEvent(d)
  \/ BufferAgain(d)

ReleaseStep ==
  \/ \E f \in Files : ReleaseCompletes(f)
  \/ ReleaseDevices
  \/ ReleaseEnds

Next ==
  \/ \E f \in Files :
       \/ FileStep(f)
       \/ ReadStep(f)
       \/ CleanupStep(f)
       \/ SetStopEvent(f)
       \/ RequestStop(f)
       \/ CloseFile(f)
       \/ ProcessEnds(f)
       \/ OpenAgain(f)
  \/ \E d \in Devices :
       \/ EventStep(d)
       \/ MakeEvent(d)
       \/ \E f \in Files : CreateGamepad(d, f)
       \/ DestroyGamepad(d)
       \/ GamepadDeleted(d)
  \/ ReleaseReads
  \/ ReleaseStep

Spec == Init /\ [][Next]_vars

-----------------------------------------------------------------------------
(* Safety *)

Taken(f) == {d \in Devices : writer[d] = "took" /\ Owner(d) = f}

\* No read is completed twice: at most one of the list, the cleanup of the file,
\* the end of the device and an event has it, and none has one that is
\* completed.  About the vector pending_output_requests, whose entries are
\* removed by five functions that complete the request outside the lock.
OneHolder ==
  \A f \in Files :
    /\ f \in pending =>
         cleanup[f] # "unmark" /\ f \notin released /\ Taken(f) = {}
    /\ cleanup[f] = "unmark" => f \notin released /\ Taken(f) = {}
    /\ f \in released => Taken(f) = {}
    /\ \A d, e \in Taken(f) : d = e
    /\ \/ f \in pending
       \/ cleanup[f] = "unmark"
       \/ f \in released
       \/ Taken(f) # {}
       => read[f] = "held"

\* No read waits while an event of its file is buffered.  About
\* queue_output_event and the read handler, which look at both lists in opposite
\* order, and about events that are buffered again.
NoneWaitsInVain == \A f \in pending : buffered[f] = <<>>

\* The runtime that created d reads, and nothing was ended.
Undisturbed(d) ==
  /\ hardware = "on"
  /\ life[Owner(d)] = creator[d].life
  /\ runtime[Owner(d)] \in {"idle", "reading"}
  /\ stop[Owner(d)] = "no"

\* Where event n of d is on its way to the runtime: in an answer, with a read
\* taken for it, in the buffer or with its callback.
Places(d, n) ==
  LET b == buffered[Owner(d)]
  IN  {p \in {-1} : answer[Owner(d)] = [device |-> d, n |-> n]}
      \cup {p \in {0} : writer[d] = "took" /\ n = sent[d]}
      \cup {p \in 1..Len(b) : b[p] = [device |-> d, n |-> n]}
      \cup {p \in {Len(b) + 1} : writer[d] \in {"event", "back"} /\ n = sent[d]}

\* Events reach the runtime in order, none lost and none twice, as long as the
\* runtime reads: what is on the way is what was sent after the last one it got,
\* each event once and the older ones ahead of the newer.  About events handed
\* over directly while others are buffered or answered.
InOrder ==
  \A d \in Devices :
    Undisturbed(d) =>
      /\ \A n \in 1..MaxEvents : Places(d, n) # {} <=> n \in (got[d] + 1)..sent[d]
      /\ \A m, n \in 1..MaxEvents :
           \A p \in Places(d, m), q \in Places(d, n) : p < q <=> m < n

-----------------------------------------------------------------------------
(* What the driver and the client promise together: EventStream *)

Calm == {d \in Devices : Undisturbed(d)}

Stream == INSTANCE EventStream WITH made <- sent, given <- got, times <- handed, calm <- Calm

\* Every step is a step of the stream or none at all: no event reaches the
\* runtime twice or after a newer one, whatever is canceled or ended meanwhile,
\* and none is skipped while the runtime reads.  About events that go back to
\* the buffer when their read was canceled, and files closed and opened again.
ImplementsStream == Stream!StreamSpec

-----------------------------------------------------------------------------
(* Liveness *)

\* Threads and callbacks that run go on; WDF delivers requests and calls back.
\* Nobody is assumed to stop, to end or to create anything.
Fairness ==
  /\ \A f \in Files :
       /\ WF_vars(FileStep(f))
       /\ WF_vars(ReadStep(f))
       /\ WF_vars(CleanupStep(f))
       /\ WF_vars(RequestStop(f))
  /\ \A d \in Devices :
       /\ WF_vars(EventStep(d))
       /\ WF_vars(GamepadDeleted(d))
  /\ WF_vars(ReleaseStep)

FairSpec == Spec /\ Fairness

\* An event reaches the runtime that reads.
EventArrives ==
  \A d \in Devices : []<>(got[d] = sent[d] \/ ~Undisturbed(d))

\* A runtime whose gamepads are silent stops, whatever becomes of its read.
QuietStopEnds ==
  \A f \in Files :
    [](stop[f] # "no" =>
         \A d \in Devices : Owner(d) = f => writer[d] \notin {"took", "back"}) =>
      ((stop[f] = "event") ~> (runtime[f] \in {"stopped", "gone"} \/ hardware # "on"))

\* A runtime that is told to stop stops while the device is there: its read is
\* completed by an event or by its cancellation.
StopEnds ==
  \A f \in Files :
    (stop[f] = "event") ~> (runtime[f] \in {"stopped", "gone"} \/ hardware # "on")
=============================================================================
