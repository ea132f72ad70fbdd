-------------------------- MODULE OutputReadsProofs --------------------------
(***************************************************************************)
(* Proofs about the output reads of the driver for every number of files,  *)
(* gamepads, events and reused file objects.                               *)
(***************************************************************************)
EXTENDS OutputReads, SequenceTheorems, TLAPS

-----------------------------------------------------------------------------
(* Type correctness.  A callback that works on an event has made one, so that *)
(* the event it names is an event; an output thread between two reads has     *)
(* none.                                                                      *)

Numbered == \A d \in Devices : writer[d] # "idle" => sent[d] # 0
Resting == \A f \in Files : runtime[f] \in {"idle", "stopped"} => read[f] = "none"
TypeInv == TypeOK /\ Numbered /\ Resting

LEMMA EventType ==
  ASSUME TypeInv, NEW d \in Devices, writer[d] # "idle"
  PROVE  Event(d) \in Events /\ Owner(d) \in Files
<1>1. sent[d] \in 1..MaxEvents
  BY OutputAssumption DEF TypeInv, TypeOK, EventTypes, Numbered
<1> QED
  BY <1>1 DEF Event, Events, Owner, TypeInv, TypeOK, DeviceTypes

LEMMA TypeInit == Init => TypeInv
<1> SUFFICES ASSUME Init PROVE TypeInv
  OBVIOUS
<1>1. 1 \in 1..MaxLives /\ 0 \in 0..MaxEvents
  BY OutputAssumption
<1>2. ListTypes
  BY DEF Init, ListTypes
<1>3. RuntimeTypes /\ RequestTypes /\ DeviceTypes /\ EventTypes /\ EndTypes
  BY <1>1 DEF Init, RuntimeTypes, RequestTypes, DeviceTypes, EventTypes, EndTypes
<1> QED
  BY <1>2, <1>3 DEF Init, TypeInv, TypeOK, Numbered, Resting

\* What a step leaves alone keeps its type.
LEMMA Kept ==
  ASSUME TypeInv
  PROVE  /\ UNCHANGED runtimeVars => RuntimeTypes'
         /\ UNCHANGED requestVars => RequestTypes'
         /\ UNCHANGED runtimeVars /\ UNCHANGED requestVars => Resting'
         /\ UNCHANGED listVars => ListTypes'
         /\ UNCHANGED deviceVars => DeviceTypes'
         /\ UNCHANGED eventVars => EventTypes' /\ Numbered'
         /\ UNCHANGED endVars => EndTypes'
<1> USE DEF TypeInv, TypeOK
<1>1. UNCHANGED runtimeVars => RuntimeTypes'
  BY DEF runtimeVars, RuntimeTypes
<1>2. UNCHANGED requestVars => RequestTypes'
  BY DEF requestVars, RequestTypes
<1>3. UNCHANGED listVars => ListTypes'
  BY DEF listVars, ListTypes
<1>4. UNCHANGED deviceVars => DeviceTypes'
  BY DEF deviceVars, DeviceTypes
<1>5. UNCHANGED eventVars => EventTypes' /\ Numbered'
  BY DEF eventVars, EventTypes, Numbered
<1>6. UNCHANGED endVars => EndTypes'
  BY DEF endVars, EndTypes
<1>7. UNCHANGED runtimeVars /\ UNCHANGED requestVars => Resting'
  BY DEF runtimeVars, requestVars, Resting
<1> QED
  BY <1>1, <1>2, <1>3, <1>4, <1>5, <1>6, <1>7

LEMMA TypeStutter == TypeInv /\ UNCHANGED vars => TypeInv'
BY Kept DEF vars, TypeInv, TypeOK

\* The ways a request changes in the hands of WDF.
LEMMA RequestKept ==
  ASSUME TypeInv, NEW f \in Files,
         Completed(f) \/ CompleteUnlessCanceled(f) \/ AskToCancel(f)
  PROVE  RequestTypes' /\ (UNCHANGED runtimeVars => Resting')
<1> USE DEF TypeInv, TypeOK, RequestTypes, Resting, runtimeVars
<1>1. CASE Completed(f)
  BY <1>1 DEF Completed
<1>2. CASE AskToCancel(f)
  BY <1>2 DEF AskToCancel
<1> QED
  BY <1>1, <1>2, Kept DEF CompleteUnlessCanceled

LEMMA GotKept ==
  ASSUME TypeInv, NEW f \in Files, NEW e \in Events, CompletedWith(f, e),
         UNCHANGED sent,
         UNCHANGED writer \/ \E d \in Devices : writer' = [writer EXCEPT ![d] = "idle"]
  PROVE  /\ RequestTypes' /\ EventTypes' /\ Numbered'
         /\ UNCHANGED runtimeVars => Resting'
<1>1. RequestTypes' /\ (UNCHANGED runtimeVars => Resting')
  BY RequestKept DEF CompletedWith
<1>2. e.device \in Devices /\ e.n \in 0..MaxEvents
  BY DEF Events
<1>3. got' \in [Devices -> 0..MaxEvents]
  BY <1>2 DEF CompletedWith, TypeInv, TypeOK, EventTypes
<1>4. /\ writer' \in [Devices -> {"idle", "event", "took", "back"}]
      /\ handed' \in [Devices -> Nat]
  BY <1>2 DEF CompletedWith, TypeInv, TypeOK, EventTypes
<1>5. Numbered'
  BY DEF TypeInv, TypeOK, EventTypes, Numbered
<1> QED
  BY <1>1, <1>3, <1>4, <1>5 DEF TypeInv, TypeOK, EventTypes

LEMMA TypeRuntime ==
  ASSUME TypeInv, NEW f \in Files,
         FileStep(f) \/ SetStopEvent(f) \/ RequestStop(f) \/ CloseFile(f)
         \/ ProcessEnds(f) \/ OpenAgain(f)
  PROVE  TypeInv'
<1> USE DEF TypeInv, TypeOK
<1>1. CASE StartRead(f)
  <2>1. RuntimeTypes'
    BY <1>1 DEF StartRead, RuntimeTypes
  <2>2. read[f] = "none"
    BY <1>1 DEF StartRead, Resting
  <2>3. RequestTypes'
    BY <1>1, <2>2 DEF StartRead, RequestTypes
  <2>4. Resting'
    BY <1>1 DEF StartRead, Resting, RuntimeTypes
  <2> QED
    BY <1>1, <2>1, <2>3, <2>4, Kept DEF StartRead
<1>2. CASE ReadReturns(f) \/ LoopEnds(f) \/ SetStopEvent(f) \/ RequestStop(f)
  <2>1. RuntimeTypes'
    BY <1>2 DEF ReadReturns, LoopEnds, SetStopEvent, RequestStop, RuntimeTypes
  <2>2. Resting'
    BY <1>2 DEF ReadReturns, LoopEnds, SetStopEvent, RequestStop, requestVars,
                Resting, RuntimeTypes
  <2> QED
    BY <1>2, <2>1, <2>2, Kept DEF ReadReturns, LoopEnds, SetStopEvent, RequestStop
<1>3. CASE CancelRead(f)
  <2>1. RuntimeTypes'
    BY <1>3 DEF CancelRead, RuntimeTypes
  <2>2. Resting'
    BY <1>3 DEF CancelRead, AskToCancel, Resting, RuntimeTypes
  <2> QED
    BY <1>3, <2>1, <2>2, RequestKept, Kept DEF CancelRead
<1>4. CASE CloseFile(f)
  <2>1. RuntimeTypes' /\ EndTypes'
    BY <1>4 DEF CloseFile, RuntimeTypes, EndTypes
  <2>2. Resting'
    BY <1>4 DEF CloseFile, requestVars, Resting, RuntimeTypes
  <2> QED
    BY <1>4, <2>1, <2>2, Kept DEF CloseFile
<1>5. CASE ProcessEnds(f)
  <2>1. RuntimeTypes' /\ EndTypes'
    BY <1>5 DEF ProcessEnds, RuntimeTypes, EndTypes
  <2>2. Resting'
    BY <1>5 DEF ProcessEnds, AskToCancel, Resting, RuntimeTypes
  <2> QED
    BY <1>5, <2>1, <2>2, RequestKept, Kept DEF ProcessEnds
<1>6. CASE OpenAgain(f)
  <2>1. life[f] + 1 \in 1..MaxLives
    BY <1>6, OutputAssumption DEF OpenAgain, RuntimeTypes
  <2>2. RuntimeTypes' /\ EndTypes'
    BY <1>6, <2>1 DEF OpenAgain, RuntimeTypes, EndTypes
  <2>3. Resting'
    BY <1>6 DEF OpenAgain, requestVars, Resting, RuntimeTypes
  <2> QED
    BY <1>6, <2>2, <2>3, Kept DEF OpenAgain
<1> QED
  BY <1>1, <1>2, <1>3, <1>4, <1>5, <1>6 DEF FileStep

LEMMA TypeReads ==
  ASSUME TypeInv, NEW f \in Files, ReadStep(f) \/ CleanupStep(f)
  PROVE  TypeInv'
<1> USE DEF TypeInv, TypeOK
<1>1. CASE CancelInQueue(f)
  BY <1>1, RequestKept, Kept DEF CancelInQueue
<1>2. CASE HandleRead(f)
  <2>1. CASE buffered[f] # <<>>
    <3>1. Head(buffered[f]) \in Events /\ Tail(buffered[f]) \in Seq(Events)
      BY <2>1, HeadTailProperties, EmptySeq DEF ListTypes
    <3>2. Head(buffered[f]) # NoEvent
      BY <3>1, NoEventAssumption
    <3>3. RequestTypes'
      BY <1>2, <2>1, <3>1, <3>2 DEF HandleRead, RequestTypes
    <3>4. ListTypes'
      BY <1>2, <2>1, <3>1 DEF HandleRead, ListTypes
    <3>5. Resting'
      BY <1>2, <2>1 DEF HandleRead, runtimeVars, Resting, RequestTypes
    <3> QED
      BY <1>2, <3>3, <3>4, <3>5, Kept DEF HandleRead
  <2>2. CASE buffered[f] = <<>> /\ asked[f]
    BY <1>2, <2>2, RequestKept, Kept DEF HandleRead
  <2>3. CASE buffered[f] = <<>> /\ ~asked[f]
    <3>1. RequestTypes'
      BY <1>2, <2>3 DEF HandleRead, RequestTypes
    <3>2. ListTypes'
      BY <1>2, <2>3 DEF HandleRead, ListTypes
    <3>3. Resting'
      BY <1>2, <2>3 DEF HandleRead, runtimeVars, Resting, RequestTypes
    <3> QED
      BY <1>2, <3>1, <3>2, <3>3, Kept DEF HandleRead
  <2> QED
    BY <1>2, <2>1, <2>2, <2>3 DEF RequestTypes
<1>3. CASE AnswerRead(f)
  <2>1. answer[f] \in Events
    BY <1>3 DEF AnswerRead, RequestTypes
  <2> QED
    BY <1>3, <2>1, GotKept, Kept DEF AnswerRead
<1>4. CASE ReadCanceled(f)
  <2>1. RequestTypes' /\ Resting'
    <3>1. CASE f \in pending
      BY <1>4, <3>1, RequestKept DEF ReadCanceled
    <3>2. CASE f \notin pending
      BY <1>4, <3>2 DEF ReadCanceled, RequestTypes, runtimeVars, Resting
    <3> QED
      BY <3>1, <3>2
  <2>2. ListTypes'
    BY <1>4 DEF ReadCanceled, ListTypes
  <2> QED
    BY <1>4, <2>1, <2>2, Kept DEF ReadCanceled
<1>5. CASE CleanupDevices(f)
  <2>1. DeviceTypes' /\ EndTypes'
    BY <1>5 DEF CleanupDevices, DeviceTypes, EndTypes
  <2> QED
    BY <1>5, <2>1, Kept DEF CleanupDevices
<1>6. CASE CleanupReads(f)
  <2>1. ListTypes' /\ EndTypes'
    BY <1>6 DEF CleanupReads, ListTypes, EndTypes
  <2> QED
    BY <1>6, <2>1, Kept DEF CleanupReads
<1>7. CASE CleanupCompletes(f)
  <2>1. EndTypes'
    BY <1>7 DEF CleanupCompletes, EndTypes
  <2> QED
    BY <1>7, <2>1, RequestKept, Kept DEF CleanupCompletes
<1> QED
  BY <1>1, <1>2, <1>3, <1>4, <1>5, <1>6, <1>7 DEF ReadStep, CleanupStep

LEMMA TypeGamepad ==
  ASSUME TypeInv, NEW d \in Devices,
         EventStep(d) \/ MakeEvent(d) \/ (\E f \in Files : CreateGamepad(d, f))
         \/ DestroyGamepad(d) \/ GamepadDeleted(d)
  PROVE  TypeInv'
<1> USE DEF TypeInv, TypeOK
<1>1. CASE QueueEvent(d)
  <2>1. Event(d) \in Events /\ Owner(d) \in Files
    BY <1>1, EventType DEF QueueEvent
  <2>2. Append(buffered[Owner(d)], Event(d)) \in Seq(Events)
    BY <2>1, AppendProperties DEF ListTypes
  <2>3. ListTypes'
    BY <1>1, <2>1, <2>2 DEF QueueEvent, ListTypes
  <2>4. EventTypes' /\ Numbered'
    BY <1>1 DEF QueueEvent, EventTypes, Numbered
  <2> QED
    BY <1>1, <2>3, <2>4, Kept DEF QueueEvent
<1>2. CASE CompleteEvent(d)
  <2>1. Event(d) \in Events /\ Owner(d) \in Files
    BY <1>2, EventType DEF CompleteEvent
  <2>2. CASE StillCancelable(Owner(d))
    BY <1>2, <2>1, <2>2, GotKept, Kept DEF CompleteEvent
  <2>3. CASE ~StillCancelable(Owner(d))
    <3>1. EventTypes' /\ Numbered'
      BY <1>2, <2>3 DEF CompleteEvent, EventTypes, Numbered
    <3> QED
      BY <1>2, <2>3, <3>1, Kept DEF CompleteEvent
  <2> QED
    BY <2>2, <2>3
<1>3. CASE BufferAgain(d)
  <2>1. Event(d) \in Events /\ Owner(d) \in Files
    BY <1>3, EventType DEF BufferAgain
  <2>2. Append(buffered[Owner(d)], Event(d)) \in Seq(Events)
    BY <2>1, AppendProperties DEF ListTypes
  <2>3. ListTypes'
    BY <1>3, <2>1, <2>2 DEF BufferAgain, ListTypes
  <2>4. EventTypes' /\ Numbered'
    BY <1>3 DEF BufferAgain, EventTypes, Numbered
  <2> QED
    BY <1>3, <2>3, <2>4, Kept DEF BufferAgain
<1>4. CASE MakeEvent(d)
  <2>1. sent[d] + 1 \in 0..MaxEvents /\ sent[d] + 1 # 0
    BY <1>4, OutputAssumption DEF MakeEvent, EventTypes
  <2>2. EventTypes' /\ Numbered'
    BY <1>4, <2>1 DEF MakeEvent, EventTypes, Numbered
  <2> QED
    BY <1>4, <2>2, Kept DEF MakeEvent
<1>5. ASSUME NEW f \in Files, CreateGamepad(d, f) PROVE TypeInv'
  <2>1. DeviceTypes'
    BY <1>5 DEF CreateGamepad, DeviceTypes, RuntimeTypes
  <2> QED
    BY <1>5, <2>1, Kept DEF CreateGamepad
<1>6. CASE DestroyGamepad(d) \/ GamepadDeleted(d)
  <2>1. DeviceTypes'
    BY <1>6 DEF DestroyGamepad, GamepadDeleted, DeviceTypes
  <2> QED
    BY <1>6, <2>1, Kept DEF DestroyGamepad, GamepadDeleted
<1> QED
  BY <1>1, <1>2, <1>3, <1>4, <1>5, <1>6 DEF EventStep

LEMMA TypeRelease ==
  ASSUME TypeInv, ReleaseReads \/ ReleaseStep
  PROVE  TypeInv'
<1> USE DEF TypeInv, TypeOK
<1>1. CASE ReleaseReads
  <2>1. ListTypes' /\ EndTypes'
    BY <1>1 DEF ReleaseReads, ListTypes, EndTypes
  <2> QED
    BY <1>1, <2>1, Kept DEF ReleaseReads
<1>2. ASSUME NEW f \in Files, ReleaseCompletes(f) PROVE TypeInv'
  <2>1. EndTypes'
    BY <1>2 DEF ReleaseCompletes, EndTypes
  <2> QED
    BY <1>2, <2>1, RequestKept, Kept DEF ReleaseCompletes
<1>3. CASE ReleaseDevices
  <2>1. DeviceTypes' /\ EndTypes'
    BY <1>3 DEF ReleaseDevices, DeviceTypes, EndTypes
  <2> QED
    BY <1>3, <2>1, Kept DEF ReleaseDevices
<1>4. CASE ReleaseEnds
  <2>1. EndTypes'
    BY <1>4 DEF ReleaseEnds, EndTypes
  <2> QED
    BY <1>4, <2>1, Kept DEF ReleaseEnds
<1> QED
  BY <1>1, <1>2, <1>3, <1>4 DEF ReleaseStep

LEMMA TypeStep == TypeInv /\ [Next]_vars => TypeInv'
BY TypeRuntime, TypeReads, TypeGamepad, TypeRelease, TypeStutter DEF Next

\* Every variable keeps its type, and a request carries an event exactly while
\* the handler answers it with one.
THEOREM TypeCorrect == Spec => []TypeOK
<1>1. TypeInv => TypeOK
  BY DEF TypeInv
<1> QED
  BY <1>1, TypeInit, TypeStep, PTL DEF Spec

-----------------------------------------------------------------------------
(* Completion.  A read that the driver holds has one holder, or none once an *)
(* event was put back because the cancel callback had been called.           *)

Free(f) ==
  /\ f \notin pending
  /\ cleanup[f] # "unmark"
  /\ f \notin released
  /\ Taken(f) = {}

PutBack ==
  \A d \in Devices :
    writer[d] = "back" => read[Owner(d)] = "held" /\ Free(Owner(d))
Silent == \A d \in Devices : device[d] \in {"none", "gone"} => writer[d] = "idle"
Releasing == released # {} => hardware = "reads"

HoldInv == OneHolder /\ NoneWaitsInVain /\ PutBack /\ Silent /\ Releasing

LEMMA HoldInit == Init => HoldInv
BY DEF Init, HoldInv, OneHolder, NoneWaitsInVain, PutBack, Silent, Releasing, Taken

LEMMA HoldStutter ==
  ASSUME HoldInv,
         UNCHANGED <<read, pending, buffered, device, creator, writer, cleanup,
                     hardware, released>>
  PROVE  HoldInv'
BY DEF HoldInv, OneHolder, NoneWaitsInVain, PutBack, Silent, Releasing, Taken,
       Free, Owner

\* A read that is not held has no holder, and its completion disturbs nobody.
LEMMA HoldRead ==
  ASSUME TypeInv, HoldInv, NEW f \in Files, read[f] # "held",
         \A g \in Files \ {f} : read'[g] = read[g],
         UNCHANGED <<pending, buffered, device, creator, writer, cleanup, hardware,
                     released>>
  PROVE  HoldInv'
<1> USE DEF HoldInv
<1>1. Free(f) /\ \A d \in Devices : writer[d] = "back" => Owner(d) # f
  BY DEF OneHolder, PutBack, Free
<1>2. \A d \in Devices : Owner(d) \in Files
  BY DEF TypeInv, TypeOK, DeviceTypes, Owner
<1>3. OneHolder'
  BY <1>1 DEF OneHolder, Free, Taken, Owner
<1>4. PutBack'
  BY <1>1, <1>2 DEF PutBack, Free, Taken, Owner
<1> QED
  BY <1>3, <1>4 DEF NoneWaitsInVain, Silent, Releasing

LEMMA HoldRuntime ==
  ASSUME TypeInv, HoldInv, NEW f \in Files,
         FileStep(f) \/ SetStopEvent(f) \/ RequestStop(f) \/ CloseFile(f)
         \/ ProcessEnds(f) \/ OpenAgain(f)
  PROVE  HoldInv'
<1> USE DEF listVars, deviceVars, eventVars, endVars, requestVars
<1>1. CASE StartRead(f)
  <2>1. read[f] = "none"
    BY <1>1 DEF StartRead, TypeInv, Resting
  <2>2. \A g \in Files \ {f} : read'[g] = read[g]
    BY <1>1 DEF StartRead, TypeInv, TypeOK, RequestTypes
  <2> QED
    BY <1>1, <2>1, <2>2, HoldRead DEF StartRead
<1>2. CASE ReadReturns(f) \/ LoopEnds(f) \/ SetStopEvent(f) \/ RequestStop(f)
  BY <1>2, HoldStutter DEF ReadReturns, LoopEnds, SetStopEvent, RequestStop
<1>3. CASE CancelRead(f)
  BY <1>3, HoldStutter DEF CancelRead, AskToCancel
<1>4. CASE CloseFile(f) \/ ProcessEnds(f) \/ OpenAgain(f)
  <2>1. /\ UNCHANGED <<read, pending, buffered, device, creator, writer, hardware,
                       released>>
        /\ \E c \in {"devices", "none"} : cleanup' = [cleanup EXCEPT ![f] = c]
    BY <1>4 DEF CloseFile, ProcessEnds, OpenAgain, AskToCancel
  <2>2. \A g \in Files : cleanup'[g] = "unmark" => cleanup[g] = "unmark"
    BY <2>1 DEF TypeInv, TypeOK, EndTypes
  <2>3. OneHolder'
    BY <2>1, <2>2 DEF HoldInv, OneHolder, Taken, Owner
  <2>4. \A d \in Devices : Owner(d) \in Files
    BY DEF TypeInv, TypeOK, DeviceTypes, Owner
  <2>5. PutBack'
    BY <2>1, <2>2, <2>4 DEF HoldInv, PutBack, Free, Taken, Owner
  <2> QED
    BY <2>1, <2>3, <2>5 DEF HoldInv, NoneWaitsInVain, Silent, Releasing
<1> QED
  BY <1>1, <1>2, <1>3, <1>4 DEF FileStep

LEMMA HoldReads ==
  ASSUME TypeInv, HoldInv, NEW f \in Files, ReadStep(f)
  PROVE  HoldInv'
<1> USE DEF runtimeVars, listVars, deviceVars, eventVars, endVars, requestVars
<1>0. read \in [Files -> {"none", "sent", "held", "answer"}]
  BY DEF TypeInv, TypeOK, RequestTypes
<1>d. \A d \in Devices : Owner(d) \in Files
  BY DEF TypeInv, TypeOK, DeviceTypes, Owner
<1>1. CASE CancelInQueue(f)
  <2>1. read[f] # "held" /\ \A g \in Files \ {f} : read'[g] = read[g]
    BY <1>0, <1>1 DEF CancelInQueue, Completed
  <2> QED
    BY <1>1, <2>1, HoldRead DEF CancelInQueue
<1>2. CASE HandleRead(f)
  <2>1. Free(f) /\ \A d \in Devices : writer[d] = "back" => Owner(d) # f
    BY <1>2 DEF HandleRead, HoldInv, OneHolder, PutBack, Free
  <2>2. CASE buffered[f] # <<>>
    <3>1. /\ \A g \in Files \ {f} : read'[g] = read[g] /\ buffered'[g] = buffered[g]
          /\ UNCHANGED <<pending, device, creator, writer, cleanup, hardware,
                         released>>
      BY <1>0, <1>2, <2>2 DEF HandleRead, TypeInv, TypeOK, ListTypes
    <3>2. OneHolder' /\ NoneWaitsInVain'
      BY <2>1, <3>1 DEF HoldInv, OneHolder, NoneWaitsInVain, Free, Taken, Owner,
                        TypeInv, TypeOK, ListTypes
    <3>3. PutBack'
      BY <1>d, <2>1, <3>1 DEF HoldInv, PutBack, Free, Taken, Owner
    <3> QED
      BY <3>1, <3>2, <3>3 DEF HoldInv, Silent, Releasing
  <2>3. CASE buffered[f] = <<>> /\ asked[f]
    <3>1. read[f] # "held" /\ \A g \in Files \ {f} : read'[g] = read[g]
      BY <1>0, <1>2, <2>3 DEF HandleRead, Completed
    <3> QED
      BY <1>2, <2>3, <3>1, HoldRead DEF HandleRead
  <2>4. CASE buffered[f] = <<>> /\ ~asked[f]
    <3>1. /\ \A g \in Files \ {f} : read'[g] = read[g]
          /\ read'[f] = "held" /\ pending' = pending \cup {f}
          /\ UNCHANGED <<buffered, device, creator, writer, cleanup, hardware,
                         released>>
      BY <1>0, <1>2, <2>4 DEF HandleRead
    <3>2. OneHolder'
      BY <2>1, <3>1 DEF HoldInv, OneHolder, Free, Taken, Owner
    <3>3. PutBack'
      BY <1>d, <2>1, <3>1 DEF HoldInv, PutBack, Free, Taken, Owner
    <3>4. NoneWaitsInVain'
      BY <2>4, <3>1 DEF HoldInv, NoneWaitsInVain
    <3> QED
      BY <3>1, <3>2, <3>3, <3>4 DEF HoldInv, Silent, Releasing
  <2> QED
    BY <1>2, <2>2, <2>3, <2>4 DEF TypeInv, TypeOK, RequestTypes
<1>3. CASE AnswerRead(f)
  <2>1. read[f] # "held" /\ \A g \in Files \ {f} : read'[g] = read[g]
    BY <1>0, <1>3 DEF AnswerRead, CompletedWith, Completed
  <2> QED
    BY <1>3, <2>1, HoldRead DEF AnswerRead
<1>4. CASE ReadCanceled(f)
  <2>1. /\ \A g \in Files \ {f} : read'[g] = read[g]
        /\ pending' = pending \ {f}
        /\ f \notin pending => UNCHANGED read
        /\ UNCHANGED <<buffered, device, creator, writer, cleanup, hardware, released>>
    BY <1>0, <1>4 DEF ReadCanceled, Completed
  <2>2. OneHolder'
    BY <2>1 DEF HoldInv, OneHolder, Taken, Owner
  <2>3. PutBack'
    BY <1>d, <2>1 DEF HoldInv, PutBack, Free, Taken, Owner
  <2> QED
    BY <2>1, <2>2, <2>3 DEF HoldInv, NoneWaitsInVain, Silent, Releasing
<1> QED
  BY <1>1, <1>2, <1>3, <1>4 DEF ReadStep

LEMMA HoldCleanup ==
  ASSUME TypeInv, HoldInv, NEW f \in Files, CleanupStep(f)
  PROVE  HoldInv'
<1> USE DEF runtimeVars, listVars, deviceVars, eventVars, endVars, requestVars
<1>c. cleanup \in [Files -> {"none", "devices", "reads", "unmark", "done"}]
  BY DEF TypeInv, TypeOK, EndTypes
<1>d. \A d \in Devices : Owner(d) \in Files
  BY DEF TypeInv, TypeOK, DeviceTypes, Owner
<1>1. CASE CleanupDevices(f)
  <2>1. /\ UNCHANGED <<read, pending, buffered, creator, writer, hardware, released>>
        /\ \A g \in Files : cleanup'[g] = "unmark" <=> cleanup[g] = "unmark"
        /\ \A d \in Devices : device'[d] \in {"none", "gone"} => device'[d] = device[d]
    BY <1>c, <1>1 DEF CleanupDevices
  <2>2. OneHolder'
    BY <2>1 DEF HoldInv, OneHolder, Taken, Owner
  <2>3. PutBack'
    BY <1>d, <2>1 DEF HoldInv, PutBack, Free, Taken, Owner
  <2> QED
    BY <2>1, <2>2, <2>3 DEF HoldInv, NoneWaitsInVain, Silent, Releasing
<1>2. CASE CleanupReads(f)
  <2>1. /\ UNCHANGED <<read, device, creator, writer, hardware, released>>
        /\ pending' = pending \ {f}
        /\ \A g \in Files \ {f} : cleanup'[g] = cleanup[g] /\ buffered'[g] = buffered[g]
        /\ cleanup'[f] = IF f \in pending THEN "unmark" ELSE "done"
    BY <1>c, <1>2 DEF CleanupReads, TypeInv, TypeOK, ListTypes
  <2>2. OneHolder'
    BY <2>1 DEF HoldInv, OneHolder, Taken, Owner
  <2>3. PutBack'
    BY <1>d, <2>1 DEF HoldInv, PutBack, Free, Taken, Owner
  <2>4. NoneWaitsInVain'
    BY <2>1 DEF HoldInv, NoneWaitsInVain, TypeInv, TypeOK, ListTypes
  <2> QED
    BY <2>1, <2>2, <2>3, <2>4 DEF HoldInv, Silent, Releasing
<1>3. CASE CleanupCompletes(f)
  <2>1. /\ cleanup[f] = "unmark" /\ cleanup'[f] = "done"
        /\ \A g \in Files \ {f} : cleanup'[g] = cleanup[g] /\ read'[g] = read[g]
        /\ UNCHANGED <<pending, buffered, device, creator, writer, hardware, released>>
    BY <1>c, <1>3 DEF CleanupCompletes, CompleteUnlessCanceled, Completed, TypeInv,
                      TypeOK, RequestTypes
  <2>2. OneHolder'
    BY <2>1 DEF HoldInv, OneHolder, Taken, Owner
  <2>3. PutBack'
    BY <1>d, <2>1 DEF HoldInv, PutBack, Free, Taken, Owner
  <2> QED
    BY <2>1, <2>2, <2>3 DEF HoldInv, NoneWaitsInVain, Silent, Releasing
<1> QED
  BY <1>1, <1>2, <1>3 DEF CleanupStep

LEMMA HoldGamepad ==
  ASSUME TypeInv, HoldInv, NEW d \in Devices,
         EventStep(d) \/ MakeEvent(d) \/ (\E f \in Files : CreateGamepad(d, f))
         \/ DestroyGamepad(d) \/ GamepadDeleted(d)
  PROVE  HoldInv'
<1> USE DEF runtimeVars, listVars, deviceVars, eventVars, endVars, requestVars
<1>w. writer \in [Devices -> {"idle", "event", "took", "back"}]
  BY DEF TypeInv, TypeOK, EventTypes
<1>v. device \in [Devices -> {"none", "live", "broker", "file", "reset", "gone"}]
  BY DEF TypeInv, TypeOK, DeviceTypes
<1>d. \A e \in Devices : Owner(e) \in Files
  BY DEF TypeInv, TypeOK, DeviceTypes, Owner
<1>1. CASE QueueEvent(d)
  <2>1. /\ UNCHANGED <<read, device, creator, cleanup, hardware, released>>
        /\ writer[d] = "event"
        /\ \A e \in Devices \ {d} : writer'[e] = writer[e]
    BY <1>w, <1>1 DEF QueueEvent
  <2>2. Silent'
    BY <1>w, <1>1, <2>1 DEF QueueEvent, HoldInv, Silent
  <2>3. CASE Owner(d) \in pending
    <3>1. pending' = pending \ {Owner(d)} /\ writer'[d] = "took" /\ UNCHANGED buffered
      BY <1>w, <1>1, <2>3 DEF QueueEvent
    <3>2. \A f \in Files : f # Owner(d) => Taken(f)' = Taken(f)
      BY <1>d, <2>1, <3>1 DEF Taken, Owner
    <3>3. Taken(Owner(d)) = {} /\ Taken(Owner(d))' = {d}
      BY <1>d, <2>1, <2>3, <3>1 DEF HoldInv, OneHolder, Taken, Owner
    <3>4. Owner(d)' = Owner(d)
      BY <2>1 DEF Owner
    <3>5. OneHolder'
      BY <1>d, <2>1, <2>3, <3>1, <3>2, <3>3, <3>4 DEF HoldInv, OneHolder
    <3>6. PutBack'
      BY <1>d, <2>1, <2>3, <3>1, <3>2 DEF HoldInv, PutBack, Free, Owner
    <3> QED
      BY <2>1, <2>2, <3>1, <3>5, <3>6 DEF HoldInv, NoneWaitsInVain, Releasing
  <2>4. CASE Owner(d) \notin pending
    <3>1. /\ UNCHANGED pending /\ writer'[d] = "idle"
          /\ \A f \in Files \ {Owner(d)} : buffered'[f] = buffered[f]
      BY <1>w, <1>1, <2>4 DEF QueueEvent, TypeInv, TypeOK, ListTypes
    <3>2. \A f \in Files : Taken(f)' = Taken(f)
      BY <2>1, <3>1 DEF Taken, Owner
    <3>3. OneHolder'
      BY <2>1, <3>1, <3>2 DEF HoldInv, OneHolder
    <3>4. PutBack'
      BY <1>d, <2>1, <3>1, <3>2 DEF HoldInv, PutBack, Free, Owner
    <3>5. NoneWaitsInVain'
      BY <2>4, <3>1 DEF HoldInv, NoneWaitsInVain, TypeInv, TypeOK, ListTypes
    <3> QED
      BY <2>1, <2>2, <3>3, <3>4, <3>5 DEF HoldInv, Releasing
  <2> QED
    BY <2>3, <2>4
<1>2. CASE CompleteEvent(d)
  <2>1. /\ UNCHANGED <<pending, buffered, device, creator, cleanup, hardware, released>>
        /\ writer[d] = "took" /\ writer'[d] \in {"idle", "back"}
        /\ \A e \in Devices \ {d} : writer'[e] = writer[e]
        /\ \A f \in Files \ {Owner(d)} : read'[f] = read[f]
        /\ writer'[d] = "back" => UNCHANGED read
    BY <1>w, <1>2 DEF CompleteEvent, CompletedWith, Completed, TypeInv, TypeOK,
                      RequestTypes
  <2>2. Taken(Owner(d)) = {d} /\ Taken(Owner(d))' = {}
    BY <1>d, <2>1 DEF HoldInv, OneHolder, Taken, Owner
  <2>3. \A f \in Files : f # Owner(d) => Taken(f)' = Taken(f)
    BY <2>1 DEF Taken, Owner
  <2>4. read[Owner(d)] = "held" /\ Owner(d) \notin pending
        /\ cleanup[Owner(d)] # "unmark" /\ Owner(d) \notin released
    BY <1>d, <2>2 DEF HoldInv, OneHolder
  <2>5. OneHolder'
    <3> SUFFICES ASSUME NEW f \in Files
                 PROVE  /\ f \in pending' =>
                             /\ cleanup'[f] # "unmark" /\ f \notin released'
                             /\ Taken(f)' = {}
                        /\ cleanup'[f] = "unmark" =>
                             f \notin released' /\ Taken(f)' = {}
                        /\ f \in released' => Taken(f)' = {}
                        /\ \A x, y \in Taken(f)' : x = y
                        /\ \/ f \in pending'
                           \/ cleanup'[f] = "unmark"
                           \/ f \in released'
                           \/ Taken(f)' # {}
                           => read'[f] = "held"
      BY DEF OneHolder
    <3>1. CASE f = Owner(d)
      <4>1. Taken(f)' = {}
        BY <2>1, <2>2, <3>1 DEF Taken, Owner
      <4> QED
        BY <2>1, <2>4, <3>1, <4>1
    <3>2. CASE f # Owner(d)
      <4>1. Taken(f)' = Taken(f) /\ read'[f] = read[f]
        BY <2>1, <2>3, <3>2
      <4> QED
        BY <2>1, <4>1 DEF HoldInv, OneHolder
    <3> QED
      BY <3>1, <3>2
  <2>6. \A e \in Devices : Owner(e)' = Owner(e)
    BY <2>1 DEF Owner
  <2>7. \A e \in Devices : writer[e] = "back" => Owner(e) # Owner(d)
    BY <1>d, <2>2 DEF HoldInv, PutBack, Free
  <2>8. PutBack'
    BY <1>d, <2>1, <2>2, <2>3, <2>4, <2>6, <2>7 DEF HoldInv, PutBack, Free
  <2>9. Silent'
    BY <2>1 DEF HoldInv, Silent
  <2> QED
    BY <2>1, <2>5, <2>8, <2>9 DEF HoldInv, NoneWaitsInVain, Releasing
<1>3. CASE BufferAgain(d)
  <2>1. /\ UNCHANGED <<read, pending, device, creator, cleanup, hardware, released>>
        /\ writer[d] = "back" /\ writer'[d] = "idle"
        /\ \A e \in Devices \ {d} : writer'[e] = writer[e]
        /\ \A f \in Files \ {Owner(d)} : buffered'[f] = buffered[f]
    BY <1>w, <1>3 DEF BufferAgain, TypeInv, TypeOK, ListTypes
  <2>2. \A f \in Files : Taken(f)' = Taken(f)
    BY <2>1 DEF Taken, Owner
  <2>3. OneHolder'
    BY <2>1, <2>2 DEF HoldInv, OneHolder
  <2>4. PutBack' /\ Silent'
    BY <1>d, <2>1, <2>2 DEF HoldInv, PutBack, Silent, Free, Owner
  <2>5. NoneWaitsInVain'
    BY <2>1 DEF HoldInv, PutBack, Free, NoneWaitsInVain, TypeInv, TypeOK, ListTypes
  <2> QED
    BY <2>1, <2>3, <2>4, <2>5 DEF HoldInv, Releasing
<1>4. CASE MakeEvent(d)
  <2>1. /\ UNCHANGED <<read, pending, buffered, device, creator, cleanup, hardware,
                       released>>
        /\ Exists(d) /\ writer[d] = "idle" /\ writer'[d] = "event"
        /\ \A e \in Devices \ {d} : writer'[e] = writer[e]
    BY <1>w, <1>4 DEF MakeEvent
  <2>2. \A f \in Files : Taken(f)' = Taken(f)
    BY <2>1 DEF Taken, Owner
  <2>3. OneHolder'
    BY <2>1, <2>2 DEF HoldInv, OneHolder
  <2>4. PutBack' /\ Silent'
    BY <1>d, <2>1, <2>2 DEF HoldInv, PutBack, Silent, Free, Owner, Exists
  <2> QED
    BY <2>1, <2>3, <2>4 DEF HoldInv, NoneWaitsInVain, Releasing
<1>5. ASSUME NEW f \in Files, CreateGamepad(d, f) PROVE HoldInv'
  <2>1. /\ UNCHANGED <<read, pending, buffered, writer, cleanup, hardware, released>>
        /\ writer[d] = "idle"
        /\ \A e \in Devices \ {d} : device'[e] = device[e] /\ creator'[e] = creator[e]
    BY <1>v, <1>5 DEF CreateGamepad, HoldInv, Silent, TypeInv, TypeOK, DeviceTypes
  <2>2. \A g \in Files : Taken(g)' = Taken(g)
    BY <2>1 DEF Taken, Owner
  <2>3. OneHolder'
    BY <2>1, <2>2 DEF HoldInv, OneHolder
  <2>4. PutBack' /\ Silent'
    BY <1>d, <2>1, <2>2 DEF HoldInv, PutBack, Silent, Free, Owner
  <2> QED
    BY <2>1, <2>3, <2>4 DEF HoldInv, NoneWaitsInVain, Releasing
<1>6. CASE DestroyGamepad(d) \/ GamepadDeleted(d)
  <2>1. /\ UNCHANGED <<read, pending, buffered, creator, writer, cleanup, hardware,
                       released>>
        /\ \A e \in Devices \ {d} : device'[e] = device[e]
        /\ device'[d] = "gone" => writer[d] = "idle"
        /\ device'[d] # "none"
    BY <1>v, <1>6 DEF DestroyGamepad, GamepadDeleted
  <2>2. OneHolder' /\ PutBack'
    BY <2>1 DEF HoldInv, OneHolder, PutBack, Free, Taken, Owner
  <2>3. Silent'
    BY <2>1 DEF HoldInv, Silent
  <2> QED
    BY <2>1, <2>2, <2>3 DEF HoldInv, NoneWaitsInVain, Releasing
<1> QED
  BY <1>1, <1>2, <1>3, <1>4, <1>5, <1>6 DEF EventStep

LEMMA HoldRelease ==
  ASSUME TypeInv, HoldInv, ReleaseReads \/ ReleaseStep
  PROVE  HoldInv'
<1> USE DEF runtimeVars, listVars, deviceVars, eventVars, endVars, requestVars
<1>d. \A d \in Devices : Owner(d) \in Files
  BY DEF TypeInv, TypeOK, DeviceTypes, Owner
<1>1. CASE ReleaseReads
  <2>1. /\ UNCHANGED <<read, device, creator, writer, cleanup>>
        /\ released = {} /\ released' = pending /\ pending' = {}
        /\ hardware' = "reads"
    BY <1>1 DEF ReleaseReads, HoldInv, Releasing
  <2>2. OneHolder'
    BY <2>1 DEF HoldInv, OneHolder, Taken, Owner
  <2>3. PutBack'
    BY <1>d, <2>1 DEF HoldInv, PutBack, Free, Taken, Owner
  <2> QED
    BY <2>1, <2>2, <2>3 DEF HoldInv, NoneWaitsInVain, Silent, Releasing
<1>2. ASSUME NEW f \in Files, ReleaseCompletes(f) PROVE HoldInv'
  <2>1. /\ UNCHANGED <<pending, buffered, device, creator, writer, cleanup, hardware>>
        /\ f \in released /\ released' = released \ {f}
        /\ \A g \in Files \ {f} : read'[g] = read[g]
    BY <1>2 DEF ReleaseCompletes, CompleteUnlessCanceled, Completed, TypeInv, TypeOK,
                RequestTypes
  <2>2. OneHolder'
    BY <2>1 DEF HoldInv, OneHolder, Taken, Owner
  <2>3. PutBack'
    BY <1>d, <2>1 DEF HoldInv, PutBack, Free, Taken, Owner
  <2> QED
    BY <2>1, <2>2, <2>3 DEF HoldInv, NoneWaitsInVain, Silent, Releasing
<1>3. CASE ReleaseDevices \/ ReleaseEnds
  <2>1. /\ UNCHANGED <<read, pending, buffered, creator, writer, cleanup, released>>
        /\ \A d \in Devices : device'[d] \in {"none", "gone"} => device'[d] = device[d]
        /\ released = {}
    BY <1>3 DEF ReleaseDevices, ReleaseEnds, HoldInv, Releasing
  <2>2. OneHolder' /\ PutBack'
    BY <2>1 DEF HoldInv, OneHolder, PutBack, Free, Taken, Owner
  <2> QED
    BY <2>1, <2>2 DEF HoldInv, NoneWaitsInVain, Silent, Releasing
<1> QED
  BY <1>1, <1>2, <1>3 DEF ReleaseStep

LEMMA HoldStep == TypeInv /\ HoldInv /\ [Next]_vars => HoldInv'
<1>1. UNCHANGED vars /\ HoldInv => HoldInv'
  BY HoldStutter DEF vars, requestVars, listVars, deviceVars, eventVars, endVars
<1> QED
  BY <1>1, HoldRuntime, HoldReads, HoldCleanup, HoldGamepad, HoldRelease DEF Next

\* Every read is completed at most once, whoever races for it.
THEOREM CompletedOnce == Spec => []OneHolder
<1>1. Init => TypeInv /\ HoldInv
  BY TypeInit, HoldInit
<1>2. TypeInv /\ HoldInv /\ [Next]_vars => (TypeInv /\ HoldInv)'
  BY TypeStep, HoldStep
<1>3. HoldInv => OneHolder
  BY DEF HoldInv
<1> QED
  BY <1>1, <1>2, <1>3, PTL DEF Spec

\* No read waits in the list while an event of its file is buffered.
THEOREM NoReadWaitsInVain == Spec => []NoneWaitsInVain
<1>1. Init => TypeInv /\ HoldInv
  BY TypeInit, HoldInit
<1>2. TypeInv /\ HoldInv /\ [Next]_vars => (TypeInv /\ HoldInv)'
  BY TypeStep, HoldStep
<1>3. HoldInv => NoneWaitsInVain
  BY DEF HoldInv
<1> QED
  BY <1>1, <1>2, <1>3, PTL DEF Spec

-----------------------------------------------------------------------------
(* Order.  Seen from one gamepad d, its file has an answer a and a buffer b,  *)
(* the runtime got g of its s events, and its callback is at w.               *)

Answering(d, a) == a # NoEvent /\ a.device = d
\* The last event of d ahead of the buffer, and the last one not behind it.
First(d, a, g) == IF Answering(d, a) THEN g + 1 ELSE g
Last(s, w) == IF w = "idle" THEN s ELSE s - 1

Line(d, a, b, g, s, w) ==
  /\ Answering(d, a) => a.n = g + 1
  /\ First(d, a, g) <= Last(s, w)
  /\ \A i \in 1..Len(b) :
       b[i].device = d => b[i].n \in (First(d, a, g) + 1)..Last(s, w)
  /\ \A i, j \in 1..Len(b) :
       i < j /\ b[i].device = d /\ b[j].device = d => b[i].n < b[j].n
  /\ \A n \in (First(d, a, g) + 1)..Last(s, w) :
       \E i \in 1..Len(b) : b[i] = [device |-> d, n |-> n]
  /\ w = "took" => First(d, a, g) = Last(s, w)

LEMMA EventParts ==
  ASSUME NEW e \in Events
  PROVE  /\ e.device \in Devices /\ e.n \in 1..MaxEvents /\ e.n \in Nat
         /\ e = [device |-> e.device, n |-> e.n] /\ e # NoEvent
BY OutputAssumption, NoEventAssumption DEF Events

LEMMA LineFirst ==
  ASSUME NEW d, NEW a, NEW g \in Nat, NEW s \in Nat, NEW w
  PROVE  First(d, a, g) \in Nat /\ Last(s, w) \in Int
BY DEF First, Last

\* An event of another gamepad is buffered.
LEMMA LineForeign ==
  ASSUME NEW d, NEW a, NEW b \in Seq(Events), NEW g \in Nat, NEW s \in Nat, NEW w,
         NEW e \in Events, e.device # d, Line(d, a, b, g, s, w)
  PROVE  Line(d, a, Append(b, e), g, s, w)
<1> DEFINE c == Append(b, e)
<1>1. /\ Len(b) \in Nat /\ Len(c) = Len(b) + 1 /\ c[Len(b) + 1] = e
      /\ \A i \in 1..Len(b) : c[i] = b[i]
  BY AppendProperties
<1>2. \A i \in 1..Len(c) : c[i].device = d => i \in 1..Len(b) /\ c[i] = b[i]
  BY <1>1
<1>3. 1..Len(b) \subseteq 1..Len(c)
  BY <1>1
<1> HIDE DEF c
<1> QED
  BY <1>1, <1>2, <1>3 DEF Line

\* The event of the callback is buffered.
LEMMA LineAppend ==
  ASSUME NEW d \in Devices, NEW a, NEW b \in Seq(Events), NEW g \in Nat,
         NEW s \in 1..MaxEvents, NEW w \in {"event", "back"}, Line(d, a, b, g, s, w)
  PROVE  Line(d, a, Append(b, [device |-> d, n |-> s]), g, s, "idle")
<1> DEFINE e == [device |-> d, n |-> s]
           c == Append(b, e)
<1>1. e \in Events /\ s \in Nat
  BY OutputAssumption DEF Events
<1>2. /\ Len(b) \in Nat /\ Len(c) = Len(b) + 1 /\ c[Len(b) + 1] = e
      /\ \A i \in 1..Len(b) : c[i] = b[i]
  BY <1>1, AppendProperties
<1>3. 1..Len(c) = 1..Len(b) \cup {Len(c)} /\ Len(c) \in 1..Len(c)
  BY <1>2
<1>4. Last(s, w) = s - 1 /\ Last(s, "idle") = s
  BY DEF Last
<1>5. First(d, a, g) \in Nat /\ First(d, a, g) <= s - 1
  BY <1>1, <1>4, LineFirst DEF Line
<1>6. \A i \in 1..Len(b) :
        b[i].device = d => b[i].n \in (First(d, a, g) + 1)..(s - 1)
  BY <1>4 DEF Line
<1>7. e.device = d /\ e.n = s
  OBVIOUS
<1> HIDE DEF c, e
<1>8. \A i \in 1..Len(c) :
        c[i].device = d => c[i].n \in (First(d, a, g) + 1)..Last(s, "idle")
  BY <1>1, <1>2, <1>3, <1>4, <1>5, <1>6, <1>7
<1>9. ASSUME NEW i \in 1..Len(c), NEW j \in 1..Len(c), i < j,
             c[i].device = d, c[j].device = d
      PROVE  c[i].n < c[j].n
  <2>1. i \in 1..Len(b) /\ c[i] = b[i]
    BY <1>2, <1>9
  <2>2. CASE j \in 1..Len(b)
    BY <1>2, <1>9, <2>1, <2>2 DEF Line
  <2>3. CASE j = Len(c)
    BY <1>1, <1>2, <1>5, <1>6, <1>7, <1>9, <2>1, <2>3
  <2> QED
    BY <1>3, <2>2, <2>3
<1>10. ASSUME NEW n \in (First(d, a, g) + 1)..s
       PROVE  \E i \in 1..Len(c) : c[i] = [device |-> d, n |-> n]
  <2>1. CASE n = s
    BY <1>2, <1>3, <2>1 DEF e
  <2>2. CASE n # s
    <3>1. n \in (First(d, a, g) + 1)..(s - 1)
      BY <1>1, <1>5, <2>2
    <3>2. PICK i \in 1..Len(b) : b[i] = [device |-> d, n |-> n]
      BY <1>4, <3>1 DEF Line
    <3> QED
      BY <1>2, <1>3, <3>2
  <2> QED
    BY <2>1, <2>2
<1>11. Answering(d, a) => a.n = g + 1
  BY DEF Line
<1>12. Line(d, a, c, g, s, "idle")
  BY <1>1, <1>4, <1>5, <1>8, <1>9, <1>10, <1>11 DEF Line
<1> QED
  BY <1>12 DEF c, e

\* The first buffered event becomes an answer.
LEMMA LineTake ==
  ASSUME NEW d, NEW b \in Seq(Events), b # <<>>, NEW g \in Nat, NEW s \in Nat, NEW w,
         Line(d, NoEvent, b, g, s, w)
  PROVE  Line(d, Head(b), Tail(b), g, s, w)
<1> DEFINE e == Head(b)
           c == Tail(b)
<1>1. /\ Len(b) \in Nat \ {0} /\ e = b[1] /\ e \in Events /\ Len(c) = Len(b) - 1
      /\ \A i \in 1..Len(c) : c[i] = b[i + 1] /\ i + 1 \in 1..Len(b)
      /\ \A i \in 1..Len(b) : i # 1 => i - 1 \in 1..Len(c) /\ c[i - 1] = b[i]
      /\ 1 \in 1..Len(b)
  BY HeadTailProperties, EmptySeq
<1>2. First(d, NoEvent, g) = g
  BY DEF First, Answering
<1>3. Last(s, w) \in Int /\ e # NoEvent /\ e.n \in Nat
  BY <1>1, LineFirst, EventParts
<1> DEFINE last == Last(s, w)
<1>4. /\ g <= last
      /\ \A i \in 1..Len(b) : b[i].device = d => b[i].n \in (g + 1)..last
      /\ \A i, j \in 1..Len(b) :
           i < j /\ b[i].device = d /\ b[j].device = d => b[i].n < b[j].n
      /\ \A n \in (g + 1)..last : \E i \in 1..Len(b) : b[i] = [device |-> d, n |-> n]
      /\ w = "took" => g = last
  BY <1>2 DEF Line
<1> HIDE DEF e, c, last
<1>5. \A i, j \in 1..Len(c) :
        i < j /\ c[i].device = d /\ c[j].device = d => c[i].n < c[j].n
  <2> SUFFICES ASSUME NEW i \in 1..Len(c), NEW j \in 1..Len(c), i < j,
                      c[i].device = d, c[j].device = d
               PROVE  c[i].n < c[j].n
    OBVIOUS
  <2>1. i + 1 \in 1..Len(b) /\ j + 1 \in 1..Len(b) /\ i + 1 < j + 1
    BY <1>1
  <2>2. c[i] = b[i + 1] /\ c[j] = b[j + 1]
    BY <1>1
  <2> QED
    BY <1>4, <2>1, <2>2
<1>6. CASE e.device # d
  <2>1. ~Answering(d, e) /\ First(d, e, g) = g
    BY <1>6 DEF Answering, First
  <2>2. \A i \in 1..Len(c) : c[i].device = d => c[i].n \in (g + 1)..last
    BY <1>1, <1>4
  <2>3. ASSUME NEW n \in (g + 1)..last
        PROVE  \E i \in 1..Len(c) : c[i] = [device |-> d, n |-> n]
    <3>1. PICK i \in 1..Len(b) : b[i] = [device |-> d, n |-> n]
      BY <1>4
    <3>2. i # 1
      BY <1>1, <1>6, <3>1
    <3> QED
      BY <1>1, <3>1, <3>2
  <2> QED
    BY <1>4, <1>5, <2>1, <2>2, <2>3 DEF Line, last, e, c
<1>7. CASE e.device = d
  <2>1. Answering(d, e) /\ First(d, e, g) = g + 1
    BY <1>3, <1>7 DEF Answering, First
  <2>2. e.n \in (g + 1)..last
    BY <1>1, <1>4, <1>7
  <2>3. g + 1 <= last /\ w # "took" /\ last \in Int
    BY <1>3, <1>4, <2>2 DEF last
  <2>4. e.n = g + 1
    <3>1. PICK i \in 1..Len(b) : b[i] = [device |-> d, n |-> g + 1]
      BY <1>4, <2>3
    <3>2. CASE i = 1
      BY <1>1, <3>1, <3>2
    <3>3. CASE i # 1
      <4>1. b[1].n < b[i].n
        BY <1>1, <1>4, <1>7, <3>1, <3>3
      <4> QED
        BY <1>1, <1>3, <2>2, <3>1, <4>1
    <3> QED
      BY <3>2, <3>3
  <2>5. \A i \in 1..Len(c) : c[i].device = d => c[i].n \in (g + 2)..last
    <3> SUFFICES ASSUME NEW i \in 1..Len(c), c[i].device = d
                 PROVE  c[i].n \in (g + 2)..last
      OBVIOUS
    <3>1. i + 1 \in 1..Len(b) /\ 1 < i + 1 /\ c[i] = b[i + 1]
      BY <1>1
    <3>2. b[1].n < b[i + 1].n /\ b[i + 1].n \in (g + 1)..last
      BY <1>1, <1>4, <1>7, <3>1
    <3> QED
      BY <1>1, <2>3, <2>4, <3>1, <3>2
  <2>6. ASSUME NEW n \in (g + 2)..last
        PROVE  \E i \in 1..Len(c) : c[i] = [device |-> d, n |-> n]
    <3>1. n \in (g + 1)..last /\ n # g + 1
      BY <2>3
    <3>2. PICK i \in 1..Len(b) : b[i] = [device |-> d, n |-> n]
      BY <1>4, <3>1
    <3>3. b[i].n = n
      BY <3>2
    <3>4. i # 1
      BY <1>1, <2>4, <3>1, <3>3
    <3> QED
      BY <1>1, <3>2, <3>4
  <2>7. (g + 1) + 1 = g + 2
    OBVIOUS
  <2> QED
    BY <1>5, <2>1, <2>3, <2>4, <2>5, <2>6, <2>7 DEF Line, last, e, c
<1> QED
  BY <1>6, <1>7

\* An answer is given.
LEMMA LineAnswered ==
  ASSUME NEW d, NEW a \in Events, NEW b, NEW g \in Nat, NEW s \in Nat, NEW w,
         Line(d, a, b, g, s, w)
  PROVE  Line(d, NoEvent, b, IF a.device = d THEN a.n ELSE g, s, w)
<1>1. a # NoEvent
  BY EventParts
<1>2. CASE a.device = d
  <2>1. a.n = g + 1 /\ First(d, a, g) = g + 1
    BY <1>1, <1>2 DEF Line, Answering, First
  <2>2. First(d, NoEvent, a.n) = g + 1 /\ ~Answering(d, NoEvent)
    BY <2>1 DEF First, Answering
  <2> QED
    BY <1>2, <2>1, <2>2 DEF Line
<1>3. CASE a.device # d
  <2>1. First(d, a, g) = g /\ First(d, NoEvent, g) = g /\ ~Answering(d, NoEvent)
    BY <1>3 DEF First, Answering
  <2> QED
    BY <1>3, <2>1 DEF Line
<1> QED
  BY <1>2, <1>3

\* The callback makes an event, hands it to a waiting read, and is done with it
\* or gets it back.
LEMMA LineMake ==
  ASSUME NEW d, NEW a, NEW b, NEW g \in Nat, NEW s \in Nat, Line(d, a, b, g, s, "idle")
  PROVE  Line(d, a, b, g, s + 1, "event")
<1>1. Last(s, "idle") = s /\ Last(s + 1, "event") = s
  BY DEF Last
<1> QED
  BY <1>1 DEF Line

LEMMA LineHand ==
  ASSUME NEW d, NEW g \in Nat, NEW s \in Nat, Line(d, NoEvent, <<>>, g, s, "event")
  PROVE  Line(d, NoEvent, <<>>, g, s, "took")
<1>1. Last(s, "event") = s - 1 /\ Last(s, "took") = s - 1
  BY DEF Last
<1>2. First(d, NoEvent, g) = g
  BY DEF First, Answering
<1>3. g <= s - 1 /\ \A n \in (g + 1)..(s - 1) : \E i \in 1..Len(<<>>) : TRUE
  BY <1>1, <1>2 DEF Line
<1>4. g = s - 1
  BY <1>3
<1> QED
  BY <1>1, <1>2, <1>4 DEF Line

LEMMA LineDone ==
  ASSUME NEW d, NEW b, NEW g \in Nat, NEW s \in Nat, Line(d, NoEvent, b, g, s, "took")
  PROVE  Line(d, NoEvent, b, s, s, "idle") /\ Line(d, NoEvent, b, g, s, "back")
<1>1. /\ Last(s, "took") = s - 1 /\ Last(s, "idle") = s /\ Last(s, "back") = s - 1
      /\ First(d, NoEvent, g) = g /\ First(d, NoEvent, s) = s
      /\ ~Answering(d, NoEvent)
  BY DEF Last, First, Answering
<1>2. g = s - 1
  BY <1>1 DEF Line
<1>3. (g + 1)..(s - 1) = {} /\ (s + 1)..s = {}
  BY <1>2
<1>4. /\ \A i \in 1..Len(b) : b[i].device # d
  BY <1>1, <1>3 DEF Line
<1>5. Line(d, NoEvent, b, s, s, "idle")
  BY <1>1, <1>3, <1>4 DEF Line
<1>6. Line(d, NoEvent, b, g, s, "back")
  BY <1>1 DEF Line
<1> QED
  BY <1>5, <1>6

\* A gamepad of which there is no event yet.
LEMMA LineStart ==
  ASSUME NEW d, NEW a, NEW b, ~Answering(d, a), \A i \in 1..Len(b) : b[i].device # d
  PROVE  Line(d, a, b, 0, 0, "idle")
BY DEF Line, First, Last

Straight(d) ==
  Line(d, answer[Owner(d)], buffered[Owner(d)], got[d], sent[d], writer[d])

\* The files of the past: a file object gets its next life only after its
\* runtime is gone.
Past == \A d \in Devices : creator[d].life <= life[Owner(d)]
Ended ==
  \A f \in Files :
    /\ cleanup[f] # "none" => runtime[f] = "gone"
    /\ runtime[f] = "draining" => stop[f] # "no"
\* Events are numbered as they are made, and stay with the file of their gamepad.
Counted == \A d \in Devices : got[d] <= sent[d] /\ (device[d] = "none" => sent[d] = 0)
Home(f, e) == Owner(e.device) = f /\ e.n <= sent[e.device]
Homed ==
  \A f \in Files :
    /\ answer[f] # NoEvent => Home(f, answer[f])
    /\ \A i \in 1..Len(buffered[f]) : Home(f, buffered[f][i])
Lines == \A d \in Devices : Undisturbed(d) => Straight(d)

OrderInv == Past /\ Ended /\ Counted /\ Homed /\ Lines

LEMMA OrderInit == Init => OrderInv
<1> SUFFICES ASSUME Init PROVE OrderInv
  OBVIOUS
<1>1. \A d \in Devices : Owner(d) \in Files /\ creator[d].life = 1
  BY DEF Init, Owner
<1>2. Past /\ Ended /\ Counted
  BY <1>1 DEF Init, Past, Ended, Counted
<1>3. \A f \in Files : answer[f] = NoEvent /\ Len(buffered[f]) = 0
  BY DEF Init
<1>4. Homed
  BY <1>3 DEF Homed
<1>5. ASSUME NEW d \in Devices PROVE Straight(d)
  <2>1. /\ ~Answering(d, answer[Owner(d)])
        /\ \A i \in 1..Len(buffered[Owner(d)]) : buffered[Owner(d)][i].device # d
    BY <1>1, <1>3 DEF Answering
  <2>2. got[d] = 0 /\ sent[d] = 0 /\ writer[d] = "idle"
    BY DEF Init
  <2> QED
    BY <2>1, <2>2, LineStart DEF Straight
<1> QED
  BY <1>2, <1>4, <1>5 DEF OrderInv, Lines

LEMMA OwnerType ==
  ASSUME TypeInv, NEW d \in Devices
  PROVE  /\ Owner(d) \in Files /\ got[d] \in Nat /\ sent[d] \in Nat
         /\ buffered[Owner(d)] \in Seq(Events)
         /\ answer[Owner(d)] \in Events \cup {NoEvent}
BY OutputAssumption DEF TypeInv, TypeOK, DeviceTypes, EventTypes, ListTypes,
   RequestTypes, Owner

\* Steps that move no event.
LEMMA OrderQuiet ==
  ASSUME OrderInv, UNCHANGED <<answer, buffered, creator, got, sent, writer>>,
         Past', Ended',
         \A d \in Devices : device'[d] = "none" => device[d] = "none",
         \A d \in Devices : Undisturbed(d)' => Undisturbed(d)
  PROVE  OrderInv'
<1>1. \A d : Owner(d)' = Owner(d)
  BY DEF Owner
<1>2. Counted' /\ Homed'
  BY <1>1 DEF OrderInv, Counted, Homed, Home
<1>3. \A d : Straight(d)' = Straight(d)
  BY <1>1 DEF Straight
<1>4. Lines'
  BY <1>3 DEF OrderInv, Lines
<1> QED
  BY <1>2, <1>4 DEF OrderInv

\* Gamepads whose runtime and creator are left alone.
LEMMA StillUndisturbed ==
  ASSUME UNCHANGED <<runtime, stop, life>>, hardware' = "on" => hardware = "on"
  PROVE  \A d \in Devices : creator'[d] = creator[d] /\ Undisturbed(d)' => Undisturbed(d)
BY DEF Undisturbed, Owner

LEMMA OrderRuntime ==
  ASSUME TypeInv, OrderInv, NEW f \in Files,
         FileStep(f) \/ SetStopEvent(f) \/ RequestStop(f) \/ CloseFile(f)
         \/ ProcessEnds(f) \/ OpenAgain(f)
  PROVE  OrderInv'
<1>1. /\ UNCHANGED <<answer, buffered, creator, device, got, sent, writer, hardware>>
      /\ \A g \in Files \ {f} : /\ runtime'[g] = runtime[g] /\ stop'[g] = stop[g]
                                /\ life'[g] = life[g] /\ cleanup'[g] = cleanup[g]
  BY DEF FileStep, StartRead, ReadReturns, CancelRead, LoopEnds, SetStopEvent,
         RequestStop, CloseFile, ProcessEnds, OpenAgain, AskToCancel, listVars,
         deviceVars, eventVars, endVars, requestVars, TypeInv, TypeOK, RuntimeTypes,
         EndTypes
<1>2. \A d \in Devices : Owner(d)' = Owner(d) /\ Owner(d) \in Files
  BY <1>1, OwnerType DEF Owner
<1>3. /\ \A g \in Files : life[g] \in Nat
      /\ \A d \in Devices : creator[d].life \in Nat
  BY OutputAssumption DEF TypeInv, TypeOK, RuntimeTypes, DeviceTypes
<1>4. CASE ~OpenAgain(f)
  <2>1. UNCHANGED life /\ (stop'[f] = "no" => stop[f] = "no")
    BY <1>4 DEF FileStep, StartRead, ReadReturns, CancelRead, LoopEnds, SetStopEvent,
         RequestStop, CloseFile, ProcessEnds, TypeInv, TypeOK, RuntimeTypes
  <2>2. /\ cleanup'[f] # "none" => runtime'[f] = "gone"
        /\ runtime'[f] = "draining" => stop'[f] # "no"
    BY <1>4 DEF FileStep, StartRead, ReadReturns, CancelRead, LoopEnds, SetStopEvent,
         RequestStop, CloseFile, ProcessEnds, endVars, TypeInv, TypeOK, RuntimeTypes,
         EndTypes, OrderInv, Ended
  <2>3. runtime'[f] \in {"idle", "reading"} => runtime[f] \in {"idle", "reading", "draining"}
    BY <1>4 DEF FileStep, StartRead, ReadReturns, CancelRead, LoopEnds, SetStopEvent,
         RequestStop, CloseFile, ProcessEnds, TypeInv, TypeOK, RuntimeTypes
  <2>4. Past' /\ Ended'
    BY <1>1, <1>2, <2>1, <2>2 DEF OrderInv, Past, Ended
  <2>5. \A d \in Devices : Undisturbed(d)' => Undisturbed(d)
    BY <1>1, <1>2, <2>1, <2>3 DEF OrderInv, Ended, Undisturbed
  <2> QED
    BY <1>1, <2>4, <2>5, OrderQuiet
<1>5. CASE OpenAgain(f)
  <2>1. life'[f] = life[f] + 1 /\ runtime'[f] = "idle" /\ cleanup'[f] = "none"
    BY <1>5 DEF OpenAgain, TypeInv, TypeOK, RuntimeTypes, EndTypes
  <2>2. Past'
    BY <1>1, <1>2, <1>3, <2>1 DEF OrderInv, Past
  <2>3. Ended'
    BY <1>1, <2>1 DEF OrderInv, Ended
  <2>4. \A d \in Devices : Owner(d) = f => creator[d].life < life'[f]
    BY <1>3, <2>1 DEF OrderInv, Past
  <2>5. \A d \in Devices : Undisturbed(d)' => Owner(d) # f
    BY <1>1, <1>2, <1>3, <2>1, <2>4 DEF Undisturbed
  <2>6. \A d \in Devices : Undisturbed(d)' => Undisturbed(d)
    BY <1>1, <1>2, <2>5 DEF Undisturbed
  <2> QED
    BY <1>1, <2>2, <2>3, <2>6, OrderQuiet
<1> QED
  BY <1>4, <1>5

\* A request that carries no event is completed or not.
LEMMA AnswerKept ==
  ASSUME TypeInv, NEW f \in Files, read[f] # "answer",
         Completed(f) \/ CompleteUnlessCanceled(f)
  PROVE  UNCHANGED answer
<1>1. answer[f] = NoEvent
  BY DEF TypeInv, TypeOK, RequestTypes
<1> QED
  BY <1>1 DEF Completed, CompleteUnlessCanceled, requestVars, TypeInv, TypeOK, RequestTypes

LEMMA OrderAnswer ==
  ASSUME TypeInv, HoldInv, OrderInv, NEW f \in Files, ReadStep(f)
  PROVE  OrderInv'
<1>0. UNCHANGED <<runtimeVars, deviceVars, sent, writer, endVars>>
  BY DEF ReadStep, CancelInQueue, HandleRead, AnswerRead, ReadCanceled, eventVars
<1>1. /\ UNCHANGED <<runtime, stop, life, device, creator, sent, writer, cleanup, hardware>>
      /\ \A d \in Devices : Owner(d)' = Owner(d)
      /\ Past' /\ Ended'
  BY <1>0 DEF runtimeVars, deviceVars, endVars, Owner, OrderInv, Past, Ended
<1>2. \A d \in Devices : Undisturbed(d)' => Undisturbed(d)
  BY <1>1, StillUndisturbed
<1>3. \A d \in Devices : /\ Owner(d) \in Files /\ got[d] \in Nat /\ sent[d] \in Nat
                         /\ buffered[Owner(d)] \in Seq(Events)
  BY OwnerType
<1>4. CASE UNCHANGED <<answer, buffered, got>>
  BY <1>1, <1>2, <1>4, OrderQuiet
<1>5. CASE CancelInQueue(f) \/ ReadCanceled(f)
  <2>1. read[f] # "answer" \/ UNCHANGED answer
    BY <1>5 DEF CancelInQueue, ReadCanceled, HoldInv, OneHolder
  <2>2. UNCHANGED answer
    BY <1>5, <2>1, AnswerKept DEF CancelInQueue, ReadCanceled
  <2> QED
    BY <1>4, <1>5, <2>2 DEF CancelInQueue, ReadCanceled, listVars, eventVars
<1>6. CASE HandleRead(f) /\ buffered[f] = <<>>
  <2>1. read[f] # "answer" /\ (Completed(f) \/ UNCHANGED answer)
    BY <1>6 DEF HandleRead
  <2>2. UNCHANGED answer
    BY <2>1, AnswerKept
  <2> QED
    BY <1>4, <1>6, <2>2 DEF HandleRead, listVars, eventVars
<1>7. CASE HandleRead(f) /\ buffered[f] # <<>>
  <2> DEFINE b == buffered[f]
  <2>1. /\ answer' = [answer EXCEPT ![f] = Head(b)] /\ UNCHANGED got
        /\ buffered' = [buffered EXCEPT ![f] = Tail(b)]
        /\ answer[f] = NoEvent
    BY <1>7 DEF HandleRead, eventVars, TypeInv, TypeOK, RequestTypes
  <2>2. /\ answer'[f] = Head(b) /\ buffered'[f] = Tail(b)
        /\ \A g \in Files \ {f} : answer'[g] = answer[g] /\ buffered'[g] = buffered[g]
    BY <2>1 DEF TypeInv, TypeOK, RequestTypes, ListTypes
  <2>3. b \in Seq(Events)
    BY DEF TypeInv, TypeOK, ListTypes
  <2>4. /\ Head(b) = b[1] /\ 1 \in 1..Len(b)
        /\ \A i \in 1..Len(Tail(b)) : Tail(b)[i] = b[i + 1] /\ i + 1 \in 1..Len(b)
    BY <1>7, <2>3, HeadTailProperties, EmptySeq
  <2>5. Homed'
    <3> SUFFICES ASSUME NEW g \in Files
                 PROVE  /\ answer'[g] # NoEvent => Home(g, answer'[g])
                        /\ \A i \in 1..Len(buffered'[g]) : Home(g, buffered'[g][i])
      BY <1>1 DEF Homed, Home, Owner
    <3>1. CASE g = f
      BY <2>2, <2>4, <3>1 DEF OrderInv, Homed
    <3>2. CASE g # f
      BY <2>2, <3>2 DEF OrderInv, Homed
    <3> QED
      BY <3>1, <3>2
  <2>6. ASSUME NEW d \in Devices, Undisturbed(d)' PROVE Straight(d)'
    <3>1. Straight(d)
      BY <1>2, <2>6 DEF OrderInv, Lines
    <3>2. CASE Owner(d) = f
      <4>1. Line(d, NoEvent, b, got[d], sent[d], writer[d])
        BY <2>1, <3>1, <3>2 DEF Straight
      <4>2. Line(d, Head(b), Tail(b), got[d], sent[d], writer[d])
        BY <1>3, <1>7, <2>3, <4>1, LineTake
      <4> QED
        BY <1>1, <2>1, <2>2, <3>2, <4>2 DEF Straight
    <3>3. CASE Owner(d) # f
      BY <1>1, <1>3, <2>1, <2>2, <3>1, <3>3 DEF Straight
    <3> QED
      BY <3>2, <3>3
  <2>7. Counted'
    BY <1>1, <2>1 DEF OrderInv, Counted
  <2> QED
    BY <1>1, <2>5, <2>6, <2>7 DEF OrderInv, Lines
<1>8. CASE AnswerRead(f)
  <2> DEFINE e == answer[f]
  <2>1. /\ answer' = [answer EXCEPT ![f] = NoEvent] /\ UNCHANGED buffered
        /\ got' = [got EXCEPT ![e.device] = e.n]
        /\ e \in Events /\ e # NoEvent
    BY <1>8 DEF AnswerRead, CompletedWith, Completed, listVars, TypeInv, TypeOK,
                RequestTypes
  <2>2. /\ answer'[f] = NoEvent
        /\ \A g \in Files \ {f} : answer'[g] = answer[g]
    BY <2>1 DEF TypeInv, TypeOK, RequestTypes
  <2>3. \A d \in Devices : got'[d] = IF d = e.device THEN e.n ELSE got[d]
    BY <2>1 DEF TypeInv, TypeOK, EventTypes
  <2>4. Home(f, e)
    BY <2>1 DEF OrderInv, Homed
  <2>5. Counted'
    BY <1>1, <2>3, <2>4 DEF OrderInv, Counted, Home
  <2>6. Homed'
    BY <1>1, <2>1, <2>2 DEF OrderInv, Homed, Home, Owner
  <2>7. ASSUME NEW d \in Devices, Undisturbed(d)' PROVE Straight(d)'
    <3>1. Straight(d)
      BY <1>2, <2>7 DEF OrderInv, Lines
    <3>2. CASE Owner(d) = f
      <4>1. Line(d, e, buffered[f], got[d], sent[d], writer[d])
        BY <3>1, <3>2 DEF Straight
      <4>2. Line(d, NoEvent, buffered[f], got'[d], sent[d], writer[d])
        BY <1>3, <2>1, <2>3, <4>1, LineAnswered
      <4> QED
        BY <1>1, <2>1, <2>2, <3>2, <4>2 DEF Straight
    <3>3. CASE Owner(d) # f
      <4>1. got'[d] = got[d] /\ answer'[Owner(d)] = answer[Owner(d)]
        BY <1>3, <2>2, <2>3, <2>4, <3>3 DEF Home
      <4> QED
        BY <1>1, <2>1, <3>1, <4>1 DEF Straight
    <3> QED
      BY <3>2, <3>3
  <2> QED
    BY <1>1, <2>5, <2>6, <2>7 DEF OrderInv, Lines
<1> QED
  BY <1>5, <1>6, <1>7, <1>8 DEF ReadStep

LEMMA OrderCleanup ==
  ASSUME TypeInv, HoldInv, OrderInv, NEW f \in Files, CleanupStep(f)
  PROVE  OrderInv'
<1>0. /\ UNCHANGED <<runtime, stop, life, hardware, creator, got, sent, writer>>
      /\ \A d \in Devices : Owner(d)' = Owner(d)
      /\ cleanup[f] # "none" /\ \A g \in Files \ {f} : cleanup'[g] = cleanup[g]
  BY DEF CleanupStep, CleanupDevices, CleanupReads, CleanupCompletes, runtimeVars,
         deviceVars, eventVars, Owner, TypeInv, TypeOK, EndTypes
<1>1. Past' /\ Ended'
  BY <1>0 DEF OrderInv, Past, Ended
<1>2. \A d \in Devices : Undisturbed(d)' => Undisturbed(d)
  BY <1>0, StillUndisturbed
<1>3. \A d \in Devices : device'[d] = "none" => device[d] = "none"
  BY DEF CleanupStep, CleanupDevices, CleanupReads, CleanupCompletes, deviceVars,
         TypeInv, TypeOK, DeviceTypes
<1>4. CASE CleanupDevices(f)
  <2>1. UNCHANGED <<answer, buffered>>
    BY <1>4 DEF CleanupDevices, requestVars, listVars
  <2> QED
    BY <1>0, <1>1, <1>2, <1>3, <2>1, OrderQuiet
<1>5. CASE CleanupCompletes(f)
  <2>1. read[f] # "answer"
    BY <1>5 DEF CleanupCompletes, HoldInv, OneHolder
  <2>2. UNCHANGED <<answer, buffered>>
    BY <1>5, <2>1, AnswerKept DEF CleanupCompletes, listVars
  <2> QED
    BY <1>0, <1>1, <1>2, <1>3, <2>2, OrderQuiet
<1>6. CASE CleanupReads(f)
  <2>1. /\ UNCHANGED answer /\ buffered'[f] = <<>>
        /\ \A g \in Files \ {f} : buffered'[g] = buffered[g]
    BY <1>6 DEF CleanupReads, requestVars, TypeInv, TypeOK, ListTypes
  <2>2. Counted'
    BY <1>0, <1>3 DEF OrderInv, Counted
  <2>3. Homed'
    BY <1>0, <2>1 DEF OrderInv, Homed, Home, Owner
  <2>4. \A d \in Devices : Undisturbed(d)' => Owner(d) \in Files \ {f}
    BY <1>0, OwnerType DEF Undisturbed, OrderInv, Ended
  <2>5. ASSUME NEW d \in Devices, Undisturbed(d)' PROVE Straight(d)'
    BY <1>0, <1>2, <2>1, <2>4, <2>5 DEF OrderInv, Lines, Straight
  <2> QED
    BY <1>1, <2>2, <2>3, <2>5 DEF OrderInv, Lines
<1> QED
  BY <1>4, <1>5, <1>6 DEF CleanupStep

LEMMA OrderRelease ==
  ASSUME TypeInv, HoldInv, OrderInv, ReleaseReads \/ ReleaseStep
  PROVE  OrderInv'
<1>0. /\ UNCHANGED <<runtime, stop, life, creator, got, sent, writer, cleanup>>
      /\ \A d \in Devices : Owner(d)' = Owner(d)
      /\ \A d \in Devices : device'[d] = "none" => device[d] = "none"
      /\ hardware' = "on" => hardware = "on"
  BY DEF ReleaseReads, ReleaseStep, ReleaseCompletes, ReleaseDevices, ReleaseEnds,
         runtimeVars, deviceVars, eventVars, Owner, TypeInv, TypeOK, DeviceTypes
<1>1. Past' /\ Ended'
  BY <1>0 DEF OrderInv, Past, Ended
<1>2. \A d \in Devices : Undisturbed(d)' => Undisturbed(d)
  BY <1>0, StillUndisturbed
<1>3. CASE ReleaseReads
  <2>1. /\ UNCHANGED answer /\ hardware' # "on"
        /\ \A f \in Files : buffered'[f] = <<>>
    BY <1>3 DEF ReleaseReads, requestVars
  <2>2. Counted'
    BY <1>0 DEF OrderInv, Counted
  <2>3. Homed'
    BY <1>0, <2>1 DEF OrderInv, Homed, Home, Owner
  <2>4. Lines'
    BY <2>1 DEF Lines, Undisturbed
  <2> QED
    BY <1>1, <2>2, <2>3, <2>4 DEF OrderInv
<1>4. ASSUME NEW f \in Files, ReleaseCompletes(f) PROVE OrderInv'
  <2>1. read[f] # "answer"
    BY <1>4 DEF ReleaseCompletes, HoldInv, OneHolder
  <2>2. UNCHANGED <<answer, buffered>>
    BY <1>4, <2>1, AnswerKept DEF ReleaseCompletes, listVars
  <2> QED
    BY <1>0, <1>1, <1>2, <2>2, OrderQuiet
<1>5. CASE ReleaseDevices \/ ReleaseEnds
  <2>1. UNCHANGED <<answer, buffered>>
    BY <1>5 DEF ReleaseDevices, ReleaseEnds, requestVars, listVars
  <2> QED
    BY <1>0, <1>1, <1>2, <2>1, OrderQuiet
<1> QED
  BY <1>3, <1>4, <1>5 DEF ReleaseStep

\* The event of a callback goes to the end of the buffer.
LEMMA OrderBuffered ==
  ASSUME TypeInv, OrderInv, NEW d \in Devices, writer[d] \in {"event", "back"},
         UNCHANGED <<runtime, stop, life, creator, device, answer, got, sent, cleanup,
                     hardware>>,
         buffered' = [buffered EXCEPT ![Owner(d)] = Append(@, Event(d))],
         writer' = [writer EXCEPT ![d] = "idle"]
  PROVE  OrderInv'
<1> DEFINE e == Event(d)
<1>1. e \in Events /\ Owner(d) \in Files /\ e.device = d /\ e.n = sent[d]
  BY EventType DEF Event
<1>2. /\ buffered'[Owner(d)] = Append(buffered[Owner(d)], e)
      /\ \A g \in Files \ {Owner(d)} : buffered'[g] = buffered[g]
      /\ writer'[d] = "idle" /\ \A x \in Devices \ {d} : writer'[x] = writer[x]
      /\ buffered[Owner(d)] \in Seq(Events)
  BY <1>1 DEF TypeInv, TypeOK, ListTypes, EventTypes
<1>3. sent[d] \in 1..MaxEvents
  BY OutputAssumption DEF TypeInv, TypeOK, EventTypes, Numbered
<1>4. \A x \in Devices : Owner(x)' = Owner(x) /\ Owner(x) \in Files
                         /\ (Undisturbed(x)' => Undisturbed(x))
  BY OwnerType, StillUndisturbed DEF Owner
<1> HIDE DEF e
<1>5. Past' /\ Ended' /\ Counted'
  BY DEF OrderInv, Past, Ended, Counted, Owner
<1>6. Homed'
  <2> SUFFICES ASSUME NEW g \in Files
               PROVE  /\ answer[g] # NoEvent => Home(g, answer[g])
                      /\ \A i \in 1..Len(buffered'[g]) : Home(g, buffered'[g][i])
    BY DEF Homed, Home, Owner
  <2>1. CASE g = Owner(d)
    <3>1. Home(g, e)
      BY <1>1, <1>3, <2>1 DEF Home, TypeInv, TypeOK, EventTypes
    <3>2. ASSUME NEW i \in 1..Len(buffered'[g])
          PROVE  buffered'[g][i] = e \/ (i \in 1..Len(buffered[g]) /\ buffered'[g][i] = buffered[g][i])
      BY <1>1, <1>2, <2>1, AppendProperties
    <3> QED
      BY <3>1, <3>2 DEF OrderInv, Homed
  <2>2. CASE g # Owner(d)
    BY <1>2, <2>2 DEF OrderInv, Homed
  <2> QED
    BY <2>1, <2>2
<1>7. ASSUME NEW x \in Devices, Undisturbed(x)' PROVE Straight(x)'
  <2>1. Line(x, answer[Owner(x)], buffered[Owner(x)], got[x], sent[x], writer[x])
    BY <1>4, <1>7 DEF OrderInv, Lines, Straight
  <2>2. got[x] \in Nat /\ sent[x] \in Nat
    BY OwnerType
  <2>3. CASE x = d
    <3>1. e = [device |-> d, n |-> sent[d]]
      BY DEF e, Event
    <3>2. Line(d, answer[Owner(d)], Append(buffered[Owner(d)], e), got[d], sent[d], "idle")
      BY <1>2, <1>3, <2>1, <2>2, <2>3, <3>1, LineAppend
    <3> QED
      BY <1>2, <1>4, <2>3, <3>2 DEF Straight
  <2>4. CASE x # d /\ Owner(x) = Owner(d)
    <3>1. Line(x, answer[Owner(x)], Append(buffered[Owner(x)], e), got[x], sent[x], writer[x])
      BY <1>1, <1>2, <2>1, <2>2, <2>4, LineForeign
    <3> QED
      BY <1>2, <1>4, <2>4, <3>1 DEF Straight
  <2>5. CASE Owner(x) # Owner(d)
    BY <1>2, <1>4, <2>1, <2>5 DEF Straight
  <2> QED
    BY <2>3, <2>4, <2>5
<1> QED
  BY <1>5, <1>6, <1>7 DEF OrderInv, Lines

\* The callback changes, the buffers do not.
LEMMA OrderCallback ==
  ASSUME TypeInv, OrderInv, NEW d \in Devices,
         UNCHANGED <<runtime, stop, life, creator, device, answer, buffered, cleanup,
                     hardware>>,
         \A x \in Devices \ {d} : writer'[x] = writer[x] /\ got'[x] = got[x]
                                  /\ sent'[x] = sent[x],
         sent'[d] \in Nat, got'[d] <= sent'[d], sent[d] <= sent'[d],
         device[d] = "none" => sent'[d] = 0,
         Straight(d) => Straight(d)'
  PROVE  OrderInv'
<1>1. \A x \in Devices : Owner(x)' = Owner(x) /\ (Undisturbed(x)' => Undisturbed(x))
  BY StillUndisturbed DEF Owner
<1>2. Past' /\ Ended'
  BY DEF OrderInv, Past, Ended, Owner
<1>3. Counted'
  BY DEF OrderInv, Counted
<1>4. \A x \in Devices : sent[x] <= sent'[x] /\ sent[x] \in Nat /\ sent'[x] \in Nat
  BY OwnerType
<1>5. ASSUME NEW f \in Files, NEW e \in Events, Home(f, e) PROVE Home(f, e)'
  <2>1. e.device \in Devices /\ e.n \in Nat
    BY EventParts
  <2>2. sent[e.device] <= sent'[e.device] /\ sent[e.device] \in Nat
        /\ sent'[e.device] \in Nat
    BY <1>4, <2>1
  <2> QED
    BY <1>1, <1>5, <2>1, <2>2 DEF Home
<1>6. Homed'
  <2> SUFFICES ASSUME NEW f \in Files
               PROVE  /\ answer[f] # NoEvent => Home(f, answer[f])'
                      /\ \A i \in 1..Len(buffered[f]) : Home(f, buffered[f][i])'
    BY DEF Homed, Home, Owner
  <2>1. answer[f] # NoEvent => answer[f] \in Events /\ Home(f, answer[f])
    BY DEF OrderInv, Homed, TypeInv, TypeOK, RequestTypes
  <2>2. \A i \in 1..Len(buffered[f]) :
          buffered[f][i] \in Events /\ Home(f, buffered[f][i])
    BY ElementOfSeq DEF OrderInv, Homed, TypeInv, TypeOK, ListTypes
  <2>3. answer[f] # NoEvent => Home(f, answer[f])'
    BY <1>5, <2>1 DEF Home, Owner
  <2>4. ASSUME NEW i \in 1..Len(buffered[f]) PROVE Home(f, buffered[f][i])'
    BY <1>5, <2>2 DEF Home, Owner
  <2> QED
    BY <2>3, <2>4
<1>7. ASSUME NEW x \in Devices, Undisturbed(x)' PROVE Straight(x)'
  <2>1. Straight(x)
    BY <1>1, <1>7 DEF OrderInv, Lines
  <2>2. CASE x = d
    BY <2>1, <2>2
  <2>3. CASE x # d
    BY <1>1, <2>1, <2>3 DEF Straight
  <2> QED
    BY <2>2, <2>3
<1> QED
  BY <1>2, <1>3, <1>6, <1>7 DEF OrderInv, Lines

LEMMA OrderEvent ==
  ASSUME TypeInv, HoldInv, OrderInv, NEW d \in Devices, EventStep(d) \/ MakeEvent(d)
  PROVE  OrderInv'
<1>0. /\ Owner(d) \in Files /\ got[d] \in Nat /\ sent[d] \in Nat
      /\ got[d] <= sent[d] /\ (device[d] = "none" => sent[d] = 0)
  BY OwnerType DEF OrderInv, Counted
<1>1. /\ UNCHANGED <<runtime, stop, life, creator, device, cleanup, hardware>>
      /\ \A x \in Devices \ {d} : writer'[x] = writer[x] /\ sent'[x] = sent[x]
      /\ Owner(d)' = Owner(d)
  BY DEF EventStep, QueueEvent, CompleteEvent, BufferAgain, MakeEvent, runtimeVars,
         deviceVars, endVars, TypeInv, TypeOK, EventTypes, Owner
<1>2. CASE MakeEvent(d)
  <2>1. /\ UNCHANGED <<answer, buffered, got>> /\ writer[d] = "idle" /\ Exists(d)
        /\ writer'[d] = "event" /\ sent'[d] = sent[d] + 1
    BY <1>2 DEF MakeEvent, requestVars, listVars, TypeInv, TypeOK, EventTypes
  <2>2. Straight(d) => Straight(d)'
    BY <1>0, <1>1, <2>1, LineMake DEF Straight
  <2>3. device[d] # "none"
    BY <2>1 DEF Exists
  <2> QED
    BY <1>0, <1>1, <2>1, <2>2, <2>3, OrderCallback
<1>3. CASE QueueEvent(d) /\ Owner(d) \notin pending
  <2>1. /\ UNCHANGED <<answer, got, sent>> /\ writer[d] = "event"
        /\ buffered' = [buffered EXCEPT ![Owner(d)] = Append(@, Event(d))]
        /\ writer' = [writer EXCEPT ![d] = "idle"]
    BY <1>3 DEF QueueEvent, requestVars
  <2> QED
    BY <1>1, <2>1, OrderBuffered
<1>4. CASE QueueEvent(d) /\ Owner(d) \in pending
  <2>1. /\ UNCHANGED <<answer, buffered, got, sent>> /\ writer[d] = "event"
        /\ writer'[d] = "took"
    BY <1>4 DEF QueueEvent, requestVars, TypeInv, TypeOK, EventTypes
  <2>2. buffered[Owner(d)] = <<>> /\ read[Owner(d)] = "held"
    BY <1>0, <1>4 DEF HoldInv, OneHolder, NoneWaitsInVain
  <2>3. answer[Owner(d)] = NoEvent
    BY <1>0, <2>2 DEF TypeInv, TypeOK, RequestTypes
  <2>4. Straight(d) => Straight(d)'
    BY <1>0, <1>1, <2>1, <2>2, <2>3, LineHand DEF Straight
  <2> QED
    BY <1>0, <1>1, <2>1, <2>4, OrderCallback
<1>5. CASE CompleteEvent(d)
  <2>1. writer[d] = "took" /\ UNCHANGED <<buffered, sent>>
    BY <1>5 DEF CompleteEvent, listVars
  <2>2. read[Owner(d)] = "held"
    BY <1>0, <2>1 DEF HoldInv, OneHolder, Taken
  <2>3. answer[Owner(d)] = NoEvent
    BY <1>0, <2>2 DEF TypeInv, TypeOK, RequestTypes
  <2>4. CASE StillCancelable(Owner(d))
    <3>1. /\ Completed(Owner(d)) /\ writer'[d] = "idle"
          /\ got' = [got EXCEPT ![Event(d).device] = Event(d).n]
      BY <1>5, <2>4 DEF CompleteEvent, CompletedWith, TypeInv, TypeOK, EventTypes
    <3>2. UNCHANGED answer
      BY <1>0, <2>2, <3>1, AnswerKept
    <3>3. got'[d] = sent[d] /\ \A x \in Devices \ {d} : got'[x] = got[x]
      BY <3>1 DEF Event, TypeInv, TypeOK, EventTypes
    <3>4. Straight(d) => Straight(d)'
      BY <1>0, <1>1, <2>1, <2>3, <3>1, <3>2, <3>3, LineDone DEF Straight
    <3> QED
      BY <1>0, <1>1, <2>1, <3>2, <3>3, <3>4, OrderCallback
  <2>5. CASE ~StillCancelable(Owner(d))
    <3>1. UNCHANGED <<answer, got>> /\ writer'[d] = "back"
      BY <1>5, <2>5 DEF CompleteEvent, requestVars, TypeInv, TypeOK, EventTypes
    <3>2. Straight(d) => Straight(d)'
      BY <1>0, <1>1, <2>1, <2>3, <3>1, LineDone DEF Straight
    <3> QED
      BY <1>0, <1>1, <2>1, <3>1, <3>2, OrderCallback
  <2> QED
    BY <2>4, <2>5
<1>6. CASE BufferAgain(d)
  <2>1. /\ UNCHANGED <<answer, got, sent>> /\ writer[d] = "back"
        /\ buffered' = [buffered EXCEPT ![Owner(d)] = Append(@, Event(d))]
        /\ writer' = [writer EXCEPT ![d] = "idle"]
    BY <1>6 DEF BufferAgain, requestVars
  <2> QED
    BY <1>1, <2>1, OrderBuffered
<1> QED
  BY <1>2, <1>3, <1>4, <1>5, <1>6 DEF EventStep

LEMMA OrderGamepad ==
  ASSUME TypeInv, HoldInv, OrderInv, NEW d \in Devices,
         (\E f \in Files : CreateGamepad(d, f)) \/ DestroyGamepad(d) \/ GamepadDeleted(d)
  PROVE  OrderInv'
<1>1. ASSUME NEW f \in Files, CreateGamepad(d, f) PROVE OrderInv'
  <2>1. /\ UNCHANGED <<runtime, stop, life, answer, buffered, got, sent, writer,
                       cleanup, hardware>>
        /\ device[d] = "none" /\ device'[d] = "live"
        /\ creator'[d] = [file |-> f, life |-> life[f]]
        /\ \A x \in Devices \ {d} : device'[x] = device[x] /\ creator'[x] = creator[x]
    BY <1>1 DEF CreateGamepad, runtimeVars, requestVars, listVars, eventVars, endVars,
                TypeInv, TypeOK, DeviceTypes
  <2>2. Owner(d)' = f /\ \A x \in Devices \ {d} : Owner(x)' = Owner(x)
    BY <2>1 DEF Owner
  <2>3. sent[d] = 0 /\ got[d] = 0 /\ writer[d] = "idle"
    BY <2>1, OwnerType DEF OrderInv, Counted, HoldInv, Silent
  <2>4. \A g \in Files, e \in Events : Home(g, e) => e.device \in Devices \ {d}
    BY <2>3, EventParts DEF Home
  <2>5. \A g \in Files :
          /\ answer[g] # NoEvent => answer[g] \in Events /\ Home(g, answer[g])
          /\ \A i \in 1..Len(buffered[g]) :
               buffered[g][i] \in Events /\ Home(g, buffered[g][i])
    BY ElementOfSeq DEF OrderInv, Homed, TypeInv, TypeOK, RequestTypes, ListTypes
  <2>6. \A g \in Files, e \in Events : Home(g, e) => Owner(e.device)' = g /\ e.n <= sent'[e.device]
    BY <2>1, <2>2, <2>4 DEF Home
  <2>7. Homed'
    BY <2>1, <2>5, <2>6 DEF Homed, Home
  <2>8. Past' /\ Ended'
    <3>1. life[f] \in Int
      BY OutputAssumption DEF TypeInv, TypeOK, RuntimeTypes
    <3>2. creator'[d].life <= life'[Owner(d)']
      BY <2>1, <2>2, <3>1
    <3> QED
      BY <2>1, <2>2, <3>2 DEF OrderInv, Past, Ended
  <2>9. Counted'
    BY <2>1 DEF OrderInv, Counted
  <2>10. ASSUME NEW x \in Devices, Undisturbed(x)' PROVE Straight(x)'
    <3>1. CASE x = d
      <4>1. /\ ~Answering(d, answer[f])
            /\ \A i \in 1..Len(buffered[f]) : buffered[f][i].device # d
        BY <2>4, <2>5 DEF Answering
      <4>2. Line(d, answer[f], buffered[f], 0, 0, "idle")
        BY <4>1, LineStart
      <4> QED
        BY <2>1, <2>2, <2>3, <3>1, <4>2 DEF Straight
    <3>2. CASE x # d
      <4>1. Undisturbed(x)
        BY <2>1, <2>2, <2>10, <3>2 DEF Undisturbed
      <4> QED
        BY <2>1, <2>2, <3>2, <4>1 DEF OrderInv, Lines, Straight
    <3> QED
      BY <3>1, <3>2
  <2> QED
    BY <2>7, <2>8, <2>9, <2>10 DEF OrderInv, Lines
<1>2. CASE DestroyGamepad(d) \/ GamepadDeleted(d)
  <2>1. /\ UNCHANGED <<runtime, stop, life, answer, buffered, creator, got, sent,
                       writer, cleanup, hardware>>
        /\ \A x \in Devices : device'[x] = "none" => device[x] = "none"
    BY <1>2 DEF DestroyGamepad, GamepadDeleted, runtimeVars, requestVars, listVars,
                eventVars, endVars, TypeInv, TypeOK, DeviceTypes
  <2>2. Past' /\ Ended'
    BY <2>1 DEF OrderInv, Past, Ended, Owner
  <2>3. \A x \in Devices : Undisturbed(x)' => Undisturbed(x)
    BY <2>1, StillUndisturbed
  <2> QED
    BY <2>1, <2>2, <2>3, OrderQuiet
<1> QED
  BY <1>1, <1>2

LEMMA OrderStep == TypeInv /\ HoldInv /\ OrderInv /\ [Next]_vars => OrderInv'
<1> SUFFICES ASSUME TypeInv, HoldInv, OrderInv, [Next]_vars PROVE OrderInv'
  OBVIOUS
<1>1. CASE UNCHANGED vars
  <2>1. UNCHANGED <<runtime, stop, life, answer, buffered, creator, device, got, sent,
                    writer, cleanup, hardware>>
    BY <1>1 DEF vars, runtimeVars, requestVars, listVars, deviceVars, eventVars, endVars
  <2>2. Past' /\ Ended'
    BY <2>1 DEF OrderInv, Past, Ended, Owner
  <2>3. \A x \in Devices : Undisturbed(x)' => Undisturbed(x)
    BY <2>1, StillUndisturbed
  <2> QED
    BY <2>1, <2>2, <2>3, OrderQuiet
<1> QED
  BY <1>1, OrderRuntime, OrderAnswer, OrderCleanup, OrderEvent, OrderGamepad,
     OrderRelease DEF Next

\* The places of the events of a gamepad follow from its line.
LEMMA LinePlaces ==
  ASSUME TypeInv, HoldInv, NEW d \in Devices, Straight(d),
         NEW n \in 1..MaxEvents, NEW p \in Places(d, n)
  PROVE  LET b == buffered[Owner(d)]
             first == First(d, answer[Owner(d)], got[d])
             last == Last(sent[d], writer[d])
         IN  \/ p = -1 /\ n = got[d] + 1 /\ n = first /\ writer[d] # "took"
             \/ p = 0 /\ n = sent[d] /\ writer[d] = "took" /\ first = got[d]
             \/ p \in 1..Len(b) /\ b[p].device = d /\ b[p].n = n
                /\ n \in (first + 1)..last /\ writer[d] # "took"
             \/ p = Len(b) + 1 /\ n = sent[d] /\ writer[d] \in {"event", "back"}
<1> DEFINE f == Owner(d)
           b == buffered[f]
           a == answer[f]
           first == First(d, a, got[d])
           last == Last(sent[d], writer[d])
<1>1. f \in Files /\ got[d] \in Nat /\ sent[d] \in Nat
  BY OwnerType
<1>2. first \in Nat /\ last \in Int
  BY <1>1, LineFirst
<1>3. Line(d, a, b, got[d], sent[d], writer[d])
  BY DEF Straight
<1>4. a # NoEvent => writer[d] # "took"
  BY <1>1 DEF HoldInv, OneHolder, Taken, TypeInv, TypeOK, RequestTypes
<1>5. [device |-> d, n |-> n] # NoEvent
  BY NoEventAssumption DEF Events
<1>6. CASE p = -1 /\ a = [device |-> d, n |-> n]
  <2>1. Answering(d, a) /\ a.n = n
    BY <1>5, <1>6 DEF Answering
  <2>2. n = got[d] + 1 /\ first = got[d] + 1
    BY <1>3, <2>1 DEF Line, First
  <2> QED
    BY <1>4, <1>5, <1>6, <2>2
<1>7. CASE p = 0 /\ writer[d] = "took" /\ n = sent[d]
  <2>1. first = got[d]
    BY <1>4, <1>7 DEF First, Answering
  <2> QED
    BY <1>7, <2>1
<1>8. CASE p \in 1..Len(b) /\ b[p] = [device |-> d, n |-> n]
  <2>1. b[p].device = d /\ b[p].n = n
    BY <1>8
  <2>2. n \in (first + 1)..last
    BY <1>3, <1>8, <2>1 DEF Line
  <2>3. writer[d] # "took"
    BY <1>2, <1>3, <2>2 DEF Line
  <2> QED
    BY <1>8, <2>1, <2>2, <2>3
<1>9. CASE p = Len(b) + 1 /\ writer[d] \in {"event", "back"} /\ n = sent[d]
  BY <1>9
<1> QED
  BY <1>6, <1>7, <1>8, <1>9 DEF Places

LEMMA LineInOrder ==
  ASSUME TypeInv, HoldInv, NEW d \in Devices, Straight(d)
  PROVE  /\ \A n \in 1..MaxEvents : Places(d, n) # {} <=> n \in (got[d] + 1)..sent[d]
         /\ \A m, n \in 1..MaxEvents :
              \A p \in Places(d, m), q \in Places(d, n) : p < q <=> m < n
<1> DEFINE b == buffered[Owner(d)]
           a == answer[Owner(d)]
           first == First(d, a, got[d])
           last == Last(sent[d], writer[d])
<1>1. /\ Owner(d) \in Files /\ got[d] \in Nat /\ sent[d] \in Nat /\ Len(b) \in Nat
      /\ a \in Events \cup {NoEvent}
  BY OwnerType
<1>2. first \in Nat /\ last \in Int /\ MaxEvents \in Nat
  BY <1>1, LineFirst, OutputAssumption
<1>3. Line(d, a, b, got[d], sent[d], writer[d])
  BY DEF Straight
<1>4. first <= last /\ (first = got[d] \/ first = got[d] + 1)
      /\ last = IF writer[d] = "idle" THEN sent[d] ELSE sent[d] - 1
  BY <1>3 DEF Line, First, Last
<1>5. ASSUME NEW n \in 1..MaxEvents, NEW p \in Places(d, n)
      PROVE  n \in (got[d] + 1)..sent[d]
  BY <1>1, <1>2, <1>4, LinePlaces
<1>6. ASSUME NEW n \in 1..MaxEvents, n \in (got[d] + 1)..sent[d]
      PROVE  Places(d, n) # {}
  <2>1. CASE Answering(d, a) /\ n = got[d] + 1
    <3>1. a = [device |-> d, n |-> n]
      BY <1>1, <1>3, <2>1, EventParts DEF Line, Answering
    <3>2. -1 \in Places(d, n)
      BY <3>1 DEF Places
    <3> QED
      BY <3>2
  <2>2. CASE n > first /\ n <= last
    <3>1. n \in (first + 1)..last
      BY <1>1, <1>2, <2>2
    <3>2. PICK i \in 1..Len(b) : b[i] = [device |-> d, n |-> n]
      BY <1>3, <3>1 DEF Line
    <3>3. i \in Places(d, n)
      BY <3>2 DEF Places
    <3> QED
      BY <3>3
  <2>3. CASE n > last
    <3>1. n = sent[d] /\ writer[d] # "idle"
      BY <1>1, <1>4, <1>6, <2>3
    <3>2. writer[d] \in {"event", "took", "back"}
      BY <3>1 DEF TypeInv, TypeOK, EventTypes
    <3>3. 0 \in Places(d, n) \/ Len(b) + 1 \in Places(d, n)
      BY <3>1, <3>2 DEF Places
    <3> QED
      BY <3>3
  <2>4. ~Answering(d, a) => first = got[d]
    BY DEF First
  <2>5. n > first \/ (Answering(d, a) /\ n = got[d] + 1)
    BY <1>1, <1>2, <1>4, <1>6, <2>4
  <2> QED
    BY <1>2, <2>1, <2>2, <2>3, <2>5
<1>7. ASSUME NEW m \in 1..MaxEvents, NEW n \in 1..MaxEvents,
             NEW p \in Places(d, m), NEW q \in Places(d, n)
      PROVE  (p < q => m < n) /\ (p = q => m = n)
  <2>1. /\ \/ p = -1 /\ m = got[d] + 1 /\ m = first /\ writer[d] # "took"
           \/ p = 0 /\ m = sent[d] /\ writer[d] = "took" /\ first = got[d]
           \/ p \in 1..Len(b) /\ b[p].device = d /\ b[p].n = m
              /\ m \in (first + 1)..last /\ writer[d] # "took"
           \/ p = Len(b) + 1 /\ m = sent[d] /\ writer[d] \in {"event", "back"}
    BY LinePlaces
  <2>2. /\ \/ q = -1 /\ n = got[d] + 1 /\ n = first /\ writer[d] # "took"
           \/ q = 0 /\ n = sent[d] /\ writer[d] = "took" /\ first = got[d]
           \/ q \in 1..Len(b) /\ b[q].device = d /\ b[q].n = n
              /\ n \in (first + 1)..last /\ writer[d] # "took"
           \/ q = Len(b) + 1 /\ n = sent[d] /\ writer[d] \in {"event", "back"}
    BY LinePlaces
  <2>3. p \in Int /\ q \in Int
    BY <1>1, <2>1, <2>2
  <2>4. CASE p \in 1..Len(b) /\ q \in 1..Len(b)
    <3>1. b[p].device = d /\ b[p].n = m /\ b[q].device = d /\ b[q].n = n
      BY <1>1, <2>1, <2>2, <2>4
    <3>2. p < q => b[p].n < b[q].n
      BY <1>3, <2>4, <3>1 DEF Line
    <3> QED
      BY <3>1, <3>2
  <2>5. CASE ~(p \in 1..Len(b) /\ q \in 1..Len(b))
    <3> HIDE DEF first, last
    <3> QED
      BY <1>1, <1>2, <1>4, <2>1, <2>2, <2>5
  <2> QED
    BY <2>4, <2>5
<1>8. \A m, n \in 1..MaxEvents, p \in Int, q \in Int :
        (p < q => m < n) /\ (q < p => n < m) /\ (p = q => m = n) => (p < q <=> m < n)
  BY <1>2
<1>9. ASSUME NEW n \in 1..MaxEvents PROVE Places(d, n) \subseteq Int
  BY <1>1 DEF Places
<1>10. ASSUME NEW m \in 1..MaxEvents, NEW n \in 1..MaxEvents,
              NEW p \in Places(d, m), NEW q \in Places(d, n)
       PROVE  p < q <=> m < n
  BY <1>7, <1>8, <1>9
<1> QED
  BY <1>5, <1>6, <1>10

\* While a runtime reads, the events of its gamepads reach it in the order the
\* games made them, none lost and none twice, although they are handed over
\* directly, buffered, put back or answered outside the lock.
THEOREM EventsInOrder == Spec => []InOrder
<1>1. Init => TypeInv /\ HoldInv /\ OrderInv
  BY TypeInit, HoldInit, OrderInit
<1>2. TypeInv /\ HoldInv /\ OrderInv /\ [Next]_vars => (TypeInv /\ HoldInv /\ OrderInv)'
  BY TypeStep, HoldStep, OrderStep
<1>3. TypeInv /\ HoldInv /\ OrderInv => InOrder
  BY LineInOrder DEF OrderInv, Lines, InOrder
<1> QED
  BY <1>1, <1>2, <1>3, PTL DEF Spec
-----------------------------------------------------------------------------
(* EventStream.  Whatever is canceled or ended, the events of a gamepad that *)
(* are on the way are newer than the last one its runtime got, the older     *)
(* ahead of the newer: Line without the claim that none is missing.          *)

Reached(d, a, g) == IF Answering(d, a) THEN a.n ELSE g

Ahead(d, a, b, g, s, w) ==
  /\ g <= Last(s, w)
  /\ Answering(d, a) => a.n \in (g + 1)..Last(s, w)
  /\ \A i \in 1..Len(b) :
       b[i].device = d => b[i].n \in (Reached(d, a, g) + 1)..Last(s, w)
  /\ \A i, j \in 1..Len(b) :
       i < j /\ b[i].device = d /\ b[j].device = d => b[i].n < b[j].n
  /\ w = "took" => ~Answering(d, a) /\ \A i \in 1..Len(b) : b[i].device # d

Rising(d) ==
  Ahead(d, answer[Owner(d)], buffered[Owner(d)], got[d], sent[d], writer[d])
RisingInv == \A d \in Devices : Rising(d)

LEMMA AheadReached ==
  ASSUME NEW d, NEW a \in Events \cup {NoEvent}, NEW g \in Nat
  PROVE  Reached(d, a, g) \in Nat
BY EventParts DEF Reached, Answering

\* An event is buffered: that of the callback, or one of another gamepad.
LEMMA AheadForeign ==
  ASSUME NEW d, NEW a, NEW b \in Seq(Events), NEW g \in Nat, NEW s \in Nat, NEW w,
         NEW e \in Events, e.device # d, Ahead(d, a, b, g, s, w)
  PROVE  Ahead(d, a, Append(b, e), g, s, w)
<1> DEFINE c == Append(b, e)
<1>1. /\ Len(b) \in Nat /\ Len(c) = Len(b) + 1 /\ c[Len(b) + 1] = e
      /\ \A i \in 1..Len(b) : c[i] = b[i]
  BY AppendProperties
<1>2. \A i \in 1..Len(c) : c[i].device = d => i \in 1..Len(b) /\ c[i] = b[i]
  BY <1>1
<1> HIDE DEF c
<1> QED
  BY <1>1, <1>2 DEF Ahead

LEMMA AheadAppend ==
  ASSUME NEW d \in Devices, NEW a \in Events \cup {NoEvent}, NEW b \in Seq(Events),
         NEW g \in Nat, NEW s \in 1..MaxEvents, NEW w \in {"event", "back"},
         Ahead(d, a, b, g, s, w)
  PROVE  Ahead(d, a, Append(b, [device |-> d, n |-> s]), g, s, "idle")
<1> DEFINE e == [device |-> d, n |-> s]
           c == Append(b, e)
           r == Reached(d, a, g)
<1>1. e \in Events /\ s \in Nat /\ e.device = d /\ e.n = s
  BY OutputAssumption DEF Events
<1>2. /\ Len(b) \in Nat /\ Len(c) = Len(b) + 1 /\ c[Len(b) + 1] = e
      /\ \A i \in 1..Len(b) : c[i] = b[i]
  BY <1>1, AppendProperties
<1>3. 1..Len(c) = 1..Len(b) \cup {Len(c)} /\ Len(c) \in 1..Len(c)
  BY <1>2
<1>4. Last(s, w) = s - 1 /\ Last(s, "idle") = s
  BY DEF Last
<1>5. r \in Nat
  BY AheadReached
<1> HIDE DEF e, c
<1>6. /\ g <= s - 1 /\ (Answering(d, a) => a.n \in (g + 1)..(s - 1))
      /\ \A i \in 1..Len(b) : b[i].device = d => b[i].n \in (r + 1)..(s - 1)
      /\ \A i, j \in 1..Len(b) :
           i < j /\ b[i].device = d /\ b[j].device = d => b[i].n < b[j].n
  BY <1>4 DEF Ahead
<1>7. r <= s - 1
  BY <1>6 DEF Reached
<1> HIDE DEF r
<1>8. \A i \in 1..Len(c) : c[i].device = d => c[i].n \in (r + 1)..s
  BY <1>1, <1>2, <1>3, <1>5, <1>6, <1>7
<1>9. ASSUME NEW i \in 1..Len(c), NEW j \in 1..Len(c), i < j,
             c[i].device = d, c[j].device = d
      PROVE  c[i].n < c[j].n
  <2>1. i \in 1..Len(b) /\ c[i] = b[i] /\ b[i].n \in (r + 1)..(s - 1)
    BY <1>2, <1>6, <1>9
  <2>2. CASE j \in 1..Len(b)
    BY <1>2, <1>6, <1>9, <2>1, <2>2
  <2>3. CASE j = Len(c)
    BY <1>1, <1>2, <1>5, <1>9, <2>1, <2>3
  <2> QED
    BY <1>3, <2>2, <2>3
<1>10. g <= s /\ (Answering(d, a) => a.n \in (g + 1)..s)
  BY <1>1, <1>6
<1>11. Ahead(d, a, c, g, s, "idle")
  BY <1>4, <1>8, <1>9, <1>10 DEF Ahead, r
<1> QED
  BY <1>11 DEF c, e

\* The first buffered event becomes an answer.
LEMMA AheadTake ==
  ASSUME NEW d, NEW b \in Seq(Events), b # <<>>, NEW g \in Nat, NEW s \in Nat, NEW w,
         Ahead(d, NoEvent, b, g, s, w)
  PROVE  Ahead(d, Head(b), Tail(b), g, s, w)
<1> DEFINE e == Head(b)
           c == Tail(b)
           last == Last(s, w)
<1>1. /\ Len(b) \in Nat \ {0} /\ e = b[1] /\ e \in Events /\ Len(c) = Len(b) - 1
      /\ \A i \in 1..Len(c) : c[i] = b[i + 1] /\ i + 1 \in 1..Len(b) /\ 1 < i + 1
      /\ 1 \in 1..Len(b)
  BY HeadTailProperties, EmptySeq
<1>2. Reached(d, NoEvent, g) = g
  BY DEF Reached, Answering
<1>3. last \in Int /\ e # NoEvent /\ e.n \in Nat
  BY <1>1, LineFirst, EventParts
<1>4. /\ g <= last
      /\ \A i \in 1..Len(b) : b[i].device = d => b[i].n \in (g + 1)..last
      /\ \A i, j \in 1..Len(b) :
           i < j /\ b[i].device = d /\ b[j].device = d => b[i].n < b[j].n
      /\ w = "took" => \A i \in 1..Len(b) : b[i].device # d
  BY <1>2 DEF Ahead
<1> HIDE DEF e, c, last
<1>5. /\ Answering(d, e) <=> e.device = d
      /\ Reached(d, e, g) = IF e.device = d THEN e.n ELSE g
  BY <1>3 DEF Answering, Reached
<1>6. e.device = d => e.n \in (g + 1)..last /\ w # "took"
  BY <1>1, <1>4
<1>7. ASSUME NEW i \in 1..Len(c), c[i].device = d
      PROVE  c[i].n \in (Reached(d, e, g) + 1)..last
  <2>1. c[i] = b[i + 1] /\ i + 1 \in 1..Len(b) /\ 1 < i + 1
    BY <1>1
  <2>2. b[i + 1].n \in (g + 1)..last /\ (e.device = d => e.n < b[i + 1].n)
    BY <1>1, <1>4, <1>7, <2>1
  <2> QED
    BY <1>3, <1>5, <2>1, <2>2
<1>8. \A i, j \in 1..Len(c) :
        i < j /\ c[i].device = d /\ c[j].device = d => c[i].n < c[j].n
  <2> SUFFICES ASSUME NEW i \in 1..Len(c), NEW j \in 1..Len(c), i < j,
                      c[i].device = d, c[j].device = d
               PROVE  c[i].n < c[j].n
    OBVIOUS
  <2>1. /\ i + 1 \in 1..Len(b) /\ j + 1 \in 1..Len(b) /\ i + 1 < j + 1
        /\ c[i] = b[i + 1] /\ c[j] = b[j + 1]
    BY <1>1
  <2> QED
    BY <1>4, <2>1
<1>9. w = "took" => \A i \in 1..Len(c) : c[i].device # d
  BY <1>1, <1>4
<1> QED
  BY <1>4, <1>5, <1>6, <1>7, <1>8, <1>9 DEF Ahead, last, e, c

\* The answer is given.
LEMMA AheadAnswered ==
  ASSUME NEW d, NEW e \in Events, NEW b, NEW g \in Nat, NEW s \in Nat, NEW w,
         e.device = d, Ahead(d, e, b, g, s, w)
  PROVE  Ahead(d, NoEvent, b, e.n, s, w) /\ e.n \in (g + 1)..Last(s, w)
<1>1. Answering(d, e) /\ ~Answering(d, NoEvent)
  BY EventParts DEF Answering
<1>2. Reached(d, e, g) = e.n /\ Reached(d, NoEvent, e.n) = e.n
  BY <1>1 DEF Reached
<1>3. e.n \in Nat /\ Last(s, w) \in Int
  BY LineFirst, EventParts
<1>4. e.n \in (g + 1)..Last(s, w)
  BY <1>1 DEF Ahead
<1>5. e.n <= Last(s, w)
  BY <1>3, <1>4
<1> QED
  BY <1>1, <1>2, <1>4, <1>5 DEF Ahead

\* What is on the way is dropped.
LEMMA AheadDropped ==
  ASSUME NEW d, NEW a, NEW b, NEW g \in Nat, NEW s \in Nat, NEW w, Ahead(d, a, b, g, s, w)
  PROVE  Ahead(d, a, <<>>, g, s, w)
<1>1. 1..Len(<<>>) = {}
  OBVIOUS
<1> QED
  BY <1>1 DEF Ahead

\* The callback makes an event, hands it to a waiting read, and is done with it
\* or gets it back.
LEMMA AheadMake ==
  ASSUME NEW d, NEW a, NEW b, NEW g \in Nat, NEW s \in Nat, Ahead(d, a, b, g, s, "idle")
  PROVE  Ahead(d, a, b, g, s + 1, "event")
<1>1. Last(s, "idle") = s /\ Last(s + 1, "event") = s
  BY DEF Last
<1> QED
  BY <1>1 DEF Ahead

LEMMA AheadHand ==
  ASSUME NEW d, NEW g \in Nat, NEW s \in Nat, Ahead(d, NoEvent, <<>>, g, s, "event")
  PROVE  Ahead(d, NoEvent, <<>>, g, s, "took")
<1>1. Last(s, "event") = s - 1 /\ Last(s, "took") = s - 1
  BY DEF Last
<1>2. 1..Len(<<>>) = {} /\ ~Answering(d, NoEvent)
  BY DEF Answering
<1> QED
  BY <1>1, <1>2 DEF Ahead

LEMMA AheadDone ==
  ASSUME NEW d, NEW a, NEW b, NEW g \in Nat, NEW s \in Nat, Ahead(d, a, b, g, s, "took")
  PROVE  /\ Ahead(d, a, b, s, s, "idle") /\ Ahead(d, a, b, g, s, "back")
         /\ s \in (g + 1)..s
<1>1. Last(s, "took") = s - 1 /\ Last(s, "idle") = s /\ Last(s, "back") = s - 1
  BY DEF Last
<1>2. g <= s - 1 /\ ~Answering(d, a) /\ \A i \in 1..Len(b) : b[i].device # d
  BY <1>1 DEF Ahead
<1>3. Ahead(d, a, b, s, s, "idle")
  BY <1>1, <1>2 DEF Ahead
<1>4. Ahead(d, a, b, g, s, "back")
  BY <1>1, <1>2 DEF Ahead
<1> QED
  BY <1>2, <1>3, <1>4

LEMMA RisingQuiet ==
  ASSUME RisingInv, UNCHANGED <<answer, buffered, creator, got, sent, writer>>
  PROVE  RisingInv'
<1>1. \A d : Owner(d)' = Owner(d)
  BY DEF Owner
<1>2. \A d : Rising(d)' = Rising(d)
  BY <1>1 DEF Rising
<1> QED
  BY <1>2 DEF RisingInv

\* Buffers of some files are dropped.
LEMMA RisingDrops ==
  ASSUME TypeInv, RisingInv, UNCHANGED <<answer, creator, got, sent, writer>>,
         \A f \in Files : buffered'[f] \in {buffered[f], <<>>}
  PROVE  RisingInv'
<1> SUFFICES ASSUME NEW d \in Devices PROVE Rising(d)'
  BY DEF RisingInv
<1>1. Owner(d)' = Owner(d) /\ Owner(d) \in Files /\ got[d] \in Nat /\ sent[d] \in Nat
  BY OwnerType DEF Owner
<1>2. Ahead(d, answer[Owner(d)], buffered[Owner(d)], got[d], sent[d], writer[d])
  BY DEF RisingInv, Rising
<1>3. Ahead(d, answer[Owner(d)], <<>>, got[d], sent[d], writer[d])
  BY <1>1, <1>2, AheadDropped
<1> QED
  BY <1>1, <1>2, <1>3 DEF Rising

\* The callback of a gamepad changes, the answers and buffers do not.
LEMMA RisingCallback ==
  ASSUME TypeInv, RisingInv, NEW d \in Devices, UNCHANGED <<answer, buffered, creator>>,
         \A x \in Devices \ {d} : writer'[x] = writer[x] /\ got'[x] = got[x]
                                  /\ sent'[x] = sent[x],
         Ahead(d, answer[Owner(d)], buffered[Owner(d)], got'[d], sent'[d], writer'[d])
  PROVE  RisingInv'
<1> SUFFICES ASSUME NEW x \in Devices PROVE Rising(x)'
  BY DEF RisingInv
<1>1. Owner(x)' = Owner(x)
  BY DEF Owner
<1>2. CASE x = d
  BY <1>1, <1>2 DEF Rising
<1>3. CASE x # d
  BY <1>1, <1>3 DEF RisingInv, Rising
<1> QED
  BY <1>2, <1>3

LEMMA RisingRead ==
  ASSUME TypeInv, HoldInv, OrderInv, RisingInv, NEW f \in Files, ReadStep(f)
  PROVE  RisingInv'
<1>1. /\ UNCHANGED <<creator, sent, writer>>
      /\ \A d \in Devices : Owner(d)' = Owner(d) /\ Owner(d) \in Files
      /\ \A d \in Devices : got[d] \in Nat /\ sent[d] \in Nat
  BY OwnerType DEF ReadStep, CancelInQueue, HandleRead, AnswerRead, ReadCanceled, eventVars,
     deviceVars, Owner
<1>2. CASE CancelInQueue(f) \/ ReadCanceled(f)
  <2>1. read[f] # "answer" \/ UNCHANGED answer
    BY <1>2 DEF CancelInQueue, ReadCanceled, HoldInv, OneHolder
  <2>2. UNCHANGED answer
    BY <1>2, <2>1, AnswerKept DEF CancelInQueue, ReadCanceled
  <2> QED
    BY <1>1, <1>2, <2>2, RisingQuiet DEF CancelInQueue, ReadCanceled, listVars, eventVars
<1>3. CASE HandleRead(f) /\ buffered[f] = <<>>
  <2>1. read[f] # "answer" /\ (Completed(f) \/ UNCHANGED answer)
    BY <1>3 DEF HandleRead
  <2>2. UNCHANGED answer
    BY <2>1, AnswerKept
  <2> QED
    BY <1>1, <1>3, <2>2, RisingQuiet DEF HandleRead, listVars, eventVars
<1>4. CASE HandleRead(f) /\ buffered[f] # <<>>
  <2> DEFINE b == buffered[f]
  <2>1. /\ answer' = [answer EXCEPT ![f] = Head(b)] /\ UNCHANGED got
        /\ buffered' = [buffered EXCEPT ![f] = Tail(b)]
        /\ answer[f] = NoEvent
    BY <1>4 DEF HandleRead, eventVars, TypeInv, TypeOK, RequestTypes
  <2>2. /\ answer'[f] = Head(b) /\ buffered'[f] = Tail(b) /\ b \in Seq(Events)
        /\ \A g \in Files \ {f} : answer'[g] = answer[g] /\ buffered'[g] = buffered[g]
    BY <2>1 DEF TypeInv, TypeOK, RequestTypes, ListTypes
  <2> SUFFICES ASSUME NEW d \in Devices PROVE Rising(d)'
    BY DEF RisingInv
  <2>3. Ahead(d, answer[Owner(d)], buffered[Owner(d)], got[d], sent[d], writer[d])
    BY DEF RisingInv, Rising
  <2>4. CASE Owner(d) = f
    <3>1. Ahead(d, Head(b), Tail(b), got[d], sent[d], writer[d])
      BY <1>1, <1>4, <2>1, <2>2, <2>3, <2>4, AheadTake
    <3> QED
      BY <1>1, <2>1, <2>2, <2>4, <3>1 DEF Rising
  <2>5. CASE Owner(d) # f
    BY <1>1, <2>1, <2>2, <2>3, <2>5 DEF Rising
  <2> QED
    BY <2>4, <2>5
<1>5. CASE AnswerRead(f)
  <2> DEFINE e == answer[f]
  <2>1. /\ answer' = [answer EXCEPT ![f] = NoEvent] /\ UNCHANGED buffered
        /\ got' = [got EXCEPT ![e.device] = e.n]
        /\ e \in Events /\ e # NoEvent
    BY <1>5 DEF AnswerRead, CompletedWith, Completed, listVars, TypeInv, TypeOK,
                RequestTypes
  <2>2. /\ answer'[f] = NoEvent
        /\ \A g \in Files \ {f} : answer'[g] = answer[g]
        /\ \A d \in Devices : got'[d] = IF d = e.device THEN e.n ELSE got[d]
    BY <2>1 DEF TypeInv, TypeOK, RequestTypes, EventTypes
  <2>3. Owner(e.device) = f
    BY <2>1 DEF OrderInv, Homed, Home
  <2> SUFFICES ASSUME NEW d \in Devices PROVE Rising(d)'
    BY DEF RisingInv
  <2>4. Ahead(d, answer[Owner(d)], buffered[Owner(d)], got[d], sent[d], writer[d])
    BY DEF RisingInv, Rising
  <2>5. CASE d = e.device
    <3>1. Ahead(d, NoEvent, buffered[f], e.n, sent[d], writer[d])
      BY <1>1, <2>1, <2>3, <2>4, <2>5, AheadAnswered
    <3> QED
      BY <1>1, <2>1, <2>2, <2>3, <2>5, <3>1 DEF Rising
  <2>6. CASE d # e.device /\ Owner(d) = f
    <3>1. Ahead(d, NoEvent, buffered[f], got[d], sent[d], writer[d])
      <4>1. ~Answering(d, e) /\ ~Answering(d, NoEvent)
        BY <2>6 DEF Answering
      <4> HIDE DEF e
      <4>2. Ahead(d, e, buffered[f], got[d], sent[d], writer[d])
        BY <2>4, <2>6 DEF e
      <4> QED
        BY <4>1, <4>2 DEF Ahead, Reached
    <3> QED
      BY <1>1, <2>1, <2>2, <2>6, <3>1 DEF Rising
  <2>7. CASE Owner(d) # f
    <3>1. got'[d] = got[d] /\ answer'[Owner(d)] = answer[Owner(d)]
      BY <1>1, <2>2, <2>3, <2>7
    <3> QED
      BY <1>1, <2>1, <2>4, <3>1 DEF Rising
  <2> QED
    BY <2>5, <2>6, <2>7
<1> QED
  BY <1>2, <1>3, <1>4, <1>5 DEF ReadStep

\* The event of a callback goes to the end of the buffer.
LEMMA RisingBuffered ==
  ASSUME TypeInv, RisingInv, NEW d \in Devices, writer[d] \in {"event", "back"},
         UNCHANGED <<creator, answer, got, sent>>,
         buffered' = [buffered EXCEPT ![Owner(d)] = Append(@, Event(d))],
         writer' = [writer EXCEPT ![d] = "idle"]
  PROVE  RisingInv'
<1> DEFINE e == Event(d)
<1>1. /\ e \in Events /\ Owner(d) \in Files /\ e.device = d
      /\ e = [device |-> d, n |-> sent[d]] /\ sent[d] \in 1..MaxEvents
  BY EventType, OutputAssumption DEF Event, TypeInv, TypeOK, EventTypes, Numbered
<1>2. /\ buffered'[Owner(d)] = Append(buffered[Owner(d)], e)
      /\ \A g \in Files \ {Owner(d)} : buffered'[g] = buffered[g]
      /\ writer'[d] = "idle" /\ \A x \in Devices \ {d} : writer'[x] = writer[x]
  BY <1>1 DEF TypeInv, TypeOK, ListTypes, EventTypes
<1> SUFFICES ASSUME NEW x \in Devices PROVE Rising(x)'
  BY DEF RisingInv
<1> HIDE DEF e
<1>3. /\ Owner(x)' = Owner(x) /\ Owner(x) \in Files /\ got[x] \in Nat /\ sent[x] \in Nat
      /\ buffered[Owner(x)] \in Seq(Events) /\ answer[Owner(x)] \in Events \cup {NoEvent}
  BY OwnerType DEF Owner
<1>4. Ahead(x, answer[Owner(x)], buffered[Owner(x)], got[x], sent[x], writer[x])
  BY DEF RisingInv, Rising
<1>5. CASE x = d
  <2>1. Ahead(d, answer[Owner(d)], Append(buffered[Owner(d)], e), got[d], sent[d], "idle")
    BY <1>1, <1>3, <1>4, <1>5, AheadAppend
  <2> QED
    BY <1>2, <1>3, <1>5, <2>1 DEF Rising
<1>6. CASE x # d /\ Owner(x) = Owner(d)
  <2>1. Ahead(x, answer[Owner(x)], Append(buffered[Owner(x)], e), got[x], sent[x], writer[x])
    BY <1>1, <1>3, <1>4, <1>6, AheadForeign
  <2> QED
    BY <1>2, <1>3, <1>6, <2>1 DEF Rising
<1>7. CASE Owner(x) # Owner(d)
  BY <1>2, <1>3, <1>4, <1>7 DEF Rising
<1> QED
  BY <1>5, <1>6, <1>7

LEMMA RisingEvent ==
  ASSUME TypeInv, HoldInv, RisingInv, NEW d \in Devices, EventStep(d) \/ MakeEvent(d)
  PROVE  RisingInv'
<1>0. /\ Owner(d) \in Files /\ got[d] \in Nat /\ sent[d] \in Nat
      /\ Ahead(d, answer[Owner(d)], buffered[Owner(d)], got[d], sent[d], writer[d])
  BY OwnerType DEF RisingInv, Rising
<1>1. /\ UNCHANGED creator
      /\ \A x \in Devices \ {d} : writer'[x] = writer[x] /\ sent'[x] = sent[x]
  BY DEF EventStep, QueueEvent, CompleteEvent, BufferAgain, MakeEvent,
         deviceVars, TypeInv, TypeOK, EventTypes
<1>2. CASE MakeEvent(d)
  <2>1. /\ UNCHANGED <<answer, buffered, got>> /\ writer[d] = "idle"
        /\ writer'[d] = "event" /\ sent'[d] = sent[d] + 1
    BY <1>2 DEF MakeEvent, requestVars, listVars, TypeInv, TypeOK, EventTypes
  <2>2. Ahead(d, answer[Owner(d)], buffered[Owner(d)], got'[d], sent'[d], writer'[d])
    BY <1>0, <2>1, AheadMake
  <2> QED
    BY <1>1, <2>1, <2>2, RisingCallback
<1>3. CASE QueueEvent(d) /\ Owner(d) \notin pending
  BY <1>1, <1>3, RisingBuffered DEF QueueEvent, requestVars
<1>4. CASE QueueEvent(d) /\ Owner(d) \in pending
  <2>1. /\ UNCHANGED <<answer, buffered, got, sent>> /\ writer[d] = "event"
        /\ writer'[d] = "took"
    BY <1>4 DEF QueueEvent, requestVars, TypeInv, TypeOK, EventTypes
  <2>2. buffered[Owner(d)] = <<>> /\ read[Owner(d)] = "held"
    BY <1>0, <1>4 DEF HoldInv, OneHolder, NoneWaitsInVain
  <2>3. answer[Owner(d)] = NoEvent
    BY <1>0, <2>2 DEF TypeInv, TypeOK, RequestTypes
  <2>4. Ahead(d, answer[Owner(d)], buffered[Owner(d)], got'[d], sent'[d], writer'[d])
    BY <1>0, <2>1, <2>2, <2>3, AheadHand
  <2> QED
    BY <1>1, <2>1, <2>4, RisingCallback
<1>5. CASE CompleteEvent(d)
  <2>1. writer[d] = "took" /\ UNCHANGED <<buffered, sent>>
    BY <1>5 DEF CompleteEvent, listVars
  <2>2. read[Owner(d)] = "held"
    BY <1>0, <2>1 DEF HoldInv, OneHolder, Taken
  <2>3. CASE StillCancelable(Owner(d))
    <3>1. /\ Completed(Owner(d)) /\ writer'[d] = "idle"
          /\ got' = [got EXCEPT ![Event(d).device] = Event(d).n]
      BY <1>5, <2>3 DEF CompleteEvent, CompletedWith, TypeInv, TypeOK, EventTypes
    <3>2. UNCHANGED answer
      BY <1>0, <2>2, <3>1, AnswerKept
    <3>3. got'[d] = sent[d] /\ \A x \in Devices \ {d} : got'[x] = got[x]
      BY <3>1 DEF Event, TypeInv, TypeOK, EventTypes
    <3>4. Ahead(d, answer[Owner(d)], buffered[Owner(d)], got'[d], sent'[d], writer'[d])
      BY <1>0, <2>1, <3>1, <3>3, AheadDone
    <3> QED
      BY <1>1, <2>1, <3>2, <3>3, <3>4, RisingCallback
  <2>4. CASE ~StillCancelable(Owner(d))
    <3>1. UNCHANGED <<answer, got>> /\ writer'[d] = "back"
      BY <1>5, <2>4 DEF CompleteEvent, requestVars, TypeInv, TypeOK, EventTypes
    <3>2. Ahead(d, answer[Owner(d)], buffered[Owner(d)], got'[d], sent'[d], writer'[d])
      BY <1>0, <2>1, <3>1, AheadDone
    <3> QED
      BY <1>1, <2>1, <3>1, <3>2, RisingCallback
  <2> QED
    BY <2>3, <2>4
<1>6. CASE BufferAgain(d)
  BY <1>1, <1>6, RisingBuffered DEF BufferAgain, requestVars
<1> QED
  BY <1>2, <1>3, <1>4, <1>5, <1>6 DEF EventStep

\* A gamepad is created with a file: there is no event of it.
LEMMA RisingCreate ==
  ASSUME TypeInv, HoldInv, OrderInv, RisingInv, NEW d \in Devices, NEW f \in Files,
         CreateGamepad(d, f)
  PROVE  RisingInv'
<1>1. /\ UNCHANGED <<answer, buffered, got, sent, writer>> /\ device[d] = "none"
      /\ Owner(d)' = f
      /\ \A x \in Devices \ {d} : Owner(x)' = Owner(x)
  BY DEF CreateGamepad, requestVars, listVars, eventVars, TypeInv, TypeOK, DeviceTypes, Owner
<1>2. sent[d] = 0 /\ got[d] = 0 /\ writer[d] = "idle"
  BY <1>1, OwnerType DEF OrderInv, Counted, HoldInv, Silent
<1>3. /\ answer[f] # NoEvent => answer[f] \in Events /\ Home(f, answer[f])
      /\ \A i \in 1..Len(buffered[f]) : buffered[f][i] \in Events /\ Home(f, buffered[f][i])
  BY ElementOfSeq DEF OrderInv, Homed, TypeInv, TypeOK, RequestTypes, ListTypes
<1>4. \A e \in Events : Home(f, e) => e.device # d
  BY <1>2, EventParts DEF Home
<1>5. ~Answering(d, answer[f]) /\ \A i \in 1..Len(buffered[f]) : buffered[f][i].device # d
  BY <1>3, <1>4 DEF Answering
<1>6. Ahead(d, answer[f], buffered[f], 0, 0, "idle")
  BY <1>5 DEF Ahead, Last
<1> SUFFICES ASSUME NEW x \in Devices PROVE Rising(x)'
  BY DEF RisingInv
<1>7. CASE x = d
  BY <1>1, <1>2, <1>6, <1>7 DEF Rising
<1>8. CASE x # d
  BY <1>1, <1>8 DEF RisingInv, Rising
<1> QED
  BY <1>7, <1>8

LEMMA RisingStep ==
  TypeInv /\ HoldInv /\ OrderInv /\ RisingInv /\ [Next]_vars => RisingInv'
<1> SUFFICES ASSUME TypeInv, HoldInv, OrderInv, RisingInv, [Next]_vars PROVE RisingInv'
  OBVIOUS
<1>1. CASE UNCHANGED vars
  BY <1>1, RisingQuiet DEF vars, requestVars, listVars, deviceVars, eventVars
<1>2. ASSUME NEW f \in Files,
             FileStep(f) \/ SetStopEvent(f) \/ RequestStop(f) \/ CloseFile(f)
             \/ ProcessEnds(f) \/ OpenAgain(f)
      PROVE  RisingInv'
  BY <1>2, RisingQuiet DEF FileStep, StartRead, ReadReturns, CancelRead, LoopEnds,
     SetStopEvent, RequestStop, CloseFile, ProcessEnds, OpenAgain, AskToCancel, listVars,
     deviceVars, eventVars, requestVars
<1>3. ASSUME NEW f \in Files, CleanupStep(f) PROVE RisingInv'
  <2>1. CASE CleanupDevices(f)
    BY <2>1, RisingQuiet DEF CleanupDevices, requestVars, listVars, eventVars
  <2>2. CASE CleanupCompletes(f)
    <3>1. read[f] # "answer"
      BY <2>2 DEF CleanupCompletes, HoldInv, OneHolder
    <3>2. UNCHANGED answer
      BY <2>2, <3>1, AnswerKept DEF CleanupCompletes
    <3> QED
      BY <2>2, <3>2, RisingQuiet DEF CleanupCompletes, listVars, deviceVars, eventVars
  <2>3. CASE CleanupReads(f)
    <3>1. \A g \in Files : buffered'[g] \in {buffered[g], <<>>}
      BY <2>3 DEF CleanupReads, TypeInv, TypeOK, ListTypes
    <3> QED
      BY <2>3, <3>1, RisingDrops DEF CleanupReads, requestVars, deviceVars, eventVars
  <2> QED
    BY <1>3, <2>1, <2>2, <2>3 DEF CleanupStep
<1>4. CASE ReleaseReads
  <2>1. \A g \in Files : buffered'[g] \in {buffered[g], <<>>}
    BY <1>4 DEF ReleaseReads
  <2> QED
    BY <1>4, <2>1, RisingDrops DEF ReleaseReads, requestVars, deviceVars, eventVars
<1>5. ASSUME NEW f \in Files, ReleaseCompletes(f) PROVE RisingInv'
  <2>1. read[f] # "answer"
    BY <1>5 DEF ReleaseCompletes, HoldInv, OneHolder
  <2>2. UNCHANGED answer
    BY <1>5, <2>1, AnswerKept DEF ReleaseCompletes
  <2> QED
    BY <1>5, <2>2, RisingQuiet DEF ReleaseCompletes, listVars, deviceVars, eventVars
<1>6. CASE ReleaseDevices \/ ReleaseEnds
  BY <1>6, RisingQuiet DEF ReleaseDevices, ReleaseEnds, requestVars, listVars, deviceVars,
     eventVars
<1>7. ASSUME NEW d \in Devices, DestroyGamepad(d) \/ GamepadDeleted(d) PROVE RisingInv'
  BY <1>7, RisingQuiet DEF DestroyGamepad, GamepadDeleted, requestVars, listVars, eventVars
<1> QED
  BY <1>1, <1>2, <1>3, <1>4, <1>5, <1>6, <1>7, RisingRead, RisingEvent, RisingCreate
  DEF Next, ReleaseStep

LEMMA RisingInit == Init => RisingInv
<1> SUFFICES ASSUME Init, NEW d \in Devices PROVE Rising(d)
  BY DEF RisingInv
<1>1. Owner(d) \in Files
  BY DEF Init, Owner
<1>2. answer[Owner(d)] = NoEvent /\ 1..Len(buffered[Owner(d)]) = {}
  BY <1>1 DEF Init
<1>3. got[d] = 0 /\ sent[d] = 0 /\ writer[d] = "idle"
  BY DEF Init
<1> QED
  BY <1>2, <1>3 DEF Rising, Ahead, Answering, Last

LEMMA StreamStarts == Init => Stream!StreamInit
BY DEF Init, Stream!StreamInit, Calm

\* Steps that give nothing to a runtime.
LEMMA StreamQuiet ==
  ASSUME UNCHANGED <<sent, got, handed>>, \A d \in Devices : Undisturbed(d)' => Undisturbed(d)
  PROVE  Stream!StreamNext
<1>1. Calm' \in SUBSET Calm
  BY DEF Calm
<1> QED
  BY <1>1 DEF Stream!StreamNext, Stream!End

\* The next event is given, or some later one when the runtime was disturbed.
LEMMA StreamGiven ==
  ASSUME UNCHANGED <<sent, runtime, stop, life, creator, hardware>>,
         NEW d \in Devices, NEW n \in (got[d] + 1)..sent[d],
         Undisturbed(d) => n = got[d] + 1, got' = [got EXCEPT ![d] = n],
         handed' = [handed EXCEPT ![d] = @ + 1]
  PROVE  Stream!StreamNext
<1>1. \A x : Undisturbed(x)' = Undisturbed(x)
  BY DEF Undisturbed, Owner
<1>2. UNCHANGED Calm
  BY <1>1 DEF Calm
<1>3. d \in Calm => n = got[d] + 1
  BY DEF Calm
<1>4. Stream!Give(d)
  BY <1>2, <1>3 DEF Stream!Give
<1> QED
  BY <1>4 DEF Stream!StreamNext

LEMMA StreamRead ==
  ASSUME TypeInv, OrderInv, RisingInv, NEW f \in Files, ReadStep(f)
  PROVE  Stream!StreamNext
<1>1. UNCHANGED <<sent, runtime, stop, life, creator, hardware>>
  BY DEF ReadStep, CancelInQueue, HandleRead, AnswerRead, ReadCanceled, runtimeVars,
     deviceVars, eventVars, endVars
<1>2. CASE AnswerRead(f)
  <2> DEFINE e == answer[f]
             d == e.device
  <2>1. /\ got' = [got EXCEPT ![d] = e.n] /\ handed' = [handed EXCEPT ![d] = @ + 1]
        /\ e \in Events /\ e # NoEvent
    BY <1>2 DEF AnswerRead, CompletedWith, TypeInv, TypeOK, RequestTypes
  <2>2. d \in Devices /\ Owner(d) = f
    BY <2>1, EventParts DEF OrderInv, Homed, Home
  <2>3. got[d] \in Nat /\ sent[d] \in Nat /\ Last(sent[d], writer[d]) <= sent[d]
    BY <2>2, OwnerType DEF Last
  <2>4. Ahead(d, e, buffered[f], got[d], sent[d], writer[d])
    BY <2>2 DEF RisingInv, Rising
  <2>5. e.n \in (got[d] + 1)..Last(sent[d], writer[d])
    BY <2>1, <2>2, <2>3, <2>4, AheadAnswered
  <2>6. e.n \in (got[d] + 1)..sent[d]
    BY <2>3, <2>5, LineFirst
  <2>7. Undisturbed(d) => e.n = got[d] + 1
    <3>1. Undisturbed(d) => Line(d, e, buffered[f], got[d], sent[d], writer[d])
      BY <2>2 DEF OrderInv, Lines, Straight
    <3> QED
      BY <2>1, <3>1 DEF Line, Answering
  <2> HIDE DEF e, d
  <2> QED
    BY <1>1, <2>1, <2>2, <2>6, <2>7, StreamGiven
<1>3. CASE ~AnswerRead(f)
  <2>1. UNCHANGED <<got, handed>>
    BY <1>3 DEF ReadStep, CancelInQueue, HandleRead, ReadCanceled, eventVars
  <2> QED
    BY <1>1, <2>1, StillUndisturbed, StreamQuiet
<1> QED
  BY <1>2, <1>3

LEMMA StreamEvent ==
  ASSUME TypeInv, OrderInv, RisingInv, NEW d \in Devices, EventStep(d) \/ MakeEvent(d)
  PROVE  Stream!StreamNext
<1>1. UNCHANGED <<runtime, stop, life, creator, hardware>>
  BY DEF EventStep, QueueEvent, CompleteEvent, BufferAgain, MakeEvent, runtimeVars,
     deviceVars, endVars
<1>2. \A x : Undisturbed(x)' = Undisturbed(x)
  BY <1>1 DEF Undisturbed, Owner
<1>3. CASE MakeEvent(d)
  <2>1. Stream!Make(d)
    BY <1>2, <1>3 DEF MakeEvent, Stream!Make, Calm
  <2> QED
    BY <2>1 DEF Stream!StreamNext
<1>4. CASE CompleteEvent(d) /\ StillCancelable(Owner(d))
  <2>1. /\ writer[d] = "took" /\ UNCHANGED sent /\ got' = [got EXCEPT ![d] = sent[d]]
        /\ handed' = [handed EXCEPT ![d] = @ + 1]
    BY <1>4 DEF CompleteEvent, CompletedWith, Event
  <2>2. got[d] \in Nat /\ sent[d] \in Nat
    BY OwnerType
  <2>3. sent[d] \in (got[d] + 1)..sent[d]
    BY <2>1, <2>2, AheadDone DEF RisingInv, Rising
  <2>4. ASSUME Undisturbed(d) PROVE sent[d] = got[d] + 1
    <3>1. Ahead(d, answer[Owner(d)], buffered[Owner(d)], got[d], sent[d], "took")
      BY <2>1 DEF RisingInv, Rising
    <3>2. Line(d, answer[Owner(d)], buffered[Owner(d)], got[d], sent[d], "took")
      BY <2>1, <2>4 DEF OrderInv, Lines, Straight
    <3>3. First(d, answer[Owner(d)], got[d]) = got[d]
      BY <3>1 DEF Ahead, First
    <3>4. got[d] = sent[d] - 1
      BY <3>2, <3>3 DEF Line, Last
    <3> QED
      BY <2>2, <3>4
  <2> QED
    BY <1>1, <2>1, <2>3, <2>4, StreamGiven
<1>5. CASE ~MakeEvent(d) /\ ~(CompleteEvent(d) /\ StillCancelable(Owner(d)))
  <2>1. UNCHANGED <<sent, got, handed>>
    BY <1>5 DEF EventStep, QueueEvent, CompleteEvent, BufferAgain
  <2> QED
    BY <1>2, <2>1, StreamQuiet
<1> QED
  BY <1>3, <1>4, <1>5

\* Whose runtime reads, it did before: except that of a gamepad just created.
LEMMA StreamFile ==
  ASSUME TypeInv, OrderInv, NEW f \in Files,
         FileStep(f) \/ SetStopEvent(f) \/ RequestStop(f) \/ CloseFile(f)
         \/ ProcessEnds(f) \/ OpenAgain(f) \/ CleanupStep(f)
  PROVE  Stream!StreamNext
<1>1. /\ UNCHANGED <<creator, sent, got, handed, hardware>>
      /\ \A g \in Files \ {f} : /\ runtime'[g] = runtime[g] /\ stop'[g] = stop[g]
                                /\ life'[g] = life[g]
      /\ \A d \in Devices : Owner(d)' = Owner(d) /\ Owner(d) \in Files
  BY OwnerType DEF FileStep, StartRead, ReadReturns, CancelRead, LoopEnds, SetStopEvent,
     RequestStop, CloseFile, ProcessEnds, OpenAgain, CleanupStep, CleanupDevices, CleanupReads,
     CleanupCompletes, runtimeVars, deviceVars, eventVars, endVars, Owner, TypeInv, TypeOK,
     RuntimeTypes
<1>2. /\ life[f] \in Nat /\ \A d \in Devices : creator[d].life \in Nat
      /\ \A d \in Devices : Owner(d) = f => creator[d].life <= life[f]
  BY OutputAssumption DEF TypeInv, TypeOK, RuntimeTypes, DeviceTypes, OrderInv, Past
<1>3. CASE ~OpenAgain(f)
  <2>1. /\ life'[f] = life[f] /\ (stop'[f] = "no" => stop[f] = "no")
        /\ runtime'[f] \in {"idle", "reading"} /\ stop'[f] = "no" =>
             runtime[f] \in {"idle", "reading"}
    BY <1>3 DEF FileStep, StartRead, ReadReturns, CancelRead, LoopEnds, SetStopEvent,
       RequestStop, CloseFile, ProcessEnds, CleanupStep, CleanupDevices, CleanupReads,
       CleanupCompletes, runtimeVars, TypeInv, TypeOK, RuntimeTypes, OrderInv, Ended
  <2>2. \A d \in Devices : Undisturbed(d)' => Undisturbed(d)
    BY <1>1, <2>1 DEF Undisturbed
  <2> QED
    BY <1>1, <2>2, StreamQuiet
<1>4. CASE OpenAgain(f)
  <2>1. life'[f] = life[f] + 1
    BY <1>4 DEF OpenAgain, TypeInv, TypeOK, RuntimeTypes
  <2>2. \A d \in Devices : Undisturbed(d)' => Owner(d) # f
    BY <1>1, <1>2, <2>1 DEF Undisturbed
  <2>3. \A d \in Devices : Undisturbed(d)' => Undisturbed(d)
    BY <1>1, <2>2 DEF Undisturbed
  <2> QED
    BY <1>1, <2>3, StreamQuiet
<1> QED
  BY <1>3, <1>4

LEMMA StreamGamepad ==
  ASSUME TypeInv, OrderInv, NEW d \in Devices,
         (\E f \in Files : CreateGamepad(d, f)) \/ DestroyGamepad(d) \/ GamepadDeleted(d)
  PROVE  Stream!StreamNext
<1>1. /\ UNCHANGED <<runtime, stop, life, hardware, sent, got, handed>>
      /\ \A x \in Devices \ {d} : creator'[x] = creator[x]
  BY DEF CreateGamepad, DestroyGamepad, GamepadDeleted, runtimeVars, eventVars, endVars,
     TypeInv, TypeOK, DeviceTypes
<1>2. \A x \in Devices \ {d} : Undisturbed(x)' = Undisturbed(x)
  BY <1>1 DEF Undisturbed, Owner
<1>3. ASSUME NEW f \in Files, CreateGamepad(d, f) PROVE Stream!StreamNext
  <2>1. sent[d] = 0
    BY <1>3 DEF CreateGamepad, OrderInv, Counted
  <2>2. creator'[d] = [file |-> f, life |-> life[f]]
    BY <1>3 DEF CreateGamepad, TypeInv, TypeOK, DeviceTypes
  <2>3. Undisturbed(d)'
    BY <1>1, <1>3, <2>2 DEF CreateGamepad, Undisturbed, Owner
  <2>4. Calm' = Calm \cup {d}
    BY <1>2, <2>3 DEF Calm
  <2>5. Stream!Begin(d)
    BY <1>1, <2>1, <2>4 DEF Stream!Begin
  <2> QED
    BY <2>5 DEF Stream!StreamNext
<1>4. CASE DestroyGamepad(d) \/ GamepadDeleted(d)
  <2>1. UNCHANGED creator
    BY <1>4 DEF DestroyGamepad, GamepadDeleted
  <2> QED
    BY <1>1, <2>1, StillUndisturbed, StreamQuiet
<1> QED
  BY <1>3, <1>4

LEMMA StreamStep ==
  TypeInv /\ OrderInv /\ RisingInv /\ [Next]_vars => [Stream!StreamNext]_(Stream!streamVars)
<1> SUFFICES ASSUME TypeInv, OrderInv, RisingInv, [Next]_vars
             PROVE  Stream!StreamNext \/ UNCHANGED Stream!streamVars
  OBVIOUS
<1>1. CASE UNCHANGED vars
  <2>1. \A d : Undisturbed(d)' = Undisturbed(d)
    BY <1>1 DEF vars, runtimeVars, deviceVars, endVars, Undisturbed, Owner
  <2> QED
    BY <1>1, <2>1 DEF vars, eventVars, Stream!streamVars, Calm
<1>2. CASE ReleaseReads \/ ReleaseStep
  <2>1. /\ UNCHANGED <<runtime, stop, life, creator, sent, got, handed>>
        /\ hardware' = "on" => hardware = "on"
    BY <1>2 DEF ReleaseReads, ReleaseStep, ReleaseCompletes, ReleaseDevices, ReleaseEnds,
       runtimeVars, deviceVars, eventVars
  <2> QED
    BY <2>1, StillUndisturbed, StreamQuiet
<1> QED
  BY <1>1, <1>2, StreamRead, StreamEvent, StreamFile, StreamGamepad DEF Next

\* The driver and the client together implement the stream of events: no event
\* reaches a runtime twice or after a newer one, whatever is canceled, ended or
\* opened again, and while the runtime reads none is skipped.
THEOREM StreamImplemented == Spec => ImplementsStream
<1> DEFINE Inv == TypeInv /\ HoldInv /\ OrderInv /\ RisingInv
<1>1. Init => Inv
  BY TypeInit, HoldInit, OrderInit, RisingInit
<1>2. Inv /\ [Next]_vars => Inv'
  BY TypeStep, HoldStep, OrderStep, RisingStep
<1>3. Inv /\ [Next]_vars => [Stream!StreamNext]_(Stream!streamVars)
  BY StreamStep
<1> HIDE DEF Inv
<1> QED
  BY <1>1, <1>2, <1>3, StreamStarts, PTL DEF Spec, ImplementsStream, Stream!StreamSpec
=============================================================================
