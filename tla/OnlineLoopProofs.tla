-------------------------- MODULE OnlineLoopProofs --------------------------
(***************************************************************************)
(* The online event loop is safe against being entered again: proofs for   *)
(* any number of events, runs and clicks.                                  *)
(***************************************************************************)
EXTENDS OnlineLoop, SequenceTheorems, TLAPS

\* The inductive invariant behind the lock: the call stack has one of four
\* shapes, and the lock is set from the second frame on.
StackShape == stack \in Seq({"yield", "event"}) /\ NestsOnce
LockShape  == onlineEventLock \in BOOLEAN /\ (onlineEventLock <=> Len(stack) >= 2)
LockInv    == StackShape /\ LockShape

\* cm_yield runs at the bottom of the stack or inside an event's wait, and
\* an event waits on top of one cm_yield only.
LEMMA Tops ==
  ASSUME StackShape
  PROVE  /\ Len(stack) \in 0 .. 3
         /\ InYield => Len(stack) \in {1, 3}
         /\ Waiting => Len(stack) = 2
<1>1. Len(stack) \in Nat /\ Len(stack) <= 3 /\ DOMAIN stack = 1 .. Len(stack)
  BY DEF StackShape, NestsOnce
<1>2. stack # <<>> => Len(stack) \in 1 .. 3 /\ Len(stack) \in DOMAIN stack
  BY <1>1 DEF StackShape
<1>3. stack # <<>> => Top = IF Len(stack) = 2 THEN "event" ELSE "yield"
  BY <1>2 DEF StackShape, NestsOnce, Top
<1>4. QED
  BY <1>1, <1>2, <1>3 DEF InYield, Waiting

\* Pushing the frame that fits keeps the stack in shape, and so does popping.
LEMMA Push ==
  ASSUME StackShape, NEW f,
         \/ f = "yield" /\ Len(stack) \in {0, 2}
         \/ f = "event" /\ Len(stack) = 1,
         stack' = Append(stack, f)
  PROVE  StackShape' /\ Len(stack') = Len(stack) + 1
BY DEF StackShape, NestsOnce

\* A handler returns.
LEMMA PopFrame ==
  ASSUME StackShape, Len(stack) \in {1, 2, 3}, stack' = Pop
  PROVE  StackShape' /\ Len(stack') = Len(stack) - 1
<1>1. Len(stack') = Len(stack) - 1
  <2>1. Len(stack) - 1 \in 0 .. 2 /\ 1 \in Int
    OBVIOUS
  <2>2. \A i \in 1 .. Len(stack) - 1 : stack[i] \in {"yield", "event"}
    BY <2>1 DEF StackShape
  <2>3. Len(Pop) = IF 1 <= Len(stack) - 1 THEN (Len(stack) - 1) - 1 + 1 ELSE 0
    BY <2>1, <2>2, SubSeqProperties DEF Pop
  <2>4. QED
    BY <2>1, <2>3
<1>2. StackShape'
  BY DEF StackShape, NestsOnce, Pop
<1>3. QED
  BY <1>1, <1>2

\* Every step of the experiment, the user and the main thread keeps the lock
\* in step with the call stack.
LEMMA LockStep ==
  ASSUME LockInv, [Next]_vars
  PROVE  LockInv'
<1>1. StackShape /\ LockShape
  BY DEF LockInv
<1>2. ASSUME UNCHANGED <<stack, onlineEventLock>> PROVE LockInv'
  BY <1>1, <1>2 DEF LockInv, StackShape, NestsOnce, LockShape
<1>3. CASE Poll
  <2>1. Len(stack) \in {0, 2}
    BY <1>1, <1>3, Tops DEF Poll, Dispatching, StackShape
  <2>2. stack' = Append(stack, "yield") /\ UNCHANGED onlineEventLock
    BY <1>3 DEF Poll
  <2>3. QED
    BY <1>1, <2>1, <2>2, Push DEF LockInv, LockShape
<1>4. CASE PollReturns
  <2>1. Len(stack) \in {1, 3}
    BY <1>1, <1>4, Tops DEF PollReturns
  <2>2. stack' = Pop /\ UNCHANGED onlineEventLock
    BY <1>4 DEF PollReturns
  <2>3. StackShape' /\ Len(stack') = Len(stack) - 1
    BY <1>1, <2>1, <2>2, PopFrame
  <2>4. Len(stack') >= 2 <=> Len(stack) >= 2
    BY <2>1, <2>3
  <2>5. QED
    BY <1>1, <2>2, <2>3, <2>4 DEF LockInv, LockShape
<1>5. CASE WaitEnds
  <2>1. Len(stack) = 2
    BY <1>1, <1>5, Tops DEF WaitEnds
  <2>2. stack' = Pop /\ onlineEventLock' = FALSE
    BY <1>5 DEF WaitEnds
  <2>3. StackShape' /\ Len(stack') = 1
    BY <1>1, <2>1, <2>2, PopFrame
  <2>4. ~(Len(stack') >= 2)
    BY <2>3
  <2>5. QED
    BY <2>2, <2>3, <2>4 DEF LockInv, LockShape
<1>6. CASE OnlineEventHandler
  <2>1. Len(stack) \in {1, 3}
    BY <1>1, <1>6, Tops DEF OnlineEventHandler
  <2>2. \/ UNCHANGED <<stack, onlineEventLock>>
        \/ ~onlineEventLock /\ UNCHANGED stack /\ onlineEventLock' = FALSE
        \/ /\ ~onlineEventLock
           /\ stack' = Append(stack, "event")
           /\ onlineEventLock' = TRUE
    BY <1>6 DEF OnlineEventHandler, Busy, Drop, ProcessEvent, DisplayPaused
  <2>3. CASE ~onlineEventLock /\ UNCHANGED stack /\ onlineEventLock' = FALSE
    BY <1>1, <2>3 DEF LockInv, StackShape, NestsOnce, LockShape
  <2>4. CASE /\ ~onlineEventLock
             /\ stack' = Append(stack, "event")
             /\ onlineEventLock' = TRUE
    <3>1. Len(stack) = 1
      BY <1>1, <2>1, <2>4 DEF LockShape
    <3>2. QED
      BY <1>1, <2>4, <3>1, Push DEF LockInv, LockShape
  <2>5. QED
    BY <1>2, <2>2, <2>3, <2>4
<1>7. CASE \/ Connect \/ ConnectFails \/ LeaveRun \/ Finalize
           \/ CheckTransitions \/ User \/ Daq \/ Done \/ UNCHANGED vars
  <2>1. UNCHANGED <<stack, onlineEventLock>>
    BY <1>7 DEF Connect, ConnectFails, LeaveRun, Finalize, CheckTransitions,
                User, Daq, Done, vars
  <2>2. QED
    BY <1>2, <2>1
<1>8. QED
  BY <1>3, <1>4, <1>5, <1>6, <1>7 DEF Next, MainThread

\* The lock and the call stack agree in every reachable state.
LEMMA LockInvariant == Spec => []LockInv
<1>1. Init => LockInv
  <2> SUFFICES ASSUME Init PROVE LockInv
    OBVIOUS
  <2>1. stack = <<>> /\ onlineEventLock = FALSE
    BY DEF Init
  <2>2. StackShape /\ ~(Len(stack) >= 2)
    BY <2>1 DEF StackShape, NestsOnce
  <2>3. QED
    BY <2>1, <2>2 DEF LockInv, LockShape
<1>2. QED
  BY <1>1, LockStep, PTL DEF Spec

\* The handlers nest once and no deeper, whatever arrives while the display
\* is paused.
THEOREM NestingBounded == Spec => []NestsOnce
<1>1. LockInv => NestsOnce
  BY DEF LockInv, StackShape
<1>2. QED
  BY <1>1, LockInvariant, PTL

\* At most one event is processed at a time although onlineEventHandler is
\* entered again.
THEOREM OneEvent == Spec => []OneEventAtATime
<1>1. LockInv => OneEventAtATime
  BY DEF LockInv, StackShape, NestsOnce, OneEventAtATime, EventFrames
<1>2. QED
  BY <1>1, LockInvariant, PTL

\* onlineEventLock is set exactly while an event is being processed.
THEOREM LockAgrees == Spec => []LockFollowsStack
<1>1. LockInv => LockFollowsStack
  BY DEF LockInv, StackShape, LockShape, NestsOnce, LockFollowsStack, EventFrames
<1>2. QED
  BY <1>1, LockInvariant, PTL

-----------------------------------------------------------------------------
\* Every step keeps the plots those of the event in the title: plots come
\* from the cached event, and that is a copy with data of its own.
LEMMA PlotStep ==
  ASSUME CachedOwnsData, PlotsMatchTitle, [Next]_vars
  PROVE  CachedOwnsData' /\ PlotsMatchTitle'
<1>1. ASSUME NEW b, UpdatePlotsAction(fCachedDataContainer, b)
      PROVE  PlotsMatchTitle'
  BY <1>1 DEF UpdatePlotsAction, CachedOwnsData, PlotsMatchTitle, Data, Null
<1>2. ASSUME RunHandler \/ UNCHANGED shown PROVE PlotsMatchTitle'
  BY <1>1, <1>2 DEF RunHandler, PlotsMatchTitle
<1>3. ASSUME UNCHANGED fCachedDataContainer PROVE CachedOwnsData'
  BY <1>3 DEF CachedOwnsData
<1>4. CASE \/ Connect \/ ConnectFails \/ LeaveRun \/ Finalize
           \/ CheckTransitions \/ Poll \/ PollReturns \/ WaitEnds
  <2>1. UNCHANGED fCachedDataContainer
    BY <1>4 DEF Connect, ConnectFails, LeaveRun, Finalize, CheckTransitions,
                Poll, PollReturns, WaitEnds, display
  <2>2. RunHandler \/ UNCHANGED shown
    BY <1>4 DEF Connect, ConnectFails, LeaveRun, Finalize, CheckTransitions,
                Poll, PollReturns, WaitEnds, display,
                OnlineBeginRunHandler, OnlineEndRunHandler
  <2>3. QED
    BY <1>2, <1>3, <2>1, <2>2
<1>5. CASE User
  <2>1. UNCHANGED fCachedDataContainer
    BY <1>5 DEF User
  <2>2. UpdatePlotsAction(fCachedDataContainer, received) \/ UNCHANGED shown
    BY <1>5 DEF User, PauseResumeButton, QuitButton, EventSkipButton,
                SelectTab, ResetButton, MainWindowExit
  <2>3. QED
    BY <1>1, <1>2, <1>3, <2>1, <2>2
<1>6. CASE Daq \/ Done \/ UNCHANGED vars
  BY <1>6, <1>2, <1>3 DEF Daq, Done, vars, display
<1>7. ASSUME NEW e, DisplayEvent(e)
      PROVE  CachedOwnsData' /\ PlotsMatchTitle'
  <2> DEFINE c == Copy(MakeEvent(e), e.id)
  <2>1. c.fAllocatedByUs /\ c.fData = e.id /\ c.header = e.id
    BY DEF Copy, MakeEvent, Data
  <2>2. CachedOwnsData'
    BY <1>7, <2>1 DEF DisplayEvent, CachedOwnsData
  <2>3. UpdatePlotsAction(c, e.id) \/ UNCHANGED shown
    BY <1>7 DEF DisplayEvent
  <2>4. PlotsMatchTitle'
    BY <2>1, <2>3 DEF UpdatePlotsAction, PlotsMatchTitle, Data
  <2>5. QED
    BY <2>2, <2>4
<1>8. ASSUME NEW e, DisplayPaused(e)
      PROVE  CachedOwnsData' /\ PlotsMatchTitle'
  BY <1>1, <1>3, <1>8 DEF DisplayPaused
<1>9. CASE OnlineEventHandler
  <2> DEFINE e == Head(buffer)
  <2>1. UNCHANGED display \/ DisplayEvent(e) \/ DisplayPaused(e)
    BY <1>9 DEF OnlineEventHandler, Drop, ProcessEvent
  <2>2. CASE UNCHANGED display
    BY <2>2, <1>2, <1>3 DEF display
  <2>3. QED
    BY <2>1, <2>2, <1>7, <1>8
<1>10. QED
  BY <1>4, <1>5, <1>6, <1>9 DEF Next, MainThread

\* The display's cached event never shares MIDAS's buffer.
THEOREM CachedCorrect == Spec => []CachedOwnsData
<1>1. Init => CachedOwnsData /\ PlotsMatchTitle
  BY DEF Init, CachedOwnsData, PlotsMatchTitle
<1>2. QED
  BY <1>1, PlotStep, PTL DEF Spec

\* The plots are those of the event that the title names, however often MIDAS
\* overwrites its buffer.
THEOREM PlotsCorrect == Spec => []PlotsMatchTitle
<1>1. Init => CachedOwnsData /\ PlotsMatchTitle
  BY DEF Init, CachedOwnsData, PlotsMatchTitle
<1>2. QED
  BY <1>1, PlotStep, PTL DEF Spec
-----------------------------------------------------------------------------
(***************************************************************************)
(* Events are filled into the file of their own run.  The file that is     *)
(* open may be one of an earlier run, but then the transitions still in    *)
(* the fifo will close it or open the right one (FileWillFit), and while   *)
(* they are there no event comes: those in the buffer are of this run, and *)
(* so is the file (BufferFits).                                            *)
(***************************************************************************)
Transition == [transition : {"TR_START", "TR_STOP", "TR_PAUSE", "TR_RESUME"},
               run : Nat]
Event == [id : Nat, run : Nat, wanted : BOOLEAN]

MidasTyped ==
  /\ daqRun \in Nat /\ sent \in Nat
  /\ fifo \in Seq(Transition) /\ buffer \in Seq(Event)
  /\ filled \in Seq([id : Nat, run : Nat, file : Nat])
  /\ fOutputFile \in Nat

\* A file that is open, if there is one, is that of the experiment's run.
FileFits == fOutputFile \in {0, daqRun}

\* Entry i of the fifo makes the file fit when it is handled.
MakesFit(i) ==
  \/ fifo[i].transition = "TR_STOP"
  \/ fifo[i].transition = "TR_START" /\ fifo[i].run = daqRun

\* Whatever does not fit, now or when an entry is handled, is put right by a
\* later entry.
FileWillFit ==
  /\ FileFits \/ \E j \in 1 .. Len(fifo) : MakesFit(j)
  /\ \A i \in 1 .. Len(fifo) :
       fifo[i].transition = "TR_START" =>
         fifo[i].run = daqRun \/ \E j \in i + 1 .. Len(fifo) : MakesFit(j)

\* While there are events, the file fits and no entry of the fifo changes it
\* to another run's.
BufferFits ==
  buffer # <<>> =>
    /\ FileFits
    /\ \A i \in 1 .. Len(fifo) :
         fifo[i].transition = "TR_START" => fifo[i].run = daqRun
    /\ \A i \in 1 .. Len(buffer) : buffer[i].run = daqRun

OwnRunInv ==
  /\ MidasTyped
  /\ Prompt => FileWillFit /\ BufferFits
  /\ FilledInOwnRun

\* A step that leaves the fifo, the run, the file, the buffer and the events
\* filled alone keeps the invariant.
LEMMA OwnRunStutters ==
  ASSUME OwnRunInv,
         UNCHANGED <<kind, daqRun, sent, fifo, buffer, fOutputFile, filled>>
  PROVE  OwnRunInv'
<1> USE DEF OwnRunInv, kind
<1>1. MidasTyped' /\ FilledInOwnRun'
  BY DEF MidasTyped, FilledInOwnRun
<1>2. Prompt' => FileWillFit'
  BY DEF FileWillFit, FileFits, MakesFit
<1>3. Prompt' => BufferFits'
  BY DEF BufferFits, FileFits
<1>4. QED
  BY <1>1, <1>2, <1>3

\* A step that opens a file for the experiment's run, or closes it, keeps it.
LEMMA OwnRunFile ==
  ASSUME OwnRunInv, UNCHANGED <<kind, daqRun, sent, fifo, buffer, filled>>,
         FileFits'
  PROVE  OwnRunInv'
<1> USE DEF OwnRunInv, kind
<1>1. MidasTyped' /\ FilledInOwnRun'
  BY DEF MidasTyped, FilledInOwnRun, FileFits
<1>2. Prompt' => FileWillFit'
  BY DEF FileWillFit, MakesFit
<1>3. Prompt' => BufferFits'
  BY DEF BufferFits
<1>4. QED
  BY <1>1, <1>2, <1>3

\* A transition of the experiment: a start, of a new run and with no events of
\* the last one left, a stop, or one the program does not handle.
LEMMA OwnRunTransition ==
  ASSUME OwnRunInv, NEW t \in Transition, fifo' = Append(fifo, t),
         UNCHANGED <<kind, sent, buffer, fOutputFile, filled>>, daqRun' \in Nat,
         \/ /\ t.transition = "TR_START" /\ t.run = daqRun'
            /\ Prompt => buffer = <<>>
         \/ t.transition # "TR_START" /\ daqRun' = daqRun
  PROVE  OwnRunInv'
<1>1. MidasTyped
  BY DEF OwnRunInv
<1> PICK n \in Nat : n = Len(fifo) + 1
  BY <1>1 DEF MidasTyped
<1>2. /\ n \in Nat /\ n \in 1 .. n /\ Len(fifo) \in Nat
      /\ fifo' \in Seq(Transition) /\ Len(fifo') = n /\ fifo'[n] = t
      /\ \A i \in 1 .. Len(fifo) : fifo'[i] = fifo[i]
  BY <1>1 DEF MidasTyped
<1>3. \A i \in 1 .. n : i = n \/ i \in 1 .. Len(fifo)
  BY <1>2
<1>4. MidasTyped' /\ FilledInOwnRun'
  BY <1>1, <1>2 DEF MidasTyped, OwnRunInv, FilledInOwnRun, kind
<1>5. CASE \/ t.transition = "TR_START" /\ t.run = daqRun'
           \/ t.transition = "TR_STOP" /\ daqRun' = daqRun
  <2>1. MakesFit(n)'
    BY <1>2, <1>5 DEF MakesFit
  <2>2. ASSUME NEW i \in 1 .. n, i # n PROVE n \in i + 1 .. n
    BY <1>2, <2>2
  <2>3. ASSUME NEW i \in 1 .. n, fifo'[i].transition = "TR_START"
        PROVE  fifo'[i].run = daqRun' \/ \E j \in i + 1 .. n : MakesFit(j)'
    BY <1>2, <1>5, <2>1, <2>2, <2>3
  <2>4. FileWillFit'
    BY <1>2, <2>1, <2>3 DEF FileWillFit
  <2>5. Prompt => BufferFits'
    <3>1. CASE buffer = <<>>
      BY <3>1 DEF BufferFits
    <3>2. CASE t.transition = "TR_STOP" /\ daqRun' = daqRun
      BY <1>2, <1>3, <3>2 DEF OwnRunInv, BufferFits, FileFits
    <3>3. QED
      BY <1>5, <3>1, <3>2
  <2>6. QED
    BY <1>4, <2>4, <2>5 DEF OwnRunInv, kind
<1>6. CASE t.transition \notin {"TR_START", "TR_STOP"} /\ daqRun' = daqRun
  <2>1. \A i \in 1 .. Len(fifo) : MakesFit(i)' <=> MakesFit(i)
    BY <1>2, <1>6 DEF MakesFit
  <2>2. \A i \in 1 .. Len(fifo) : i \in 1 .. n
    BY <1>2
  <2>3. Prompt => (FileFits \/ \E j \in 1 .. n : MakesFit(j)')
    BY <2>1, <2>2 DEF OwnRunInv, FileWillFit
  <2>4. ASSUME Prompt, NEW i \in 1 .. n, fifo'[i].transition = "TR_START"
        PROVE  fifo'[i].run = daqRun' \/ \E j \in i + 1 .. n : MakesFit(j)'
    <3>1. i \in 1 .. Len(fifo) /\ fifo[i].transition = "TR_START"
      BY <1>2, <1>3, <1>6, <2>4
    <3>2. CASE fifo[i].run = daqRun
      BY <1>2, <1>6, <3>1, <3>2
    <3>3. CASE \E j \in i + 1 .. Len(fifo) : MakesFit(j)
      <4>1. PICK j \in i + 1 .. Len(fifo) : MakesFit(j)
        BY <3>3
      <4>2. j \in 1 .. Len(fifo) /\ j \in i + 1 .. n
        BY <1>2, <3>1
      <4>3. QED
        BY <2>1, <4>1, <4>2
    <3>4. QED
      BY <2>4, <3>1, <3>2, <3>3 DEF OwnRunInv, FileWillFit
  <2>5. Prompt => FileWillFit'
    BY <1>2, <1>6, <2>3, <2>4 DEF FileWillFit, FileFits
  <2>6. Prompt => BufferFits'
    BY <1>2, <1>3, <1>6 DEF OwnRunInv, BufferFits, FileFits
  <2>7. QED
    BY <1>4, <2>5, <2>6 DEF OwnRunInv, kind
<1>7. QED
  BY <1>5, <1>6 DEF Transition

\* The program handles the first transition of the fifo.
LEMMA OwnRunHandled ==
  ASSUME OwnRunInv, fifo # <<>>, fifo' = Tail(fifo),
         UNCHANGED <<kind, daqRun, sent, buffer, filled>>,
         fOutputFile' \in Nat,
         CASE Head(fifo).transition = "TR_START" -> fOutputFile' \in {0, Head(fifo).run}
           [] Head(fifo).transition = "TR_STOP" -> fOutputFile' = 0
           [] OTHER -> fOutputFile' = fOutputFile
  PROVE  OwnRunInv'
<1> DEFINE m == Len(fifo) - 1
<1>1. MidasTyped
  BY DEF OwnRunInv
<1>2. /\ Len(fifo) \in Nat /\ m \in Nat /\ 1 \in 1 .. Len(fifo)
      /\ fifo' \in Seq(Transition) /\ Len(fifo') = m /\ Head(fifo) = fifo[1]
      /\ \A i \in 1 .. m : fifo'[i] = fifo[i + 1]
  BY <1>1 DEF MidasTyped
<1>3. \A i \in 1 .. m : i + 1 \in 1 .. Len(fifo)
  BY <1>2
<1>4. \A j \in 2 .. Len(fifo) : j - 1 \in 1 .. m /\ (j - 1) + 1 = j
  BY <1>2
<1>5. MidasTyped' /\ FilledInOwnRun'
  BY <1>1, <1>2 DEF MidasTyped, OwnRunInv, FilledInOwnRun, kind
<1>6. \A i \in 1 .. m : MakesFit(i)' <=> MakesFit(i + 1)
  BY <1>2 DEF MakesFit
<1>7. ASSUME Prompt PROVE FileWillFit'
  <2>1. FileWillFit
    BY <1>7 DEF OwnRunInv
  <2>2. (\E j \in 2 .. Len(fifo) : MakesFit(j)) => \E j \in 1 .. m : MakesFit(j)'
    <3>1. ASSUME NEW j \in 2 .. Len(fifo), MakesFit(j) PROVE MakesFit(j - 1)'
      BY <1>4, <1>6, <3>1
    <3>2. QED
      BY <1>4, <3>1
  <2>3. FileFits' \/ \E j \in 1 .. m : MakesFit(j)'
    <3>1. CASE fifo[1].transition = "TR_START"
      BY <1>2, <2>1, <2>2, <3>1 DEF FileWillFit, FileFits
    <3>2. CASE fifo[1].transition = "TR_STOP"
      BY <1>2, <3>2 DEF FileFits
    <3>3. CASE fifo[1].transition \notin {"TR_START", "TR_STOP"}
      <4>1. ~MakesFit(1)
        BY <3>3 DEF MakesFit
      <4>2. \A j \in 1 .. Len(fifo) : j = 1 \/ j \in 2 .. Len(fifo)
        BY <1>2
      <4>3. FileFits \/ \E j \in 1 .. m : MakesFit(j)'
        BY <2>1, <2>2, <4>1, <4>2 DEF FileWillFit
      <4>4. QED
        BY <1>2, <3>3, <4>3 DEF FileFits
    <3>4. QED
      BY <3>1, <3>2, <3>3
  <2>4. ASSUME NEW i \in 1 .. m, fifo'[i].transition = "TR_START"
        PROVE  fifo'[i].run = daqRun' \/ \E j \in i + 1 .. m : MakesFit(j)'
    <3>1. \/ fifo[i + 1].run = daqRun
          \/ \E j \in (i + 1) + 1 .. Len(fifo) : MakesFit(j)
      BY <1>2, <1>3, <2>1, <2>4 DEF FileWillFit
    <3>2. ASSUME NEW j \in (i + 1) + 1 .. Len(fifo), MakesFit(j)
          PROVE  \E k \in i + 1 .. m : MakesFit(k)'
      <4>1. j \in 2 .. Len(fifo) /\ j - 1 \in i + 1 .. m
        BY <1>2
      <4>2. QED
        BY <1>4, <1>6, <3>2, <4>1
    <3>3. QED
      BY <1>2, <3>1, <3>2
  <2>5. QED
    BY <1>2, <2>3, <2>4 DEF FileWillFit
<1>8. ASSUME Prompt PROVE BufferFits'
  <2>1. CASE buffer # <<>>
    <3>1. /\ FileFits /\ \A i \in 1 .. Len(buffer) : buffer[i].run = daqRun
          /\ \A i \in 1 .. Len(fifo) :
               fifo[i].transition = "TR_START" => fifo[i].run = daqRun
      BY <1>8, <2>1 DEF OwnRunInv, BufferFits
    <3>2. FileFits'
      BY <1>2, <3>1 DEF FileFits
    <3>3. QED
      BY <1>2, <1>3, <3>1, <3>2 DEF BufferFits
  <2>2. QED
    BY <2>1 DEF BufferFits
<1>9. QED
  BY <1>5, <1>7, <1>8 DEF OwnRunInv, kind

\* The experiment sends an event: with nothing in the fifo the file fits.
LEMMA OwnRunSent ==
  ASSUME OwnRunInv, DaqEvent, UNCHANGED <<kind, fOutputFile, filled>>
  PROVE  OwnRunInv'
<1>1. MidasTyped
  BY DEF OwnRunInv
<1>2. PICK e \in Event : buffer' = Append(buffer, e) /\ e.run = daqRun
  <2>1. PICK wanted \in BOOLEAN :
          buffer' = Append(buffer, [id |-> sent + 1, run |-> daqRun, wanted |-> wanted])
    BY DEF DaqEvent
  <2>2. [id |-> sent + 1, run |-> daqRun, wanted |-> wanted] \in Event
    BY <1>1 DEF MidasTyped, Event
  <2>3. QED
    BY <2>1, <2>2
<1>3. /\ UNCHANGED <<daqRun, fifo>> /\ sent' \in Nat
      /\ Prompt => fifo = <<>>
  BY <1>1 DEF DaqEvent, MidasTyped
<1>4. /\ buffer' \in Seq(Event) /\ Len(buffer') = Len(buffer) + 1
      /\ buffer'[Len(buffer) + 1] = e
      /\ \A i \in 1 .. Len(buffer) : buffer'[i] = buffer[i]
  BY <1>1, <1>2 DEF MidasTyped
<1>5. MidasTyped' /\ FilledInOwnRun'
  BY <1>1, <1>3, <1>4 DEF MidasTyped, OwnRunInv, FilledInOwnRun, kind
<1>6. ASSUME Prompt PROVE FileWillFit' /\ BufferFits'
  <2>1. FileWillFit /\ BufferFits /\ Len(fifo) = 0
    BY <1>3, <1>6 DEF OwnRunInv
  <2>2. FileFits
    BY <2>1 DEF FileWillFit
  <2>3. FileFits' /\ Len(fifo') = 0
    BY <1>3, <2>1, <2>2 DEF FileFits
  <2>4. \A i \in 1 .. Len(buffer) : buffer[i].run = daqRun
    BY <1>1, <2>1 DEF BufferFits, MidasTyped
  <2>5. \A i \in 1 .. Len(buffer') : i = Len(buffer) + 1 \/ i \in 1 .. Len(buffer)
    BY <1>1, <1>4 DEF MidasTyped
  <2>6. \A i \in 1 .. Len(buffer') : buffer'[i].run = daqRun'
    BY <1>2, <1>3, <1>4, <2>4, <2>5
  <2>7. FileWillFit'
    BY <2>3 DEF FileWillFit
  <2>8. BufferFits'
    BY <2>3, <2>6 DEF BufferFits
  <2>9. QED
    BY <2>7, <2>8
<1>7. QED
  BY <1>5, <1>6 DEF OwnRunInv, kind

\* The handler takes an event from the buffer: if it fills it, the file is
\* open and fits, and the event is of the same run.
LEMMA OwnRunFilled ==
  ASSUME OwnRunInv, OnlineEventHandler, UNCHANGED kind
  PROVE  OwnRunInv'
<1> DEFINE e == Head(buffer)
<1>1. MidasTyped /\ FilledInOwnRun
  BY DEF OwnRunInv
<1>2. /\ buffer # <<>> /\ buffer' = Tail(buffer)
      /\ UNCHANGED <<daqRun, fifo, sent, fOutputFile>>
  BY DEF OnlineEventHandler, loop
<1>3. \/ UNCHANGED filled
      \/ Fill(e) /\ ~FileMissing
  BY DEF OnlineEventHandler, Drop, ProcessEvent, DisplayPaused
<1>4. /\ Len(buffer) \in Nat /\ Len(buffer) > 0 /\ e \in Event /\ e = buffer[1]
      /\ buffer' \in Seq(Event) /\ Len(buffer') = Len(buffer) - 1
      /\ \A i \in 1 .. Len(buffer') : buffer'[i] = buffer[i + 1]
  BY <1>1, <1>2 DEF MidasTyped
<1>5. ASSUME Prompt PROVE FileFits /\ \A i \in 1 .. Len(buffer) : buffer[i].run = daqRun
  BY <1>2, <1>5 DEF OwnRunInv, BufferFits
<1>6. MidasTyped' /\ FilledInOwnRun'
  <2>1. CASE UNCHANGED filled
    BY <1>1, <1>2, <1>4, <2>1 DEF MidasTyped, FilledInOwnRun, kind
  <2>2. CASE Fill(e) /\ ~FileMissing
    <3> DEFINE f == [id |-> e.id, run |-> e.run, file |-> fOutputFile]
    <3>1. f \in [id : Nat, run : Nat, file : Nat]
      BY <1>1, <1>4 DEF MidasTyped, Event
    <3>2. /\ filled' \in Seq([id : Nat, run : Nat, file : Nat])
          /\ Len(filled') = Len(filled) + 1 /\ filled'[Len(filled) + 1] = f
          /\ \A i \in 1 .. Len(filled) : filled'[i] = filled[i]
      BY <1>1, <2>2, <3>1 DEF MidasTyped, Fill
    <3>3. MidasTyped'
      BY <1>1, <1>2, <1>4, <3>2 DEF MidasTyped
    <3>4. ASSUME Prompt, ~Display PROVE f.file = f.run
      <4>1. fOutputFile = daqRun
        BY <1>5, <2>2, <3>4 DEF FileFits, FileMissing
      <4>2. e.run = daqRun
        BY <1>4, <1>5, <3>4
      <4>3. QED
        BY <4>1, <4>2
    <3> HIDE DEF f
    <3>5. \A i \in 1 .. Len(filled') : i = Len(filled) + 1 \/ i \in 1 .. Len(filled)
      BY <1>1, <3>2 DEF MidasTyped
    <3>6. DOMAIN filled = 1 .. Len(filled) /\ DOMAIN filled' = 1 .. Len(filled')
      BY <1>1, <3>2 DEF MidasTyped
    <3>7. FilledInOwnRun'
      BY <1>1, <3>2, <3>4, <3>5, <3>6 DEF FilledInOwnRun, kind
    <3>8. QED
      BY <3>3, <3>7
  <2>3. QED
    BY <1>3, <2>1, <2>2
<1>7. ASSUME Prompt PROVE FileWillFit' /\ BufferFits'
  <2>1. FileWillFit'
    BY <1>2, <1>7 DEF OwnRunInv, FileWillFit, FileFits, MakesFit
  <2>2. \A i \in 1 .. Len(buffer') : i + 1 \in 1 .. Len(buffer)
    BY <1>4
  <2>3. \A i \in 1 .. Len(buffer') : buffer'[i].run = daqRun
    BY <1>4, <1>5, <1>7, <2>2
  <2>4. BufferFits'
    BY <1>2, <1>7, <2>3 DEF OwnRunInv, BufferFits, FileFits
  <2>5. QED
    BY <2>1, <2>4
<1>8. QED
  BY <1>6, <1>7 DEF OwnRunInv, kind

\* Every step keeps events and files of the same run together.
LEMMA OwnRunStep ==
  ASSUME OwnRunInv, [Next]_vars
  PROVE  OwnRunInv'
<1>1. MidasTyped
  BY DEF OwnRunInv
<1>2. CASE UNCHANGED vars
  BY <1>2, OwnRunStutters DEF vars, kind, midas, loop
<1>3. ASSUME UNCHANGED kind, Connect \/ LeaveRun PROVE OwnRunInv'
  <2>1. UNCHANGED <<daqRun, sent, fifo, buffer, filled>>
    BY <1>3 DEF Connect, LeaveRun, midas
  <2>2. FileFits'
    BY <1>3, <2>1 DEF Connect, LeaveRun, OpenRootFile, CloseRootFile, FileFits
  <2>3. QED
    BY <1>3, <2>1, <2>2, OwnRunFile
<1>4. ASSUME UNCHANGED kind,
             ConnectFails \/ Finalize \/ Poll \/ PollReturns \/ WaitEnds \/ Done
      PROVE  OwnRunInv'
  BY <1>4, OwnRunStutters
     DEF ConnectFails, Finalize, Poll, PollReturns, WaitEnds, Done, midas, loop
<1>5. ASSUME UNCHANGED kind, CheckTransitions PROVE OwnRunInv'
  <2>1. /\ fifo # <<>> /\ fifo' = Tail(fifo)
        /\ UNCHANGED <<daqRun, sent, buffer, filled>>
    BY <1>5 DEF CheckTransitions
  <2>2. Head(fifo) \in Transition
    BY <1>1, <2>1 DEF MidasTyped
  <2>3. /\ Head(fifo).run \in Nat
        /\ Head(fifo).transition \in {"TR_START", "TR_STOP", "TR_PAUSE", "TR_RESUME"}
    BY <2>2 DEF Transition
  <2>4. CASE Head(fifo).transition = "TR_START" /\ fOutputFile' \in {0, Head(fifo).run}
    BY <1>1, <1>5, <2>1, <2>3, <2>4, OwnRunHandled DEF MidasTyped
  <2>5. CASE Head(fifo).transition = "TR_STOP" /\ fOutputFile' = 0
    BY <1>1, <1>5, <2>1, <2>5, OwnRunHandled DEF MidasTyped
  <2>6. CASE /\ Head(fifo).transition \in {"TR_PAUSE", "TR_RESUME"}
             /\ UNCHANGED fOutputFile
    BY <1>1, <1>5, <2>1, <2>6, OwnRunHandled DEF MidasTyped
  <2>7. QED
    BY <1>5, <2>3, <2>4, <2>5, <2>6
       DEF CheckTransitions, OnlineBeginRunHandler, OnlineEndRunHandler,
           OpenRootFile, CloseRootFile, loop
<1>6. ASSUME UNCHANGED kind, Daq PROVE OwnRunInv'
  <2>1. UNCHANGED <<fOutputFile, filled>>
    BY <1>6 DEF Daq, loop
  <2>2. CASE DaqEvent
    BY <1>6, <2>1, <2>2, OwnRunSent
  <2>3. CASE DaqStart
    <3> DEFINE t == [transition |-> "TR_START", run |-> daqRun + 1]
    <3>1. /\ t \in Transition /\ t.transition = "TR_START" /\ t.run = daqRun'
          /\ fifo' = Append(fifo, t) /\ daqRun' \in Nat
          /\ UNCHANGED <<sent, buffer>> /\ (Prompt => buffer = <<>>)
      BY <1>1, <2>3 DEF DaqStart, MidasTyped, Transition
    <3> HIDE DEF t
    <3>2. QED
      BY <1>6, <2>1, <3>1, OwnRunTransition
  <2>4. CASE DaqStop
    <3> DEFINE t == [transition |-> "TR_STOP", run |-> daqRun]
    <3>1. /\ t \in Transition /\ t.transition # "TR_START"
          /\ fifo' = Append(fifo, t) /\ daqRun' = daqRun /\ daqRun' \in Nat
          /\ UNCHANGED <<sent, buffer>>
      BY <1>1, <2>4 DEF DaqStop, MidasTyped, Transition
    <3> HIDE DEF t
    <3>2. QED
      BY <1>6, <2>1, <3>1, OwnRunTransition
  <2>5. CASE DaqPause
    <3>1. PICK p \in {"TR_PAUSE", "TR_RESUME"} :
            fifo' = Append(fifo, [transition |-> p, run |-> daqRun])
      BY <2>5 DEF DaqPause
    <3> DEFINE t == [transition |-> p, run |-> daqRun]
    <3>2. /\ t \in Transition /\ t.transition # "TR_START"
          /\ fifo' = Append(fifo, t) /\ daqRun' = daqRun /\ daqRun' \in Nat
          /\ UNCHANGED <<sent, buffer>>
      BY <1>1, <2>5, <3>1 DEF DaqPause, MidasTyped, Transition
    <3> HIDE DEF t
    <3>3. QED
      BY <1>6, <2>1, <3>2, OwnRunTransition
  <2>6. CASE DaqShutdown
    BY <1>6, <2>1, <2>6, OwnRunStutters DEF DaqShutdown
  <2>7. QED
    BY <1>6, <2>2, <2>3, <2>4, <2>5, <2>6 DEF Daq
<1>7. ASSUME UNCHANGED kind, User PROVE OwnRunInv'
  <2>1. UNCHANGED <<daqRun, sent, fifo, buffer, fOutputFile>>
    BY <1>7 DEF User, midas, loop
  <2>2. CASE UNCHANGED filled
    BY <1>7, <2>1, <2>2, OwnRunStutters
  <2>3. CASE filled' = <<>>
    <3>1. MidasTyped' /\ FilledInOwnRun'
      BY <1>1, <2>1, <2>3 DEF MidasTyped, FilledInOwnRun
    <3>2. Prompt => FileWillFit' /\ BufferFits'
      BY <2>1 DEF OwnRunInv, FileWillFit, BufferFits, FileFits, MakesFit
    <3>3. QED
      BY <1>7, <3>1, <3>2 DEF OwnRunInv, kind
  <2>4. QED
    BY <1>7, <2>2, <2>3 DEF User, PauseResumeButton, QuitButton, EventSkipButton,
       SelectTab, ResetButton, MainWindowExit
<1>8. QED
  BY <1>2, <1>3, <1>4, <1>5, <1>6, <1>7, OwnRunFilled DEF Next, MainThread

\* Handled promptly, every event is filled into the open file of its own run,
\* for any number of runs, events and transitions that pile up in the fifo.
THEOREM FilledCorrect == Spec => []FilledInOwnRun
<1>1. Init => OwnRunInv
  <2> SUFFICES ASSUME Init PROVE OwnRunInv
    OBVIOUS
  <2>1. /\ daqRun = 1 /\ sent = 0 /\ fifo = <<>> /\ buffer = <<>>
        /\ fOutputFile = 0 /\ filled = <<>>
    BY DEF Init
  <2>2. MidasTyped /\ FilledInOwnRun
    BY <2>1 DEF MidasTyped, FilledInOwnRun
  <2>3. FileWillFit /\ BufferFits
    BY <2>1 DEF FileWillFit, FileFits, BufferFits
  <2>4. QED
    BY <2>2, <2>3 DEF OwnRunInv
<1>2. OwnRunInv => FilledInOwnRun
  BY DEF OwnRunInv
<1>3. QED
  BY <1>1, <1>2, OwnRunStep, PTL DEF Spec
=============================================================================
