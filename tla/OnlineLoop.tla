----------------------------- MODULE OnlineLoop -----------------------------
(***************************************************************************)
(* rootana online: TRootanaEventLoop::ProcessMidasOnline and its handlers, *)
(* TMidasOnline::poll, and the display TRootanaDisplay built on them.      *)
(*                                                                         *)
(* One thread runs everything.  A timer calls poll, which handles one run  *)
(* transition or lets MIDAS (cm_yield) call back the event handler.  While *)
(* the display is paused, the handling of an event runs the GUI loop until *)
(* the user goes on, and that loop runs the timer: handlers are entered    *)
(* while an event is being processed.  The call stack is a sequence of     *)
(* frames, "yield" for cm_yield and "event" for the handler of an event.   *)
(*                                                                         *)
(* The data of an event is its number.  MIDAS hands out a pointer to its   *)
(* own receive buffer, whose contents change with the next event.          *)
(***************************************************************************)
EXTENDS Naturals, Sequences

CONSTANTS
  Displays,    \* the kinds of program, TRUE: a TRootanaDisplay, without ROOT
               \* output; FALSE: another event loop, one output file per run
  Skips,       \* settings of "Plot every Xth events"
  MaxRuns,     \* bound: runs 1 .. MaxRuns
  MaxEvents    \* bound: events sent

ASSUME OnlineAssumption ==
  /\ Displays \subseteq BOOLEAN
  /\ Skips \subseteq 1 .. 100000
  /\ MaxRuns \in Nat /\ MaxEvents \in Nat

VARIABLES
  Display,           \* the kind of program, the same all the time
  Prompt,            \* TRUE: transitions and events are handled as they come: a
                     \* run starts when the events of the last one have been
                     \* received, and brings events when its start was handled
  daqRun, running,   \* the experiment's run number and state
  fifo,              \* transitions MIDAS keeps for cm_query_transition
  buffer,            \* events MIDAS keeps for this program
  sent,              \* number of events sent
  received,          \* data in the receive buffer
  shutdown,          \* the experiment told the program to stop
  phase,             \* "start", "run" (in app->Run), "left" it, or "done"
  stack,             \* frames of the handlers being executed
  exitLoop,          \* gSystem->ExitLoop was called
  onlineEventLock, fCurrentRunNumber,
  fOutputFile,       \* run of the open output file, 0 if there is none
  filled,            \* events filled into histograms, with the file they are in
  fProcessingPaused, fQuitPushed, fNumberProcessed, fNumberSkipEventsOnline,
  fCachedDataContainer,
  shown              \* the event named in the window's title, and the data plotted

kind == <<Display, Prompt>>
midas == <<daqRun, running, fifo, buffer, sent, shutdown>>
loop == <<fCurrentRunNumber, fOutputFile>>
display == <<fNumberProcessed, fCachedDataContainer, shown>>
buttons == <<fProcessingPaused, fQuitPushed, fNumberSkipEventsOnline>>
vars == <<kind, midas, received, phase, stack, exitLoop, onlineEventLock, loop,
          filled, display, buttons>>

Null == [header |-> 0, fAllocatedByUs |-> FALSE, fData |-> 0]
Top == stack[Len(stack)]
InYield == stack # <<>> /\ Top = "yield"
Waiting == stack # <<>> /\ Top = "event"
Pop == SubSeq(stack, 1, Len(stack) - 1)

Init ==
  /\ Display \in Displays /\ Prompt \in BOOLEAN
  /\ daqRun = 1 /\ running \in BOOLEAN
  /\ fifo = <<>> /\ buffer = <<>> /\ sent = 0 /\ received = 0
  /\ shutdown = FALSE
  /\ phase = "start" /\ stack = <<>> /\ exitLoop = FALSE
  /\ onlineEventLock = FALSE
  /\ fCurrentRunNumber = 0 /\ fOutputFile = 0 /\ filled = <<>>
  /\ fProcessingPaused = FALSE /\ fQuitPushed = FALSE
  /\ fNumberSkipEventsOnline \in Skips
  /\ fNumberProcessed = 0 /\ fCachedDataContainer = Null
  /\ shown = [title |-> 0, data |-> 0]
-----------------------------------------------------------------------------
(***************************************************************************)
(* TMidasEvent and the display's cached copy of an event.                  *)
(***************************************************************************)
\* The data of an event object: its own memory, or MIDAS's buffer.
Data(e, buf) == IF e.fAllocatedByUs THEN e.fData ELSE buf

\* onlineEventHandler: the header is copied, SetData keeps the pointer.
MakeEvent(e) == [header |-> e.id, fAllocatedByUs |-> FALSE, fData |-> 0]

\* Mutant: the cached event keeps the pointer of the event it is made from.
CopyPointer(e, buf) == e

\* TMidasEvent::Copy, used by TDataContainer's copy constructor
Copy(e, buf) ==
  [header |-> e.header, fAllocatedByUs |-> TRUE, fData |-> Data(e, buf)]

\* TRootanaDisplay::UpdatePlotsAction with this cached event
UpdatePlotsAction(e, buf) ==
  shown' = IF e = Null THEN shown
           ELSE [title |-> e.header, data |-> Data(e, buf)]

\* BeginRun and EndRun: the display plots once more.
RunHandler == IF Display THEN UpdatePlotsAction(fCachedDataContainer, received)
                         ELSE UNCHANGED shown

\* DisableRootOutput(true) in the display's constructor
OpenRootFile(run) == fOutputFile' = IF Display THEN 0 ELSE run
CloseRootFile == fOutputFile' = 0
-----------------------------------------------------------------------------
(***************************************************************************)
(* MIDAS and the experiment (external).  The program answers a transition  *)
(* in cm_yield: the front-ends start after it and stop before it.          *)
(***************************************************************************)
DaqEvent ==
  /\ running
  /\ sent < MaxEvents
  /\ Prompt => fifo = <<>>
  /\ sent' = sent + 1
  /\ \E wanted \in BOOLEAN :
       buffer' = Append(buffer, [id |-> sent + 1, run |-> daqRun, wanted |-> wanted])
  /\ UNCHANGED <<daqRun, running, fifo, shutdown>>

DaqStart ==
  /\ ~running /\ daqRun < MaxRuns
  /\ InYield
  /\ Prompt => buffer = <<>>
  /\ daqRun' = daqRun + 1
  /\ running' = TRUE
  /\ fifo' = Append(fifo, [transition |-> "TR_START", run |-> daqRun + 1])
  /\ UNCHANGED <<buffer, sent, shutdown>>

DaqStop ==
  /\ running
  /\ InYield
  /\ running' = FALSE
  /\ fifo' = Append(fifo, [transition |-> "TR_STOP", run |-> daqRun])
  /\ UNCHANGED <<daqRun, buffer, sent, shutdown>>

\* Pausing and resuming a run: the program has no handlers for these.
DaqPause ==
  /\ running
  /\ InYield
  /\ fifo = <<>>
  /\ \E t \in {"TR_PAUSE", "TR_RESUME"} :
       fifo' = Append(fifo, [transition |-> t, run |-> daqRun])
  /\ UNCHANGED <<daqRun, running, buffer, sent, shutdown>>

DaqShutdown ==
  /\ ~shutdown
  /\ shutdown' = TRUE
  /\ UNCHANGED <<daqRun, running, fifo, buffer, sent>>

Daq ==
  /\ DaqEvent \/ DaqStart \/ DaqStop \/ DaqPause \/ DaqShutdown
  /\ phase # "done"
  /\ UNCHANGED <<received, phase, stack, exitLoop, onlineEventLock, loop,
                 filled, display, buttons>>
-----------------------------------------------------------------------------
(***************************************************************************)
(* ProcessMidasOnline up to app->Run, and after it.                        *)
(***************************************************************************)
Connect ==
  /\ phase = "start"
  /\ phase' = "run"
  /\ fCurrentRunNumber' = daqRun
  /\ OpenRootFile(daqRun)
  /\ RunHandler
  /\ UNCHANGED <<midas, received, stack, exitLoop, onlineEventLock, filled,
                 fNumberProcessed, fCachedDataContainer, buttons>>

ConnectFails ==
  /\ phase = "start"
  /\ phase' = "left"
  /\ UNCHANGED <<midas, received, stack, exitLoop, onlineEventLock, loop,
                 filled, display, buttons>>

\* app->Run returns: EndRun, CloseRootFile, disconnect.
LeaveRun ==
  /\ phase = "run" /\ stack = <<>> /\ exitLoop
  /\ phase' = "left"
  /\ RunHandler
  /\ CloseRootFile
  /\ UNCHANGED <<midas, received, stack, exitLoop, onlineEventLock,
                 fCurrentRunNumber, filled, fNumberProcessed,
                 fCachedDataContainer, buttons>>

\* ExecuteLoop calls Finalize last.
Finalize ==
  /\ phase = "left"
  /\ phase' = "done"
  /\ UNCHANGED <<midas, received, stack, exitLoop, onlineEventLock, loop,
                 filled, display, buttons>>
-----------------------------------------------------------------------------
(***************************************************************************)
(* What app->Run dispatches, and the GUI loop of a paused display too: the *)
(* timer with TMidasOnline::poll, and the user's clicks.                   *)
(***************************************************************************)
\* Mutant: a paused display does not look whether Quit was pushed.
StopsWaitingResumed == ~fProcessingPaused

\* The conditions that end the wait in TRootanaDisplay::ProcessMidasEvent
StopsWaiting == ~fProcessingPaused \/ fQuitPushed

Dispatching ==
  /\ phase = "run"
  /\ \/ stack = <<>> /\ ~exitLoop
     \/ Waiting /\ ~StopsWaiting

OnlineBeginRunHandler(run) ==
  /\ OpenRootFile(run)
  /\ fCurrentRunNumber' = run
  /\ RunHandler

OnlineEndRunHandler(run) ==
  /\ fCurrentRunNumber' = run
  /\ RunHandler
  /\ CloseRootFile

\* checkTransitions finds one: poll handles it and returns.
CheckTransitions ==
  /\ Dispatching
  /\ fifo # <<>>
  /\ LET t == Head(fifo) IN
       \/ t.transition = "TR_START" /\ OnlineBeginRunHandler(t.run)
       \/ t.transition = "TR_STOP" /\ OnlineEndRunHandler(t.run)
       \/ /\ t.transition \in {"TR_PAUSE", "TR_RESUME"}
          /\ UNCHANGED <<loop, shown>>
  /\ fifo' = Tail(fifo)
  /\ UNCHANGED <<daqRun, running, buffer, sent, shutdown, received, phase,
                 stack, exitLoop, onlineEventLock, filled, fNumberProcessed,
                 fCachedDataContainer, buttons>>

\* Otherwise poll calls cm_yield ...
Poll ==
  /\ Dispatching
  /\ fifo = <<>>
  /\ stack' = Append(stack, "yield")
  /\ UNCHANGED <<midas, received, phase, exitLoop, onlineEventLock, loop,
                 filled, display, buttons>>

\* Mutant: the result of poll is not looked at.
PollReturnsIgnored ==
  /\ InYield
  /\ stack' = Pop
  /\ UNCHANGED <<midas, received, phase, exitLoop, onlineEventLock, loop,
                 filled, display, buttons>>

\* ... which returns after some events: on a shutdown, poll disconnects and
\* MidasPollHandlerLocal calls ExitLoop.
PollReturns ==
  /\ InYield
  /\ stack' = Pop
  /\ exitLoop' = (exitLoop \/ shutdown)
  /\ UNCHANGED <<midas, received, phase, onlineEventLock, loop, filled,
                 display, buttons>>
-----------------------------------------------------------------------------
(***************************************************************************)
(* onlineEventHandler, called back from cm_yield with the next event.      *)
(***************************************************************************)
\* TRootanaDisplay::ProcessMidasEvent of an event while not paused
DisplayEvent(e) ==
  LET n == fNumberProcessed + 1
      c == Copy(MakeEvent(e), e.id) IN
  /\ fNumberProcessed' = n
  /\ fCachedDataContainer' = c
  /\ IF fNumberSkipEventsOnline = 1 \/ n % fNumberSkipEventsOnline = 1
     THEN UpdatePlotsAction(c, e.id)
     ELSE UNCHANGED shown

\* While paused it is not looked at: the plots of the event before are shown
\* again, and its handler waits.
DisplayPaused(e) ==
  /\ fNumberProcessed' = fNumberProcessed + 1
  /\ UpdatePlotsAction(fCachedDataContainer, e.id)
  /\ stack' = Append(stack, "event")
  /\ onlineEventLock' = TRUE
  /\ UNCHANGED <<fCachedDataContainer, filled>>

Fill(e) == filled' = Append(filled, [id |-> e.id, run |-> e.run, file |-> fOutputFile])

\* Mutant: events are handled without an open file.
FileMissingIgnored == FALSE
FileMissing == ~Display /\ fOutputFile = 0

\* Mutant: an event being processed does not keep others out.
BusyIgnored == FALSE
Busy == onlineEventLock

\* Mutant: an event that is not wanted leaves the lock set.
DropLeavesLock ==
  /\ onlineEventLock' = TRUE
  /\ UNCHANGED <<stack, filled, display>>

\* The early returns after the lock was taken: it is released.
Drop ==
  /\ onlineEventLock' = FALSE
  /\ UNCHANGED <<stack, filled, display>>

ProcessEvent(e) ==
  \/ /\ Display /\ fProcessingPaused
     /\ DisplayPaused(e)
  \/ /\ Display /\ ~fProcessingPaused
     /\ DisplayEvent(e)
     /\ Fill(e)
     /\ onlineEventLock' = FALSE
     /\ UNCHANGED stack
  \/ /\ ~Display
     /\ Fill(e)
     /\ onlineEventLock' = FALSE
     /\ UNCHANGED <<stack, display>>

OnlineEventHandler ==
  /\ InYield
  /\ buffer # <<>>
  /\ buffer' = Tail(buffer)
  /\ LET e == Head(buffer) IN
       /\ received' = e.id
       /\ \/ Busy /\ UNCHANGED <<onlineEventLock, stack, filled, display>>
          \/ ~Busy /\ (FileMissing \/ ~e.wanted) /\ Drop
          \/ ~Busy /\ ~FileMissing /\ e.wanted /\ ProcessEvent(e)
  /\ UNCHANGED <<daqRun, running, fifo, sent, shutdown, phase, exitLoop, loop,
                 buttons>>

\* The wait ends, ProcessMidasEvent and the handler return into cm_yield.
WaitEnds ==
  /\ Waiting /\ StopsWaiting
  /\ stack' = Pop
  /\ onlineEventLock' = FALSE
  /\ UNCHANGED <<midas, received, phase, exitLoop, loop, filled, display,
                 buttons>>
-----------------------------------------------------------------------------
(***************************************************************************)
(* The windows' buttons.                                                   *)
(***************************************************************************)
PauseResumeButton ==
  /\ fProcessingPaused' = ~fProcessingPaused
  /\ UNCHANGED <<fQuitPushed, fNumberSkipEventsOnline, exitLoop, filled, shown>>

\* gApplication->Terminate leaves app->Run, which was told to return.
QuitButton ==
  /\ fQuitPushed' = TRUE
  /\ exitLoop' = TRUE
  /\ UNCHANGED <<fProcessingPaused, fNumberSkipEventsOnline, filled, shown>>

EventSkipButton ==
  /\ fNumberSkipEventsOnline' \in Skips
  /\ UNCHANGED <<fProcessingPaused, fQuitPushed, exitLoop, filled, shown>>

SelectTab ==
  /\ UpdatePlotsAction(fCachedDataContainer, received)
  /\ UNCHANGED <<buttons, exitLoop, filled>>

ResetButton ==
  /\ filled' = <<>>
  /\ UpdatePlotsAction(fCachedDataContainer, received)
  /\ UNCHANGED <<buttons, exitLoop>>

\* The window of the other event loops: "Exit" and closing it call ExitLoop.
MainWindowExit ==
  /\ exitLoop' = TRUE
  /\ UNCHANGED <<buttons, filled, shown>>

User ==
  /\ Dispatching
  /\ \/ Display /\ PauseResumeButton
     \/ Display /\ QuitButton
     \/ Display /\ EventSkipButton
     \/ Display /\ SelectTab
     \/ Display /\ ResetButton
     \/ ~Display /\ MainWindowExit
  /\ UNCHANGED <<midas, received, phase, stack, onlineEventLock, loop,
                 fNumberProcessed, fCachedDataContainer>>
-----------------------------------------------------------------------------
MainThread ==
  \/ Connect \/ ConnectFails \/ LeaveRun \/ Finalize
  \/ CheckTransitions \/ Poll \/ PollReturns
  \/ OnlineEventHandler \/ WaitEnds

Done ==
  /\ phase = "done"
  /\ UNCHANGED <<midas, received, phase, stack, exitLoop, onlineEventLock, loop,
                 filled, display, buttons>>

Next ==
  /\ MainThread \/ User \/ Daq \/ Done
  /\ UNCHANGED kind

Spec == Init /\ [][Next]_vars

\* The program's only thread goes on: the timer fires every 100 ms, and
\* cm_yield returns.  The user and the experiment need not do anything.
FairSpec == Spec /\ WF_vars(MainThread /\ UNCHANGED kind)
-----------------------------------------------------------------------------
EventFrames == {i \in DOMAIN stack : stack[i] = "event"}

\* A paused display nests the handlers once and no deeper: poll's cm_yield,
\* the event it called back, and the cm_yield of a poll inside its wait.
NestsOnce ==
  /\ Len(stack) <= 3
  /\ \A i \in DOMAIN stack : stack[i] = IF i = 2 THEN "event" ELSE "yield"

\* Although handlers are entered while an event is processed, at most one
\* event is processed at a time.
OneEventAtATime == \A i, j \in EventFrames : i = j

\* Between steps the lock is set exactly while an event is being processed:
\* no return from the handler, early or nested, leaves it set or clears it
\* for the outer one.
LockFollowsStack == onlineEventLock <=> EventFrames # {}

\* The event the display caches has data of its own.
CachedOwnsData ==
  fCachedDataContainer = Null \/
    /\ fCachedDataContainer.fAllocatedByUs
    /\ fCachedDataContainer.fData = fCachedDataContainer.header

\* What the display plots is the data of the event its title names, although
\* MIDAS overwrites its buffer while a paused display still shows the event.
PlotsMatchTitle == shown.title = shown.data

\* When transitions and events are handled promptly, an event is filled into
\* the open file of its own run: what comes after the end of a run is dumped.
FilledInOwnRun ==
  Prompt /\ ~Display => \A i \in DOMAIN filled : filled[i].file = filled[i].run

\* Quit ends the program, also from within a paused display.
QuitEnds == fQuitPushed ~> phase = "done"

\* The end of the experiment ends the program, unless the user pauses it.
ShutdownEnds == shutdown ~> (phase = "done" \/ fProcessingPaused)
=============================================================================
