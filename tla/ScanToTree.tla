----------------------------- MODULE ScanToTree -----------------------------
(***************************************************************************)
(* One process of midas2root_ptf: the ScanToTreeConverter of               *)
(* midas2root/midas2root_ptf.cxx driven by the offline event loop          *)
(* TRootanaEventLoop::ProcessMidasFile.                                    *)
(*                                                                         *)
(* A scan alternates gantry moves and measurements.  The data acquisition  *)
(* marks the end of a move with a bank "EOM" and the beginning of the next *)
(* one with a bank "BONM"; in between, digitizer, Phidget and slow control *)
(* events arrive.  The converter collects the events of one measurement in *)
(* its member arrays and fills one row of its TTree when it meets BONM.    *)
(*                                                                         *)
(* Data are abstracted to stamps: the stamp of an event is its position in *)
(* the run's event stream, and an array slot holds the stamp of the event  *)
(* that was stored in it (0: never written).                               *)
(***************************************************************************)
EXTENDS Naturals, Sequences

CONSTANTS
  EventBanks,    \* the sets of banks an event may carry
  nPoints_max,   \* digitizer events the waveform arrays have room for
  Channels,      \* digitizer channels copied to the tree (0, 1, 2 in the code)
  ReadoutMasks,  \* the sets of channels a digitizer event may bring in full
  MaxEvents      \* bound: events in the run's stream

Phidgets  == <<"PH00", "PH01", "PH03", "PH04", "PA00">>
SlowBanks == {"ENVT", "CYC0", "MAG0"}
PhidgetBanks == {Phidgets[i] : i \in DOMAIN Phidgets}
Banks == {"EOM", "BONM", "V730"} \cup PhidgetBanks \cup SlowBanks

ASSUME ScanAssumption ==
  /\ EventBanks \subseteq SUBSET Banks
  /\ nPoints_max \in Nat
  /\ ReadoutMasks \subseteq SUBSET Channels
  /\ MaxEvents \in Nat

VARIABLES
  proc,          \* the process: "none", "reading" the file, or "closed" its output
  accept,        \* gbl_accept_banks
  tree,          \* the TTree: "null", "live", or "deleted" with its file
  rootFile,      \* output000<run>.root: "none", "open" (fOutputFile), "closed"
  rootRows,      \* the rows of the tree in that file
  num_points,    \* digitizer events of the current point
  evt_timestamp, \* stamp per digitizer slot
  wave,          \* stamp per channel and digitizer slot (V1730_wave0..2)
  phidg,         \* per Phidget bank, the stamps below its counter
  slow,          \* per slow control bank, the stamp of the values held
  serial,        \* events read from the run's stream so far
  still,         \* the gantry is still: the stream's last marker is EOM
  quiet,         \* stamps of the events taken while it was still
  measured,      \* those of them with digitizer or Phidget data
  lastMove       \* stamp of the last BONM

converter == <<proc, accept, tree, rootFile, rootRows, num_points,
               evt_timestamp, wave, phidg, slow>>
daq == <<serial, still, quiet, measured, lastMove>>

Slots  == 1 .. nPoints_max
Stamps == 0 .. MaxEvents
NoPhidgets == [p \in PhidgetBanks |-> <<>>]

(***************************************************************************)
(* The members of a new converter.  The constructor leaves them alone and  *)
(* operator new does not clear them either; the object is some 43 MB, more *)
(* than any malloc arena block, so its pages come zeroed from the kernel.  *)
(***************************************************************************)
FreshMembers ==
  /\ tree' = "null"
  /\ num_points' = 0
  /\ evt_timestamp' = [s \in Slots |-> 0]
  /\ wave' = [c \in Channels |-> [s \in Slots |-> 0]]
  /\ phidg' = NoPhidgets
  /\ slow' = [b \in SlowBanks |-> 0]

Row == [points |-> SubSeq(evt_timestamp, 1, num_points),
        waves  |-> [c \in Channels |-> SubSeq(wave[c], 1, num_points)],
        phidg  |-> phidg,
        slow   |-> slow]
-----------------------------------------------------------------------------
(***************************************************************************)
(* TRootanaEventLoop: opening and closing the output file.                 *)
(***************************************************************************)
OpenRootFile ==
  /\ rootFile' = "open"
  /\ rootRows' = <<>>

\* The begin-of-run event (0x8000) opens the output file; it is the first
\* event of a file if the file has one, so no data event came before it.
BeginOfRun ==
  /\ proc = "reading"
  /\ tree = "null"
  /\ rootFile = "none"
  /\ OpenRootFile
  /\ UNCHANGED <<proc, accept, tree, num_points, evt_timestamp, wave, phidg,
                 slow, daq>>

\* ProcessMidasEvent begins with "if (!tree) initialize_tree()", which
\* recreates the output file: RowsSoFar are the rows in it afterwards.
RowsSoFar == IF tree = "null" THEN <<>> ELSE rootRows

InitializeTree ==
  /\ tree' = "live"
  /\ rootFile' = "open"
-----------------------------------------------------------------------------
(***************************************************************************)
(* ProcessMidasEvent, one operator per bank it looks for, in its order.    *)
(***************************************************************************)
EndOfMove(b) ==
  /\ "EOM" \in b
  /\ accept' = TRUE
  /\ rootRows' = RowsSoFar
  /\ UNCHANGED <<num_points, evt_timestamp, wave, phidg, slow>>

\* Mutant: the Phidget counters are not reset.
BeginningOfNextMoveKeepsPhidgets(b) ==
  /\ "EOM" \notin b
  /\ "BONM" \in b
  /\ rootRows' = Append(RowsSoFar, Row)
  /\ num_points' = 0
  /\ accept' = FALSE
  /\ UNCHANGED <<phidg, evt_timestamp, wave, slow>>

BeginningOfNextMove(b) ==
  /\ "EOM" \notin b
  /\ "BONM" \in b
  /\ rootRows' = Append(RowsSoFar, Row)
  /\ num_points' = 0
  /\ phidg' = NoPhidgets
  /\ accept' = FALSE
  /\ UNCHANGED <<evt_timestamp, wave, slow>>

IsData(b) == {"EOM", "BONM"} \cap b = {}
Measures(b) == ({"V730"} \cup PhidgetBanks) \cap b # {}

\* Mutant: ">=" off by one in the bound check.
DigitizerOverflows(b, mask, id) ==
  /\ IsData(b) /\ accept
  /\ "V730" \in b
  /\ num_points' = num_points + 1
  /\ evt_timestamp' = [s \in Slots |-> IF s = num_points + 1 THEN id ELSE evt_timestamp[s]]
  /\ rootRows' = RowsSoFar
  /\ UNCHANGED <<accept, wave, phidg, slow>>

\* Mutant: the waveforms are stored in the slot of the event before.
DigitizerPreviousSlot(b, mask, id) ==
  /\ IsData(b) /\ accept
  /\ "V730" \in b
  /\ IF num_points < nPoints_max
     THEN /\ num_points' = num_points + 1
          /\ evt_timestamp' = [evt_timestamp EXCEPT ![num_points + 1] = id]
          /\ wave' = [c \in Channels |-> [s \in Slots |->
                        IF c \in mask /\ s = num_points THEN id ELSE wave[c][s]]]
     ELSE UNCHANGED <<num_points, evt_timestamp, wave>>
  /\ rootRows' = RowsSoFar
  /\ UNCHANGED <<accept, phidg, slow>>

\* A digitizer event beyond nPoints_max is dropped ("Too many points!").
Digitizer(b, mask, id) ==
  /\ IsData(b) /\ accept
  /\ "V730" \in b
  /\ IF num_points < nPoints_max
     THEN LET n == num_points + 1 IN
          /\ num_points' = n
          /\ evt_timestamp' = [evt_timestamp EXCEPT ![n] = id]
          /\ wave' = [c \in Channels |->
                        IF c \in mask THEN [wave[c] EXCEPT ![n] = id]
                                      ELSE wave[c]]
     ELSE UNCHANGED <<num_points, evt_timestamp, wave>>
  /\ rootRows' = RowsSoFar
  /\ UNCHANGED <<accept, phidg, slow>>

\* Only the first Phidget bank of an event is stored.  Its counter is not
\* compared with num_phidg_max.
Phidget(b, id) ==
  /\ IsData(b) /\ accept
  /\ "V730" \notin b
  /\ \E i \in DOMAIN Phidgets :
       /\ Phidgets[i] \in b
       /\ \A j \in 1 .. i-1 : Phidgets[j] \notin b
       /\ phidg' = [phidg EXCEPT ![Phidgets[i]] = Append(@, id)]
  /\ rootRows' = RowsSoFar
  /\ UNCHANGED <<accept, num_points, evt_timestamp, wave, slow>>

SlowControl(b, id) ==
  /\ IsData(b) /\ accept
  /\ ~Measures(b)
  /\ slow' = [s \in SlowBanks |-> IF s \in b THEN id ELSE slow[s]]
  /\ rootRows' = RowsSoFar
  /\ UNCHANGED <<accept, num_points, evt_timestamp, wave, phidg>>

Rejected(b) ==
  /\ IsData(b) /\ ~accept
  /\ rootRows' = RowsSoFar
  /\ UNCHANGED <<accept, num_points, evt_timestamp, wave, phidg, slow>>

ProcessMidasEvent(b, mask, id) ==
  /\ InitializeTree
  /\ \/ EndOfMove(b)
     \/ BeginningOfNextMove(b)
     \/ Digitizer(b, mask, id)
     \/ Phidget(b, id)
     \/ SlowControl(b, id)
     \/ Rejected(b)

(***************************************************************************)
(* The data acquisition's side of an event, kept to state properties: the  *)
(* converter never reads these variables.                                  *)
(***************************************************************************)
DaqEvent(b, id) ==
  /\ serial' = id
  /\ still' = ("EOM" \in b \/ (still /\ "BONM" \notin b))
  /\ quiet' = IF IsData(b) /\ still THEN quiet \cup {id} ELSE quiet
  /\ measured' = IF IsData(b) /\ still /\ Measures(b)
                 THEN measured \cup {id} ELSE measured
  /\ lastMove' = IF "EOM" \notin b /\ "BONM" \in b THEN id ELSE lastMove

\* End-of-run (0x8001) and message (0x8002) events are only printed: stuttering.
ReadEvent(b, mask) ==
  /\ proc = "reading"
  /\ serial < MaxEvents
  /\ ProcessMidasEvent(b, mask, serial + 1)
  /\ DaqEvent(b, serial + 1)
  /\ UNCHANGED proc
-----------------------------------------------------------------------------
\* The end of the file (or of its readable part): EndRun only prints, then
\* CloseRootFile writes the tree, and ROOT deletes it with its file.
CloseRootFile ==
  /\ rootFile' = IF rootFile = "open" THEN "closed" ELSE rootFile
  /\ tree' = IF tree = "live" THEN "deleted" ELSE tree

EndOfFile ==
  /\ proc = "reading"
  /\ proc' = "closed"
  /\ CloseRootFile
  /\ UNCHANGED <<accept, rootRows, num_points, evt_timestamp, wave, phidg, slow>>
=============================================================================
