----------------------------- MODULE ScanStream -----------------------------
(***************************************************************************)
(* What the conversion of a run promises, stated on the run's event stream *)
(* as a whole, without files, processes or arrays: a measurement lasts     *)
(* from an EOM event to the next BONM event, and BONM records one row with *)
(* the measurement data that arrived in between, in order: the first       *)
(* nPoints_max digitizer events and all readings of each Phidget.          *)
(***************************************************************************)
EXTENDS Naturals, Sequences

CONSTANTS
  Phidgets,      \* the Phidget banks
  nPoints_max    \* digitizer events a row may hold

VARIABLES
  measuring,     \* between EOM and BONM
  points,        \* stamps of the digitizer events of this measurement
  readings,      \* per Phidget, the stamps of its readings
  recorded,      \* the rows recorded so far
  taken,         \* stamps of the measurement data taken so far
  clock          \* stamp of the last event of the stream

vars == <<measuring, points, readings, recorded, taken, clock>>

Init ==
  /\ measuring = FALSE
  /\ points = <<>>
  /\ readings = [p \in Phidgets |-> <<>>]
  /\ recorded = <<>>
  /\ taken = {}
  /\ clock = 0

StartMeasurement ==
  /\ measuring' = TRUE
  /\ UNCHANGED <<points, readings, recorded, taken>>

Record ==
  /\ recorded' = Append(recorded, [points |-> points, phidg |-> readings])
  /\ measuring' = FALSE
  /\ points' = <<>>
  /\ readings' = [p \in Phidgets |-> <<>>]
  /\ UNCHANGED taken

TakePoint ==
  /\ measuring
  /\ taken' = taken \cup {clock'}
  /\ points' = IF Len(points) < nPoints_max THEN Append(points, clock') ELSE points
  /\ UNCHANGED <<measuring, readings, recorded>>

TakeReading(p) ==
  /\ measuring
  /\ taken' = taken \cup {clock'}
  /\ readings' = [readings EXCEPT ![p] = Append(@, clock')]
  /\ UNCHANGED <<measuring, points, recorded>>

\* Slow control events, and all events while the gantry moves
Ignore == UNCHANGED <<measuring, points, readings, recorded, taken>>

Next ==
  /\ clock' = clock + 1
  /\ \/ StartMeasurement
     \/ Record
     \/ TakePoint
     \/ \E p \in Phidgets : TakeReading(p)
     \/ Ignore

Spec == Init /\ [][Next]_vars
=============================================================================
