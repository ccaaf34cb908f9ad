-------------------------- MODULE ConvertRunProofs --------------------------
(***************************************************************************)
(* The acceptance flag survives the switch from one subfile to the next,   *)
(* the converter's arrays keep their types, and a run's rows hold what     *)
(* they should: nothing of a moving gantry, no event twice, every waveform *)
(* with its time stamp, and all that one pass over the stream would record.*)
(* Proofs for any stream of events, any array sizes, any number of         *)
(* subfiles with borders anywhere, and any number of processes that die.   *)
(***************************************************************************)
EXTENDS ConvertRun, TLAPS

\* The types the argument needs.
FlagTypes ==
  /\ proc \in {"none", "reading", "closed"}
  /\ accept \in BOOLEAN /\ still \in BOOLEAN
  /\ retval \in {0, 1, Signalled}
  /\ crashes \in Nat /\ unread \in Nat

\* A flag f that is right about the gantry at s: never set while it moves,
\* and without crashes set whenever it is still.
Right(f, s, c) == (f => s) /\ (c = 0 => (s => f))

\* Where the flag is: in the running process, else in the exit code.
FlagHeld ==
  unread = 0 =>
    /\ proc = "none" => Right(retval = 1, still, crashes)
    /\ proc # "none" => Right(accept, still, crashes)

FlagInv == FlagTypes /\ FlagHeld

\* The markers set the flag as they tell of the gantry, data leave it alone.
LEMMA EventKeepsFlag ==
  ASSUME accept \in BOOLEAN, still \in BOOLEAN, NEW c, Right(accept, still, c),
         NEW b, NEW mask, ReadEvent(b, mask)
  PROVE  Right(accept', still', c)
<1>1. still' = ("EOM" \in b \/ (still /\ "BONM" \notin b))
  BY DEF ReadEvent, DaqEvent
<1>2. CASE EndOfMove(b)
  BY <1>1, <1>2, Zenon DEF EndOfMove, Right
<1>3. CASE BeginningOfNextMove(b)
  BY <1>1, <1>3, Zenon DEF BeginningOfNextMove, Right
<1>4. ASSUME IsData(b), UNCHANGED accept
      PROVE  Right(accept', still', c)
  <2>1. "EOM" \notin b /\ "BONM" \notin b
    BY <1>4 DEF IsData
  <2>2. still' = still
    BY <1>1, <2>1, Zenon
  <2>3. QED
    BY <1>4, <2>2
<1>5. \/ EndOfMove(b) \/ BeginningOfNextMove(b)
      \/ IsData(b) /\ UNCHANGED accept
  BY DEF ReadEvent, ProcessMidasEvent, Digitizer, Phidget, SlowControl, Rejected
<1>6. QED
  BY <1>2, <1>3, <1>4, <1>5

\* The flag and the gantry's state stay Boolean in an event.
LEMMA EventTypes ==
  ASSUME accept \in BOOLEAN, NEW b, NEW mask, ReadEvent(b, mask)
  PROVE  accept' \in BOOLEAN /\ still' \in BOOLEAN
<1>1. still' = ("EOM" \in b \/ (still /\ "BONM" \notin b))
  BY DEF ReadEvent, DaqEvent
<1>2. accept' = TRUE \/ accept' = FALSE \/ accept' = accept
  BY DEF ReadEvent, ProcessMidasEvent, EndOfMove, BeginningOfNextMove,
         Digitizer, Phidget, SlowControl, Rejected
<1>3. QED
  BY <1>1, <1>2, Zenon

\* Every step keeps the flag right.
LEMMA FlagStep ==
  ASSUME FlagInv, [Next]_vars
  PROVE  FlagInv'
<1>1. FlagTypes /\ FlagHeld
  BY DEF FlagInv
<1>2. ASSUME UNCHANGED <<proc, accept, still, retval, crashes, unread>>
      PROVE  FlagInv'
  BY <1>1, <1>2 DEF FlagInv, FlagTypes, FlagHeld
<1>3. CASE StartConverter
  <2>1. /\ proc = "none" /\ proc' = "reading"
        /\ accept' = (retval = 1)
        /\ UNCHANGED <<still, retval, crashes, unread>>
    BY <1>3 DEF StartConverter, Flag, daq
  <2>2. accept' \in BOOLEAN
    BY <2>1
  <2>3. FlagHeld'
    BY <1>1, <2>1 DEF FlagHeld
  <2>4. QED
    BY <1>1, <2>1, <2>2, <2>3 DEF FlagInv, FlagTypes
<1>4. CASE Convert
  <2>1. UNCHANGED <<retval, crashes, unread>>
    BY <1>4 DEF Convert, script, faults
  <2>2. CASE BeginOfRun
    <3>1. UNCHANGED <<proc, accept, still>>
      BY <2>2 DEF BeginOfRun, daq
    <3>2. QED
      BY <1>2, <2>1, <3>1
  <2>3. ASSUME NEW b \in EventBanks, NEW m \in ReadoutMasks, ReadEvent(b, m)
        PROVE  FlagInv'
    <3>1. proc = "reading" /\ proc' = "reading"
      BY <2>3 DEF ReadEvent
    <3>2. accept' \in BOOLEAN /\ still' \in BOOLEAN
      BY <1>1, <2>3, EventTypes DEF FlagTypes
    <3>3. unread = 0 => Right(accept', still', crashes)
      BY <1>1, <2>3, <3>1, EventKeepsFlag DEF FlagTypes, FlagHeld
    <3>4. FlagHeld'
      BY <2>1, <3>1, <3>3 DEF FlagHeld
    <3>5. QED
      BY <1>1, <2>1, <3>1, <3>2, <3>4 DEF FlagInv, FlagTypes
  <2>4. QED
    BY <1>4, <2>2, <2>3 DEF Convert
<1>5. CASE FileEnds
  <2>1. /\ proc = "reading" /\ proc' = "closed"
        /\ UNCHANGED <<accept, still, retval, crashes, unread>>
    BY <1>5 DEF FileEnds, EndOfFile, daq, script, faults
  <2>2. QED
    BY <1>1, <2>1 DEF FlagInv, FlagTypes, FlagHeld
<1>6. CASE FileUnreadable
  <2>1. /\ proc' = "closed" /\ unread' = unread + 1 /\ still' \in BOOLEAN
        /\ UNCHANGED <<accept, retval, crashes>>
    BY <1>6 DEF FileUnreadable, EndOfFile, script
  <2>2. unread' \in Nat /\ unread' # 0
    BY <1>1, <2>1 DEF FlagTypes
  <2>3. QED
    BY <1>1, <2>1, <2>2 DEF FlagInv, FlagTypes, FlagHeld
<1>7. CASE ConverterExits
  <2>1. /\ proc = "closed" /\ proc' = "none"
        /\ retval' = IF accept THEN 1 ELSE 0
        /\ UNCHANGED <<accept, still, crashes, unread>>
    BY <1>7 DEF ConverterExits, daq, faults
  <2>2. retval' \in {0, 1} /\ (retval' = 1 <=> accept)
    BY <2>1
  <2>3. unread' = 0 => Right(accept, still', crashes')
    BY <1>1, <2>1 DEF FlagHeld
  <2>4. FlagHeld'
    BY <2>1, <2>2, <2>3 DEF FlagHeld, Right
  <2>5. QED
    BY <1>1, <2>1, <2>2, <2>4 DEF FlagInv, FlagTypes
\* A dead process leaves an exit code that is no flag, and a crash counted.
<1>8. CASE ConverterDies
  <2>1. /\ proc' = "none" /\ retval' = 139 /\ still' \in BOOLEAN
        /\ crashes' = crashes + 1
        /\ UNCHANGED <<accept, unread>>
    BY <1>1, <1>8 DEF ConverterDies, Signalled, FlagTypes
  <2>2. crashes' \in Nat /\ crashes' # 0 /\ ~(retval' = 1)
    BY <1>1, <2>1 DEF FlagTypes
  <2>3. FlagHeld'
    BY <2>1, <2>2 DEF FlagHeld, Right
  <2>4. QED
    BY <1>1, <2>1, <2>2, <2>3 DEF FlagInv, FlagTypes, Signalled
<1>9. CASE Merge \/ Done \/ UNCHANGED vars
  <2>1. UNCHANGED <<proc, accept, still, retval, crashes, unread>>
    BY <1>9 DEF Merge, Done, vars, converter, daq, script, faults
  <2>2. QED
    BY <1>2, <2>1
<1>10. QED
  BY <1>3, <1>4, <1>5, <1>6, <1>7, <1>8, <1>9 DEF Next

\* It is right at the start: the script's first flag is '0', the gantry moves.
LEMMA FlagInit == Init => FlagInv
<1> SUFFICES ASSUME Init PROVE FlagInv
  OBVIOUS
<1>1. /\ proc = "none" /\ accept = FALSE /\ still = FALSE
      /\ retval = 0 /\ crashes = 0 /\ unread = 0
  BY DEF Init
<1>2. retval \in {0, 1, Signalled} /\ ~(retval = 1)
      /\ crashes \in Nat /\ unread \in Nat
  BY <1>1
<1>3. QED
  BY <1>1, <1>2 DEF FlagInv, FlagTypes, FlagHeld, Right

\* The flag is never set while the gantry moves, in the process or in the exit
\* code handed on, and without crashes it is set whenever the gantry is still,
\* wherever the stream is cut into files, as long as every file is read to
\* its end.
THEOREM FlagCorrect == Spec => []AcceptFollowsGantry
<1>1. FlagInv /\ [Next]_vars => FlagInv'
  BY FlagStep
<1>2. FlagInv => AcceptFollowsGantry
  <2> SUFFICES ASSUME FlagInv PROVE AcceptFollowsGantry
    OBVIOUS
  <2>1. CASE proc = "none"
    BY <2>1 DEF FlagInv, FlagHeld, Right, AcceptFollowsGantry, FlagInForce, Flag
  <2>2. CASE proc # "none"
    BY <2>2 DEF FlagInv, FlagHeld, Right, AcceptFollowsGantry, FlagInForce
  <2>3. QED
    BY <2>1, <2>2
<1>3. QED
  BY <1>1, <1>2, FlagInit, PTL DEF Spec
-----------------------------------------------------------------------------
(***************************************************************************)
(* The arrays and the rows.                                                *)
(***************************************************************************)
\* The types of a row.
PhidgetReadings == [PhidgetBanks -> Seq(Stamps)]
SlowValues == [SlowBanks -> Stamps]

Rows == [points : Seq(Stamps), waves : [Channels -> Seq(Stamps)],
         phidg : PhidgetReadings, slow : SlowValues]


\* The converter's arrays, counters and rows.
ArrayTypes ==
  /\ num_points \in 0 .. nPoints_max
  /\ evt_timestamp \in [Slots -> Stamps]
  /\ wave \in [Channels -> [Slots -> Stamps]]
  /\ phidg \in PhidgetReadings
  /\ slow \in SlowValues
  /\ rootRows \in Seq(Rows)

\* The data acquisition's side.
DaqTypes ==
  /\ serial \in Stamps /\ still \in BOOLEAN
  /\ quiet \in SUBSET Stamps /\ measured \in SUBSET quiet
  /\ lastMove \in Stamps

\* The process and the script.
ScriptTypes ==
  /\ proc \in {"none", "reading", "closed"}
  /\ accept \in BOOLEAN
  /\ tree \in {"null", "live", "deleted"}
  /\ rootFile \in {"none", "open", "closed"}
  /\ nfile \in 0 .. MaxFiles
  /\ retval \in {0, 1, Signalled}
  /\ ntmp \in 0 .. nfile
  /\ tmpRows \in Seq(Rows)
  /\ merged \in BOOLEAN
  /\ crashes \in 0 .. MaxCrashes
  /\ unread \in 0 .. MaxUnread
  /\ cut \in BOOLEAN
  /\ proc # "none" => ntmp < nfile

TypeInv == ArrayTypes /\ DaqTypes /\ ScriptTypes

\* The counted part of an array is a sequence of its entries.
LEMMA ArrayPrefix ==
  ASSUME NEW a \in [Slots -> Stamps], NEW n \in 0 .. nPoints_max
  PROVE  /\ SubSeq(a, 1, n) \in Seq(Stamps)
         /\ Len(SubSeq(a, 1, n)) = n
         /\ \A i \in 1 .. n : SubSeq(a, 1, n)[i] = a[i]
<1>1. nPoints_max \in Nat
  BY ScanAssumption
<1>2. a \in Seq(Stamps) /\ Len(a) = nPoints_max
  BY <1>1 DEF Slots
<1>3. QED
  BY <1>1, <1>2

\* The row that BONM fills has its type.
LEMMA RowIsRow ==
  ASSUME num_points \in 0 .. nPoints_max,
         evt_timestamp \in [Slots -> Stamps],
         wave \in [Channels -> [Slots -> Stamps]],
         phidg \in PhidgetReadings,
         slow \in SlowValues
  PROVE  Row \in Rows
<1>1. SubSeq(evt_timestamp, 1, num_points) \in Seq(Stamps)
  BY ArrayPrefix
<1>2. \A c \in Channels : wave[c] \in [Slots -> Stamps]
  OBVIOUS
<1>3. \A c \in Channels : SubSeq(wave[c], 1, num_points) \in Seq(Stamps)
  BY <1>2, ArrayPrefix
<1>4. [c \in Channels |-> SubSeq(wave[c], 1, num_points)]
        \in [Channels -> Seq(Stamps)]
  BY <1>3
<1>5. QED
  BY <1>1, <1>4 DEF Row, Rows

\* The empty arrays and lists a process starts with.
LEMMA FreshTypes ==
  ASSUME FreshMembers, rootRows' = <<>>
  PROVE  ArrayTypes'
<1>1. nPoints_max \in Nat /\ 0 \in Stamps
  BY ScanAssumption DEF Stamps
<1>2. NoPhidgets \in PhidgetReadings
  BY DEF NoPhidgets, PhidgetReadings
<1>3. QED
  BY <1>1, <1>2 DEF FreshMembers, ArrayTypes, SlowValues

\* What an event leaves in the arrays has their types.
LEMMA EventKeepsArrays ==
  ASSUME ArrayTypes, serial \in Stamps,
         NEW b \in EventBanks, NEW mask \in ReadoutMasks, ReadEvent(b, mask)
  PROVE  ArrayTypes'
<1>1. DEFINE id == serial + 1
<1>2. id \in Stamps /\ MaxEvents \in Nat /\ nPoints_max \in Nat
  BY ScanAssumption DEF ReadEvent, Stamps
<1>3. RowsSoFar \in Seq(Rows)
  BY DEF RowsSoFar, ArrayTypes
<1>4. ProcessMidasEvent(b, mask, id)
  BY DEF ReadEvent
<1> HIDE DEF id
<1>5. CASE EndOfMove(b)
  BY <1>3, <1>5 DEF EndOfMove, ArrayTypes
<1>6. CASE BeginningOfNextMove(b)
  <2>1. Row \in Rows
    BY RowIsRow DEF ArrayTypes
  <2>2. rootRows' \in Seq(Rows)
    BY <1>3, <1>6, <2>1 DEF BeginningOfNextMove
  <2>3. phidg' \in PhidgetReadings
    BY <1>6 DEF BeginningOfNextMove, NoPhidgets, PhidgetReadings
  <2>4. num_points' \in 0 .. nPoints_max
    BY <1>2, <1>6 DEF BeginningOfNextMove
  <2>5. QED
    BY <1>6, <2>2, <2>3, <2>4 DEF BeginningOfNextMove, ArrayTypes
<1>7. CASE Digitizer(b, mask, id)
  <2>1. CASE num_points < nPoints_max
    <3>1. num_points + 1 \in Slots
      BY <1>2, <2>1 DEF ArrayTypes, Slots
    <3>2. evt_timestamp' = [evt_timestamp EXCEPT ![num_points + 1] = id]
      BY <1>7, <2>1 DEF Digitizer
    <3>3. wave' = [c \in Channels |->
                     IF c \in mask THEN [wave[c] EXCEPT ![num_points + 1] = id]
                                   ELSE wave[c]]
      BY <1>7, <2>1 DEF Digitizer
    <3>4. evt_timestamp' \in [Slots -> Stamps]
      BY <1>2, <3>1, <3>2 DEF ArrayTypes
    <3>5. \A c \in Channels : wave[c] \in [Slots -> Stamps]
      BY DEF ArrayTypes
    <3>6. wave' \in [Channels -> [Slots -> Stamps]]
      BY <1>2, <3>1, <3>3, <3>5
    <3>7. num_points' \in 0 .. nPoints_max
      BY <1>2, <1>7, <2>1 DEF Digitizer, ArrayTypes
    <3>8. QED
      BY <1>3, <1>7, <3>4, <3>6, <3>7 DEF Digitizer, ArrayTypes
  <2>2. CASE ~(num_points < nPoints_max)
    BY <1>3, <1>7, <2>2 DEF Digitizer, ArrayTypes
  <2>3. QED
    BY <2>1, <2>2
<1>8. CASE Phidget(b, id)
  <2>1. PICK i \in DOMAIN Phidgets :
          phidg' = [phidg EXCEPT ![Phidgets[i]] = Append(@, id)]
    BY <1>8 DEF Phidget
  <2>2. Phidgets[i] \in PhidgetBanks
    BY DEF PhidgetBanks
  <2>3. phidg[Phidgets[i]] \in Seq(Stamps)
    BY <2>2 DEF ArrayTypes, PhidgetReadings
  <2>4. Append(phidg[Phidgets[i]], id) \in Seq(Stamps)
    BY <1>2, <2>3
  <2>5. phidg' \in PhidgetReadings
    BY <2>1, <2>2, <2>4 DEF ArrayTypes, PhidgetReadings
  <2>6. QED
    BY <1>3, <1>8, <2>5 DEF Phidget, ArrayTypes
<1>9. CASE SlowControl(b, id)
  <2>1. slow' \in SlowValues
    BY <1>2, <1>9 DEF SlowControl, ArrayTypes, SlowValues
  <2>2. QED
    BY <1>3, <1>9, <2>1 DEF SlowControl, ArrayTypes
<1>10. CASE Rejected(b)
  BY <1>3, <1>10 DEF Rejected, ArrayTypes
<1>11. QED
  BY <1>4, <1>5, <1>6, <1>7, <1>8, <1>9, <1>10 DEF ProcessMidasEvent

\* mv of an output file: its rows join those of the files before.
LEMMA MoveKeepsTypes ==
  ASSUME ScriptTypes, proc # "none", NEW rows \in Seq(Rows), MoveOutput(rows)
  PROVE  tmpRows' \in Seq(Rows) /\ ntmp' \in 0 .. nfile
<1>1. CASE rootFile = "none"
  BY <1>1 DEF MoveOutput, ScriptTypes
<1>2. CASE rootFile # "none"
  <2>1. tmpRows' = tmpRows \o rows /\ ntmp' = ntmp + 1
    BY <1>2 DEF MoveOutput
  <2>2. tmpRows' \in Seq(Rows)
    BY <2>1 DEF ScriptTypes
  <2>3. ntmp' \in 0 .. nfile
    BY <2>1 DEF ScriptTypes
  <2>4. QED
    BY <2>2, <2>3
<1>3. QED
  BY <1>1, <1>2

\* Every step keeps the types.
LEMMA TypeStep ==
  ASSUME TypeInv, [Next]_vars
  PROVE  TypeInv'
<1>1. ArrayTypes /\ DaqTypes /\ ScriptTypes
  BY DEF TypeInv
<1>2. /\ MaxFiles \in Nat /\ MaxCrashes \in Nat /\ MaxUnread \in Nat
      /\ MaxEvents \in Nat
  BY ConvertAssumption, ScanAssumption
<1>3. CASE StartConverter
  <2>1. ArrayTypes'
    BY <1>3, FreshTypes DEF StartConverter
  <2>2. DaqTypes'
    BY <1>1, <1>3 DEF StartConverter, DaqTypes, daq
  <2>3. accept' \in BOOLEAN /\ tree' = "null" /\ rootFile' = "none"
    BY <1>3 DEF StartConverter, Flag, FreshMembers
  <2>4. /\ proc' = "reading" /\ nfile' = nfile + 1 /\ nfile < MaxFiles
        /\ UNCHANGED <<retval, tmpRows, ntmp, merged, crashes, unread>>
    BY <1>3 DEF StartConverter
  <2>5. nfile' \in 0 .. MaxFiles /\ ntmp' \in 0 .. nfile' /\ ntmp' < nfile'
    BY <1>1, <1>2, <2>4 DEF ScriptTypes
  <2>6. cut' \in BOOLEAN
    <3>1. cut' = (cut \/ ~AtRest)
      BY <1>3 DEF StartConverter
    <3>2. QED
      BY <3>1, Zenon
  <2>7. ScriptTypes'
    BY <1>1, <2>3, <2>4, <2>5, <2>6 DEF ScriptTypes
  <2>8. QED
    BY <2>1, <2>2, <2>7 DEF TypeInv
<1>4. CASE Convert
  <2>1. UNCHANGED <<nfile, retval, tmpRows, ntmp, merged, crashes, unread, cut>>
    BY <1>4 DEF Convert, script, faults
  <2>2. CASE BeginOfRun
    <3>1. /\ rootFile' = "open" /\ rootRows' = <<>>
          /\ UNCHANGED <<proc, accept, tree, num_points, evt_timestamp, wave,
                         phidg, slow>>
      BY <2>2 DEF BeginOfRun, OpenRootFile
    <3>2. DaqTypes'
      BY <1>1, <2>2 DEF BeginOfRun, DaqTypes, daq
    <3>3. ArrayTypes'
      BY <1>1, <3>1 DEF ArrayTypes
    <3>4. ScriptTypes'
      BY <1>1, <2>1, <3>1 DEF ScriptTypes
    <3>5. QED
      BY <3>2, <3>3, <3>4 DEF TypeInv
  <2>3. ASSUME NEW b \in EventBanks, NEW m \in ReadoutMasks, ReadEvent(b, m)
        PROVE  TypeInv'
    <3>1. ArrayTypes'
      BY <1>1, <2>3, EventKeepsArrays DEF DaqTypes
    <3>2. accept' \in BOOLEAN /\ still' \in BOOLEAN
      BY <1>1, <2>3, EventTypes DEF ScriptTypes
    <3>3. serial + 1 \in Stamps /\ serial' = serial + 1
      BY <1>1, <1>2, <2>3 DEF ReadEvent, DaqEvent, DaqTypes, Stamps
    <3>4. /\ lastMove' \in {serial + 1, lastMove}
          /\ \/ quiet' = quiet /\ measured' = measured
             \/ quiet' = quiet \cup {serial + 1} /\ measured' = measured
             \/ /\ quiet' = quiet \cup {serial + 1}
                /\ measured' = measured \cup {serial + 1}
      BY <2>3 DEF ReadEvent, DaqEvent
    <3>5. DaqTypes'
      BY <1>1, <3>2, <3>3, <3>4 DEF DaqTypes
    <3>6. /\ tree' = "live" /\ rootFile' = "open"
          /\ UNCHANGED proc
      BY <2>3 DEF ReadEvent, ProcessMidasEvent, InitializeTree
    <3>7. ScriptTypes'
      BY <1>1, <2>1, <3>2, <3>6 DEF ScriptTypes
    <3>8. QED
      BY <3>1, <3>5, <3>7 DEF TypeInv
  <2>4. QED
    BY <1>4, <2>2, <2>3 DEF Convert
<1>5. CASE FileEnds \/ FileUnreadable
  <2>1. /\ proc = "reading" /\ proc' = "closed"
        /\ rootFile' \in {"closed", rootFile} /\ tree' \in {"deleted", tree}
        /\ UNCHANGED <<accept, rootRows, num_points, evt_timestamp, wave,
                       phidg, slow>>
    BY <1>5 DEF FileEnds, FileUnreadable, EndOfFile, CloseRootFile
  <2>2. /\ still' \in BOOLEAN
        /\ UNCHANGED <<serial, quiet, measured, lastMove>>
        /\ UNCHANGED <<nfile, retval, tmpRows, ntmp, merged, crashes, cut>>
        /\ unread' \in 0 .. MaxUnread
    BY <1>1, <1>2, <1>5 DEF FileEnds, FileUnreadable, DaqTypes, ScriptTypes,
                            daq, script, faults
  <2>3. ArrayTypes'
    BY <1>1, <2>1 DEF ArrayTypes
  <2>4. DaqTypes'
    BY <1>1, <2>2 DEF DaqTypes
  <2>5. ScriptTypes'
    BY <1>1, <2>1, <2>2 DEF ScriptTypes
  <2>6. QED
    BY <2>3, <2>4, <2>5 DEF TypeInv
<1>6. CASE ConverterExits \/ ConverterDies
  <2>1. /\ proc # "none" /\ proc' = "none"
        /\ rootFile' = "none" /\ rootRows' = <<>>
        /\ UNCHANGED <<accept, tree, num_points, evt_timestamp, wave, phidg,
                       slow, serial, quiet, measured, lastMove, nfile, merged,
                       unread, cut>>
    BY <1>6 DEF ConverterExits, ConverterDies, daq, faults
  <2>2. still' \in BOOLEAN /\ retval' \in {0, 1, Signalled}
        /\ crashes' \in 0 .. MaxCrashes
    BY <1>1, <1>2, <1>6 DEF ConverterExits, ConverterDies, DaqTypes,
                            ScriptTypes, daq, faults
  <2>3. \E rows \in Seq(Rows) : MoveOutput(rows)
    <3>1. CASE ConverterExits
      BY <1>1, <3>1 DEF ConverterExits, ArrayTypes
    <3>2. CASE ConverterDies
      <4>1. PICK n \in 0 .. Len(rootRows) : MoveOutput(SubSeq(rootRows, 1, n))
        BY <3>2 DEF ConverterDies
      <4>2. SubSeq(rootRows, 1, n) \in Seq(Rows)
        BY <1>1 DEF ArrayTypes
      <4>3. QED
        BY <4>1, <4>2
    <3>3. QED
      BY <1>6, <3>1, <3>2
  <2>4. tmpRows' \in Seq(Rows) /\ ntmp' \in 0 .. nfile
    BY <1>1, <2>1, <2>3, MoveKeepsTypes
  <2>5. ArrayTypes'
    BY <1>1, <2>1 DEF ArrayTypes
  <2>6. DaqTypes'
    BY <1>1, <2>1, <2>2 DEF DaqTypes
  <2>7. ScriptTypes'
    BY <1>1, <2>1, <2>2, <2>4 DEF ScriptTypes
  <2>8. QED
    BY <2>5, <2>6, <2>7 DEF TypeInv
<1>7. CASE Merge \/ Done \/ UNCHANGED vars
  <2>1. /\ merged' \in BOOLEAN
        /\ UNCHANGED <<converter, daq, nfile, retval, tmpRows, ntmp, crashes,
                       unread, cut>>
    BY <1>1, <1>7 DEF Merge, Done, vars, script, faults, ScriptTypes
  <2>2. QED
    BY <1>1, <2>1 DEF TypeInv, ArrayTypes, DaqTypes, ScriptTypes, converter, daq
<1>8. QED
  BY <1>3, <1>4, <1>5, <1>6, <1>7 DEF Next

\* They hold at the start.
LEMMA TypeInit == Init => TypeInv
<1> SUFFICES ASSUME Init PROVE TypeInv
  OBVIOUS
<1>1. /\ nPoints_max \in Nat /\ MaxEvents \in Nat /\ MaxFiles \in Nat
      /\ MaxCrashes \in Nat /\ MaxUnread \in Nat
  BY ScanAssumption, ConvertAssumption
<1>2. NoPhidgets \in PhidgetReadings
  BY DEF NoPhidgets, PhidgetReadings
<1>3. ArrayTypes
  BY <1>1, <1>2 DEF Init, ArrayTypes, SlowValues, Stamps
<1>4. DaqTypes
  <2>1. /\ serial = 0 /\ still = FALSE /\ quiet = {} /\ measured = {}
        /\ lastMove = 0
    BY DEF Init
  <2>2. 0 \in Stamps
    BY <1>1 DEF Stamps
  <2>3. QED
    BY <2>1, <2>2 DEF DaqTypes
<1>5. ScriptTypes
  <2>1. /\ proc = "none" /\ accept = FALSE /\ tree = "null" /\ merged = FALSE
        /\ rootFile = "none" /\ nfile = 0 /\ retval = 0 /\ tmpRows = <<>>
        /\ ntmp = 0 /\ crashes = 0 /\ unread = 0 /\ cut = FALSE
    BY DEF Init
  <2>2. /\ nfile \in 0 .. MaxFiles /\ ntmp \in 0 .. nfile
        /\ crashes \in 0 .. MaxCrashes /\ unread \in 0 .. MaxUnread
        /\ retval \in {0, 1, Signalled} /\ tmpRows \in Seq(Rows)
    BY <1>1, <2>1
  <2>3. QED
    BY <2>1, <2>2 DEF ScriptTypes
<1>6. QED
  BY <1>3, <1>4, <1>5 DEF TypeInv

\* The variables keep their types and no digitizer event is stored beyond the
\* arrays, whatever their size and however many events a point has.
THEOREM TypeCorrect == Spec => []TypeOK
<1>1. TypeInv => TypeOK
  BY DEF TypeInv, ArrayTypes, DaqTypes, ScriptTypes, PhidgetReadings,
         SlowValues, TypeOK
<1>2. TypeInv /\ [Next]_vars => TypeInv'
  BY TypeStep
<1>3. QED
  BY <1>1, <1>2, TypeInit, PTL DEF Spec
-----------------------------------------------------------------------------
(***************************************************************************)
(* Rows without data of a moving gantry.  The inductive invariant says the *)
(* same of what the members hold, and takes from FlagInv that the process  *)
(* accepts only while the gantry is still.                                 *)
(***************************************************************************)
\* A row with measurement data from ms and slow control values from q.
RowStill(r, ms, q) ==
  /\ \A i \in DOMAIN r.points : r.points[i] \in ms
  /\ \A p \in PhidgetBanks : \A i \in DOMAIN r.phidg[p] : r.phidg[p][i] \in ms
  /\ \A b \in SlowBanks : r.slow[b] \in q \cup {0}

RowsStill(rows, ms, q) == \A i \in DOMAIN rows : RowStill(rows[i], ms, q)

\* The members that the next row will be made of.
HeldStill ==
  /\ \A i \in 1 .. num_points : evt_timestamp[i] \in measured
  /\ \A p \in PhidgetBanks : \A i \in DOMAIN phidg[p] : phidg[p][i] \in measured
  /\ \A b \in SlowBanks : slow[b] \in quiet \cup {0}

StillRows ==
  unread = 0 =>
    /\ HeldStill
    /\ RowsStill(rootRows, measured, quiet)
    /\ RowsStill(tmpRows, measured, quiet)

\* More data taken while still do no harm to a row.
LEMMA RowsStillGrow ==
  ASSUME NEW rows, NEW ms, NEW q, NEW ms2, NEW q2,
         ms \subseteq ms2, q \subseteq q2, RowsStill(rows, ms, q)
  PROVE  RowsStill(rows, ms2, q2)
BY DEF RowsStill, RowStill

\* Appending such a row to such rows.
LEMMA RowsStillAppend ==
  ASSUME NEW rows \in Seq(Rows), NEW r \in Rows, NEW ms, NEW q,
         RowsStill(rows, ms, q), RowStill(r, ms, q)
  PROVE  RowsStill(Append(rows, r), ms, q)
<1>1. \A i \in DOMAIN Append(rows, r) :
        Append(rows, r)[i] = r \/ (i \in DOMAIN rows /\ Append(rows, r)[i] = rows[i])
  OBVIOUS
<1>2. QED
  BY <1>1 DEF RowsStill

\* Cutting such rows off, as a crash does.
LEMMA RowsStillPrefix ==
  ASSUME NEW rows \in Seq(Rows), NEW n \in 0 .. Len(rows), NEW ms, NEW q,
         RowsStill(rows, ms, q)
  PROVE  RowsStill(SubSeq(rows, 1, n), ms, q)
<1>1. \A i \in DOMAIN SubSeq(rows, 1, n) :
        i \in DOMAIN rows /\ SubSeq(rows, 1, n)[i] = rows[i]
  OBVIOUS
<1>2. QED
  BY <1>1 DEF RowsStill

\* Joining such rows, as mv and hadd do.
LEMMA RowsStillJoin ==
  ASSUME NEW r1 \in Seq(Rows), NEW r2 \in Seq(Rows), NEW ms, NEW q,
         RowsStill(r1, ms, q), RowsStill(r2, ms, q)
  PROVE  RowsStill(r1 \o r2, ms, q)
<1>1. \A i \in DOMAIN (r1 \o r2) :
        \/ i \in DOMAIN r1 /\ (r1 \o r2)[i] = r1[i]
        \/ i - Len(r1) \in DOMAIN r2 /\ (r1 \o r2)[i] = r2[i - Len(r1)]
  OBVIOUS
<1>2. QED
  BY <1>1 DEF RowsStill

\* The row made of such members.
LEMMA RowOfHeld ==
  ASSUME ArrayTypes, HeldStill
  PROVE  RowStill(Row, measured, quiet)
<1>1. /\ Row.points = SubSeq(evt_timestamp, 1, num_points)
      /\ Row.phidg = phidg /\ Row.slow = slow
  BY DEF Row
<1>2. /\ Row.points \in Seq(Stamps) /\ Len(Row.points) = num_points
      /\ \A i \in 1 .. num_points : Row.points[i] = evt_timestamp[i]
  BY <1>1, ArrayPrefix DEF ArrayTypes
<1>3. \A i \in DOMAIN Row.points : Row.points[i] \in measured
  BY <1>2 DEF HeldStill
<1>4. QED
  BY <1>1, <1>3 DEF RowStill, HeldStill

\* What the acquisition counts as taken while still only grows.
LEMMA DaqGrows ==
  ASSUME NEW b, NEW mask, ReadEvent(b, mask)
  PROVE  measured \subseteq measured' /\ quiet \subseteq quiet'
BY DEF ReadEvent, DaqEvent

\* An event keeps the members and the rows free of data of a moving gantry,
\* if the process accepts only while it is still.
LEMMA EventKeepsStill ==
  ASSUME ArrayTypes, serial \in Stamps, accept => still, HeldStill,
         RowsStill(rootRows, measured, quiet),
         NEW b \in EventBanks, NEW mask \in ReadoutMasks, ReadEvent(b, mask)
  PROVE  HeldStill' /\ RowsStill(rootRows', measured', quiet')
<1>1. DEFINE id == serial + 1
<1>2. ProcessMidasEvent(b, mask, id)
  BY DEF ReadEvent
<1>3. IsData(b) /\ accept => id \in quiet'
  BY DEF ReadEvent, DaqEvent
<1>4. IsData(b) /\ accept /\ Measures(b) => id \in measured'
  BY DEF ReadEvent, DaqEvent
<1>5. measured \subseteq measured' /\ quiet \subseteq quiet'
  BY DaqGrows
<1>6. RowsSoFar \in Seq(Rows) /\ RowsStill(RowsSoFar, measured, quiet)
  BY DEF RowsSoFar, RowsStill, ArrayTypes
<1>7. RowsStill(RowsSoFar, measured', quiet')
  BY <1>5, <1>6, RowsStillGrow
<1> HIDE DEF id
<1>8. ASSUME UNCHANGED <<num_points, evt_timestamp, phidg, slow>>
      PROVE  HeldStill'
  BY <1>5, <1>8 DEF HeldStill
<1>9. CASE EndOfMove(b) \/ Rejected(b)
  BY <1>7, <1>8, <1>9 DEF EndOfMove, Rejected
<1>10. CASE BeginningOfNextMove(b)
  <2>1. Row \in Rows /\ RowStill(Row, measured, quiet)
    BY RowIsRow, RowOfHeld DEF ArrayTypes
  <2>2. RowsStill(rootRows', measured, quiet)
    BY <1>6, <1>10, <2>1, RowsStillAppend DEF BeginningOfNextMove
  <2>3. RowsStill(rootRows', measured', quiet')
    BY <1>5, <2>2, RowsStillGrow
  <2>4. num_points' = 0 /\ phidg' = NoPhidgets /\ slow' = slow
    BY <1>10 DEF BeginningOfNextMove
  <2>5. HeldStill'
    BY <1>5, <2>4 DEF HeldStill, NoPhidgets
  <2>6. QED
    BY <2>3, <2>5
<1>11. CASE Digitizer(b, mask, id)
  <2>1. id \in measured'
    BY <1>4, <1>11 DEF Digitizer, Measures
  <2>2. CASE num_points < nPoints_max
    <3>1. /\ num_points' = num_points + 1
          /\ evt_timestamp' = [evt_timestamp EXCEPT ![num_points + 1] = id]
          /\ UNCHANGED <<phidg, slow>>
      BY <1>11, <2>2 DEF Digitizer
    <3>2. num_points + 1 \in Slots
      BY <2>2, ScanAssumption DEF ArrayTypes, Slots
    <3>3. \A i \in 1 .. num_points' : evt_timestamp'[i] \in measured'
      BY <1>5, <2>1, <3>1, <3>2 DEF HeldStill, ArrayTypes, Slots
    <3>4. HeldStill'
      BY <1>5, <3>1, <3>3 DEF HeldStill
    <3>5. QED
      BY <1>7, <1>11, <3>4 DEF Digitizer
  <2>3. CASE ~(num_points < nPoints_max)
    BY <1>7, <1>8, <1>11, <2>3 DEF Digitizer
  <2>4. QED
    BY <2>2, <2>3
<1>12. CASE Phidget(b, id)
  <2>1. PICK k \in DOMAIN Phidgets :
          /\ Phidgets[k] \in b
          /\ phidg' = [phidg EXCEPT ![Phidgets[k]] = Append(@, id)]
    BY <1>12 DEF Phidget
  <2>2. Phidgets[k] \in PhidgetBanks
    BY DEF PhidgetBanks
  <2>3. Measures(b)
    BY <2>1, <2>2 DEF Measures
  <2>4. id \in measured'
    BY <1>4, <1>12, <2>3 DEF Phidget
  <2>5. phidg \in [PhidgetBanks -> Seq(Stamps)]
    BY DEF ArrayTypes, PhidgetReadings
  <2>6. ASSUME NEW p \in PhidgetBanks, NEW i \in DOMAIN phidg'[p]
        PROVE  phidg'[p][i] \in measured'
    <3>1. phidg[p] \in Seq(Stamps)
      BY <2>5
    <3>2. CASE p = Phidgets[k]
      <4>1. phidg'[p] = Append(phidg[p], id)
        BY <2>1, <2>2, <2>5, <3>2
      <4>2. phidg'[p][i] = id \/ (i \in DOMAIN phidg[p] /\ phidg'[p][i] = phidg[p][i])
        BY <2>6, <3>1, <4>1
      <4>3. QED
        BY <1>5, <2>4, <4>2 DEF HeldStill
    <3>3. CASE p # Phidgets[k]
      <4>1. phidg'[p] = phidg[p]
        BY <2>1, <2>2, <2>5, <3>3
      <4>2. QED
        BY <1>5, <2>6, <4>1 DEF HeldStill
    <3>4. QED
      BY <3>2, <3>3
  <2>7. HeldStill'
    BY <1>5, <1>12, <2>6 DEF HeldStill, Phidget
  <2>8. QED
    BY <1>7, <1>12, <2>7 DEF Phidget
<1>13. CASE SlowControl(b, id)
  <2>1. id \in quiet'
    BY <1>3, <1>13 DEF SlowControl
  <2>2. \A x \in SlowBanks : slow'[x] \in quiet' \cup {0}
    BY <1>5, <1>13, <2>1 DEF SlowControl, HeldStill
  <2>3. HeldStill'
    BY <1>5, <1>13, <2>2 DEF SlowControl, HeldStill
  <2>4. QED
    BY <1>7, <1>13, <2>3 DEF SlowControl
<1>14. QED
  BY <1>2, <1>9, <1>10, <1>11, <1>12, <1>13 DEF ProcessMidasEvent

\* Every step keeps the rows so.
LEMMA StillStep ==
  ASSUME TypeInv, FlagInv, StillRows, [Next]_vars
  PROVE  StillRows'
<1>1. ArrayTypes /\ DaqTypes /\ ScriptTypes
  BY DEF TypeInv
<1>2. SUFFICES ASSUME unread' = 0
               PROVE  /\ HeldStill' /\ RowsStill(rootRows', measured', quiet')
                      /\ RowsStill(tmpRows', measured', quiet')
  BY DEF StillRows
<1>3. ASSUME UNCHANGED <<num_points, evt_timestamp, phidg, slow, measured, quiet>>,
             unread = 0
      PROVE  HeldStill'
  BY <1>3 DEF StillRows, HeldStill
<1>4. CASE StartConverter
  <2>1. /\ unread = 0 /\ UNCHANGED <<tmpRows, measured, quiet>>
        /\ rootRows' = <<>>
        /\ FreshMembers
    BY <1>2, <1>4 DEF StartConverter, daq
  <2>2. HeldStill'
    BY <2>1 DEF FreshMembers, HeldStill, NoPhidgets
  <2>3. QED
    BY <2>1, <2>2 DEF StillRows, RowsStill
<1>5. CASE Convert
  <2>1. unread = 0 /\ UNCHANGED tmpRows
    BY <1>2, <1>5 DEF Convert, script, faults
  <2>2. CASE BeginOfRun
    <3>1. /\ rootRows' = <<>>
          /\ UNCHANGED <<num_points, evt_timestamp, phidg, slow, measured, quiet>>
      BY <2>2 DEF BeginOfRun, OpenRootFile, daq
    <3>2. QED
      BY <1>3, <2>1, <3>1 DEF StillRows, RowsStill
  <2>3. ASSUME NEW b \in EventBanks, NEW m \in ReadoutMasks, ReadEvent(b, m)
        PROVE  /\ HeldStill' /\ RowsStill(rootRows', measured', quiet')
               /\ RowsStill(tmpRows', measured', quiet')
    <3>1. proc # "none"
      BY <2>3 DEF ReadEvent
    <3>2. accept => still
      BY <2>1, <3>1 DEF FlagInv, FlagHeld, Right
    <3>3. HeldStill' /\ RowsStill(rootRows', measured', quiet')
      BY <1>1, <2>1, <2>3, <3>2, EventKeepsStill DEF DaqTypes, StillRows
    <3>4. measured \subseteq measured' /\ quiet \subseteq quiet'
      BY <2>3, DaqGrows
    <3>5. RowsStill(tmpRows, measured', quiet')
      BY <2>1, <3>4, RowsStillGrow DEF StillRows
    <3>6. QED
      BY <2>1, <3>3, <3>5
  <2>4. QED
    BY <1>5, <2>2, <2>3 DEF Convert
<1>6. CASE FileEnds
  <2>1. UNCHANGED <<unread, rootRows, tmpRows, num_points, evt_timestamp, phidg,
                    slow, measured, quiet>>
    BY <1>6 DEF FileEnds, EndOfFile, daq, script, faults
  <2>2. QED
    BY <1>2, <1>3, <2>1 DEF StillRows
<1>7. CASE FileUnreadable
  <2>1. unread' = unread + 1 /\ unread \in Nat
    BY <1>1, <1>7 DEF FileUnreadable, ScriptTypes
  <2>2. QED
    BY <1>2, <2>1
<1>8. CASE ConverterExits \/ ConverterDies
  <2>1. /\ rootRows' = <<>>
        /\ UNCHANGED <<unread, num_points, evt_timestamp, phidg, slow,
                       measured, quiet>>
    BY <1>8 DEF ConverterExits, ConverterDies, daq, faults
  <2>2. PICK n \in 0 .. Len(rootRows) : MoveOutput(SubSeq(rootRows, 1, n))
    <3>1. CASE ConverterExits
      <4>1. /\ Len(rootRows) \in 0 .. Len(rootRows)
            /\ SubSeq(rootRows, 1, Len(rootRows)) = rootRows
        BY <1>1 DEF ArrayTypes
      <4>2. QED
        BY <3>1, <4>1 DEF ConverterExits
    <3>2. CASE ConverterDies
      BY <3>2 DEF ConverterDies
    <3>3. QED
      BY <1>8, <3>1, <3>2
  <2>3. /\ SubSeq(rootRows, 1, n) \in Seq(Rows)
        /\ RowsStill(SubSeq(rootRows, 1, n), measured, quiet)
    BY <1>1, <1>2, <2>1, RowsStillPrefix DEF ArrayTypes, StillRows
  <2>4. RowsStill(tmpRows \o SubSeq(rootRows, 1, n), measured, quiet)
    BY <1>1, <1>2, <2>1, <2>3, RowsStillJoin DEF ScriptTypes, StillRows
  <2>5. tmpRows' \in {tmpRows, tmpRows \o SubSeq(rootRows, 1, n)}
    BY <2>2 DEF MoveOutput
  <2>6. RowsStill(tmpRows', measured, quiet)
    BY <1>2, <2>1, <2>4, <2>5 DEF StillRows
  <2>7. RowsStill(rootRows', measured', quiet')
    BY <2>1 DEF RowsStill
  <2>8. QED
    BY <1>2, <1>3, <2>1, <2>6, <2>7
<1>9. CASE Merge \/ Done \/ UNCHANGED vars
  <2>1. UNCHANGED <<unread, rootRows, tmpRows, num_points, evt_timestamp, phidg,
                    slow, measured, quiet>>
    BY <1>9 DEF Merge, Done, vars, converter, daq, script, faults
  <2>2. QED
    BY <1>2, <1>3, <2>1 DEF StillRows
<1>10. QED
  BY <1>4, <1>5, <1>6, <1>7, <1>8, <1>9 DEF Next

\* As long as no process takes an unreadable rest of its file for the end, no
\* row holds data taken while the gantry moved, wherever the files' borders
\* are and however many processes die.
THEOREM StillDataOnly == Spec => []NoMovingDataIfRead
<1>1. Init => StillRows
  BY DEF Init, StillRows, HeldStill, RowsStill, NoPhidgets
<1>2. TypeInv /\ FlagInv /\ StillRows /\ [Next]_vars
        => (TypeInv /\ FlagInv /\ StillRows)'
  BY TypeStep, FlagStep, StillStep
<1>3. TypeInv /\ StillRows => NoMovingDataIfRead
  <2> SUFFICES ASSUME TypeInv, StillRows, unread = 0
               PROVE  NoMovingData
    BY DEF NoMovingDataIfRead
  <2>1. AllRows = tmpRows \o rootRows
    BY DEF AllRows
  <2>2. RowsStill(AllRows, measured, quiet)
    BY <2>1, RowsStillJoin
       DEF TypeInv, ArrayTypes, ScriptTypes, StillRows
  <2>3. QED
    BY <2>2 DEF RowsStill, RowStill, NoMovingData, RowStamps
<1>4. QED
  BY <1>1, <1>2, <1>3, TypeInit, FlagInit, PTL DEF Spec
-----------------------------------------------------------------------------
(***************************************************************************)
(* No event is recorded twice, and every waveform is in the slot of its    *)
(* time stamp.  Both follow from what a step may do to the rows and to the *)
(* counted part of the arrays: rows get lost from the end only, and a new  *)
(* one is what the arrays held.                                            *)
(***************************************************************************)
\* The first n rows stay; the members are kept, or given up with their point.
RowsKept(n) ==
  /\ AllRows' = SubSeq(AllRows, 1, n)
  /\ serial' = serial \/ serial' = serial + 1
  /\ \/ num_points' = 0 /\ phidg' = NoPhidgets
     \/ UNCHANGED <<num_points, evt_timestamp, wave, phidg>>

\* The first n rows stay, and a Phidget reading goes behind those of its bank.
ReadingStored(n, p) ==
  /\ AllRows' = SubSeq(AllRows, 1, n)
  /\ serial' = serial + 1
  /\ phidg' = [phidg EXCEPT ![p] = Append(@, serial + 1)]
  /\ UNCHANGED <<num_points, evt_timestamp, wave>>

\* The first n rows stay, and a digitizer event goes to the next slot.
PointStored(n, mask) ==
  /\ AllRows' = SubSeq(AllRows, 1, n)
  /\ serial' = serial + 1
  /\ num_points < nPoints_max
  /\ num_points' = num_points + 1
  /\ evt_timestamp' = [evt_timestamp EXCEPT ![num_points + 1] = serial + 1]
  /\ wave' = [c \in Channels |->
                IF c \in mask THEN [wave[c] EXCEPT ![num_points + 1] = serial + 1]
                              ELSE wave[c]]
  /\ UNCHANGED phidg

\* The first n rows stay, and the members are added to them as a row.
RowFilled(n) ==
  /\ AllRows' = Append(SubSeq(AllRows, 1, n), Row)
  /\ serial' = serial + 1
  /\ num_points' = 0 /\ phidg' = NoPhidgets

\* Joining the files' rows and cutting them off.
LEMMA RowsOfFiles ==
  ASSUME NEW a \in Seq(Rows), NEW b \in Seq(Rows), NEW n \in 0 .. Len(b)
  PROVE  /\ Len(a) \in 0 .. Len(a \o b)
         /\ Len(a) + n \in 0 .. Len(a \o b)
         /\ a \o b \in Seq(Rows)
         /\ a \o <<>> = SubSeq(a \o b, 1, Len(a))
         /\ a \o SubSeq(b, 1, n) = SubSeq(a \o b, 1, Len(a) + n)
         /\ (a \o SubSeq(b, 1, n)) \o <<>> = SubSeq(a \o b, 1, Len(a) + n)
         /\ a \o b = SubSeq(a \o b, 1, Len(a \o b))
         /\ Len(a \o b) \in 0 .. Len(a \o b)
<1>1. SubSeq(b, 1, n) \in Seq(Rows) /\ Len(SubSeq(b, 1, n)) = n
  OBVIOUS
<1>2. a \o <<>> = a /\ (a \o SubSeq(b, 1, n)) \o <<>> = a \o SubSeq(b, 1, n)
  BY <1>1
<1>3. a \o SubSeq(b, 1, n) = SubSeq(a \o b, 1, Len(a) + n)
  BY <1>1
<1>4. a = SubSeq(a \o b, 1, Len(a))
  OBVIOUS
<1>5. /\ a \o b \in Seq(Rows) /\ Len(a \o b) = Len(a) + Len(b)
      /\ a \o b = SubSeq(a \o b, 1, Len(a \o b))
  OBVIOUS
<1>6. QED
  BY <1>2, <1>3, <1>4, <1>5

\* Every step is one of the four.
LEMMA RowsStep ==
  ASSUME TypeInv, [Next]_vars
  PROVE  \E n \in 0 .. Len(AllRows) :
           \/ RowsKept(n)
           \/ \E m \in ReadoutMasks : PointStored(n, m)
           \/ \E p \in PhidgetBanks : ReadingStored(n, p)
           \/ RowFilled(n)
<1>1. ArrayTypes /\ DaqTypes /\ ScriptTypes
  BY DEF TypeInv
<1>2. tmpRows \in Seq(Rows) /\ rootRows \in Seq(Rows)
  BY <1>1 DEF ArrayTypes, ScriptTypes
<1>3. Len(rootRows) \in 0 .. Len(rootRows)
  BY <1>2
<1>4. /\ Len(tmpRows) \in 0 .. Len(AllRows)
      /\ tmpRows \o <<>> = SubSeq(AllRows, 1, Len(tmpRows))
      /\ Len(AllRows) \in 0 .. Len(AllRows)
      /\ AllRows = SubSeq(AllRows, 1, Len(AllRows))
  BY <1>2, <1>3, RowsOfFiles DEF AllRows
<1>5. ASSUME UNCHANGED <<tmpRows, rootRows, serial, num_points, evt_timestamp,
                         wave, phidg>>
      PROVE  \E n \in 0 .. Len(AllRows) : RowsKept(n)
  <2>1. AllRows' = AllRows
    BY <1>5 DEF AllRows
  <2>2. RowsKept(Len(AllRows))
    BY <1>4, <1>5, <2>1, Zenon DEF RowsKept
  <2>3. QED
    BY <1>4, <2>2
<1>6. CASE StartConverter
  <2>1. /\ UNCHANGED <<tmpRows, serial>> /\ rootRows' = <<>>
        /\ num_points' = 0 /\ phidg' = NoPhidgets
    BY <1>6 DEF StartConverter, FreshMembers, daq
  <2>2. AllRows' = tmpRows \o <<>>
    BY <2>1 DEF AllRows
  <2>3. RowsKept(Len(tmpRows))
    BY <1>4, <2>1, <2>2, Zenon DEF RowsKept
  <2>4. QED
    BY <1>4, <2>3
<1>7. CASE Convert
  <2>1. UNCHANGED tmpRows
    BY <1>7 DEF Convert, script
  <2>2. CASE BeginOfRun
    <3>1. /\ UNCHANGED <<serial, num_points, evt_timestamp, wave, phidg>>
          /\ rootRows' = <<>>
      BY <2>2 DEF BeginOfRun, OpenRootFile, daq
    <3>2. AllRows' = tmpRows \o <<>>
      BY <2>1, <3>1 DEF AllRows
    <3>3. RowsKept(Len(tmpRows))
      BY <1>4, <3>1, <3>2, Zenon DEF RowsKept
    <3>4. QED
      BY <1>4, <3>3
  <2>3. ASSUME NEW b \in EventBanks, NEW m \in ReadoutMasks, ReadEvent(b, m)
        PROVE  \E n \in 0 .. Len(AllRows) :
                 \/ RowsKept(n) \/ PointStored(n, m) \/ RowFilled(n)
                 \/ \E p \in PhidgetBanks : ReadingStored(n, p)
    <3>1. PICK n \in 0 .. Len(AllRows) :
            tmpRows \o RowsSoFar = SubSeq(AllRows, 1, n)
      <4>1. CASE tree = "null"
        BY <1>4, <4>1 DEF RowsSoFar
      <4>2. CASE tree # "null"
        BY <1>4, <4>2, Zenon DEF RowsSoFar, AllRows
      <4>3. QED
        BY <4>1, <4>2
    <3>2. RowsSoFar \in Seq(Rows) /\ Row \in Rows
      BY <1>1, <1>2, RowIsRow DEF ArrayTypes, RowsSoFar
    <3>3. serial' = serial + 1
      BY <2>3 DEF ReadEvent, DaqEvent
    <3>4. \/ /\ rootRows' = RowsSoFar
             /\ UNCHANGED <<num_points, evt_timestamp, wave, phidg>>
          \/ /\ rootRows' = Append(RowsSoFar, Row)
             /\ num_points' = 0 /\ phidg' = NoPhidgets
          \/ /\ rootRows' = RowsSoFar
             /\ num_points < nPoints_max
             /\ num_points' = num_points + 1
             /\ evt_timestamp' = [evt_timestamp EXCEPT ![num_points + 1] = serial + 1]
             /\ wave' = [c \in Channels |->
                  IF c \in m THEN [wave[c] EXCEPT ![num_points + 1] = serial + 1]
                             ELSE wave[c]]
             /\ UNCHANGED phidg
          \/ /\ rootRows' = RowsSoFar
             /\ UNCHANGED <<num_points, evt_timestamp, wave>>
             /\ \E p \in PhidgetBanks :
                  phidg' = [phidg EXCEPT ![p] = Append(@, serial + 1)]
      <4>1. CASE Phidget(b, serial + 1)
        BY <4>1 DEF Phidget, PhidgetBanks
      <4>2. CASE ~Phidget(b, serial + 1)
        BY <2>3, <4>2 DEF ReadEvent, ProcessMidasEvent, EndOfMove,
           BeginningOfNextMove, Digitizer, SlowControl, Rejected
      <4>3. QED
        BY <4>1, <4>2
    <3>5. AllRows' = tmpRows \o rootRows'
      BY <2>1 DEF AllRows
    <3>6. CASE rootRows' = RowsSoFar
      <4>1. AllRows' = SubSeq(AllRows, 1, n)
        BY <3>1, <3>5, <3>6, Zenon
      <4>2. CASE UNCHANGED <<num_points, evt_timestamp, wave, phidg>>
        BY <3>1, <3>3, <4>1, <4>2, Zenon DEF RowsKept
      <4>3. CASE num_points' = 0 /\ phidg' = NoPhidgets
        BY <3>1, <3>3, <4>1, <4>3, Zenon DEF RowsKept
      <4>4. QED
        BY <3>1, <3>3, <3>4, <4>1, <4>2, <4>3, Zenon
           DEF PointStored, ReadingStored
    <3>7. CASE /\ rootRows' = Append(RowsSoFar, Row)
               /\ num_points' = 0 /\ phidg' = NoPhidgets
      <4>1. tmpRows \o Append(RowsSoFar, Row) = Append(tmpRows \o RowsSoFar, Row)
        BY <1>2, <3>2
      <4>2. AllRows' = Append(SubSeq(AllRows, 1, n), Row)
        BY <3>1, <3>5, <3>7, <4>1, Zenon
      <4>3. QED
        BY <3>3, <3>7, <4>2, Zenon DEF RowFilled
    <3>8. QED
      BY <3>4, <3>6, <3>7, Zenon
  <2>4. QED
    BY <1>7, <2>2, <2>3, Zenon DEF Convert
<1>8. CASE FileEnds \/ FileUnreadable
  BY <1>5, <1>8 DEF FileEnds, FileUnreadable, EndOfFile, daq, script
<1>9. CASE ConverterExits \/ ConverterDies
  <2>1. /\ rootRows' = <<>>
        /\ UNCHANGED <<num_points, evt_timestamp, wave, phidg, serial>>
    BY <1>9 DEF ConverterExits, ConverterDies, daq
  <2>2. PICK n \in 0 .. Len(rootRows) : MoveOutput(SubSeq(rootRows, 1, n))
    <3>1. CASE ConverterExits
      <4>1. SubSeq(rootRows, 1, Len(rootRows)) = rootRows
        BY <1>2
      <4>2. QED
        BY <1>3, <3>1, <4>1 DEF ConverterExits
    <3>2. CASE ConverterDies
      BY <3>2 DEF ConverterDies
    <3>3. QED
      BY <1>9, <3>1, <3>2
  <2>3. AllRows' = tmpRows' \o <<>>
    BY <2>1 DEF AllRows
  <2>4. CASE tmpRows' = tmpRows
    <3>1. RowsKept(Len(tmpRows))
      BY <1>4, <2>1, <2>3, <2>4, Zenon DEF RowsKept
    <3>2. QED
      BY <1>4, <3>1
  <2>5. CASE tmpRows' = tmpRows \o SubSeq(rootRows, 1, n)
    <3>1. /\ Len(tmpRows) + n \in 0 .. Len(AllRows)
          /\ (tmpRows \o SubSeq(rootRows, 1, n)) \o <<>>
               = SubSeq(AllRows, 1, Len(tmpRows) + n)
      BY <1>2, RowsOfFiles, Zenon DEF AllRows
    <3>2. RowsKept(Len(tmpRows) + n)
      BY <2>1, <2>3, <2>5, <3>1, Zenon DEF RowsKept
    <3>3. QED
      BY <3>1, <3>2, Zenon
  <2>6. QED
    BY <2>2, <2>4, <2>5 DEF MoveOutput
<1>10. CASE Merge \/ Done \/ UNCHANGED vars
  BY <1>5, <1>10 DEF Merge, Done, vars, converter, daq, script
<1>11. QED
  BY <1>6, <1>7, <1>8, <1>9, <1>10 DEF Next

\* All stamps of a row are below t; those of all rows are.
RowBelow(r, t) ==
  \A b \in Counted : \A k \in DOMAIN Series(r, b) : Series(r, b)[k] < t

Below(rows, t) == \A i \in DOMAIN rows : RowBelow(rows[i], t)

\* A row's stamps grow along its arrays and none is in two of them.
RowRising(r) ==
  \A b, d \in Counted : \A k \in DOMAIN Series(r, b), l \in DOMAIN Series(r, d) :
    /\ b = d /\ k < l => Series(r, b)[k] < Series(r, d)[l]
    /\ b # d => Series(r, b)[k] # Series(r, d)[l]

\* The rows' stamps are earlier than all of row r.
Before(rows, r) ==
  \A b \in Counted : \A k \in DOMAIN Series(r, b) : Below(rows, Series(r, b)[k])

\* The rows' stamps and the held ones are in the order of the stream.
OnceInv ==
  /\ Rising(AllRows)
  /\ Below(AllRows, serial + 1)
  /\ RowRising(Row)
  /\ RowBelow(Row, serial + 1)
  /\ Before(AllRows, Row)

\* The arrays of a row are sequences of stamps.
LEMMA SeriesType ==
  ASSUME NEW r \in Rows, NEW b \in Counted
  PROVE  /\ Series(r, b) \in Seq(Stamps)
         /\ \A k \in DOMAIN Series(r, b) : Series(r, b)[k] \in Nat
<1>1. r.points \in Seq(Stamps) /\ r.phidg \in PhidgetReadings
  BY DEF Rows
<1>2. Series(r, b) \in Seq(Stamps)
  <2>1. CASE b = "V730"
    BY <1>1, <2>1 DEF Series
  <2>2. CASE b # "V730"
    <3>1. b \in PhidgetBanks
      BY <2>2 DEF Counted
    <3>2. r.phidg[b] \in Seq(Stamps)
      BY <1>1, <3>1 DEF PhidgetReadings
    <3>3. QED
      BY <2>2, <3>2 DEF Series
  <2>3. QED
    BY <2>1, <2>2
<1>3. \A k \in DOMAIN Series(r, b) : Series(r, b)[k] \in Stamps
  BY <1>2
<1>4. QED
  BY <1>2, <1>3, ScanAssumption DEF Stamps

\* Cutting rows off keeps their order.
LEMMA RisingPrefix ==
  ASSUME NEW rows \in Seq(Rows), NEW n \in 0 .. Len(rows), NEW r,
         r = SubSeq(rows, 1, n)
  PROVE  /\ r \in Seq(Rows)
         /\ Rising(rows) => Rising(r)
         /\ \A t : Below(rows, t) => Below(r, t)
         /\ \A h : Before(rows, h) => Before(r, h)
<1>1. r \in Seq(Rows)
  OBVIOUS
<1>2. \A i \in DOMAIN r : i \in DOMAIN rows /\ r[i] = rows[i]
  OBVIOUS
<1>3. ASSUME Rising(rows) PROVE Rising(r)
  <2>1. SUFFICES ASSUME NEW i \in DOMAIN r, NEW j \in DOMAIN r,
                        NEW b \in Counted, NEW d \in Counted,
                        NEW k \in DOMAIN Series(r[i], b),
                        NEW l \in DOMAIN Series(r[j], d)
                 PROVE  /\ i < j \/ (i = j /\ b = d /\ k < l) =>
                             Series(r[i], b)[k] < Series(r[j], d)[l]
                        /\ i = j /\ b # d =>
                             Series(r[i], b)[k] # Series(r[j], d)[l]
    BY Zenon DEF Rising
  <2>2. /\ i \in DOMAIN rows /\ r[i] = rows[i]
        /\ j \in DOMAIN rows /\ r[j] = rows[j]
    BY <1>2
  <2>3. k \in DOMAIN Series(rows[i], b) /\ l \in DOMAIN Series(rows[j], d)
    BY <2>1, <2>2, Zenon
  <2>4. /\ i < j \/ (i = j /\ b = d /\ k < l) =>
             Series(rows[i], b)[k] < Series(rows[j], d)[l]
        /\ i = j /\ b # d => Series(rows[i], b)[k] # Series(rows[j], d)[l]
    BY <1>3, <2>2, <2>3, Zenon DEF Rising
  <2>5. QED
    BY <2>2, <2>4, Zenon
<1>4. ASSUME NEW t, Below(rows, t) PROVE Below(r, t)
  BY <1>2, <1>4, Zenon DEF Below
<1>5. ASSUME NEW h, Before(rows, h) PROVE Before(r, h)
  BY <1>4, <1>5, Zenon DEF Before
<1>6. QED
  BY <1>1, <1>3, <1>4, <1>5, Zenon

\* A rising row above those before.
LEMMA RisingAppend ==
  ASSUME NEW rows \in Seq(Rows), NEW r \in Rows, Rising(rows),
         Before(rows, r), RowRising(r)
  PROVE  Rising(Append(rows, r))
<1>1. \A i \in DOMAIN Append(rows, r) :
        \/ i \in DOMAIN rows /\ Append(rows, r)[i] = rows[i] /\ i < Len(rows) + 1
        \/ i = Len(rows) + 1 /\ Append(rows, r)[i] = r
  OBVIOUS
<1>2. /\ Len(rows) \in Nat
      /\ \A i \in DOMAIN rows : i \in Nat /\ i < Len(rows) + 1
  OBVIOUS
<1>3. SUFFICES ASSUME NEW i \in DOMAIN Append(rows, r),
                      NEW j \in DOMAIN Append(rows, r),
                      NEW b \in Counted, NEW d \in Counted,
                      NEW k \in DOMAIN Series(Append(rows, r)[i], b),
                      NEW l \in DOMAIN Series(Append(rows, r)[j], d)
               PROVE  /\ i < j \/ (i = j /\ b = d /\ k < l) =>
                           Series(Append(rows, r)[i], b)[k]
                             < Series(Append(rows, r)[j], d)[l]
                      /\ i = j /\ b # d =>
                           Series(Append(rows, r)[i], b)[k]
                             # Series(Append(rows, r)[j], d)[l]
  BY Zenon DEF Rising
<1>4. CASE i \in DOMAIN rows /\ j \in DOMAIN rows
  <2>1. Append(rows, r)[i] = rows[i] /\ Append(rows, r)[j] = rows[j]
    BY <1>4
  <2>2. QED
    BY <1>3, <1>4, <2>1, Zenon DEF Rising
<1>5. CASE i \in DOMAIN rows /\ j = Len(rows) + 1
  <2>1. Append(rows, r)[i] = rows[i] /\ Append(rows, r)[j] = r
    BY <1>5
  <2>2. i # j
    BY <1>2, <1>5
  <2>3. Series(rows[i], b)[k] < Series(r, d)[l]
    BY <1>3, <1>5, <2>1, Zenon DEF Before, Below, RowBelow
  <2>4. QED
    BY <2>1, <2>2, <2>3, Zenon
<1>6. CASE i = Len(rows) + 1 /\ j \in DOMAIN rows
  <2>1. j < i /\ j \in Nat /\ i \in Nat
    BY <1>2, <1>6
  <2>2. ~(i < j \/ i = j)
    BY <2>1
  <2>3. QED
    BY <2>2
<1>7. CASE i = Len(rows) + 1 /\ j = Len(rows) + 1
  <2>1. Append(rows, r)[i] = r /\ Append(rows, r)[j] = r /\ ~(i < j)
    BY <1>2, <1>7
  <2>2. QED
    BY <1>3, <2>1, Zenon DEF RowRising
<1>8. QED
  BY <1>1, <1>4, <1>5, <1>6, <1>7, Zenon

\* A row of stamps below t after rows of stamps below t.
LEMMA BelowAppend ==
  ASSUME NEW rows \in Seq(Rows), NEW r \in Rows, NEW t, Below(rows, t),
         RowBelow(r, t)
  PROVE  Below(Append(rows, r), t)
<1>1. \A i \in DOMAIN Append(rows, r) :
        Append(rows, r)[i] = r \/ (i \in DOMAIN rows /\ Append(rows, r)[i] = rows[i])
  OBVIOUS
<1>2. QED
  BY <1>1, Zenon DEF Below

\* Later in the stream the stamps are still below.
LEMMA BelowLater ==
  ASSUME NEW t \in Nat
  PROVE  /\ \A r \in Rows : RowBelow(r, t) => RowBelow(r, t + 1)
         /\ \A rows \in Seq(Rows) : Below(rows, t) => Below(rows, t + 1)
<1>1. ASSUME NEW r \in Rows, RowBelow(r, t)
      PROVE  RowBelow(r, t + 1)
  <2>1. ASSUME NEW b \in Counted, NEW k \in DOMAIN Series(r, b)
        PROVE  Series(r, b)[k] < t + 1
    <3>1. Series(r, b)[k] < t
      BY <1>1, <2>1, Zenon DEF RowBelow
    <3>2. Series(r, b)[k] \in Nat
      BY <2>1, SeriesType
    <3>3. QED
      BY <3>1, <3>2
  <2>2. QED
    BY <2>1, Zenon DEF RowBelow
<1>2. ASSUME NEW rows \in Seq(Rows), Below(rows, t)
      PROVE  Below(rows, t + 1)
  <2>1. \A i \in DOMAIN rows : rows[i] \in Rows
    OBVIOUS
  <2>2. QED
    BY <1>1, <1>2, <2>1, Zenon DEF Below
<1>3. QED
  BY <1>1, <1>2, Zenon

\* Every array of row h is one of row g, or empty.
Within(h, g) == \A b \in Counted : Series(h, b) \in {<<>>, Series(g, b)}

\* Row h is row g with stamp t behind one of its arrays.
Stamped(h, g, t) ==
  \E b \in Counted :
    /\ Series(h, b) = Append(Series(g, b), t)
    /\ \A d \in Counted \ {b} : Series(h, d) = Series(g, d)

\* What arrays are given up, the rest keep their order.
LEMMA WithinOrder ==
  ASSUME NEW g, NEW h, Within(h, g)
  PROVE  /\ RowRising(g) => RowRising(h)
         /\ \A t : RowBelow(g, t) => RowBelow(h, t)
         /\ \A rows : Before(rows, g) => Before(rows, h)
<1>1. \A b \in Counted : \A k \in DOMAIN Series(h, b) : Series(h, b) = Series(g, b)
  BY DEF Within
<1>2. ASSUME RowRising(g) PROVE RowRising(h)
  <2>1. SUFFICES ASSUME NEW b \in Counted, NEW d \in Counted,
                        NEW k \in DOMAIN Series(h, b),
                        NEW l \in DOMAIN Series(h, d)
                 PROVE  /\ b = d /\ k < l => Series(h, b)[k] < Series(h, d)[l]
                        /\ b # d => Series(h, b)[k] # Series(h, d)[l]
    BY Zenon DEF RowRising
  <2>2. Series(h, b) = Series(g, b) /\ Series(h, d) = Series(g, d)
    BY <1>1, <2>1, Zenon
  <2>3. k \in DOMAIN Series(g, b) /\ l \in DOMAIN Series(g, d)
    BY <2>1, <2>2, Zenon
  <2>4. /\ b = d /\ k < l => Series(g, b)[k] < Series(g, d)[l]
        /\ b # d => Series(g, b)[k] # Series(g, d)[l]
    BY <1>2, <2>3, Zenon DEF RowRising
  <2>5. QED
    BY <2>2, <2>4, Zenon
<1>3. ASSUME NEW t, RowBelow(g, t) PROVE RowBelow(h, t)
  BY <1>1, <1>3, Zenon DEF RowBelow
<1>4. ASSUME NEW rows, Before(rows, g) PROVE Before(rows, h)
  BY <1>1, <1>4, Zenon DEF Before
<1>5. QED
  BY <1>2, <1>3, <1>4, Zenon

\* The stamp of a later event keeps the order.
LEMMA StampedOrder ==
  ASSUME NEW g \in Rows, NEW h \in Rows, NEW t \in Nat, Stamped(h, g, t),
         RowRising(g), RowBelow(g, t)
  PROVE  /\ RowRising(h)
         /\ RowBelow(h, t + 1)
         /\ \A rows : Below(rows, t) /\ Before(rows, g) => Before(rows, h)
<1>1. PICK b \in Counted :
        /\ Series(h, b) = Append(Series(g, b), t)
        /\ \A d \in Counted \ {b} : Series(h, d) = Series(g, d)
  BY Zenon DEF Stamped
<1>2. Series(g, b) \in Seq(Stamps)
  BY SeriesType
<1>3. ASSUME NEW d \in Counted, NEW k \in DOMAIN Series(h, d)
      PROVE  \/ k \in DOMAIN Series(g, d) /\ Series(h, d)[k] = Series(g, d)[k]
             \/ d = b /\ k = Len(Series(g, b)) + 1 /\ Series(h, d)[k] = t
  <2>1. CASE d = b
    BY <1>1, <1>2, <1>3, <2>1
  <2>2. CASE d # b
    <3>1. Series(h, d) = Series(g, d)
      BY <1>1, <2>2
    <3>2. QED
      BY <1>3, <3>1
  <2>3. QED
    BY <2>1, <2>2
<1>4. /\ Len(Series(g, b)) \in Nat
      /\ \A k \in DOMAIN Series(g, b) : k \in Nat /\ k < Len(Series(g, b)) + 1
  BY <1>2
<1>5. \A d \in Counted : \A k \in DOMAIN Series(g, d) :
        Series(g, d)[k] \in Nat /\ Series(g, d)[k] < t
  BY SeriesType, Zenon DEF RowBelow
<1>6. RowRising(h)
  <2>1. SUFFICES ASSUME NEW d \in Counted, NEW e \in Counted,
                        NEW k \in DOMAIN Series(h, d),
                        NEW l \in DOMAIN Series(h, e)
                 PROVE  /\ d = e /\ k < l => Series(h, d)[k] < Series(h, e)[l]
                        /\ d # e => Series(h, d)[k] # Series(h, e)[l]
    BY Zenon DEF RowRising
  <2>2. CASE /\ k \in DOMAIN Series(g, d) /\ Series(h, d)[k] = Series(g, d)[k]
             /\ l \in DOMAIN Series(g, e) /\ Series(h, e)[l] = Series(g, e)[l]
    BY <2>2, Zenon DEF RowRising
  <2>3. CASE /\ k \in DOMAIN Series(g, d) /\ Series(h, d)[k] = Series(g, d)[k]
             /\ e = b /\ l = Len(Series(g, b)) + 1 /\ Series(h, e)[l] = t
    <3>1. Series(g, d)[k] \in Nat /\ Series(g, d)[k] < t
      BY <1>5, <2>3
    <3>2. QED
      BY <2>3, <3>1
  <2>4. CASE /\ d = b /\ k = Len(Series(g, b)) + 1 /\ Series(h, d)[k] = t
             /\ l \in DOMAIN Series(g, e) /\ Series(h, e)[l] = Series(g, e)[l]
    <3>1. Series(g, e)[l] \in Nat /\ Series(g, e)[l] < t
      BY <1>5, <2>4
    <3>2. d = e => ~(k < l)
      BY <1>4, <2>4
    <3>3. QED
      BY <2>4, <3>1, <3>2
  <2>5. CASE /\ d = b /\ k = Len(Series(g, b)) + 1
             /\ e = b /\ l = Len(Series(g, b)) + 1
    BY <1>4, <2>5
  <2>6. QED
    BY <1>3, <2>1, <2>2, <2>3, <2>4, <2>5
<1>7. RowBelow(h, t + 1)
  <2>1. ASSUME NEW d \in Counted, NEW k \in DOMAIN Series(h, d)
        PROVE  Series(h, d)[k] < t + 1
    <3>1. CASE k \in DOMAIN Series(g, d) /\ Series(h, d)[k] = Series(g, d)[k]
      <4>1. Series(g, d)[k] \in Nat /\ Series(g, d)[k] < t
        BY <1>5, <3>1
      <4>2. QED
        BY <3>1, <4>1
    <3>2. CASE Series(h, d)[k] = t
      BY <3>2
    <3>3. QED
      BY <1>3, <2>1, <3>1, <3>2
  <2>2. QED
    BY <2>1, Zenon DEF RowBelow
<1>8. ASSUME NEW rows, Below(rows, t), Before(rows, g)
      PROVE  Before(rows, h)
  BY <1>3, <1>8, Zenon DEF Before
<1>9. QED
  BY <1>6, <1>7, <1>8, Zenon

\* A step gives the held arrays up, keeps them, or stamps one of them.
LEMMA HeldStep ==
  ASSUME TypeInv, TypeInv'
  PROVE  /\ Row \in Rows /\ Row' \in Rows
         /\ \A n : RowsKept(n) => Within(Row', Row)
         /\ \A n : RowFilled(n) =>
              \A b \in Counted : Series(Row', b) = <<>>
         /\ \A n : \A m \in ReadoutMasks :
              PointStored(n, m) => Stamped(Row', Row, serial + 1)
         /\ \A n : \A p \in PhidgetBanks :
              ReadingStored(n, p) => Stamped(Row', Row, serial + 1)
<1>1. /\ num_points \in 0 .. nPoints_max /\ num_points' \in 0 .. nPoints_max
      /\ evt_timestamp \in [Slots -> Stamps]
      /\ evt_timestamp' \in [Slots -> Stamps]
      /\ phidg \in PhidgetReadings /\ phidg' \in PhidgetReadings
      /\ nPoints_max \in Nat /\ serial \in Nat
  BY ScanAssumption DEF TypeInv, ArrayTypes, DaqTypes, Stamps
<1>2. Row \in Rows /\ Row' \in Rows
  <2>1. Row \in Rows
    BY RowIsRow DEF TypeInv, ArrayTypes
  <2>2. ArrayTypes'
    BY DEF TypeInv
  <2>3. /\ [points |-> SubSeq(evt_timestamp', 1, num_points'),
            waves  |-> [c \in Channels |-> SubSeq(wave'[c], 1, num_points')],
            phidg  |-> phidg', slow |-> slow'] \in Rows
    <3>1. SubSeq(evt_timestamp', 1, num_points') \in Seq(Stamps)
      BY <1>1, ArrayPrefix
    <3>2. \A c \in Channels : wave'[c] \in [Slots -> Stamps]
      BY <2>2 DEF ArrayTypes
    <3>3. \A c \in Channels : SubSeq(wave'[c], 1, num_points') \in Seq(Stamps)
      BY <1>1, <3>2, ArrayPrefix
    <3>4. [c \in Channels |-> SubSeq(wave'[c], 1, num_points')]
            \in [Channels -> Seq(Stamps)]
      BY <3>3
    <3>5. phidg' \in PhidgetReadings /\ slow' \in SlowValues
      BY <2>2 DEF ArrayTypes
    <3>6. QED
      BY <3>1, <3>4, <3>5 DEF Rows
  <2>4. QED
    BY <2>1, <2>3 DEF Row
<1>3. /\ Series(Row, "V730") = SubSeq(evt_timestamp, 1, num_points)
      /\ Series(Row', "V730") = SubSeq(evt_timestamp', 1, num_points')
      /\ \A p \in PhidgetBanks :
           Series(Row, p) = phidg[p] /\ Series(Row', p) = phidg'[p]
  <2>1. \A p \in PhidgetBanks : p # "V730"
    BY DEF PhidgetBanks, Phidgets
  <2>2. /\ Row.points = SubSeq(evt_timestamp, 1, num_points)
        /\ Row'.points = SubSeq(evt_timestamp', 1, num_points')
        /\ Row.phidg = phidg /\ Row'.phidg = phidg'
    BY DEF Row
  <2>3. QED
    BY <2>1, <2>2 DEF Series
<1>4. SubSeq(evt_timestamp', 1, 0) = <<>>
  OBVIOUS
<1>5. ASSUME num_points' = 0, phidg' = NoPhidgets
      PROVE  \A b \in Counted : Series(Row', b) = <<>>
  <2>1. Series(Row', "V730") = <<>>
    BY <1>3, <1>4, <1>5
  <2>2. \A p \in PhidgetBanks : Series(Row', p) = <<>>
    BY <1>3, <1>5 DEF NoPhidgets
  <2>3. QED
    BY <2>1, <2>2 DEF Counted
<1>6. ASSUME UNCHANGED <<num_points, evt_timestamp, wave, phidg>>
      PROVE  \A b \in Counted : Series(Row', b) = Series(Row, b)
  <2>1. Series(Row', "V730") = Series(Row, "V730")
    BY <1>3, <1>6
  <2>2. \A p \in PhidgetBanks : Series(Row', p) = Series(Row, p)
    BY <1>3, <1>6
  <2>3. QED
    BY <2>1, <2>2 DEF Counted
<1>7. ASSUME NEW n, RowsKept(n) PROVE Within(Row', Row)
  BY <1>5, <1>6, <1>7, Zenon DEF RowsKept, Within
<1>8. ASSUME NEW n, RowFilled(n)
      PROVE  \A b \in Counted : Series(Row', b) = <<>>
  BY <1>5, <1>8, Zenon DEF RowFilled
<1>9. ASSUME NEW n, NEW m \in ReadoutMasks, PointStored(n, m)
      PROVE  Stamped(Row', Row, serial + 1)
  <2>1. /\ num_points < nPoints_max /\ num_points' = num_points + 1
        /\ evt_timestamp' = [evt_timestamp EXCEPT ![num_points + 1] = serial + 1]
        /\ UNCHANGED phidg
    BY <1>9 DEF PointStored
  <2>2. /\ num_points + 1 \in Slots
        /\ \A k \in 1 .. num_points : k \in Slots /\ k # num_points + 1
    BY <1>1, <2>1 DEF Slots
  <2>3. /\ evt_timestamp'[num_points + 1] = serial + 1
        /\ \A k \in 1 .. num_points : evt_timestamp'[k] = evt_timestamp[k]
    BY <1>1, <2>1, <2>2
  <2>4. /\ Series(Row, "V730") \in Seq(Stamps)
        /\ Len(Series(Row, "V730")) = num_points
        /\ \A k \in 1 .. num_points : Series(Row, "V730")[k] = evt_timestamp[k]
    BY <1>1, <1>3, ArrayPrefix
  <2>5. /\ Series(Row', "V730") \in Seq(Stamps)
        /\ Len(Series(Row', "V730")) = num_points + 1
        /\ \A k \in 1 .. num_points + 1 : Series(Row', "V730")[k] = evt_timestamp'[k]
    <3>1. /\ SubSeq(evt_timestamp', 1, num_points') \in Seq(Stamps)
          /\ Len(SubSeq(evt_timestamp', 1, num_points')) = num_points'
          /\ \A k \in 1 .. num_points' :
               SubSeq(evt_timestamp', 1, num_points')[k] = evt_timestamp'[k]
      BY <1>1, ArrayPrefix
    <3>2. QED
      BY <1>3, <2>1, <3>1
  <2>6. \A k \in 1 .. num_points : Series(Row', "V730")[k] = Series(Row, "V730")[k]
    BY <1>1, <2>3, <2>4, <2>5
  <2>7. Series(Row', "V730")[num_points + 1] = serial + 1
    BY <1>1, <2>3, <2>5
  <2>8. Series(Row', "V730") = Append(Series(Row, "V730"), serial + 1)
    BY <1>1, <2>4, <2>5, <2>6, <2>7
  <2>9. \A d \in Counted \ {"V730"} : Series(Row', d) = Series(Row, d)
    BY <1>3, <2>1 DEF Counted
  <2>10. "V730" \in Counted
    BY DEF Counted
  <2>11. QED
    BY <2>8, <2>9, <2>10, Zenon DEF Stamped
<1>10. ASSUME NEW n, NEW p \in PhidgetBanks, ReadingStored(n, p)
       PROVE  Stamped(Row', Row, serial + 1)
  <2>1. /\ phidg' = [phidg EXCEPT ![p] = Append(@, serial + 1)]
        /\ UNCHANGED <<num_points, evt_timestamp, wave>>
    BY <1>10 DEF ReadingStored
  <2>2. /\ phidg'[p] = Append(phidg[p], serial + 1)
        /\ \A q \in PhidgetBanks \ {p} : phidg'[q] = phidg[q]
    BY <1>1, <2>1 DEF PhidgetReadings
  <2>3. Series(Row', p) = Append(Series(Row, p), serial + 1)
    BY <1>3, <2>2
  <2>4. Series(Row', "V730") = Series(Row, "V730")
    BY <1>3, <2>1
  <2>5. \A d \in Counted \ {p} : Series(Row', d) = Series(Row, d)
    <3>1. \A d \in Counted \ {p} : d = "V730" \/ d \in PhidgetBanks \ {p}
      BY DEF Counted
    <3>2. \A d \in PhidgetBanks \ {p} : Series(Row', d) = Series(Row, d)
      BY <1>3, <2>2
    <3>3. QED
      BY <2>4, <3>1, <3>2
  <2>6. p \in Counted
    BY DEF Counted
  <2>7. QED
    BY <2>3, <2>5, <2>6, Zenon DEF Stamped
<1>11. QED
  BY <1>2, <1>7, <1>8, <1>9, <1>10, Zenon

\* Every step keeps the order.
LEMMA OnceStep ==
  ASSUME TypeInv, TypeInv', OnceInv, [Next]_vars
  PROVE  OnceInv'
<1>1. serial \in Nat /\ AllRows \in Seq(Rows)
  BY ScanAssumption DEF TypeInv, DaqTypes, ArrayTypes, ScriptTypes, Stamps, AllRows
<1>2. PICK n \in 0 .. Len(AllRows) :
        \/ RowsKept(n)
        \/ \E m \in ReadoutMasks : PointStored(n, m)
        \/ \E p \in PhidgetBanks : ReadingStored(n, p)
        \/ RowFilled(n)
  BY RowsStep
<1>3. PICK r : r = SubSeq(AllRows, 1, n)
  OBVIOUS
<1>4. /\ r \in Seq(Rows) /\ Rising(r) /\ Below(r, serial + 1)
      /\ Before(r, Row)
  BY <1>1, <1>3, RisingPrefix, Zenon DEF OnceInv
<1>5. Row \in Rows /\ Row' \in Rows
  BY HeldStep
<1>6. /\ RowRising(Row) /\ RowBelow(Row, serial + 1)
      /\ serial + 1 \in Nat
  BY <1>1 DEF OnceInv
<1>7. Below(r, serial + 1 + 1) /\ RowBelow(Row, serial + 1 + 1)
  BY <1>4, <1>5, <1>6, BelowLater
<1>8. CASE RowsKept(n)
  <2>1. AllRows' = r /\ (serial' = serial \/ serial' = serial + 1)
    BY <1>3, <1>8 DEF RowsKept
  <2>2. Below(r, serial' + 1) /\ RowBelow(Row, serial' + 1)
    BY <1>4, <1>6, <1>7, <2>1
  <2>3. Within(Row', Row)
    BY <1>8, HeldStep, Zenon
  <2>4. RowRising(Row') /\ RowBelow(Row', serial' + 1) /\ Before(r, Row')
    BY <1>4, <1>6, <2>2, <2>3, WithinOrder, Zenon
  <2>5. QED
    BY <1>4, <2>1, <2>2, <2>4, Zenon DEF OnceInv
<1>9. CASE \/ \E m \in ReadoutMasks : PointStored(n, m)
           \/ \E p \in PhidgetBanks : ReadingStored(n, p)
  <2>1. AllRows' = r /\ serial' = serial + 1
    BY <1>3, <1>9 DEF PointStored, ReadingStored
  <2>2. Stamped(Row', Row, serial + 1)
    BY <1>9, HeldStep, Zenon
  <2>3. RowRising(Row') /\ RowBelow(Row', serial + 1 + 1) /\ Before(r, Row')
    BY <1>4, <1>5, <1>6, <2>2, StampedOrder
  <2>4. QED
    BY <1>4, <1>7, <2>1, <2>3, Zenon DEF OnceInv
<1>10. CASE RowFilled(n)
  <2>1. AllRows' = Append(r, Row) /\ serial' = serial + 1
    BY <1>3, <1>10 DEF RowFilled
  <2>2. \A b \in Counted : Series(Row', b) = <<>>
    BY <1>10, HeldStep, Zenon
  <2>3. \A b \in Counted : \A k : k \notin DOMAIN Series(Row', b)
    BY <2>2
  <2>4. /\ RowRising(Row') /\ RowBelow(Row', serial' + 1)
        /\ Before(AllRows', Row')
    BY <2>3, Zenon DEF RowRising, RowBelow, Before
  <2>5. Rising(Append(r, Row))
    BY <1>4, <1>5, <1>6, RisingAppend
  <2>6. Below(Append(r, Row), serial + 1 + 1)
    BY <1>4, <1>5, <1>7, BelowAppend
  <2>7. QED
    BY <2>1, <2>4, <2>5, <2>6, Zenon DEF OnceInv
<1>11. QED
  BY <1>2, <1>8, <1>9, <1>10

\* No digitizer or Phidget event is recorded twice, in one row or in two, of
\* one subfile or of two, however many processes die: in the rows and in what
\* the converter holds for the next one, the stamps of every counted array
\* grow, and no counter of a row is left for the row behind it.
THEOREM OnceCorrect == Spec => []RecordedOnce
<1>1. Init => OnceInv
  <2> SUFFICES ASSUME Init PROVE OnceInv
    OBVIOUS
  <2>1. tmpRows = <<>> /\ rootRows = <<>> /\ num_points = 0 /\ phidg = NoPhidgets
    BY DEF Init
  <2>2. \A i : i \notin DOMAIN AllRows
    BY <2>1 DEF AllRows
  <2>3. Series(Row, "V730") = <<>>
    <3>1. Series(Row, "V730") = SubSeq(evt_timestamp, 1, 0)
      BY <2>1 DEF Series, Row
    <3>2. QED
      BY <3>1
  <2>4. \A p \in PhidgetBanks : Series(Row, p) = <<>>
    BY <2>1 DEF Series, Row, NoPhidgets, PhidgetBanks, Phidgets
  <2>5. \A b \in Counted : \A k : k \notin DOMAIN Series(Row, b)
    BY <2>3, <2>4 DEF Counted
  <2>6. QED
    BY <2>2, <2>5, Zenon
       DEF OnceInv, Rising, Below, RowRising, RowBelow, Before
<1>2. TypeInv /\ OnceInv /\ [Next]_vars => (TypeInv /\ OnceInv)'
  BY TypeStep, OnceStep
<1>3. OnceInv => RecordedOnce
  BY DEF OnceInv, RecordedOnce
<1>4. QED
  BY <1>1, <1>2, <1>3, TypeInit, PTL DEF Spec

\* In every row the channels' waveforms are in the slots of their stamps.
InSlots(rows) ==
  \A i \in DOMAIN rows : \A c \in Channels : rows[i].waves[c] = rows[i].points

\* The same of the counted part of the arrays: what is left there of earlier
\* points is behind it.
WavesInv ==
  /\ InSlots(AllRows)
  /\ \A c \in Channels : \A s \in 1 .. num_points : wave[c][s] = evt_timestamp[s]

\* Every step keeps the waveforms with their stamps, if all channels are read
\* with every digitizer event.
LEMMA WavesStep ==
  ASSUME ReadoutMasks \subseteq {Channels}, TypeInv, WavesInv, [Next]_vars
  PROVE  WavesInv'
<1>1. /\ num_points \in 0 .. nPoints_max /\ nPoints_max \in Nat
      /\ evt_timestamp \in [Slots -> Stamps]
      /\ \A c \in Channels : wave[c] \in [Slots -> Stamps]
      /\ AllRows \in Seq(Rows)
  BY ScanAssumption DEF TypeInv, ArrayTypes, ScriptTypes, AllRows
<1>2. PICK n \in 0 .. Len(AllRows) :
        \/ RowsKept(n)
        \/ \E m \in ReadoutMasks : PointStored(n, m)
        \/ \E p \in PhidgetBanks : ReadingStored(n, p)
        \/ RowFilled(n)
  BY RowsStep
<1>3. PICK r : r = SubSeq(AllRows, 1, n)
  OBVIOUS
<1>4. r \in Seq(Rows) /\ InSlots(r)
  <2>1. r \in Seq(Rows)
    BY <1>1, <1>3
  <2>2. \A i \in DOMAIN r : i \in DOMAIN AllRows /\ r[i] = AllRows[i]
    BY <1>1, <1>3
  <2>3. QED
    BY <2>1, <2>2 DEF WavesInv, InSlots
<1>5. CASE RowsKept(n)
  <2>1. AllRows' = r
    BY <1>3, <1>5 DEF RowsKept
  <2>2. CASE num_points' = 0
    <3>1. \A s : s \notin 1 .. num_points'
      BY <2>2
    <3>2. QED
      BY <1>4, <2>1, <3>1, Zenon DEF WavesInv
  <2>3. CASE UNCHANGED <<num_points, evt_timestamp, wave>>
    BY <1>4, <2>1, <2>3, Zenon DEF WavesInv
  <2>4. QED
    BY <1>5, <2>2, <2>3 DEF RowsKept
<1>6. CASE \E m \in ReadoutMasks : PointStored(n, m)
  <2>1. PICK m \in ReadoutMasks : PointStored(n, m)
    BY <1>6
  <2>2. m = Channels
    OBVIOUS
  <2>3. /\ AllRows' = r /\ num_points < nPoints_max
        /\ num_points' = num_points + 1
        /\ evt_timestamp' = [evt_timestamp EXCEPT ![num_points + 1] = serial + 1]
        /\ wave' = [c \in Channels |-> [wave[c] EXCEPT ![num_points + 1] = serial + 1]]
    BY <1>3, <2>1, <2>2 DEF PointStored
  <2>4. num_points + 1 \in Slots
    BY <1>1, <2>3 DEF Slots
  <2>5. ASSUME NEW c \in Channels, NEW s \in 1 .. num_points'
        PROVE  wave'[c][s] = evt_timestamp'[s]
    <3>1. wave'[c] = [wave[c] EXCEPT ![num_points + 1] = serial + 1]
      BY <2>3
    <3>2. s \in Slots /\ (s \in 1 .. num_points \/ s = num_points + 1)
      BY <1>1, <2>3, <2>5 DEF Slots
    <3>3. CASE s = num_points + 1
      BY <1>1, <2>3, <3>1, <3>2, <3>3
    <3>4. CASE s \in 1 .. num_points
      <4>1. wave[c][s] = evt_timestamp[s] /\ s # num_points + 1
        BY <1>1, <3>4 DEF WavesInv
      <4>2. QED
        BY <1>1, <2>3, <3>1, <3>2, <4>1
    <3>5. QED
      BY <3>2, <3>3, <3>4
  <2>6. QED
    BY <1>4, <2>3, <2>5 DEF WavesInv
<1>7. CASE RowFilled(n)
  <2>1. AllRows' = Append(r, Row) /\ num_points' = 0
    BY <1>3, <1>7 DEF RowFilled
  <2>2. Row \in Rows
    BY RowIsRow DEF TypeInv, ArrayTypes
  <2>3. ASSUME NEW c \in Channels
        PROVE  Row.waves[c] = Row.points
    <3>1. /\ Row.waves[c] = SubSeq(wave[c], 1, num_points)
          /\ Row.points = SubSeq(evt_timestamp, 1, num_points)
      BY DEF Row
    <3>2. wave[c] \in [Slots -> Stamps]
      BY <1>1
    <3>3. /\ Row.waves[c] \in Seq(Stamps) /\ Len(Row.waves[c]) = num_points
          /\ \A i \in 1 .. num_points : Row.waves[c][i] = wave[c][i]
      BY <1>1, <3>1, <3>2, ArrayPrefix, ZenonT(30)
    <3>4. /\ Row.points \in Seq(Stamps) /\ Len(Row.points) = num_points
          /\ \A i \in 1 .. num_points : Row.points[i] = evt_timestamp[i]
      BY <1>1, <3>1, ArrayPrefix
    <3>5. \A i \in 1 .. num_points : Row.waves[c][i] = Row.points[i]
      BY <3>3, <3>4 DEF WavesInv
    <3>6. QED
      BY <3>3, <3>4, <3>5
  <2>4. \A i \in DOMAIN Append(r, Row) :
          \/ Append(r, Row)[i] = Row
          \/ i \in DOMAIN r /\ Append(r, Row)[i] = r[i]
    BY <1>4, <2>2
  <2>5. InSlots(Append(r, Row))
    BY <1>4, <2>3, <2>4, Zenon DEF InSlots
  <2>6. \A s : s \notin 1 .. num_points'
    BY <2>1
  <2>7. QED
    BY <2>1, <2>5, <2>6, Zenon DEF WavesInv
<1>8. CASE \E p \in PhidgetBanks : ReadingStored(n, p)
  <2>1. AllRows' = r /\ UNCHANGED <<num_points, evt_timestamp, wave>>
    BY <1>3, <1>8 DEF ReadingStored
  <2>2. QED
    BY <1>4, <2>1, Zenon DEF WavesInv
<1>9. QED
  BY <1>2, <1>5, <1>6, <1>7, <1>8

\* If every digitizer event brings all channels, each waveform of a row
\* belongs to the event whose time stamp is in the same slot, for any number
\* of channels and slots.
THEOREM WavesCorrect ==
  ASSUME ReadoutMasks \subseteq {Channels}
  PROVE  Spec => []WavesMatchTimestamps
<1>1. Init => WavesInv
  <2> SUFFICES ASSUME Init PROVE WavesInv
    OBVIOUS
  <2>1. tmpRows = <<>> /\ rootRows = <<>> /\ num_points = 0
    BY DEF Init
  <2>2. AllRows = <<>>
    BY <2>1 DEF AllRows
  <2>3. QED
    BY <2>1, <2>2 DEF WavesInv, InSlots
<1>2. TypeInv /\ WavesInv /\ [Next]_vars => (TypeInv /\ WavesInv)'
  BY TypeStep, WavesStep
<1>3. WavesInv => WavesMatchTimestamps
  BY DEF WavesInv, InSlots, WavesMatchTimestamps
<1>4. QED
  BY <1>1, <1>2, <1>3, TypeInit, PTL DEF Spec
-----------------------------------------------------------------------------
(***************************************************************************)
(* Converting the subfiles one by one implements one pass over the stream. *)
(* Beyond the flag, the mapping needs that no rows are in an output file   *)
(* that a step is about to recreate or leave behind.                       *)
(***************************************************************************)
\* Rows are in a file and in a tree of a process.
FileOfRows ==
  /\ proc = "none" => rootFile = "none"
  /\ rootFile = "none" \/ tree = "null" => rootRows = <<>>

\* Every step keeps that.
LEMMA FileOfRowsStep ==
  ASSUME FileOfRows, [Next]_vars
  PROVE  FileOfRows'
<1>1. CASE StartConverter
  BY <1>1 DEF StartConverter, FileOfRows
<1>2. CASE Convert
  <2>1. CASE BeginOfRun
    BY <2>1 DEF BeginOfRun, OpenRootFile, FileOfRows
  <2>2. ASSUME NEW b \in EventBanks, NEW m \in ReadoutMasks, ReadEvent(b, m)
        PROVE  FileOfRows'
    <3>1. proc' = "reading" /\ rootFile' = "open" /\ tree' = "live"
      BY <2>2 DEF ReadEvent, ProcessMidasEvent, InitializeTree
    <3>2. QED
      BY <3>1 DEF FileOfRows
  <2>3. QED
    BY <1>2, <2>1, <2>2 DEF Convert
<1>3. CASE FileEnds \/ FileUnreadable
  <2>1. /\ proc' = "closed" /\ rootRows' = rootRows
        /\ rootFile' = "none" => rootFile = "none"
        /\ tree' = "null" => tree = "null"
    BY <1>3 DEF FileEnds, FileUnreadable, EndOfFile, CloseRootFile
  <2>2. QED
    BY <2>1 DEF FileOfRows
<1>4. CASE ConverterExits \/ ConverterDies
  BY <1>4 DEF ConverterExits, ConverterDies, FileOfRows
<1>5. CASE Merge \/ Done \/ UNCHANGED vars
  BY <1>5 DEF Merge, Done, vars, converter, FileOfRows
<1>6. QED
  BY <1>1, <1>2, <1>3, <1>4, <1>5 DEF Next

\* What the stream's specification sees of the rows, and of the point.
Recorded(rows) ==
  [i \in DOMAIN rows |-> [points |-> rows[i].points, phidg |-> rows[i].phidg]]
Points == SubSeq(evt_timestamp, 1, num_points)

\* A row more, there and here.
LEMMA RecordedAppend ==
  ASSUME NEW rows \in Seq(Rows), NEW r \in Rows
  PROVE  Recorded(Append(rows, r))
           = Append(Recorded(rows), [points |-> r.points, phidg |-> r.phidg])
<1>1. Append(rows, r) \in Seq(Rows) /\ Len(Append(rows, r)) = Len(rows) + 1
  OBVIOUS
<1>2. DOMAIN rows = 1 .. Len(rows) /\ Len(rows) \in Nat
  OBVIOUS
<1>3. DEFINE s == Recorded(rows)
             x == [points |-> r.points, phidg |-> r.phidg]
             T == [points : Seq(Stamps), phidg : PhidgetReadings]
<1>4. \A i \in DOMAIN rows : rows[i] \in Rows
  OBVIOUS
<1>5. \A i \in DOMAIN rows : s[i] \in T
  BY <1>4 DEF Recorded, Rows
<1>6. s \in Seq(T) /\ Len(s) = Len(rows)
  BY <1>2, <1>5 DEF Recorded
<1>7. x \in T
  BY DEF Rows
<1>8. /\ Append(s, x) \in Seq(T) /\ Len(Append(s, x)) = Len(rows) + 1
      /\ \A i \in 1 .. Len(rows) : Append(s, x)[i] = s[i]
      /\ Append(s, x)[Len(rows) + 1] = x
  BY <1>6, <1>7
<1>9. \A i \in 1 .. Len(rows) + 1 : Recorded(Append(rows, r))[i]
        = [points |-> Append(rows, r)[i].points, phidg |-> Append(rows, r)[i].phidg]
  BY <1>1, <1>2 DEF Recorded
<1>10. \A i \in 1 .. Len(rows) : Recorded(Append(rows, r))[i] = s[i]
  <2>1. \A i \in 1 .. Len(rows) : Append(rows, r)[i] = rows[i]
    OBVIOUS
  <2>2. QED
    BY <1>2, <1>9, <2>1 DEF Recorded
<1>11. Recorded(Append(rows, r))[Len(rows) + 1] = x
  <2>1. Append(rows, r)[Len(rows) + 1] = r
    OBVIOUS
  <2>2. QED
    BY <1>2, <1>9, <2>1
<1> HIDE DEF s, x, T
<1>12. \A i \in 1 .. Len(rows) + 1 : Recorded(Append(rows, r))[i] = Append(s, x)[i]
  BY <1>2, <1>8, <1>10, <1>11
<1>13. /\ Recorded(Append(rows, r)) \in Seq(T)
       /\ Len(Recorded(Append(rows, r))) = Len(rows) + 1
  <2>1. DOMAIN Recorded(Append(rows, r)) = 1 .. Len(rows) + 1
    BY <1>1 DEF Recorded
  <2>2. \A i \in 1 .. Len(rows) + 1 : Append(s, x)[i] \in T
    BY <1>2, <1>8
  <2>3. Recorded(Append(rows, r)) \in [1 .. Len(rows) + 1 -> T]
    BY <1>12, <2>1, <2>2 DEF Recorded
  <2>4. QED
    BY <1>2, <2>3
<1>14. PICK u \in Seq(T) : u = Append(s, x)
  BY <1>8
<1>15. Recorded(Append(rows, r)) = u
  BY <1>8, <1>12, <1>13, <1>14
<1>16. QED
  BY <1>14, <1>15 DEF s, x

\* Another digitizer event in the counted part of the array.
LEMMA PointsAppend ==
  ASSUME NEW a \in [Slots -> Stamps], NEW n \in 0 .. nPoints_max,
         n < nPoints_max, NEW id \in Stamps
  PROVE  SubSeq([a EXCEPT ![n + 1] = id], 1, n + 1) = Append(SubSeq(a, 1, n), id)
<1>1. nPoints_max \in Nat
  BY ScanAssumption
<1>2. n + 1 \in Slots /\ n + 1 \in 0 .. nPoints_max
  BY <1>1 DEF Slots
<1>3. [a EXCEPT ![n + 1] = id] \in [Slots -> Stamps]
  BY <1>2
<1>4. /\ SubSeq(a, 1, n) \in Seq(Stamps) /\ Len(SubSeq(a, 1, n)) = n
      /\ \A i \in 1 .. n : SubSeq(a, 1, n)[i] = a[i]
  BY ArrayPrefix
<1>5. /\ SubSeq([a EXCEPT ![n + 1] = id], 1, n + 1) \in Seq(Stamps)
      /\ Len(SubSeq([a EXCEPT ![n + 1] = id], 1, n + 1)) = n + 1
      /\ \A i \in 1 .. n + 1 :
           SubSeq([a EXCEPT ![n + 1] = id], 1, n + 1)[i] = [a EXCEPT ![n + 1] = id][i]
  BY <1>2, <1>3, ArrayPrefix
<1>6. /\ [a EXCEPT ![n + 1] = id][n + 1] = id
      /\ \A i \in 1 .. n : [a EXCEPT ![n + 1] = id][i] = a[i]
  BY <1>1, <1>2 DEF Slots
<1>7. /\ Append(SubSeq(a, 1, n), id) \in Seq(Stamps)
      /\ Len(Append(SubSeq(a, 1, n), id)) = n + 1
      /\ \A i \in 1 .. n : Append(SubSeq(a, 1, n), id)[i] = a[i]
      /\ Append(SubSeq(a, 1, n), id)[n + 1] = id
  BY <1>4
<1>8. \A i \in 1 .. n + 1 :
        SubSeq([a EXCEPT ![n + 1] = id], 1, n + 1)[i] = Append(SubSeq(a, 1, n), id)[i]
  BY <1>5, <1>6, <1>7
<1>9. QED
  BY <1>5, <1>7, <1>8

\* An event is a step of the stream, while the flag is right.
LEMMA EventStreams ==
  ASSUME TypeInv, FileOfRows, (accept => still) /\ (still => accept),
         NEW b \in EventBanks, NEW mask \in ReadoutMasks, ReadEvent(b, mask),
         UNCHANGED tmpRows
  PROVE  Stream!Next
<1>1. /\ ArrayTypes /\ serial \in Stamps /\ accept \in BOOLEAN /\ still \in BOOLEAN
      /\ tmpRows \in Seq(Rows) /\ rootRows \in Seq(Rows)
  BY DEF TypeInv, ArrayTypes, DaqTypes, ScriptTypes
<1>2. /\ proc = "reading" /\ proc' = "reading" /\ serial' = serial + 1
      /\ serial + 1 \in Stamps
  BY <1>1, ScanAssumption DEF ReadEvent, DaqEvent, Stamps
<1>3. FlagInForce = accept /\ FlagInForce' = accept'
  BY <1>2 DEF FlagInForce
<1>4. RowsSoFar = rootRows
  BY DEF RowsSoFar, FileOfRows
<1>5. AllRows \in Seq(Rows) /\ AllRows = tmpRows \o rootRows
      /\ AllRows' = tmpRows \o rootRows'
  BY <1>1 DEF AllRows
<1>6. ASSUME rootRows' = RowsSoFar
      PROVE  Recorded(AllRows') = Recorded(AllRows)
  BY <1>4, <1>5, <1>6
<1>7. Stream!vars = <<FlagInForce, Points, phidg, Recorded(AllRows), measured, serial>>
  BY DEF Stream!vars, Points, Recorded
<1>8. /\ measured' = IF IsData(b) /\ still /\ Measures(b)
                     THEN measured \cup {serial + 1} ELSE measured
      /\ ProcessMidasEvent(b, mask, serial + 1)
  BY DEF ReadEvent, DaqEvent
<1>9. CASE EndOfMove(b)
  <2>1. measured' = measured /\ accept' = TRUE
    BY <1>8, <1>9 DEF EndOfMove, IsData
  <2>2. UNCHANGED <<Points, phidg>> /\ Recorded(AllRows') = Recorded(AllRows)
    BY <1>6, <1>9 DEF EndOfMove, Points
  <2>3. Stream!StartMeasurement
    BY <1>3, <2>1, <2>2 DEF Stream!StartMeasurement, Points, Recorded
  <2>4. QED
    BY <1>2, <2>3 DEF Stream!Next
<1>10. CASE BeginningOfNextMove(b)
  <2>1. measured' = measured /\ accept' = FALSE /\ phidg' = NoPhidgets
        /\ num_points' = 0 /\ rootRows' = Append(rootRows, Row)
        /\ UNCHANGED evt_timestamp
    BY <1>4, <1>8, <1>10 DEF BeginningOfNextMove, IsData
  <2>2. Row \in Rows /\ Row.points = Points /\ Row.phidg = phidg
    BY <1>1, RowIsRow DEF ArrayTypes, Row, Points
  <2>3. AllRows' = Append(AllRows, Row)
    BY <1>1, <1>5, <2>1, <2>2
  <2>4. Recorded(AllRows') = Append(Recorded(AllRows), [points |-> Points, phidg |-> phidg])
    BY <1>5, <2>2, <2>3, RecordedAppend
  <2>5. Points' = <<>>
    BY <2>1 DEF Points
  <2>6. Stream!Record
    BY <1>3, <2>1, <2>4, <2>5 DEF Stream!Record, Points, Recorded, NoPhidgets
  <2>7. QED
    BY <1>2, <2>6 DEF Stream!Next
<1>11. CASE Digitizer(b, mask, serial + 1)
  <2>1. accept /\ accept' = accept /\ IsData(b) /\ Measures(b)
        /\ UNCHANGED phidg /\ Recorded(AllRows') = Recorded(AllRows)
    BY <1>6, <1>11 DEF Digitizer, Measures
  <2>2. measured' = measured \cup {serial + 1}
    BY <1>1, <1>8, <2>1
  <2>3. Len(Points) = num_points
    BY <1>1, ArrayPrefix DEF ArrayTypes, Points
  <2>4. CASE num_points < nPoints_max
    <3>1. /\ num_points' = num_points + 1
          /\ evt_timestamp' = [evt_timestamp EXCEPT ![num_points + 1] = serial + 1]
      BY <1>11, <2>4 DEF Digitizer
    <3>2. Points' = Append(Points, serial + 1)
      BY <1>1, <1>2, <2>4, <3>1, PointsAppend DEF ArrayTypes, Points
    <3>3. Stream!TakePoint
      BY <1>2, <1>3, <2>1, <2>2, <2>3, <2>4, <3>2
         DEF Stream!TakePoint, Points, Recorded
    <3>4. QED
      BY <1>2, <3>3 DEF Stream!Next
  <2>5. CASE ~(num_points < nPoints_max)
    <3>1. UNCHANGED Points
      BY <1>11, <2>5 DEF Digitizer, Points
    <3>2. Stream!TakePoint
      BY <1>2, <1>3, <2>1, <2>2, <2>3, <2>5, <3>1
         DEF Stream!TakePoint, Points, Recorded
    <3>3. QED
      BY <1>2, <3>2 DEF Stream!Next
  <2>6. QED
    BY <2>4, <2>5
<1>12. CASE Phidget(b, serial + 1)
  <2>1. PICK k \in DOMAIN Phidgets :
          /\ Phidgets[k] \in b
          /\ phidg' = [phidg EXCEPT ![Phidgets[k]] = Append(@, serial + 1)]
    BY <1>12 DEF Phidget
  <2>2. Phidgets[k] \in PhidgetBanks
    BY DEF PhidgetBanks
  <2>3. accept /\ accept' = accept /\ IsData(b) /\ Measures(b)
        /\ UNCHANGED Points /\ Recorded(AllRows') = Recorded(AllRows)
    BY <1>6, <1>12, <2>1, <2>2 DEF Phidget, Measures, Points
  <2>4. measured' = measured \cup {serial + 1}
    BY <1>1, <1>8, <2>3
  <2>5. Stream!TakeReading(Phidgets[k])
    BY <1>2, <1>3, <2>1, <2>3, <2>4 DEF Stream!TakeReading, Points, Recorded
  <2>6. QED
    BY <1>2, <2>2, <2>5 DEF Stream!Next
<1>13. CASE SlowControl(b, serial + 1) \/ Rejected(b)
  <2>1. /\ measured' = measured /\ accept' = accept /\ UNCHANGED <<Points, phidg>>
        /\ Recorded(AllRows') = Recorded(AllRows)
    BY <1>1, <1>6, <1>8, <1>13 DEF SlowControl, Rejected, Points
  <2>2. Stream!Ignore
    BY <1>3, <2>1 DEF Stream!Ignore, Points, Recorded
  <2>3. QED
    BY <1>2, <2>2 DEF Stream!Next
<1>14. QED
  BY <1>8, <1>9, <1>10, <1>11, <1>12, <1>13 DEF ProcessMidasEvent

\* Every step that leaves nothing cut, unread or dead is a step of the stream
\* or leaves it as it is.
LEMMA StreamStep ==
  ASSUME TypeInv, FlagInv, FileOfRows, [Next]_vars, Clean'
  PROVE  Stream!Next \/ UNCHANGED Stream!vars
<1>1. ArrayTypes /\ DaqTypes /\ ScriptTypes
  BY DEF TypeInv
<1>2. tmpRows \in Seq(Rows) /\ rootRows \in Seq(Rows)
      /\ crashes \in Nat /\ unread \in Nat
  BY <1>1 DEF ArrayTypes, ScriptTypes
<1>3. crashes' = 0 /\ unread' = 0 /\ ~cut'
  BY DEF Clean
<1>4. ASSUME UNCHANGED <<FlagInForce, Points, phidg, AllRows, measured, serial>>
      PROVE  UNCHANGED Stream!vars
  BY <1>4 DEF Stream!vars, Points
<1>5. CASE StartConverter
  <2>1. /\ cut' = (cut \/ ~AtRest) /\ proc = "none" /\ proc' = "reading"
        /\ accept' = Flag(retval) /\ rootRows' = <<>> /\ num_points' = 0
        /\ phidg' = NoPhidgets /\ UNCHANGED <<tmpRows, measured, serial>>
    BY <1>5 DEF StartConverter, FreshMembers, daq
  <2>2. num_points = 0 /\ phidg = NoPhidgets
    BY <1>3, <2>1 DEF AtRest
  <2>3. Points' = Points
    BY <2>1, <2>2 DEF Points
  <2>4. FlagInForce' = FlagInForce
    BY <2>1 DEF FlagInForce
  <2>5. AllRows' = AllRows
    BY <2>1 DEF AllRows, FileOfRows
  <2>6. QED
    BY <1>4, <2>1, <2>2, <2>3, <2>4, <2>5
<1>6. CASE Convert
  <2>1. UNCHANGED <<tmpRows, crashes, unread>>
    BY <1>6 DEF Convert, script, faults
  <2>2. CASE BeginOfRun
    <3>1. /\ UNCHANGED <<proc, accept, num_points, evt_timestamp, phidg, measured,
                         serial>>
          /\ proc # "none" /\ rootRows' = <<>> /\ tree = "null"
      BY <2>2 DEF BeginOfRun, OpenRootFile, daq
    <3>2. AllRows' = AllRows
      BY <2>1, <3>1 DEF AllRows, FileOfRows
    <3>3. UNCHANGED <<FlagInForce, Points>>
      BY <3>1 DEF FlagInForce, Points
    <3>4. QED
      BY <1>4, <3>1, <3>2, <3>3
  <2>3. ASSUME NEW b \in EventBanks, NEW m \in ReadoutMasks, ReadEvent(b, m)
        PROVE  Stream!Next
    <3>1. proc # "none" /\ crashes = 0 /\ unread = 0
      BY <1>3, <2>1, <2>3 DEF ReadEvent
    <3>2. (accept => still) /\ (still => accept)
      BY <3>1 DEF FlagInv, FlagHeld, Right
    <3>3. QED
      BY <2>1, <2>3, <3>2, EventStreams
  <2>4. QED
    BY <1>6, <2>2, <2>3 DEF Convert
<1>7. CASE FileEnds
  <2>1. /\ proc = "reading" /\ proc' = "closed"
        /\ UNCHANGED <<accept, rootRows, tmpRows, num_points, evt_timestamp,
                       phidg, measured, serial>>
    BY <1>7 DEF FileEnds, EndOfFile, daq, script
  <2>2. UNCHANGED <<FlagInForce, Points, AllRows>>
    BY <2>1 DEF FlagInForce, Points, AllRows
  <2>3. QED
    BY <1>4, <2>1, <2>2
<1>8. CASE FileUnreadable
  BY <1>2, <1>3, <1>8 DEF FileUnreadable
<1>9. CASE ConverterExits
  <2>1. /\ proc # "none" /\ proc' = "none" /\ rootRows' = <<>>
        /\ retval' = IF accept THEN 1 ELSE 0
        /\ MoveOutput(rootRows)
        /\ UNCHANGED <<num_points, evt_timestamp, phidg, measured, serial>>
    BY <1>9 DEF ConverterExits, daq
  <2>2. tmpRows' = tmpRows \o rootRows
    <3>1. CASE rootFile = "none"
      BY <1>2, <2>1, <3>1 DEF MoveOutput, FileOfRows
    <3>2. CASE rootFile # "none"
      BY <2>1, <3>2 DEF MoveOutput
    <3>3. QED
      BY <3>1, <3>2
  <2>3. (tmpRows \o rootRows) \o <<>> = tmpRows \o rootRows
    BY <1>2
  <2>4. AllRows' = AllRows
    BY <2>1, <2>2, <2>3 DEF AllRows
  <2>5. accept \in BOOLEAN
    BY <1>1 DEF ScriptTypes
  <2>6. FlagInForce' = FlagInForce
    BY <2>1, <2>5 DEF FlagInForce, Flag
  <2>7. Points' = Points
    BY <2>1 DEF Points
  <2>8. QED
    BY <1>4, <2>1, <2>4, <2>6, <2>7
<1>10. CASE ConverterDies
  BY <1>2, <1>3, <1>10 DEF ConverterDies
<1>11. CASE Merge \/ Done \/ UNCHANGED vars
  <2>1. UNCHANGED <<proc, accept, retval, rootRows, tmpRows, num_points,
                    evt_timestamp, phidg, measured, serial>>
    BY <1>11 DEF Merge, Done, vars, converter, daq, script
  <2>2. UNCHANGED <<FlagInForce, Points, AllRows>>
    BY <2>1 DEF FlagInForce, Points, AllRows
  <2>3. QED
    BY <1>4, <2>1, <2>2
<1>12. QED
  BY <1>5, <1>6, <1>7, <1>8, <1>9, <1>10, <1>11 DEF Next

\* The subfiles of a run, each converted by a process of its own that gets the
\* flag from the one before, yield what one pass over the whole stream would,
\* as long as no border cuts a point, no process dies and all can be read.
THEOREM StreamImplemented == Spec => ImplementsStream
<1>1. Init => Stream!Init
  <2> SUFFICES ASSUME Init PROVE Stream!Init
    OBVIOUS
  <2>1. /\ proc = "none" /\ retval = 0 /\ num_points = 0 /\ phidg = NoPhidgets
        /\ tmpRows = <<>> /\ rootRows = <<>> /\ measured = {} /\ serial = 0
    BY DEF Init
  <2>2. FlagInForce = FALSE
    BY <2>1 DEF FlagInForce, Flag
  <2>3. AllRows = <<>> /\ Points = <<>>
    BY <2>1 DEF AllRows, Points
  <2>4. Recorded(AllRows) = <<>>
    BY <2>3 DEF Recorded
  <2>5. QED
    BY <2>1, <2>2, <2>3, <2>4 DEF Stream!Init, Points, Recorded, NoPhidgets
<1>2. Init => FileOfRows
  BY DEF Init, FileOfRows
<1>3. TypeInv /\ FlagInv /\ FileOfRows /\ [Next]_vars
        => (TypeInv /\ FlagInv /\ FileOfRows)'
  BY TypeStep, FlagStep, FileOfRowsStep
<1>4. TypeInv /\ FlagInv /\ FileOfRows /\ [Next]_vars
        => [Clean' => Stream!Next]_(Stream!vars)
  BY StreamStep
<1>5. QED
  BY <1>1, <1>2, <1>3, <1>4, TypeInit, FlagInit, PTL DEF Spec, ImplementsStream
=============================================================================
