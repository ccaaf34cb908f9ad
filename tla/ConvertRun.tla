----------------------------- MODULE ConvertRun -----------------------------
(***************************************************************************)
(* midas2root/run_convert_to_root.sh: the subfiles of a run are converted  *)
(* one after the other, each by its own midas2root_ptf process.  The       *)
(* process gets the acceptance flag as an argument and returns it as its   *)
(* exit code, the script hands it on to the next process, renames each     *)
(* output file and finally merges them with hadd.                          *)
(***************************************************************************)
EXTENDS ScanToTree

CONSTANTS
  MaxFiles,      \* bound: subfiles of the run
  CutMidPoint,   \* TRUE if the border of two subfiles may cut a point with data
  MaxCrashes,    \* bound: converter processes that die
  MaxUnread      \* bound: subfiles of which a part cannot be read

ASSUME ConvertAssumption ==
  /\ MaxFiles \in Nat
  /\ CutMidPoint \in BOOLEAN
  /\ MaxCrashes \in Nat
  /\ MaxUnread \in Nat

VARIABLES
  nfile,         \* subfiles started so far
  retval,        \* RETVAL: '0', then the exit code of the last process
  tmpRows,       \* rows of the files tmp_<basename>.root, in glob order
  ntmp,          \* number of these files
  merged,        \* hadd has run
  crashes, unread,
  cut            \* a point with data was cut by a border

faults == <<crashes, unread, cut>>
script == <<nfile, retval, tmpRows, ntmp, merged>>
vars == <<converter, daq, script, faults>>

Signalled == 139   \* exit code of a process that died from a signal

Init ==
  /\ proc = "none" /\ accept = FALSE /\ tree = "null"
  /\ rootFile = "none" /\ rootRows = <<>>
  /\ num_points = 0
  /\ evt_timestamp = [s \in Slots |-> 0]
  /\ wave = [c \in Channels |-> [s \in Slots |-> 0]]
  /\ phidg = NoPhidgets
  /\ slow = [b \in SlowBanks |-> 0]
  /\ serial = 0 /\ still = FALSE /\ quiet = {} /\ measured = {} /\ lastMove = 0
  /\ nfile = 0 /\ retval = 0 /\ tmpRows = <<>> /\ ntmp = 0 /\ merged = FALSE
  /\ crashes = 0 /\ unread = 0 /\ cut = FALSE
-----------------------------------------------------------------------------
\* Mutant: any exit code but 0 counts as accepting.
FlagNonZero(x) == x # 0

\* Mutant: the flag argument is ignored, the process starts by rejecting.
FlagIgnored(x) == FALSE

\* main(): the flag is 0 or 1; with any other number it keeps its initial
\* value, false.
Flag(x) == x = 1

\* The current point has no data yet.
AtRest == num_points = 0 /\ phidg = NoPhidgets

\* There is a next subfile.  The members still hold what the last process
\* left: unless CutMidPoint, a subfile that ends inside a point is the last.
StartConverter ==
  /\ proc = "none" /\ ~merged
  /\ nfile < MaxFiles
  /\ CutMidPoint \/ AtRest
  /\ cut' = (cut \/ ~AtRest)
  /\ nfile' = nfile + 1
  /\ proc' = "reading"
  /\ accept' = Flag(retval)
  /\ FreshMembers
  /\ rootFile' = "none" /\ rootRows' = <<>>
  /\ UNCHANGED <<daq, retval, tmpRows, ntmp, merged, crashes, unread>>

Convert ==
  /\ \/ BeginOfRun
     \/ \E b \in EventBanks, m \in ReadoutMasks : ReadEvent(b, m)
  /\ UNCHANGED <<script, faults>>

FileEnds ==
  /\ EndOfFile
  /\ UNCHANGED <<daq, script, faults>>

\* TMidasFile::Open fails, or Read meets a bad header or a short event: the
\* loop ends as at the end of the file.  Unread events may hold markers.
FileUnreadable ==
  /\ unread < MaxUnread
  /\ unread' = unread + 1
  /\ EndOfFile
  /\ still' \in BOOLEAN
  /\ UNCHANGED <<serial, quiet, measured, lastMove, script, crashes, cut>>

\* Mutant: a file without rows replaces the rows of the files before.
MoveOutputReplaces(rows) ==
  /\ tmpRows' = rows
  /\ ntmp' = ntmp + 1

\* "mv output000<run>.root tmp_<basename>.root" of an output with these rows
MoveOutput(rows) ==
  IF rootFile = "none"
  THEN UNCHANGED <<tmpRows, ntmp>>
  ELSE /\ tmpRows' = tmpRows \o rows
       /\ ntmp' = ntmp + 1

\* main() returns the flag; the arguments after the first name no file.
ConverterExits ==
  /\ proc = "closed"
  /\ proc' = "none"
  /\ retval' = IF accept THEN 1 ELSE 0
  /\ MoveOutput(rootRows)
  /\ rootFile' = "none" /\ rootRows' = <<>>
  /\ UNCHANGED <<accept, tree, num_points, evt_timestamp, wave, phidg, slow,
                 daq, nfile, merged, faults>>

\* The process dies while it reads or after it; the script takes the exit
\* code for a flag.  ROOT recovers the rows its last autosave reached, and
\* the rest of the file may hold markers.
ConverterDies ==
  /\ proc # "none"
  /\ crashes < MaxCrashes
  /\ crashes' = crashes + 1
  /\ proc' = "none"
  /\ retval' = Signalled
  /\ \E n \in 0 .. Len(rootRows) : MoveOutput(SubSeq(rootRows, 1, n))
  /\ rootFile' = "none" /\ rootRows' = <<>>
  /\ still' \in IF proc = "reading" THEN BOOLEAN ELSE {still}
  /\ UNCHANGED <<accept, tree, num_points, evt_timestamp, wave, phidg, slow,
                 serial, quiet, measured, lastMove, nfile, merged, unread,
                 cut>>

\* hadd -f out_run<run>.root tmp_*.root
Merge ==
  /\ proc = "none" /\ ~merged
  /\ nfile > 0
  /\ merged' = TRUE
  /\ UNCHANGED <<converter, daq, nfile, retval, tmpRows, ntmp, faults>>

Done == merged /\ UNCHANGED vars

Next ==
  \/ StartConverter
  \/ Convert
  \/ FileEnds
  \/ FileUnreadable
  \/ ConverterExits
  \/ ConverterDies
  \/ Merge
  \/ Done

Spec == Init /\ [][Next]_vars
-----------------------------------------------------------------------------
AllRows == tmpRows \o rootRows

\* The stamps of a row's measurement data, and of all rows.
RowStamps(r) ==
  {r.points[i] : i \in DOMAIN r.points}
    \cup UNION {{r.phidg[p][i] : i \in DOMAIN r.phidg[p]} : p \in PhidgetBanks}
RecordedStamps == UNION {RowStamps(AllRows[i]) : i \in DOMAIN AllRows}

\* The variables keep their types, and num_points stays inside the arrays.
TypeOK ==
  /\ proc \in {"none", "reading", "closed"}
  /\ accept \in BOOLEAN
  /\ tree \in {"null", "live", "deleted"}
  /\ rootFile \in {"none", "open", "closed"}
  /\ num_points \in 0 .. nPoints_max
  /\ evt_timestamp \in [Slots -> Stamps]
  /\ wave \in [Channels -> [Slots -> Stamps]]
  /\ phidg \in [PhidgetBanks -> Seq(Stamps)]
  /\ slow \in [SlowBanks -> Stamps]
  /\ serial \in Stamps
  /\ still \in BOOLEAN
  /\ quiet \in SUBSET Stamps
  /\ measured \in SUBSET quiet
  /\ lastMove \in Stamps
  /\ nfile \in 0 .. MaxFiles
  /\ retval \in {0, 1, Signalled}
  /\ ntmp \in 0 .. nfile
  /\ merged \in BOOLEAN
  /\ crashes \in 0 .. MaxCrashes
  /\ unread \in 0 .. MaxUnread
  /\ cut \in BOOLEAN

\* The flag of the running process, or the one its successor will start with.
FlagInForce == IF proc = "none" THEN Flag(retval) ELSE accept

\* The flag survives the switch from one file to another: as long as every
\* file was read to its end it tells whether the gantry is still.  A process
\* that dies on the way hands on an exit code that makes the next one reject,
\* so even then the flag is never set while the gantry moves.
AcceptFollowsGantry ==
  unread = 0 =>
    /\ FlagInForce => still
    /\ crashes = 0 => (still => FlagInForce)

\* midas2root/README.md: the flag handed from file to file keeps "noisy
\* non-sense waveforms" of a moving gantry out of the rows.
NoMovingData ==
  \A i \in DOMAIN AllRows :
    /\ RowStamps(AllRows[i]) \subseteq measured
    /\ \A b \in SlowBanks : AllRows[i].slow[b] \in quiet \cup {0}

\* That is so whatever the files' borders and whichever processes die, as
\* long as no process takes an unreadable rest of its file for the end.
NoMovingDataIfRead == unread = 0 => NoMovingData

\* What a row holds of the events with bank b, of which a counter tells how
\* many there are
Counted == {"V730"} \cup PhidgetBanks
Series(r, b) == IF b = "V730" THEN r.points ELSE r.phidg[b]

\* These stamps grow along every array, and all those of a row are earlier than
\* those of the rows behind it.  No event is in two arrays of a row.
Rising(rows) ==
  \A i, j \in DOMAIN rows : \A b, d \in Counted :
    \A k \in DOMAIN Series(rows[i], b), l \in DOMAIN Series(rows[j], d) :
      LET s == Series(rows[i], b)[k]
          t == Series(rows[j], d)[l] IN
      /\ i < j \/ (i = j /\ b = d /\ k < l) => s < t
      /\ i = j /\ b # d => s # t

\* No digitizer or Phidget event is recorded twice, so no counter survives the
\* row it was written in, whichever processes die and wherever files end.
RecordedOnce == Rising(AllRows)

\* When every digitizer event brings all channels, each waveform of a row
\* belongs to the event whose time stamp is in the same slot, although the
\* arrays keep their contents from point to point.
WavesMatchTimestamps ==
  \A i \in DOMAIN AllRows : \A c \in Channels :
    AllRows[i].waves[c] = AllRows[i].points

\* Once a point is finished, its measurement data are in a row, but for what
\* came when that row had nPoints_max digitizer events already.
FinishedPointsWhole ==
  \A s \in measured : s < lastMove =>
    \/ s \in RecordedStamps
    \/ \E i \in DOMAIN AllRows :
         /\ Len(AllRows[i].points) = nPoints_max
         /\ \A k \in Slots : AllRows[i].points[k] < s

\* No process died, every file was read to its end and no border of two files
\* was inside a point.
Clean == crashes = 0 /\ unread = 0 /\ ~cut

(***************************************************************************)
(* The files and processes implement one pass over the whole stream.       *)
(***************************************************************************)
Stream == INSTANCE ScanStream WITH
  Phidgets  <- PhidgetBanks,
  measuring <- FlagInForce,
  points    <- SubSeq(evt_timestamp, 1, num_points),
  readings  <- phidg,
  recorded  <- [i \in DOMAIN AllRows |->
                  [points |-> AllRows[i].points, phidg |-> AllRows[i].phidg]],
  taken     <- measured,
  clock     <- serial

\* As long as no subfile ends inside a point and nothing fails, converting the
\* subfiles one by one records what one pass over the whole stream would.
ImplementsStream == Stream!Init /\ [][Clean' => Stream!Next]_(Stream!vars)
=============================================================================
