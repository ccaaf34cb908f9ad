----------------------------- MODULE MidasFile -----------------------------
(***************************************************************************)
(* TMidasFile: reading events from a .mid file, which may be a plain file, *)
(* the output of a command (popen) or a compressed file, and may have been *)
(* cut off anywhere.  An event is a header of fixed size, which holds the  *)
(* size of the data, and the data.                                         *)
(*                                                                         *)
(* The contents of a file are a sequence of cells; a cell knows the event, *)
(* the part of it and the place in the part it belongs to, so that it can  *)
(* be seen whether the reader puts events together as they were written.   *)
(***************************************************************************)
EXTENDS Naturals, Sequences

CONSTANTS
  HeaderSize,    \* cells of an event header (16 bytes in the code)
  MaxSize,       \* the largest good data size (500 MB in the code)
  Sizes,         \* the data sizes headers may hold, good ones and others
  MaxEvents,     \* bound: events of a file
  MaxErrors      \* bound: reads that fail

ASSUME FileAssumption ==
  /\ HeaderSize \in Nat \ {0}
  /\ MaxSize \in Nat
  /\ Sizes \subseteq Nat
  /\ MaxEvents \in Nat /\ MaxErrors \in Nat

VARIABLES
  sizes,         \* the data sizes in the headers of the events written
  starts,        \* where in the file each of them begins, and the next would
  disk,          \* the contents of the file
  pos,           \* how much of it has been read
  compressed,    \* fGzFile: it is read with gzread, else with readpipe
  state,         \* the logger is "writing"; the reader is "closed", reads a
                 \* "header" or "data", after Read "failed", or is "done"
  buf,           \* what the running readpipe or gzread has stored
  header,        \* fEventHeader of the event being read
  delivered,     \* events Read returned
  fLastError,    \* why Read or Open returned false
  errors

reader == <<state, buf, header, delivered, fLastError>>
file == <<sizes, starts, disk>>
vars == <<file, pos, compressed, reader, errors>>

Cells(e, part, n) == [k \in 1 .. n |-> [event |-> e, part |-> part, at |-> k]]
IsGoodSize(n) == n > 0 /\ n <= MaxSize

\* An event as the logger writes it.  A header with a bad size is damaged, and
\* nothing is said of what follows it.
Frame(e, size) ==
  Cells(e, "header", HeaderSize) \o
  Cells(e, "data", IF IsGoodSize(size) THEN size ELSE 0)

Init ==
  /\ sizes = <<>> /\ starts = <<0>> /\ disk = <<>>
  /\ pos = 0
  /\ compressed \in BOOLEAN
  /\ state = "writing" /\ buf = <<>> /\ header = <<>> /\ delivered = <<>>
  /\ fLastError = "none" /\ errors = 0
-----------------------------------------------------------------------------
(***************************************************************************)
(* The logger writes the file, before it is read here.                     *)
(***************************************************************************)
WriteEvent ==
  /\ state = "writing"
  /\ Len(sizes) < MaxEvents
  /\ \E size \in Sizes :
       /\ sizes' = Append(sizes, size)
       /\ disk' = disk \o Frame(Len(sizes) + 1, size)
  /\ starts' = Append(starts, Len(disk'))
  /\ UNCHANGED <<pos, compressed, reader, errors>>

\* The file ends here, or wherever the disk was full or the copy stopped.
CutOff ==
  /\ state = "writing"
  /\ \E cut \in 0 .. Len(disk) : disk' = SubSeq(disk, 1, cut)
  /\ state' = "closed"
  /\ UNCHANGED <<sizes, starts, pos, compressed, buf, header, delivered,
                 fLastError, errors>>
-----------------------------------------------------------------------------
Open ==
  /\ state = "closed"
  /\ \/ state' = "header" /\ UNCHANGED <<fLastError, errors>>
     \/ /\ errors < MaxErrors
        /\ errors' = errors + 1
        /\ state' = "done" /\ fLastError' = "errno"
  /\ UNCHANGED <<file, pos, compressed, buf, header, delivered>>

Fail(why) ==
  /\ state' = "failed"
  /\ fLastError' = why
  /\ UNCHANGED <<buf, header, delivered>>

\* The size in a header; cells that are no header would be read as some size.
SizeIn(h) == IF h = Cells(h[1].event, "header", HeaderSize)
             THEN {sizes[h[1].event]} ELSE Sizes

\* What the running readpipe or gzread was asked for
Wanted(n) == \/ state = "header" /\ n = HeaderSize
             \/ state = "data" /\ n \in SizeIn(header)

\* One read of readpipe stores what there is, at least one cell and at most
\* what is missing; gzread stores all that is missing if there is as much.
Stored(missing, n) ==
  /\ n \in 1 .. missing /\ pos + n <= Len(disk)
  /\ compressed => n = missing \/ pos + n = Len(disk)

\* Mutant: readpipe does not read again after it got less than it asked for.
ReturnedAtOnce(b, n) == TRUE

\* readpipe and gzread return when they have all, or at the end of the file.
Returned(b, n) == Len(b) = n

\* Mutant: the amount of data is not compared with the size.
DataShort(b, n) == FALSE
\* The data are not all there.
Short(b, n) == Len(b) # n

\* Read goes on when a readpipe or gzread of n cells returned b.
HeaderRead(b) ==
  \/ /\ Len(b) # HeaderSize
     /\ Fail("errno")
  \/ /\ Len(b) = HeaderSize
     /\ \E n \in SizeIn(b) :
          \/ ~IsGoodSize(n) /\ Fail("size")
          \/ /\ IsGoodSize(n)
             /\ state' = "data" /\ header' = b /\ buf' = <<>>
             /\ UNCHANGED <<delivered, fLastError>>

DataRead(b, n) ==
  \/ Short(b, n) /\ Fail("errno")
  \/ /\ ~Short(b, n)
     /\ delivered' = Append(delivered, header \o b)
     /\ state' = "header" /\ header' = <<>> /\ buf' = <<>>
     /\ UNCHANGED fLastError

Return(b, n) ==
  \/ state = "header" /\ HeaderRead(b)
  \/ state = "data" /\ DataRead(b, n)

ReadSome ==
  \E size \in Sizes \cup {HeaderSize}, n \in 1 .. Len(disk) :
    /\ Wanted(size)
    /\ Stored(size - Len(buf), n)
    /\ pos' = pos + n
    /\ LET b == buf \o SubSeq(disk, pos + 1, pos + n) IN
         IF Returned(b, size)
         THEN Return(b, size)
         ELSE /\ buf' = b
              /\ UNCHANGED <<state, header, delivered, fLastError>>
    /\ UNCHANGED <<file, compressed, errors>>

\* Mutant: a cut-off header is taken for the end of the file.
AtEndAnyhow(b) == state = "header"
\* Read got nothing at all for a header.
AtEnd(b) == state = "header" /\ b = <<>>

\* Mutant: readpipe does not look for the end of the file.
ReadNothingForEver == FALSE
ReadNothing == pos = Len(disk)

\* A read returned 0.
ReadEnd ==
  \E size \in Sizes \cup {HeaderSize} :
    /\ Wanted(size)
    /\ ReadNothing
    /\ IF AtEnd(buf) THEN Fail("EOF") ELSE Return(buf, size)
    /\ UNCHANGED <<file, pos, compressed, errors>>

\* A read failed: readpipe and gzread return -1, whatever was stored.
ReadError ==
  /\ state \in {"header", "data"}
  /\ errors < MaxErrors
  /\ errors' = errors + 1
  /\ Fail("errno")
  /\ UNCHANGED <<file, pos, compressed>>

Close ==
  /\ state = "failed"
  /\ state' = "done"
  /\ UNCHANGED <<file, pos, compressed, buf, header, delivered, fLastError,
                 errors>>

Done == state = "done" /\ UNCHANGED vars

Next ==
  \/ WriteEvent \/ CutOff
  \/ Open \/ ReadSome \/ ReadEnd \/ ReadError \/ Close \/ Done

Spec == Init /\ [][Next]_vars

\* A read of a file or of a command's output returns, if only with nothing;
\* no read need fail.
FairSpec == Spec /\ WF_vars(Open \/ ReadSome \/ ReadEnd \/ Close)
-----------------------------------------------------------------------------
\* What Read returns are the events of the file, whole and in their order,
\* however the reads were split and wherever the file was cut off.
EventsWhole == \A i \in DOMAIN delivered : delivered[i] = Frame(i, sizes[i])

\* "EOF" tells that the file was read whole: it ends where the last event that
\* Read returned ends.  One that is cut off inside an event, or damaged, ends
\* in another error.
EofMeansAllRead ==
  fLastError = "EOF" => Len(disk) = starts[Len(delivered) + 1]

\* Short reads alone never end the loop: without an error of a read, only the
\* end of the file or a damaged header does.
OnlyDamageEnds ==
  state = "failed" /\ errors = 0 =>
    \/ pos = Len(disk)
    \/ fLastError = "size"

\* A file comes to its end.
ReadingEnds == state = "header" ~> state = "done"
=============================================================================
