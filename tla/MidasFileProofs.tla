--------------------------- MODULE MidasFileProofs ---------------------------
(***************************************************************************)
(* Proofs about MidasFile, for any header size, any limit of the data      *)
(* size, any sizes in the headers, any number of events and of failing     *)
(* reads, and a file cut off anywhere.                                     *)
(*                                                                         *)
(* The argument: the file is the events one after the other, as far as it  *)
(* goes (Layout); the reader, with k events returned, is inside event      *)
(* k + 1, and what it has in its header and in its buffer are the cells of *)
(* the file from the start of that event on (AtHeader, AtData).  So what   *)
(* it takes for a header is one, the size in it is the size of the event's *)
(* data, and after that many cells the next event starts.                  *)
(***************************************************************************)
EXTENDS MidasFile, SequenceTheorems, TLAPS

\* A byte of the file: where it belongs.
Cell == [event : Nat, part : {"header", "data"}, at : Nat]

\* What is in a sequence put together from two.
LEMMA ConcatCells ==
  ASSUME NEW a \in Seq(Cell), NEW b \in Seq(Cell)
  PROVE  /\ a \o b \in Seq(Cell)
         /\ Len(a \o b) = Len(a) + Len(b)
         /\ \A k \in 1 .. Len(a) : (a \o b)[k] = a[k]
         /\ \A k \in 1 .. Len(b) : (a \o b)[Len(a) + k] = b[k]
BY ConcatProperties

\* What is in the n cells of a sequence behind the first m.
LEMMA SubSeqCells ==
  ASSUME NEW a \in Seq(Cell), NEW m \in Nat, NEW n \in Nat, m + n <= Len(a)
  PROVE  /\ SubSeq(a, m + 1, m + n) \in Seq(Cell)
         /\ Len(SubSeq(a, m + 1, m + n)) = n
         /\ \A k \in 1 .. n : SubSeq(a, m + 1, m + n)[k] = a[m + k]
<1>1. \A k \in m + 1 .. m + n : k \in 1 .. Len(a)
  OBVIOUS
<1>2. SubSeq(a, m + 1, m + n) \in Seq(Cell)
  BY <1>1
<1>3. QED
  BY <1>1, <1>2

\* The cells of one part of an event are a sequence.
LEMMA CellsAreSequence ==
  ASSUME NEW e \in Nat, NEW part \in {"header", "data"}, NEW n \in Nat
  PROVE  /\ Cells(e, part, n) \in Seq(Cell)
         /\ Len(Cells(e, part, n)) = n
         /\ \A k \in 1 .. n :
              Cells(e, part, n)[k] = [event |-> e, part |-> part, at |-> k]
<1>1. \A k \in 1 .. n : [event |-> e, part |-> part, at |-> k] \in Cell
  BY DEF Cell
<1>2. Cells(e, part, n) \in [1 .. n -> Cell]
  BY <1>1 DEF Cells
<1>3. QED
  BY <1>2 DEF Cells

\* The data cells of a frame: none if the size is bad.
DataSize(size) == IF IsGoodSize(size) THEN size ELSE 0

\* An event in the file is its header and then its data.
LEMMA FrameCells ==
  ASSUME NEW e \in Nat, NEW size \in Nat
  PROVE  /\ Frame(e, size) \in Seq(Cell)
         /\ Len(Frame(e, size)) = HeaderSize + DataSize(size)
         /\ \A k \in 1 .. HeaderSize :
              Frame(e, size)[k] = Cells(e, "header", HeaderSize)[k]
         /\ \A k \in 1 .. DataSize(size) :
              Frame(e, size)[HeaderSize + k] = Cells(e, "data", DataSize(size))[k]
<1> DEFINE h == Cells(e, "header", HeaderSize)
           d == Cells(e, "data", DataSize(size))
<1>1. DataSize(size) \in Nat /\ HeaderSize \in Nat
  BY FileAssumption DEF DataSize
<1>2. h \in Seq(Cell) /\ Len(h) = HeaderSize
  BY <1>1, CellsAreSequence
<1>3. d \in Seq(Cell) /\ Len(d) = DataSize(size)
  BY <1>1, CellsAreSequence
<1>4. Frame(e, size) = h \o d
  BY DEF Frame, DataSize
<1> HIDE DEF h, d
<1>5. /\ h \o d \in Seq(Cell)
      /\ Len(h \o d) = HeaderSize + DataSize(size)
      /\ \A k \in 1 .. HeaderSize : (h \o d)[k] = h[k]
      /\ \A k \in 1 .. DataSize(size) : (h \o d)[HeaderSize + k] = d[k]
  <2>1. /\ h \o d \in Seq(Cell)
        /\ Len(h \o d) = Len(h) + Len(d)
        /\ \A k \in 1 .. Len(h) : (h \o d)[k] = h[k]
        /\ \A k \in 1 .. Len(d) : (h \o d)[Len(h) + k] = d[k]
    BY <1>2, <1>3, ConcatCells, Zenon
  <2>2. QED
    BY <1>2, <1>3, <2>1, Zenon
<1>6. QED
  BY <1>4, <1>5 DEF h, d

\* The file holds the events one after the other, up to where it was cut off.
Layout ==
  /\ sizes \in Seq(Sizes)
  /\ starts \in Seq(Nat) /\ Len(starts) = Len(sizes) + 1 /\ starts[1] = 0
  /\ disk \in Seq(Cell)
  /\ Len(disk) <= starts[Len(sizes) + 1]
  /\ \A e \in 1 .. Len(sizes) :
       /\ starts[e + 1] = starts[e] + HeaderSize + DataSize(sizes[e])
       /\ \A k \in 1 .. HeaderSize + DataSize(sizes[e]) :
            starts[e] + k <= Len(disk) =>
              disk[starts[e] + k] = Frame(e, sizes[e])[k]

\* Sizes and positions are numbers.
LEMMA SizesAreNat ==
  ASSUME Layout, NEW e \in 1 .. Len(sizes)
  PROVE  /\ sizes[e] \in Nat /\ DataSize(sizes[e]) \in Nat /\ starts[e] \in Nat
         /\ starts[e + 1] \in Nat /\ HeaderSize \in Nat
<1>1. sizes[e] \in Sizes
  BY DEF Layout
<1>2. sizes[e] \in Nat
  BY <1>1, FileAssumption
<1>3. starts[e] \in Nat /\ starts[e + 1] \in Nat
  BY DEF Layout
<1>4. QED
  BY <1>2, <1>3, FileAssumption DEF DataSize

\* While the logger writes, the file ends where the next event will begin.
Written ==
  state = "writing" =>
    /\ Len(disk) = starts[Len(sizes) + 1]
    /\ \A e \in 1 .. Len(starts) : starts[e] <= Len(disk)

\* The logger keeps the layout, and cutting the file off does not disturb it.
LEMMA LayoutStep ==
  ASSUME Layout, Written, Next
  PROVE  Layout' /\ Written'
<1>1. CASE UNCHANGED file /\ (state' = "writing" => state = "writing")
  BY <1>1 DEF Layout, Written, file, DataSize
<1>2. CASE WriteEvent
  <2> DEFINE e == Len(sizes) + 1
  <2>1. PICK size \in Sizes : /\ sizes' = Append(sizes, size)
                              /\ disk' = disk \o Frame(e, size)
    BY <1>2 DEF WriteEvent
  <2>2. starts' = Append(starts, Len(disk'))
    BY <1>2 DEF WriteEvent
  <2>3. /\ e \in Nat /\ e \in 1 .. e /\ Len(disk) \in Nat
        /\ size \in Nat /\ DataSize(size) \in Nat /\ HeaderSize \in Nat
    BY FileAssumption DEF Layout, DataSize
  <2>4. /\ Frame(e, size) \in Seq(Cell)
        /\ Len(Frame(e, size)) = HeaderSize + DataSize(size)
    BY <2>3, FrameCells
  <2>5. /\ disk' \in Seq(Cell)
        /\ Len(disk') = Len(disk) + HeaderSize + DataSize(size)
        /\ \A k \in 1 .. Len(disk) : disk'[k] = disk[k]
        /\ \A k \in 1 .. HeaderSize + DataSize(size) :
             disk'[Len(disk) + k] = Frame(e, size)[k]
    <3>1. disk \in Seq(Cell)
      BY DEF Layout
    <3>2. /\ disk' \in Seq(Cell)
          /\ Len(disk') = Len(disk) + Len(Frame(e, size))
          /\ \A k \in 1 .. Len(disk) : disk'[k] = disk[k]
          /\ \A k \in 1 .. Len(Frame(e, size)) :
               disk'[Len(disk) + k] = Frame(e, size)[k]
      BY <2>1, <2>4, <3>1, ConcatCells, Zenon
    <3>3. Len(disk') = Len(disk) + HeaderSize + DataSize(size)
      <4>1. Len(disk') = Len(disk) + (HeaderSize + DataSize(size))
        BY <2>4, <3>2, Zenon
      <4>2. QED
        BY <2>3, <4>1
    <3>4. QED
      BY <2>4, <3>2, <3>3, Zenon
  <2>6. /\ sizes' \in Seq(Sizes) /\ Len(sizes') = e /\ sizes'[e] = size
        /\ \A i \in 1 .. Len(sizes) : sizes'[i] = sizes[i]
    BY <2>1 DEF Layout
  <2>7. /\ starts' \in Seq(Nat) /\ Len(starts') = e + 1
        /\ starts'[e + 1] = Len(disk')
        /\ \A i \in 1 .. e : starts'[i] = starts[i]
    BY <2>2, <2>5 DEF Layout
  <2>8. starts[e] = Len(disk) /\ \A i \in 1 .. e : starts[i] <= Len(disk)
    BY <1>2 DEF WriteEvent, Written, Layout
  <2>9. ASSUME NEW i \in 1 .. Len(sizes)
        PROVE  /\ starts'[i + 1] = starts'[i] + HeaderSize + DataSize(sizes'[i])
               /\ \A k \in 1 .. HeaderSize + DataSize(sizes'[i]) :
                    disk'[starts'[i] + k] = Frame(i, sizes'[i])[k]
    <3>1. i \in 1 .. e /\ i + 1 \in 1 .. e
      BY DEF Layout
    <3>2. starts[i + 1] = starts[i] + HeaderSize + DataSize(sizes[i])
      BY DEF Layout
    <3>3. DataSize(sizes[i]) \in Nat /\ starts[i] \in Nat /\ HeaderSize \in Nat
      BY SizesAreNat
    <3>4. ASSUME NEW k \in 1 .. HeaderSize + DataSize(sizes[i])
          PROVE  disk'[starts[i] + k] = Frame(i, sizes[i])[k]
      <4>1. starts[i] + k \in 1 .. Len(disk)
        <5>1. k \in Nat /\ k > 0 /\ k <= HeaderSize + DataSize(sizes[i])
          BY <2>3, <3>3
        <5>2. starts[i + 1] <= Len(disk) /\ Len(disk) \in Nat
          BY <2>8, <3>1 DEF Layout
        <5>3. QED
          BY <3>2, <3>3, <5>1, <5>2, SMTT(30)
      <4>2. disk[starts[i] + k] = Frame(i, sizes[i])[k]
        BY <4>1 DEF Layout
      <4>3. QED
        BY <2>5, <4>1, <4>2
    <3>5. QED
      BY <2>6, <2>7, <3>1, <3>2, <3>4
  <2>10. Layout'
    <3>1. \A i \in 1 .. Len(sizes') : i = e \/ i \in 1 .. Len(sizes)
      BY <2>6 DEF Layout
    <3>2. /\ starts'[e + 1] = starts'[e] + HeaderSize + DataSize(sizes'[e])
          /\ \A k \in 1 .. HeaderSize + DataSize(sizes'[e]) :
               disk'[starts'[e] + k] = Frame(e, sizes'[e])[k]
      <4>1. starts'[e] = Len(disk) /\ Len(disk) \in Nat
        BY <2>3, <2>7, <2>8, Zenon
      <4>2. starts'[e + 1] = starts'[e] + HeaderSize + DataSize(sizes'[e])
        BY <2>5, <2>6, <2>7, <4>1
      <4>3. QED
        BY <2>5, <2>6, <4>1, <4>2, Zenon
    <3>3. Len(disk') <= starts'[Len(sizes') + 1]
      BY <2>5, <2>6, <2>7
    <3>4. QED
      <4>1. \A i \in 1 .. Len(sizes') :
              /\ starts'[i + 1] = starts'[i] + HeaderSize + DataSize(sizes'[i])
              /\ \A k \in 1 .. HeaderSize + DataSize(sizes'[i]) :
                   disk'[starts'[i] + k] = Frame(i, sizes'[i])[k]
        BY <2>9, <3>1, <3>2, Zenon
      <4>2. Len(starts') = Len(sizes') + 1
        BY <2>6, <2>7
      <4>3. starts'[1] = 0
        BY <2>3, <2>7 DEF Layout
      <4>4. QED
        BY <2>5, <2>6, <2>7, <3>3, <4>1, <4>2, <4>3 DEF Layout, DataSize, Frame
  <2>11. Written'
    <3>1. Len(disk) \in Nat /\ Len(disk) <= Len(disk')
      BY <2>3, <2>5 DEF Layout
    <3>2. \A i \in 1 .. e : starts[i] \in Nat
      BY DEF Layout
    <3>3. \A i \in 1 .. e + 1 : i = e + 1 \/ i \in 1 .. e
      BY <2>3
    <3>4. \A i \in 1 .. e + 1 : starts'[i] <= Len(disk')
      BY <2>5, <2>7, <2>8, <3>1, <3>2, <3>3
    <3>5. QED
      BY <2>6, <2>7, <3>4 DEF Written
  <2>12. QED
    BY <2>10, <2>11
<1>3. CASE CutOff
  <2>1. PICK cut \in 0 .. Len(disk) : disk' = SubSeq(disk, 1, cut)
    BY <1>3 DEF CutOff
  <2>2. /\ disk' \in Seq(Cell) /\ Len(disk') = cut
        /\ \A k \in 1 .. cut : disk'[k] = disk[k]
    BY <2>1 DEF Layout
  <2>3. sizes' = sizes /\ starts' = starts /\ state' # "writing"
    BY <1>3 DEF CutOff
  <2>4. Len(disk) <= starts[Len(sizes) + 1] /\ Len(disk') <= Len(disk)
    BY <2>2 DEF Layout
  <2>5. Len(disk') <= starts[Len(sizes) + 1]
    BY <2>2, <2>4 DEF Layout
  <2>6. ASSUME NEW e \in 1 .. Len(sizes),
               NEW k \in 1 .. HeaderSize + DataSize(sizes[e]),
               starts[e] + k <= Len(disk')
        PROVE  disk'[starts[e] + k] = Frame(e, sizes[e])[k]
    <3>1. starts[e] \in Nat /\ DataSize(sizes[e]) \in Nat /\ HeaderSize \in Nat
      BY SizesAreNat
    <3>2. starts[e] + k \in 1 .. cut /\ starts[e] + k <= Len(disk)
      <4>1. k \in Nat /\ k > 0 /\ Len(disk) \in Nat
        BY <3>1 DEF Layout
      <4>2. QED
        BY <2>2, <2>4, <2>6, <3>1, <4>1
    <3>3. QED
      BY <2>2, <3>2 DEF Layout
  <2>7. QED
    BY <2>2, <2>3, <2>5, <2>6 DEF Layout, Written, DataSize
<1>4. QED
  BY <1>1, <1>2, <1>3
     DEF Next, Open, ReadSome, ReadEnd, ReadError, Close, Done, Return, HeaderRead,
         DataRead, Fail, vars, reader

\* The number of the event the reader is in, and where in the file it begins.
Current == Len(delivered) + 1
Start == starts[Current]

\* Before the first Read nothing is read, and no error stands.
Fresh ==
  state \in {"writing", "closed"} =>
    pos = 0 /\ delivered = <<>> /\ header = <<>> /\ buf = <<>>

\* The cells in the buffer are those of the file from position from on, and
\* the reader has read up to them.
BufferFrom(from) ==
  /\ pos = from + Len(buf)
  /\ \A k \in 1 .. Len(buf) : buf[k] = disk[from + k]

\* In the header, the buffer has the first cells of the event.
AtHeader ==
  state = "header" =>
    header = <<>> /\ Len(buf) < HeaderSize /\ BufferFrom(Start)

\* In the data, the header is the event's, its size is good, and the buffer
\* has the first cells of the data.
AtData ==
  state = "data" =>
    /\ Current <= Len(sizes)
    /\ IsGoodSize(sizes[Current])
    /\ header = Cells(Current, "header", HeaderSize)
    /\ Len(buf) < sizes[Current]
    /\ BufferFrom(Start + HeaderSize)

\* Where the reader is, in every state.
Reading ==
  /\ state \in {"writing", "closed", "header", "data", "failed", "done"}
  /\ buf \in Seq(Cell)
  /\ delivered \in Seq(Seq(Cell)) /\ Len(delivered) <= Len(sizes)
  /\ pos \in Nat /\ pos <= Len(disk)
  /\ Fresh /\ AtHeader /\ AtData
  /\ state \notin {"failed", "done"} => fLastError # "EOF"

FileInv == Layout /\ Written /\ Reading /\ EventsWhole /\ EofMeansAllRead

\* The reader is in one of the events, or behind the last.
LEMMA CurrentTyped ==
  ASSUME Layout, Reading
  PROVE  /\ Current \in 1 .. Len(sizes) + 1 /\ Len(sizes) \in Nat
         /\ Start \in Nat /\ Len(disk) \in Nat
         /\ HeaderSize \in Nat /\ HeaderSize > 0
<1>1. Len(sizes) \in Nat /\ Len(delivered) \in Nat /\ Len(disk) \in Nat
  BY DEF Layout, Reading
<1>2. Current \in 1 .. Len(sizes) + 1
  BY <1>1 DEF Reading, Current
<1>3. Start \in Nat
  BY <1>2 DEF Layout, Start
<1>4. QED
  BY <1>1, <1>2, <1>3, FileAssumption

\* A header tells the size of its event's data.
LEMMA SizeInHeader ==
  ASSUME NEW e \in Nat
  PROVE  SizeIn(Cells(e, "header", HeaderSize)) = {sizes[e]}
<1>1. 1 \in 1 .. HeaderSize /\ HeaderSize \in Nat
  BY FileAssumption
<1>2. Cells(e, "header", HeaderSize)[1].event = e
  BY <1>1 DEF Cells
<1>3. QED
  BY <1>2 DEF SizeIn

\* What a read puts behind the buffer continues the cells of the file there.
LEMMA BufferGrown ==
  ASSUME Layout, Reading, NEW from \in Nat, BufferFrom(from),
         NEW n \in Nat, pos + n <= Len(disk)
  PROVE  LET b == buf \o SubSeq(disk, pos + 1, pos + n) IN
           /\ b \in Seq(Cell) /\ Len(b) = Len(buf) + n
           /\ pos + n = from + Len(b)
           /\ \A k \in 1 .. Len(b) : b[k] = disk[from + k]
<1> DEFINE b == buf \o SubSeq(disk, pos + 1, pos + n)
<1> DEFINE r == SubSeq(disk, pos + 1, pos + n)
<1>1. disk \in Seq(Cell) /\ pos \in Nat /\ buf \in Seq(Cell) /\ Len(buf) \in Nat
  BY DEF Layout, Reading
<1>2. /\ r \in Seq(Cell) /\ Len(r) = n
      /\ \A k \in 1 .. n : r[k] = disk[pos + k]
  BY <1>1, SubSeqCells
<1> HIDE DEF r
<1>3. b = buf \o r
  BY DEF r
<1> HIDE DEF b
<1>4. /\ b \in Seq(Cell) /\ Len(b) = Len(buf) + Len(r)
      /\ \A k \in 1 .. Len(buf) : b[k] = buf[k]
      /\ \A k \in 1 .. Len(r) : b[Len(buf) + k] = r[k]
  <2>1. /\ buf \o r \in Seq(Cell) /\ Len(buf \o r) = Len(buf) + Len(r)
        /\ \A k \in 1 .. Len(buf) : (buf \o r)[k] = buf[k]
        /\ \A k \in 1 .. Len(r) : (buf \o r)[Len(buf) + k] = r[k]
    BY <1>1, <1>2, ConcatCells, Zenon
  <2>2. QED
    BY <1>3, <2>1, Zenon
<1>5. Len(b) = Len(buf) + n /\ pos = from + Len(buf)
  BY <1>2, <1>4 DEF BufferFrom
<1>6. ASSUME NEW k \in 1 .. Len(b) PROVE b[k] = disk[from + k]
  <2>1. CASE k \in 1 .. Len(buf)
    BY <1>4, <2>1 DEF BufferFrom
  <2>2. CASE k \notin 1 .. Len(buf)
    <3>1. PICK j \in 1 .. n : k = Len(buf) + j
      <4>1. k - Len(buf) \in 1 .. n /\ k = Len(buf) + (k - Len(buf))
        BY <1>1, <1>5, <2>2
      <4>2. QED
        BY <4>1
    <3>2. b[k] = disk[pos + j]
      BY <1>2, <1>4, <3>1, Zenon
    <3>3. pos + j = from + k
      BY <1>1, <1>5, <3>1
    <3>4. QED
      BY <3>2, <3>3
  <2>3. QED
    BY <2>1, <2>2
<1>7. QED
  BY <1>1, <1>4, <1>5, <1>6 DEF b

\* A whole header that the reader has is the header of the event it is in.
LEMMA HeaderWhole ==
  ASSUME Layout, Reading, NEW b \in Seq(Cell), Len(b) = HeaderSize,
         Start + HeaderSize <= Len(disk),
         \A k \in 1 .. Len(b) : b[k] = disk[Start + k]
  PROVE  Current <= Len(sizes) /\ b = Cells(Current, "header", HeaderSize)
<1>1. Current \in 1 .. Len(sizes)
  <2>1. Len(disk) <= starts[Len(sizes) + 1]
    BY DEF Layout
  <2>2. Current # Len(sizes) + 1
    BY <2>1, CurrentTyped DEF Start
  <2>3. QED
    BY <2>2, CurrentTyped
<1> DEFINE h == Cells(Current, "header", HeaderSize)
<1>2. sizes[Current] \in Nat /\ DataSize(sizes[Current]) \in Nat
  BY <1>1, SizesAreNat
<1>3. Current \in Nat /\ HeaderSize \in Nat /\ Start \in Nat /\ Len(disk) \in Nat
  BY CurrentTyped
<1>4. h \in Seq(Cell) /\ Len(h) = HeaderSize
  BY <1>3, CellsAreSequence
<1>5. ASSUME NEW k \in 1 .. HeaderSize PROVE b[k] = h[k]
  <2>1. k \in 1 .. HeaderSize + DataSize(sizes[Current])
    BY <1>2, <1>3
  <2>2. Start + k <= Len(disk)
    BY <1>3
  <2>3. disk[Start + k] = Frame(Current, sizes[Current])[k]
    BY <1>1, <2>1, <2>2 DEF Layout, Start
  <2>4. Frame(Current, sizes[Current])[k] = h[k]
    BY <1>2, <1>3, FrameCells, ZenonT(30)
  <2>5. QED
    BY <2>3, <2>4
<1> HIDE DEF h
<1>6. b = h
  BY <1>4, <1>5, SeqEqual
<1>7. QED
  BY <1>1, <1>6 DEF h

\* Behind a whole header, as many cells as it says are the event's data, and
\* the next event begins behind them.
LEMMA DataWhole ==
  ASSUME Layout, Reading, state = "data",
         NEW b \in Seq(Cell), Len(b) = sizes[Current],
         Start + HeaderSize + Len(b) <= Len(disk),
         \A k \in 1 .. Len(b) : b[k] = disk[Start + HeaderSize + k]
  PROVE  /\ header \o b = Frame(Current, sizes[Current])
         /\ starts[Current + 1] = Start + HeaderSize + Len(b)
<1>1. /\ Current \in 1 .. Len(sizes) /\ IsGoodSize(sizes[Current])
      /\ header = Cells(Current, "header", HeaderSize)
  BY CurrentTyped DEF Reading, AtData
<1>2. DataSize(sizes[Current]) = Len(b)
  BY <1>1 DEF DataSize
<1>3. /\ Current \in Nat /\ HeaderSize \in Nat /\ Start \in Nat
      /\ Len(disk) \in Nat /\ Len(b) \in Nat
  BY CurrentTyped
<1> DEFINE d == Cells(Current, "data", Len(b))
<1>4. d \in Seq(Cell) /\ Len(d) = Len(b)
  BY <1>3, CellsAreSequence
<1>5. ASSUME NEW k \in 1 .. Len(b) PROVE b[k] = d[k]
  <2>1. HeaderSize + k \in 1 .. HeaderSize + DataSize(sizes[Current])
    BY <1>2, <1>3
  <2>2. Start + (HeaderSize + k) = Start + HeaderSize + k
    BY <1>3
  <2>3. Start + (HeaderSize + k) <= Len(disk)
    BY <1>3
  <2>4. disk[Start + (HeaderSize + k)] = Frame(Current, sizes[Current])[HeaderSize + k]
    BY <1>1, <2>1, <2>3 DEF Layout, Start
  <2>5. Frame(Current, sizes[Current])[HeaderSize + k] = d[k]
    <3>1. sizes[Current] \in Nat /\ k \in 1 .. DataSize(sizes[Current])
      BY <1>1, <1>2, SizesAreNat
    <3>2. Frame(Current, sizes[Current])[HeaderSize + k]
            = Cells(Current, "data", DataSize(sizes[Current]))[k]
      BY <1>3, <3>1, FrameCells, Zenon
    <3>3. QED
      BY <1>2, <3>2, Zenon
  <2>6. QED
    BY <2>2, <2>4, <2>5
<1> HIDE DEF d
<1>6. b = d
  BY <1>4, <1>5, SeqEqual
<1>7. header \o b = Frame(Current, sizes[Current])
  BY <1>1, <1>2, <1>6 DEF d, Frame, DataSize
<1>8. starts[Current + 1] = Start + HeaderSize + Len(b)
  BY <1>1, <1>2 DEF Layout, Start
<1>9. QED
  BY <1>7, <1>8

\* A Read that fails leaves behind what was returned before.
LEMMA FailKeeps ==
  ASSUME FileInv, NEW why, Fail(why), UNCHANGED file, pos' \in Nat, pos' <= Len(disk),
         why = "EOF" => Len(disk) = Start
  PROVE  Reading' /\ EventsWhole' /\ EofMeansAllRead'
<1>1. /\ state' = "failed" /\ fLastError' = why
      /\ UNCHANGED <<buf, header, delivered, sizes, starts, disk>>
  BY DEF Fail, file
<1>2. Reading'
  BY <1>1 DEF FileInv, Reading, Fresh, AtHeader, AtData
<1>3. EventsWhole'
  BY <1>1 DEF FileInv, EventsWhole
<1>4. EofMeansAllRead'
  BY <1>1 DEF EofMeansAllRead, Start, Current
<1>5. QED
  BY <1>2, <1>3, <1>4

\* A read inside a header: the header grows, or it is complete and is the
\* header of the event the reader is in.
LEMMA HeaderStep ==
  ASSUME FileInv, state = "header", ReadSome
  PROVE  Reading' /\ EventsWhole' /\ EofMeansAllRead'
<1>1. /\ Layout /\ Reading /\ EventsWhole
      /\ header = <<>> /\ Len(buf) < HeaderSize /\ BufferFrom(Start)
  BY DEF FileInv, Reading, AtHeader
<1>2. /\ Len(disk) \in Nat /\ Start \in Nat /\ HeaderSize \in Nat
      /\ Len(buf) \in Nat /\ pos \in Nat /\ buf \in Seq(Cell)
  BY <1>1, CurrentTyped DEF Reading
<1>3. PICK n \in 1 .. Len(disk) :
        /\ Stored(HeaderSize - Len(buf), n)
        /\ pos' = pos + n
        /\ LET b == buf \o SubSeq(disk, pos + 1, pos + n) IN
             IF Returned(b, HeaderSize)
             THEN Return(b, HeaderSize)
             ELSE buf' = b /\ UNCHANGED <<state, header, delivered, fLastError>>
  BY DEF ReadSome, Wanted
<1>4. UNCHANGED file
  BY DEF ReadSome
<1> DEFINE b == buf \o SubSeq(disk, pos + 1, pos + n)
<1>5. /\ n \in Nat /\ n > 0 /\ pos + n <= Len(disk)
      /\ n <= HeaderSize - Len(buf)
  BY <1>2, <1>3 DEF Stored
<1>6. /\ b \in Seq(Cell) /\ Len(b) = Len(buf) + n /\ pos + n = Start + Len(b)
      /\ \A k \in 1 .. Len(b) : b[k] = disk[Start + k]
  BY <1>1, <1>2, <1>5, BufferGrown, Zenon
<1>7. IF Returned(b, HeaderSize)
      THEN Return(b, HeaderSize)
      ELSE buf' = b /\ UNCHANGED <<state, header, delivered, fLastError>>
  BY <1>3
<1> HIDE DEF b
<1>8. pos' \in Nat /\ pos' <= Len(disk) /\ pos' = Start + Len(b)
  BY <1>2, <1>3, <1>5, <1>6
<1>9. CASE ~Returned(b, HeaderSize)
  <2>1. buf' = b /\ UNCHANGED <<state, header, delivered, fLastError>>
    BY <1>7, <1>9
  <2>2. Len(b) < HeaderSize
    <3>1. Len(b) = Len(buf) + n /\ Len(b) # HeaderSize
      BY <1>6, <1>9 DEF Returned
    <3>2. QED
      BY <1>2, <1>5, <3>1
  <2>3. Start' = Start /\ UNCHANGED <<sizes, starts, disk>>
    BY <1>4, <2>1 DEF Start, Current, file
  <2>4. BufferFrom(Start)'
    BY <1>6, <1>8, <2>1, <2>3 DEF BufferFrom
  <2>5. Reading'
    BY <1>1, <1>6, <1>8, <2>1, <2>2, <2>3, <2>4
       DEF Reading, Fresh, AtHeader, AtData
  <2>6. QED
    BY <1>1, <2>1, <2>3, <2>5 DEF FileInv, EventsWhole, EofMeansAllRead, Reading
<1>10. CASE Returned(b, HeaderSize)
  <2>1. Len(b) = HeaderSize /\ HeaderRead(b)
    BY <1>7, <1>10 DEF Returned, Return
  <2>2. Current <= Len(sizes) /\ b = Cells(Current, "header", HeaderSize)
    BY <1>1, <1>6, <1>8, <2>1, HeaderWhole
  <2>3. SizeIn(b) = {sizes[Current]}
    BY <1>1, <2>2, CurrentTyped, SizeInHeader
  <2>4. CASE Fail("size") \/ Fail("errno")
    BY <1>4, <1>8, <2>4, FailKeeps
  <2>5. CASE /\ IsGoodSize(sizes[Current])
             /\ state' = "data" /\ header' = b /\ buf' = <<>>
             /\ UNCHANGED <<delivered, fLastError>>
    <3>1. /\ Start' = Start /\ Current' = Current
          /\ UNCHANGED <<sizes, starts, disk>>
      BY <1>4, <2>5 DEF Start, Current, file
    <3>2. sizes[Current] > 0 /\ Len(buf') = 0 /\ buf' \in Seq(Cell)
      BY <2>5 DEF IsGoodSize
    <3>3. BufferFrom(Start + HeaderSize)'
      BY <1>2, <1>8, <2>1, <2>5, <3>1, <3>2 DEF BufferFrom
    <3>4. AtData'
      BY <2>2, <2>5, <3>1, <3>2, <3>3 DEF AtData
    <3>5. Reading'
      BY <1>1, <1>8, <2>5, <3>1, <3>2, <3>4 DEF Reading, Fresh, AtHeader
    <3>6. QED
      BY <1>1, <2>5, <3>1, <3>5 DEF FileInv, EventsWhole, EofMeansAllRead, Reading
  <2>6. QED
    BY <2>1, <2>3, <2>4, <2>5 DEF HeaderRead
<1>11. QED
  BY <1>9, <1>10

\* A read inside the data: the data grow, or they are complete and the event
\* is returned whole.
LEMMA DataStep ==
  ASSUME FileInv, state = "data", ReadSome
  PROVE  Reading' /\ EventsWhole' /\ EofMeansAllRead'
<1> DEFINE size == sizes[Current]
<1>1. /\ Layout /\ Reading /\ EventsWhole
      /\ Current <= Len(sizes) /\ IsGoodSize(size)
      /\ header = Cells(Current, "header", HeaderSize)
      /\ Len(buf) < size /\ BufferFrom(Start + HeaderSize)
  BY DEF FileInv, Reading, AtData
<1>2. /\ Len(disk) \in Nat /\ Start \in Nat /\ HeaderSize \in Nat
      /\ Start + HeaderSize \in Nat /\ Current \in 1 .. Len(sizes)
      /\ Len(buf) \in Nat /\ pos \in Nat /\ buf \in Seq(Cell)
  BY <1>1, CurrentTyped DEF Reading
<1>3. size \in Nat
  BY <1>1, <1>2, SizesAreNat
<1>4. SizeIn(header) = {size}
  BY <1>1, <1>2, SizeInHeader
<1>5. PICK n \in 1 .. Len(disk) :
        /\ Stored(size - Len(buf), n)
        /\ pos' = pos + n
        /\ LET b == buf \o SubSeq(disk, pos + 1, pos + n) IN
             IF Returned(b, size)
             THEN Return(b, size)
             ELSE buf' = b /\ UNCHANGED <<state, header, delivered, fLastError>>
  BY <1>4 DEF ReadSome, Wanted
<1>6. UNCHANGED <<sizes, starts, disk>>
  BY DEF ReadSome, file
<1> DEFINE b == buf \o SubSeq(disk, pos + 1, pos + n)
<1>7. /\ n \in Nat /\ n > 0 /\ pos + n <= Len(disk)
      /\ n <= size - Len(buf)
  BY <1>2, <1>3, <1>5 DEF Stored
<1>8. /\ b \in Seq(Cell) /\ Len(b) = Len(buf) + n
      /\ pos + n = Start + HeaderSize + Len(b)
      /\ \A k \in 1 .. Len(b) : b[k] = disk[Start + HeaderSize + k]
  BY <1>1, <1>2, <1>7, BufferGrown, Zenon
<1>9. IF Returned(b, size)
      THEN Return(b, size)
      ELSE buf' = b /\ UNCHANGED <<state, header, delivered, fLastError>>
  BY <1>5
<1> HIDE DEF b
<1>10. pos' \in Nat /\ pos' <= Len(disk) /\ pos' = Start + HeaderSize + Len(b)
  BY <1>2, <1>5, <1>7, <1>8
<1>11. CASE ~Returned(b, size)
  <2>1. buf' = b /\ UNCHANGED <<state, header, delivered, fLastError>>
    BY <1>9, <1>11
  <2>2. Len(b) < size
    <3>1. Len(b) = Len(buf) + n /\ Len(b) # size
      BY <1>8, <1>11 DEF Returned
    <3>2. QED
      BY <1>2, <1>3, <1>7, <3>1
  <2>3. Start' = Start /\ Current' = Current
    BY <1>6, <2>1 DEF Start, Current
  <2>4. BufferFrom(Start + HeaderSize)'
    BY <1>6, <1>8, <1>10, <2>1, <2>3 DEF BufferFrom
  <2>5. AtData'
    BY <1>1, <1>6, <2>1, <2>2, <2>3, <2>4 DEF AtData
  <2>6. Reading'
    BY <1>1, <1>6, <1>8, <1>10, <2>1, <2>5 DEF Reading, Fresh, AtHeader
  <2>7. QED
    BY <1>1, <1>6, <2>1, <2>6 DEF FileInv, EventsWhole, EofMeansAllRead, Reading
<1>12. CASE Returned(b, size)
  <2>1. Len(b) = size /\ DataRead(b, size)
    BY <1>9, <1>12 DEF Returned, Return
  <2>2. /\ delivered' = Append(delivered, header \o b)
        /\ state' = "header" /\ header' = <<>> /\ buf' = <<>>
        /\ UNCHANGED fLastError
    BY <2>1 DEF DataRead, Short
  <2>3. /\ header \o b = Frame(Current, size)
        /\ starts[Current + 1] = Start + HeaderSize + Len(b)
    <3>1. Start + HeaderSize + Len(b) <= Len(disk)
      BY <1>10
    <3>2. QED
      BY <1>1, <1>8, <2>1, <3>1, DataWhole
  <2>4. Frame(Current, size) \in Seq(Cell)
    <3>1. Current \in Nat
      BY <1>2
    <3>2. QED
      BY <1>3, <3>1, FrameCells, Zenon
  <2>5. delivered \in Seq(Seq(Cell)) /\ Len(delivered) \in Nat
    BY <1>1 DEF Reading
  <2>6. /\ delivered' \in Seq(Seq(Cell)) /\ Len(delivered') = Current
        /\ delivered'[Current] = Frame(Current, size)
        /\ \A i \in 1 .. Len(delivered) : delivered'[i] = delivered[i]
    BY <2>2, <2>3, <2>4, <2>5 DEF Current
  <2>7. EventsWhole'
    <3>1. \A i \in 1 .. Len(delivered') : i = Current \/ i \in 1 .. Len(delivered)
      BY <2>5, <2>6 DEF Current
    <3>2. \A i \in 1 .. Len(delivered) : delivered[i] = Frame(i, sizes[i])
      BY <1>1, <2>5 DEF EventsWhole
    <3>3. \A i \in 1 .. Len(delivered') : delivered'[i] = Frame(i, sizes[i])
      BY <2>6, <3>1, <3>2, Zenon
    <3>4. DOMAIN delivered' = 1 .. Len(delivered')
      BY <2>6
    <3>5. QED
      BY <1>6, <3>3, <3>4 DEF EventsWhole
  <2>8. Start' = Start + HeaderSize + Len(b)
    BY <1>6, <2>3, <2>6 DEF Start, Current
  <2>9. buf' \in Seq(Cell) /\ Len(buf') = 0
    BY <2>2
  <2>10. AtHeader'
    <3>1. BufferFrom(Start)'
      BY <1>10, <2>8, <2>9 DEF BufferFrom
    <3>2. QED
      BY <2>2, <2>9, <3>1, <1>2, FileAssumption DEF AtHeader
  <2>11. Reading'
    BY <1>1, <1>6, <1>10, <2>2, <2>6, <2>9, <2>10 DEF Reading, Fresh, AtData
  <2>12. EofMeansAllRead'
    BY <1>1, <2>2 DEF Reading, EofMeansAllRead
  <2>13. QED
    BY <2>7, <2>11, <2>12
<1>13. QED
  BY <1>11, <1>12

\* A step of the logger or of the reader keeps the invariant.
LEMMA FileStep ==
  ASSUME FileInv, [Next]_vars
  PROVE  FileInv'
<1>1. ASSUME Next PROVE Layout' /\ Written'
  BY <1>1, LayoutStep DEF FileInv
<1>2. CASE UNCHANGED vars \/ Done
  <2>1. UNCHANGED <<sizes, starts, disk, pos, state, buf, header, delivered,
                    fLastError>>
    BY <1>2 DEF vars, file, reader, Done
  <2>2. Layout' /\ Written'
    BY <2>1 DEF FileInv, Layout, Written, DataSize
  <2>3. AtHeader' /\ AtData'
    BY <2>1 DEF FileInv, Reading, AtHeader, AtData, BufferFrom, Start, Current
  <2>4. Reading'
    BY <2>1, <2>3 DEF FileInv, Reading, Fresh
  <2>5. QED
    BY <2>1, <2>2, <2>4 DEF FileInv, EventsWhole, EofMeansAllRead
<1>3. CASE WriteEvent \/ CutOff
  <2>1. /\ UNCHANGED <<pos, buf, header, delivered, fLastError>>
        /\ state' \in {"writing", "closed"}
    BY <1>3 DEF WriteEvent, CutOff, reader
  <2>2. Layout' /\ Written'
    BY <1>1, <1>3 DEF Next
  <2>3. /\ pos = 0 /\ delivered = <<>> /\ header = <<>> /\ buf = <<>>
        /\ fLastError # "EOF"
    BY <1>3 DEF WriteEvent, CutOff, FileInv, Reading, Fresh
  <2>4. Len(disk') \in Nat /\ Len(sizes') \in Nat
    BY <2>2 DEF Layout
  <2>5. Reading'
    BY <2>1, <2>3, <2>4 DEF FileInv, Reading, Fresh, AtHeader, AtData
  <2>6. QED
    BY <2>1, <2>2, <2>3, <2>5 DEF FileInv, EventsWhole, EofMeansAllRead
<1>4. CASE Open
  <2>1. /\ UNCHANGED <<sizes, starts, disk, pos, buf, header, delivered>>
        /\ \/ state' = "header" /\ UNCHANGED fLastError
           \/ state' = "done" /\ fLastError' = "errno"
    BY <1>4 DEF Open, file
  <2>2. Layout' /\ Written'
    BY <1>1, <1>4 DEF Next
  <2>3. /\ pos = 0 /\ delivered = <<>> /\ header = <<>> /\ buf = <<>>
        /\ fLastError # "EOF"
    BY <1>4 DEF Open, FileInv, Reading, Fresh
  <2>4. starts[1] = 0 /\ Len(buf) = 0 /\ Len(delivered) = 0
    BY <2>3 DEF FileInv, Layout
  <2>5. Start' = 0
    BY <2>1, <2>4 DEF Start, Current
  <2>6. AtHeader'
    BY <2>1, <2>3, <2>4, <2>5, FileAssumption DEF AtHeader, BufferFrom
  <2>7. Reading'
    BY <2>1, <2>3, <2>6 DEF FileInv, Reading, Fresh, AtData
  <2>8. QED
    BY <2>1, <2>2, <2>3, <2>7 DEF FileInv, EventsWhole, EofMeansAllRead
<1>5. CASE ReadSome
  <2>1. state \in {"header", "data"}
    BY <1>5 DEF ReadSome, Wanted
  <2>2. QED
    BY <1>1, <1>5, <2>1, HeaderStep, DataStep DEF FileInv, Next
<1>6. CASE ReadEnd
  <2>1. Layout' /\ Written'
    BY <1>1, <1>6 DEF Next
  <2>2. UNCHANGED file /\ pos' = pos /\ pos = Len(disk)
    BY <1>6 DEF ReadEnd, ReadNothing
  <2>3. pos' \in Nat /\ pos' <= Len(disk)
    BY <2>2 DEF FileInv, Reading
  <2>4. CASE AtEnd(buf) /\ Fail("EOF")
    <3>1. Len(disk) = Start
      <4>1. state = "header" /\ buf = <<>>
        BY <2>4 DEF AtEnd
      <4>2. pos = Start + Len(buf) /\ Start \in Nat
        BY <4>1, CurrentTyped DEF FileInv, Reading, AtHeader, BufferFrom
      <4>3. QED
        BY <2>2, <4>1, <4>2
    <3>2. QED
      BY <2>1, <2>2, <2>3, <2>4, <3>1, FailKeeps DEF FileInv
  <2>5. CASE Fail("errno")
    BY <2>1, <2>2, <2>3, <2>5, FailKeeps DEF FileInv
  <2>6. ASSUME ~AtEnd(buf) PROVE Fail("errno")
    <3>1. PICK size : Wanted(size) /\ Return(buf, size)
      BY <1>6, <2>6 DEF ReadEnd
    <3>2. CASE state = "header"
      <4>1. Len(buf) < HeaderSize /\ Len(buf) \in Nat /\ HeaderSize \in Nat
        BY <3>2, FileAssumption DEF FileInv, Reading, AtHeader
      <4>2. QED
        BY <3>1, <3>2, <4>1 DEF Return, HeaderRead
    <3>3. CASE state = "data"
      <4>1. /\ Current \in 1 .. Len(sizes) /\ Len(buf) < sizes[Current]
            /\ header = Cells(Current, "header", HeaderSize)
        BY <3>3, CurrentTyped DEF FileInv, Reading, AtData
      <4>2. size = sizes[Current]
        BY <3>1, <3>3, <4>1, SizeInHeader DEF Wanted
      <4>3. sizes[Current] \in Nat /\ Len(buf) \in Nat
        BY <4>1, SizesAreNat DEF FileInv, Reading
      <4>4. Len(buf) # size
        BY <4>1, <4>2, <4>3
      <4>5. QED
        BY <3>1, <3>3, <4>4 DEF Return, DataRead, Short
    <3>4. QED
      BY <3>1, <3>2, <3>3 DEF Return
  <2>7. AtEnd(buf) => Fail("EOF")
    BY <1>6 DEF ReadEnd
  <2>8. QED
    BY <2>4, <2>5, <2>6, <2>7
<1>7. CASE ReadError
  <2>1. Fail("errno") /\ UNCHANGED <<file, pos>>
    BY <1>7 DEF ReadError
  <2>2. QED
    BY <1>1, <1>7, <2>1, FailKeeps DEF FileInv, Reading, Next
<1>8. CASE Close
  <2>1. /\ UNCHANGED <<file, pos, buf, header, delivered, fLastError>>
        /\ state' = "done" /\ state = "failed"
    BY <1>8 DEF Close
  <2>2. QED
    BY <1>1, <1>8, <2>1 DEF Next, FileInv, file, Reading, Fresh, AtHeader, AtData,
       EventsWhole, EofMeansAllRead
<1>9. QED
  BY <1>2, <1>3, <1>4, <1>5, <1>6, <1>7, <1>8 DEF Next

\* The invariant holds: the reader is always at a known place of a file that
\* holds the events one after the other.
THEOREM FileCorrect == Spec => []FileInv
<1>1. Init => FileInv
  <2> SUFFICES ASSUME Init PROVE FileInv
    OBVIOUS
  <2>1. /\ sizes = <<>> /\ starts = <<0>> /\ disk = <<>> /\ pos = 0
        /\ state = "writing" /\ buf = <<>> /\ header = <<>> /\ delivered = <<>>
        /\ fLastError = "none"
    BY Zenon DEF Init
  <2>2. /\ sizes \in Seq(Sizes) /\ disk \in Seq(Cell) /\ buf \in Seq(Cell)
        /\ delivered \in Seq(Seq(Cell))
        /\ Len(sizes) = 0 /\ Len(disk) = 0 /\ Len(delivered) = 0
    BY <2>1
  <2>3. starts \in Seq(Nat) /\ Len(starts) = 1 /\ starts[1] = 0
    BY <2>1
  <2>4. Layout /\ Written
    BY <2>2, <2>3 DEF Layout, Written
  <2>5. Reading
    BY <2>1, <2>2 DEF Reading, Fresh, AtHeader, AtData
  <2>6. EventsWhole /\ EofMeansAllRead
    BY <2>1 DEF EventsWhole, EofMeansAllRead
  <2>7. QED
    BY <2>4, <2>5, <2>6 DEF FileInv
<1>2. QED
  BY <1>1, FileStep, PTL DEF Spec

\* What Read returns are the events of the file, whole and in their order, for
\* every size of the events, every split of the reads and every cut.
THEOREM EventsAreWhole == Spec => []EventsWhole
<1>1. FileInv => EventsWhole
  BY DEF FileInv
<1>2. QED
  BY <1>1, FileCorrect, PTL

\* "EOF" is only reported where the file ends between two events, with all
\* those before returned.
THEOREM EofCorrect == Spec => []EofMeansAllRead
<1>1. FileInv => EofMeansAllRead
  BY DEF FileInv
<1>2. QED
  BY <1>1, FileCorrect, PTL

\* Without an error of a read, only the end of the file or a damaged header
\* ends the loop, however short the reads were.
THEOREM DamageOnly == Spec => []OnlyDamageEnds
<1> DEFINE Inv == OnlyDamageEnds /\ errors \in Nat
<1>1. Init => Inv
  <2>1. Init => state = "writing" /\ errors = 0
    BY Zenon DEF Init
  <2>2. QED
    BY <2>1 DEF OnlyDamageEnds
<1>2. ASSUME Inv, [Next]_vars PROVE Inv'
  <2> USE <1>2
  <2>1. CASE UNCHANGED vars \/ Done
    BY <2>1 DEF vars, file, reader, Done, OnlyDamageEnds
  <2>2. CASE WriteEvent \/ CutOff \/ Close
    BY <2>2 DEF WriteEvent, CutOff, Close, reader, file, OnlyDamageEnds
  <2>3. CASE Open
    BY <2>3 DEF Open, file, OnlyDamageEnds
  <2>4. CASE ReadError
    BY <2>4 DEF ReadError, OnlyDamageEnds
  <2>5. CASE ReadEnd
    <3>1. errors' = errors /\ pos' = pos /\ disk' = disk /\ pos = Len(disk)
      BY <2>5 DEF ReadEnd, ReadNothing, file
    <3>2. QED
      BY <3>1 DEF OnlyDamageEnds
  <2>6. CASE ReadSome
    <3>1. errors' = errors /\ state \in {"header", "data"}
      BY <2>6 DEF ReadSome, Wanted
    <3>2. ASSUME NEW b, NEW size, Wanted(size), Returned(b, size), Return(b, size)
          PROVE  state' # "failed" \/ fLastError' = "size"
      BY <3>2 DEF Wanted, Returned, Return, HeaderRead, DataRead, Short, Fail
    <3>3. state' # "failed" \/ fLastError' = "size"
      BY <2>6, <3>1, <3>2 DEF ReadSome
    <3>4. QED
      BY <3>1, <3>3 DEF OnlyDamageEnds
  <2>7. QED
    BY <1>2, <2>1, <2>2, <2>3, <2>4, <2>5, <2>6 DEF Next
<1>3. QED
  BY <1>1, <1>2, PTL DEF Spec
=============================================================================
