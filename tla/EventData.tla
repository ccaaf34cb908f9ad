------------------------------ MODULE EventData ------------------------------
(***************************************************************************)
(* An event's way through the program: the TMidasEvent that is filled from *)
(* a file (TMidasFile::Read) or from MIDAS's receive buffer (the online    *)
(* event handler), the TDataContainer that decodes and caches its banks,   *)
(* and the copy of both that a display keeps.                              *)
(*                                                                         *)
(* Events are written by a front-end as a sequence of banks, in 16 or 32   *)
(* bit format, on a machine of either byte order.  The bytes of a bank are *)
(* 1, 2, 3, ..., so that a byte out of its place shows.                    *)
(***************************************************************************)
EXTENDS MidasEvent, SequencesExt

CONSTANTS
  Events,        \* events: [id, wide, foreign, banks], the banks a sequence
                 \* of [name, type, size, gap], gap: ND280's 4 bytes before it
  Streams,       \* bound: of these events there may be several in a row
  MemSize,       \* addresses of the receive buffer, or of a block of the heap
  Stale,         \* bytes the receive buffer or the heap holds at first
  Names,         \* bank names the analysis asks for
  Classes,       \* decoder classes it asks for them with
  MaxEvents,     \* bound: events read or received
  MaxRequests    \* bound: GetEventData calls from one event to the next

VARIABLES
  buffer,        \* MIDAS's receive buffer, or the heap, as a memory
  event,         \* the TMidasEvent of the event loop
  cache,         \* fEventDataList of the loop's TDataContainer
  copy,          \* TMidasEvent of the display's copy, Gone without one
  copyCache,     \* fEventDataList of the copy
  sent,          \* the event in the TMidasEvent, as the front-end wrote it
  copied,        \* the event in the copy, as the front-end wrote it
  phase,         \* "idle", "process", "thrown" (exception) or "crashed"
  count,         \* events so far
  requests       \* GetEventData calls since the last event came

vars == <<buffer, event, cache, copy, copyCache, sent, copied, phase, count, requests>>
-----------------------------------------------------------------------------
(***************************************************************************)
(* What the front-ends write (external).                                   *)
(***************************************************************************)
Weight(i) == IF i = 1 THEN 1 ELSE IF i = 2 THEN 256 ELSE IF i = 3 THEN 65536 ELSE 16777216
Bytes(n, w) == [i \in 1 .. w |-> (n \div Weight(i)) % 256]
Field(n, w, foreign) == IF foreign THEN Reverse(Bytes(n, w)) ELSE Bytes(n, w)
Zeros(n) == [i \in 1 .. n |-> 0]

Elem(type) == IF TID_SIZE[type + 1] = 0 THEN 1 ELSE TID_SIZE[type + 1]
Payload(b) == [i \in 1 .. b.size |-> i]
Written(b, foreign) ==
  LET w == Elem(b.type) IN
  [i \in 1 .. b.size |->
     IF foreign THEN i - ((i - 1) % w) + (w - 1 - ((i - 1) % w)) ELSE i]

EncodeBank(b, wide, foreign) ==
  Zeros(IF b.gap THEN 4 ELSE 0) \o b.name
    \o Field(b.type, IF wide THEN 4 ELSE 2, foreign)
    \o Field(b.size, IF wide THEN 4 ELSE 2, foreign)
    \o Written(b, foreign) \o Zeros(Align(b.size) - b.size)

\* The bytes of the first i banks, for every i
EncodeBanks(e) ==
  LET bytes[i \in 0 .. Len(e.banks)] ==
        IF i = 0 THEN <<>> ELSE bytes[i - 1] \o EncodeBank(e.banks[i], e.wide, e.foreign) IN
  bytes

Encode(e) ==
  LET banks == EncodeBanks(e)[Len(e.banks)] IN
  Field(Len(banks), 4, e.foreign)
    \o Field(IF e.wide THEN 17 ELSE 1, 4, e.foreign) \o banks

\* Names of up to four printable characters, with NULs behind a shorter one,
\* like the "EOM" that a scan marks the end of a move with
BankName == {n \in [1 .. 4 -> {0} \cup 32 .. 126] :
               /\ n[1] # 0
               /\ \A i \in 1 .. 3 : n[i] = 0 => n[i + 1] = 0}

\* Banks as the front-ends make them, of a known type and with whole elements.
\* Only the files of ND280 have gaps.
Bank == [name : BankName, type : 0 .. TID_MAX - 1, size : Nat, gap : BOOLEAN]

Event == [id : Nat, wide : BOOLEAN, foreign : BOOLEAN, banks : Seq(Bank)]

Possible(e) ==
  /\ e \in Event
  /\ \A i \in DOMAIN e.banks :
       LET b == e.banks[i] IN
       /\ b.size % Elem(b.type) = 0
       /\ ~e.wide => b.size < 65536
       /\ b.gap => e.wide /\ ~e.foreign

\* How far behind an event the code may look: at the header of one more bank
Behind == 12

\* Sizes are ints.
IntMax == 2147483647

ASSUME EventAssumption ==
  /\ MemSize \in 1 .. IntMax
  /\ Stale \subseteq [0 .. MemSize - 1 -> Nat]
  /\ \A e \in Events : Possible(e) /\ Len(Encode(e)) + Behind <= MemSize
  /\ Names \subseteq BankName
  /\ MaxEvents \in Nat /\ MaxRequests \in Nat

\* The memory after the bytes have been put at its beginning
Store(m, bytes) == [a \in DOMAIN m |-> IF a < Len(bytes) THEN bytes[a + 1] ELSE m[a]]
-----------------------------------------------------------------------------
(***************************************************************************)
(* TMidasEvent.  fData is "null", "buffer" (not allocated by us) or "own". *)
(***************************************************************************)
Gone == [fEventId |-> 0, size |-> 0, fData |-> "null", own |-> <<>>,
         listed |-> FALSE, fBankList |-> <<>>]

Memory(e, buf) == IF e.fData = "own" THEN e.own ELSE buf

SetBankList(e, buf) ==
  IF e.fEventId <= 0 \/ e.listed THEN e
  ELSE [e EXCEPT !.listed = TRUE, !.fBankList = BankList(Memory(e, buf))]

\* strdup of a bank list, the names one behind the other: it ends with the
\* first name that has a NUL.
Strdup(list) ==
  LET n == SelectInSeq(list, LAMBDA name : name[4] = 0) IN
  IF n = 0 THEN list ELSE SubSeq(list, 1, n)

\* fDataSize bytes are copied into new memory, which held anything.
Copy(e, buf, heap) ==
  LET m == Memory(e, buf) IN
  [e EXCEPT !.fData = "own",
            !.fBankList = Strdup(e.fBankList),
            !.own = [a \in DOMAIN heap |-> IF a < e.size THEN m[a] ELSE heap[a]]]

\* strdup of a missing bank list
CopyCrashes(e) == ~e.listed

Init ==
  /\ buffer \in Stale
  /\ event = Gone /\ cache = <<>> /\ sent = Gone
  /\ copy = Gone /\ copyCache = <<>> /\ copied = Gone
  /\ phase = "idle" /\ count = 0 /\ requests = 0
-----------------------------------------------------------------------------
Arrives(e) ==
  /\ phase = "idle" /\ count < MaxEvents
  /\ count > 0 => {sent, e} \subseteq Streams

Handle(e, ev, buf) ==
  /\ event' = SetBankList(ev, buf)
  /\ buffer' = buf
  /\ sent' = e
  /\ phase' = "process"
  /\ count' = count + 1
  /\ requests' = 0
  /\ UNCHANGED <<cache, copy, copyCache, copied>>

\* Online: the event object is new, its data are swapped in MIDAS's buffer.
Receive(e) ==
  /\ Arrives(e)
  /\ LET bytes == Encode(e) IN
       Handle(e, [Gone EXCEPT !.fEventId = e.id, !.size = Len(bytes), !.fData = "buffer"],
              SwapBytes(Store(buffer, bytes), Len(bytes)))

\* Offline: Clear, and memory of its own, which held anything.
Read(e, heap) ==
  /\ Arrives(e)
  /\ LET bytes == Encode(e)
         m == SwapBytes(Store(heap, bytes), Len(bytes)) IN
       Handle(e, [Gone EXCEPT !.fEventId = e.id, !.size = Len(bytes), !.fData = "own",
                              !.own = m], buffer)

\* dynamic_cast: every decoder class derives from TGenericData, none from another
IsA(class, base) == base \in {class, "TGenericData"}

\* GetEventData<class>(name) on a container with this event and cache
GetEventData(e, list, name, class, after) ==
  LET hit == SelectInSeq(list, LAMBDA d : d.name = name)
      bank == FindBank(Memory(e, buffer), name) IN
  IF hit # 0
  THEN /\ phase' = IF IsA(list[hit].class, class) THEN phase ELSE "thrown"
       /\ after = list
  ELSE /\ after = IF bank = NotFound THEN list
                  ELSE Append(list, [name |-> name, class |-> class, bank |-> bank])
       /\ UNCHANGED phase

Request(name, class) ==
  /\ phase = "process" /\ requests < MaxRequests
  /\ requests' = requests + 1
  /\ GetEventData(event, cache, name, class, cache')
  /\ UNCHANGED <<buffer, event, copy, copyCache, sent, copied, count>>

\* SetCachedDataContainer: the display deletes the copy it has, with its
\* decoded banks, and copies the container; the new cache is empty.
CopyContainer ==
  /\ phase = "process"
  /\ IF CopyCrashes(event)
     THEN phase' = "crashed" /\ UNCHANGED <<copy, copied, copyCache>>
     ELSE /\ \E heap \in Stale : copy' = Copy(event, buffer, heap)
          /\ copyCache' = <<>>
          /\ copied' = sent
          /\ UNCHANGED phase
  /\ UNCHANGED <<buffer, event, cache, sent, count, requests>>

\* The display's canvases use the copy at any time.
RequestCopy(name, class) ==
  /\ copy # Gone /\ phase \in {"idle", "process"} /\ requests < MaxRequests
  /\ requests' = requests + 1
  /\ GetEventData(copy, copyCache, name, class, copyCache')
  /\ UNCHANGED <<buffer, event, cache, copy, sent, copied, count>>

\* Mutant: the decoded banks outlive their event.
CleanupEventKeeps == UNCHANGED cache

CleanupEvent == cache' = <<>>

\* The event loop is through with the event: online its object goes.
Finish ==
  /\ phase = "process"
  /\ CleanupEvent
  /\ phase' = "idle"
  /\ event' = IF event.fData = "buffer" THEN Gone ELSE event
  /\ UNCHANGED <<buffer, copy, copyCache, sent, copied, count, requests>>

Done ==
  /\ phase \in {"thrown", "crashed"} \/ count = MaxEvents \/ sent \notin Streams
  /\ UNCHANGED vars

Next ==
  \/ \E e \in Events : Receive(e) \/ \E heap \in Stale : Read(e, heap)
  \/ \E n \in Names, c \in Classes : Request(n, c) \/ RequestCopy(n, c)
  \/ CopyContainer \/ Finish
  \/ Done

Spec == Init /\ [][Next]_vars
-----------------------------------------------------------------------------
BankNames(e) == [i \in DOMAIN e.banks |-> e.banks[i].name]
First(e, name) == e.banks[SelectInSeq(e.banks, LAMBDA b : b.name = name)]

\* The bank list, the one thing an event knows of itself, names the banks the
\* front-end wrote, in its format and byte order, also where padding, empty
\* banks or ND280's displaced banks stand between them.  A copy's list does so
\* up to the first name of less than four characters, although TMidasEvent.h calls
\* it the "list of bank names in this event".
BankListMatches ==
  /\ phase = "process" /\ event.listed => event.fBankList = BankNames(sent)
  /\ copy.listed => copy.fBankList = Strdup(BankNames(copied))

\* The decoded banks of a container show what the front-end wrote
Shows(d, m, e) ==
  Contains(BankNames(e), d.name) =>
    LET b == First(e, d.name) IN
    /\ d.bank.bktype = b.type
    /\ d.bank.bklen = b.size \div Elem(b.type)
    /\ [i \in 1 .. b.size |-> m[d.bank.pdata + i - 1]] = Payload(b)

\* Whatever decoded bank the analysis or the display holds, it has the type,
\* the length and the bytes, in native order, of the first bank of its name
\* in its own event, although the buffer is used again for other events.
DecodedMatches ==
  /\ \A i \in DOMAIN cache : Shows(cache[i], Memory(event, buffer), sent)
  /\ \A i \in DOMAIN copyCache : Shows(copyCache[i], Memory(copy, buffer), copied)

\* FindBank: "returns 1 if bank found, 0 otherwise" (TMidasEvent.cxx).  A bank
\* that is found is one of the event's, unless the event has no banks and the
\* 16-bit format: there the first comparison comes before the test of the end,
\* and what the memory held before may be taken for a bank.
NoInventedBanks ==
  LET Own(list, e) ==
        \/ ~e.wide /\ e.banks = <<>>
        \/ \A i \in DOMAIN list : Contains(BankNames(e), list[i].name) IN
  /\ cache # <<>> => Own(cache, sent)
  /\ copyCache # <<>> => Own(copyCache, copied)
=============================================================================
