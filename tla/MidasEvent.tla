----------------------------- MODULE MidasEvent -----------------------------
(***************************************************************************)
(* TMidasEvent: the banks inside the data of a MIDAS event.                *)
(*                                                                         *)
(* Memory is a function from addresses to bytes; the event's bank header   *)
(* (data size and flags, 4 bytes each) stands at address 0, the banks      *)
(* follow.  What lies behind the event's last byte is whatever the memory  *)
(* held before: the code reads it in some cases.  The program runs on a    *)
(* little-endian machine.                                                  *)
(***************************************************************************)
EXTENDS Naturals, Sequences

Null == 0              \* no bank begins at address 0
BankHeaderSize == 8    \* sizeof(TMidas_BANK_HEADER), sizeof(TMidas_BANK)
Bank32Size == 12       \* sizeof(TMidas_BANK32)

U16(m, a) == m[a] + 256 * m[a + 1]
U32(m, a) == U16(m, a) + 65536 * U16(m, a + 2)

fDataSize(m) == U32(m, 0)
fFlags(m) == U32(m, 4)

\* The fields of the bank at p
Name(m, p) == [i \in 1 .. 4 |-> m[p + i - 1]]
Type(m, p, b32) == IF b32 THEN U32(m, p + 4) ELSE U16(m, p + 4)
Size(m, p, b32) == IF b32 THEN U32(m, p + 8) ELSE U16(m, p + 6)
DataOf(p, b32) == p + IF b32 THEN Bank32Size ELSE BankHeaderSize

\* (size + 7) & ~7
Align(size) == 8 * ((size + 7) \div 8)

NextBank(m, p, b32) == DataOf(p, b32) + Align(Size(m, p, b32))

IsBank32(m) == (fFlags(m) \div 16) % 2 = 1

\* The address behind the banks
End(m) == fDataSize(m) + BankHeaderSize
-----------------------------------------------------------------------------
IterateBank(m, pbk) ==
  LET next == IF pbk = Null THEN BankHeaderSize ELSE NextBank(m, pbk, FALSE) IN
  IF next >= End(m) THEN Null ELSE next

TID_SIZE == <<0, 1, 1, 1, 2, 2, 4, 4, 4, 4, 8, 1, 0, 0, 0, 0, 0>>
TID_MAX == Len(TID_SIZE)

\* Mutant: a bank that is not where it should be ends the iteration.
RealignedStrictly(m, p) == IF U32(m, p + 4) <= TID_MAX THEN p ELSE Null

\* In malformed ND280 files a bank begins 4 bytes late: what stands in place
\* of its type is then no type.
Realigned(m, p) ==
  IF U32(m, p + 4) <= TID_MAX THEN p
  ELSE IF U32(m, p + 8) <= TID_MAX THEN p + 4
  ELSE Null

\* The type is looked at before the end of the event is.
IterateBank32(m, pbk) ==
  LET next == Realigned(m, IF pbk = Null THEN BankHeaderSize
                           ELSE NextBank(m, pbk, TRUE)) IN
  IF next >= End(m) THEN Null ELSE next

Iterate(m, pbk) == IF IsBank32(m) THEN IterateBank32(m, pbk) ELSE IterateBank(m, pbk)

\* Every bank has a header: a walk through the banks has no more steps, and
\* stays where it is from its end on.
MostBanks(m) == End(m) \div BankHeaderSize

\* The bank after the one at pbk, unless that was the end
After(m, pbk) == IF pbk = Null THEN Null ELSE Iterate(m, pbk)

\* The addresses of the banks from the one at first on, Null behind the last
BanksFrom(m, first) ==
  LET at[i \in 1 .. MostBanks(m)] == IF i = 1 THEN first ELSE After(m, at[i - 1]) IN
  at

\* SetBankList: the names, in order
BankList(m) ==
  LET at == BanksFrom(m, Iterate(m, Null))
      n == CHOOSE k \in 0 .. MostBanks(m) : \A i \in DOMAIN at : at[i] # Null <=> i <= k IN
  [i \in 1 .. n |-> Name(m, at[i])]
-----------------------------------------------------------------------------
NotFound == [bktype |-> 0, bklen |-> 0, pdata |-> Null]

\* What FindBank returns of the bank at p: its length counts elements, or
\* bytes if the type has no size.
Found(m, p, b32) ==
  LET type == Type(m, p, b32)
      elem == TID_SIZE[(type % 256) + 1] IN
  [bktype |-> type,
   bklen  |-> IF elem = 0 THEN Size(m, p, b32) ELSE Size(m, p, b32) \div elem,
   pdata  |-> DataOf(p, b32)]

\* The first bank of that name.  In the 16-bit format the first bank is looked
\* at before the end is: do { ... } while.
FindBank(m, name) ==
  LET at == BanksFrom(m, IF IsBank32(m) THEN IterateBank32(m, Null) ELSE BankHeaderSize)
      hits == {i \in DOMAIN at : at[i] # Null /\ Name(m, at[i]) = name} IN
  IF hits = {} THEN NotFound
  ELSE Found(m, at[CHOOSE i \in hits : \A j \in hits : i <= j], IsBank32(m))
-----------------------------------------------------------------------------
(***************************************************************************)
(* SwapBytes(false), for events written on a big-endian machine.           *)
(***************************************************************************)
\* WORD_SWAP, DWORD_SWAP and QWORD_SWAP of every w bytes from a up to b
Swap(m, a, b, w) ==
  [i \in DOMAIN m |->
     IF i \notin a .. b - 1 THEN m[i]
     ELSE LET k == (i - a) % w IN m[i - k + (w - 1 - k)]]

\* Mutant: 8-byte elements are swapped like 4-byte ones.
SwapWidthShort(type) ==
  IF type \in 4 .. 5 THEN 2 ELSE IF type \in 6 .. 10 THEN 4 ELSE 1

\* The switch over the bank's type
SwapWidth(type) ==
  IF type \in 4 .. 5 THEN 2 ELSE IF type \in 6 .. 9 THEN 4
  ELSE IF type = 10 THEN 8 ELSE 1

SwapBankHeader(m, p, b32) ==
  IF b32 THEN Swap(m, p + 4, p + 12, 4) ELSE Swap(m, p + 4, p + 8, 2)

\* The bank at s.at of the memory s.mem is swapped, first its header.
SwapBank(s, b32) ==
  IF s.at >= End(s.mem) THEN s
  ELSE LET h == SwapBankHeader(s.mem, s.at, b32)
           next == NextBank(h, s.at, b32)
           type == Type(h, s.at, b32) % 65536 IN
       [mem |-> Swap(h, DataOf(s.at, b32), next, SwapWidth(type)), at |-> next]

SwapBanks(m, b32) ==
  LET go[i \in 0 .. MostBanks(m)] ==
        IF i = 0 THEN [mem |-> m, at |-> BankHeaderSize] ELSE SwapBank(go[i - 1], b32) IN
  go[MostBanks(m)].mem

\* Flags in the high 16 bits, and a data size that fits when swapped.  The
\* begin-of-run event's "<?xm" is neither: swapped, it is far too long.
SwapNeeded(m, size) ==
  /\ fFlags(m) >= 65536
  /\ U32(Swap(m, 0, 4, 4), 0) <= size + 100

SwapBytes(m, size) ==
  IF ~SwapNeeded(m, size) THEN m
  ELSE LET h == Swap(m, 0, 8, 4) IN SwapBanks(h, IsBank32(h))
=============================================================================
