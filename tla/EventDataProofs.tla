-------------------------- MODULE EventDataProofs --------------------------
(***************************************************************************)
(* Whatever banks an event has, in either format and byte order, the bank  *)
(* list names them in order, and what is decoded is what was written.      *)
(***************************************************************************)
EXTENDS EventData, SequenceTheorems, WellFoundedInduction, TLAPS

(***************************************************************************)
(* Induction over the natural numbers, with a set for the predicate.       *)
(***************************************************************************)
LEMMA Induction ==
  ASSUME NEW S, 0 \in S, \A k \in Nat : k \in S => k + 1 \in S
  PROVE  \A k \in Nat : k \in S
<1>1. SUFFICES ASSUME NEW k \in Nat, k \notin S PROVE FALSE
  OBVIOUS
<1>2. PICK R, T : R = OpToRel(<, Nat) /\ T = {i \in Nat : i \notin S}
  OBVIOUS
<1>3. IsWellFoundedOn(R, Nat)
  BY <1>2, NatLessThanWellFounded, Zenon
<1>4. T \subseteq Nat /\ T # {}
  BY <1>1, <1>2
<1>5. PICK x \in T : \A y \in T : ~ (<<y, x>> \in R)
  BY <1>3, <1>4, WFMin, Zenon
<1>6. x \in Nat /\ x \notin S /\ x # 0
  BY <1>2, <1>5
<1>7. PICK y : y = x - 1
  OBVIOUS
<1>8. y \in Nat /\ y + 1 = x /\ y < x
  BY <1>6, <1>7
<1>9. y \in T
  BY <1>2, <1>6, <1>8
<1>10. <<y, x>> \in R
  BY <1>2, <1>6, <1>8 DEF OpToRel
<1>11. QED
  BY <1>5, <1>9, <1>10

-----------------------------------------------------------------------------
(***************************************************************************)
(* Sequences in memory                                                     *)
(***************************************************************************)
Places == 0 .. MemSize - 1
Mem == [Places -> Nat]

\* The bytes s stand in the memory m from the address a on.
Stands(m, a, s) == \A i \in 1 .. Len(s) : m[a + i - 1] = s[i]

\* A concatenation stands where its parts stand one behind the other.
LEMMA StandsConcat ==
  ASSUME NEW m, NEW a \in Nat, NEW s \in Seq(Nat), NEW t \in Seq(Nat)
  PROVE  Stands(m, a, s \o t) <=> Stands(m, a, s) /\ Stands(m, a + Len(s), t)
<1>1. PICK k, l \in Nat : k = Len(s) /\ l = Len(t)
  OBVIOUS
<1>2. PICK u : u = s \o t
  OBVIOUS
<1>3. Len(u) = k + l /\ \A i \in 1 .. k + l : u[i] = IF i <= k THEN s[i] ELSE t[i - k]
  BY <1>1, <1>2
<1>4. ASSUME Stands(m, a, u) PROVE Stands(m, a, s) /\ Stands(m, a + k, t)
  <2>1. ASSUME NEW i \in 1 .. k PROVE m[a + i - 1] = s[i]
    BY <1>3, <1>4, <2>1 DEF Stands
  <2>2. ASSUME NEW i \in 1 .. l PROVE m[(a + k) + i - 1] = t[i]
    <3>1. k + i \in 1 .. k + l /\ (k + i) - k = i /\ ~(k + i <= k)
      BY <2>2
    <3>2. m[a + (k + i) - 1] = u[k + i]
      BY <1>3, <1>4, <3>1 DEF Stands
    <3>3. a + (k + i) - 1 = (a + k) + i - 1
      BY <2>2
    <3>4. QED
      BY <1>3, <3>1, <3>2, <3>3
  <2>3. QED
    BY <1>1, <2>1, <2>2 DEF Stands
<1>5. ASSUME Stands(m, a, s), Stands(m, a + k, t) PROVE Stands(m, a, u)
  <2>1. SUFFICES ASSUME NEW i \in 1 .. k + l PROVE m[a + i - 1] = u[i]
    BY <1>3 DEF Stands
  <2>2. CASE i <= k
    BY <1>1, <1>3, <1>5, <2>1, <2>2 DEF Stands
  <2>3. CASE i > k
    <3>1. i - k \in 1 .. l /\ (a + k) + (i - k) - 1 = a + i - 1
      BY <2>1, <2>3
    <3>2. m[(a + k) + (i - k) - 1] = t[i - k]
      BY <1>1, <1>5, <3>1 DEF Stands
    <3>3. u[i] = t[i - k]
      BY <1>3, <2>1, <2>3
    <3>4. QED
      BY <3>1, <3>2, <3>3, Zenon
  <2>4. QED
    BY <2>1, <2>2, <2>3
<1>6. QED
  BY <1>1, <1>2, <1>4, <1>5
-----------------------------------------------------------------------------
(***************************************************************************)
(* Numbers in memory                                                       *)
(***************************************************************************)
LEMMA Digits ==
  ASSUME NEW n \in Nat
  PROVE  /\ n < 65536 => (n % 256) + 256 * ((n \div 256) % 256) = n
         /\ n <= 2147483647 =>
              ((n % 256) + 256 * ((n \div 256) % 256))
                + 65536 * (((n \div 65536) % 256) + 256 * ((n \div 16777216) % 256)) = n
<1>1. PICK q1, q2, q3 : q1 = n \div 256 /\ q2 = n \div 65536 /\ q3 = n \div 16777216
  OBVIOUS
<1>2. q1 \in Nat /\ n = 256 * q1 + (n % 256) /\ (n < 65536 => q1 < 256)
  BY <1>1
<1>3. q2 \in Nat /\ q2 = q1 \div 256 /\ q1 = 256 * q2 + (q1 % 256)
  BY <1>1
<1>4. q3 \in Nat /\ q3 = q2 \div 256 /\ q2 = 256 * q3 + (q2 % 256)
  BY <1>1
<1>5. n <= 2147483647 => q3 < 256
  BY <1>1
<1>6. \A q \in Nat : q < 256 => q % 256 = q
  OBVIOUS
<1>7. QED
  BY <1>1, <1>2, <1>3, <1>4, <1>5, <1>6

\* The bytes of a number, the lowest first
LEMMA BytesAt ==
  ASSUME NEW n \in Nat, NEW w \in {2, 4}
  PROVE  /\ DOMAIN Bytes(n, w) = 1 .. w
         /\ Bytes(n, w)[1] = n % 256 /\ Bytes(n, w)[2] = (n \div 256) % 256
         /\ w = 4 => Bytes(n, w)[3] = (n \div 65536) % 256
         /\ w = 4 => Bytes(n, w)[4] = (n \div 16777216) % 256
         /\ \A i \in 1 .. w : Bytes(n, w)[i] \in Nat
BY SMT DEF Bytes, Weight

\* They are a sequence of numbers.
LEMMA BytesSeq ==
  ASSUME NEW n \in Nat, NEW w \in {2, 4}
  PROVE  Bytes(n, w) \in Seq(Nat) /\ Len(Bytes(n, w)) = w
<1>1. \A i \in 1 .. w : (n \div Weight(i)) % 256 \in Nat
  BY SMT DEF Weight
<1>2. QED
  BY <1>1 DEF Bytes

\* A field in the other byte order is the number's bytes backwards.
LEMMA FieldIs ==
  ASSUME NEW n \in Nat, NEW w \in {2, 4}
  PROVE  /\ Field(n, w, FALSE) = Bytes(n, w)
         /\ Field(n, w, TRUE) \in Seq(Nat) /\ Len(Field(n, w, TRUE)) = w
         /\ \A i \in 1 .. w : Field(n, w, TRUE)[i] = Bytes(n, w)[w - i + 1]
<1>1. PICK s : s = Bytes(n, w)
  OBVIOUS
<1>2. s \in Seq(Nat) /\ Len(s) = w
  BY <1>1, BytesSeq
<1>3. PICK r : r = [i \in 1 .. w |-> s[(w - i) + 1]]
  OBVIOUS
<1>4. Field(n, w, TRUE) = r
  BY <1>1, <1>2, <1>3 DEF Field, Reverse
<1>5. \A i \in 1 .. w : r[i] = s[(w - i) + 1] /\ r[i] \in Nat
  BY <1>2, <1>3
<1>6. r \in Seq(Nat) /\ Len(r) = w
  BY <1>3, <1>5
<1>7. QED
  BY <1>1, <1>4, <1>5, <1>6 DEF Field

\* The largest number of two bytes
Most2 == 65535

\* A number that stands in memory in native order is read.
LEMMA ReadTwo ==
  ASSUME NEW m, NEW a \in Nat, NEW n \in Nat, n <= Most2, Stands(m, a, Bytes(n, 2))
  PROVE  U16(m, a) = n
<1>1. \A i \in 1 .. 2 : m[a + i - 1] = Bytes(n, 2)[i]
  BY BytesSeq DEF Stands
<1>2. m[a + 1 - 1] = Bytes(n, 2)[1] /\ m[a + 2 - 1] = Bytes(n, 2)[2]
  BY <1>1
<1>3. m[a] = n % 256 /\ m[a + 1] = (n \div 256) % 256
  BY <1>2, BytesAt, SMT
<1>4. QED
  BY <1>3, Digits, SMT DEF U16, Most2

\* U32 reads what stands in four bytes.
LEMMA ReadFour ==
  ASSUME NEW m, NEW a \in Nat, NEW n \in Nat, n <= IntMax, Stands(m, a, Bytes(n, 4))
  PROVE  U32(m, a) = n
<1>1. \A i \in 1 .. 4 : m[a + i - 1] = Bytes(n, 4)[i]
  BY BytesSeq DEF Stands
<1>2. /\ m[a + 1 - 1] = Bytes(n, 4)[1] /\ m[a + 2 - 1] = Bytes(n, 4)[2]
      /\ m[a + 3 - 1] = Bytes(n, 4)[3] /\ m[a + 4 - 1] = Bytes(n, 4)[4]
  BY <1>1
<1>3. /\ m[a] = n % 256 /\ m[a + 1] = (n \div 256) % 256
      /\ m[a + 2] = (n \div 65536) % 256 /\ m[a + 3] = (n \div 16777216) % 256
  BY <1>2, BytesAt, SMT
<1>4. (a + 2) + 1 = a + 3
  OBVIOUS
<1>5. QED
  BY <1>3, <1>4, Digits, SMT DEF U16, U32, IntMax
-----------------------------------------------------------------------------
(***************************************************************************)
(* The loops, as recursive functions: each exists, as long as is asked for *)
(***************************************************************************)
\* f has the bytes of the first i banks
Joins(f, e, n) ==
  f = [i \in 0 .. n |-> IF i = 0 THEN <<>> ELSE f[i - 1] \o EncodeBank(e.banks[i], e.wide, e.foreign)]

\* One step of the concatenation
LEMMA JoinsAt ==
  ASSUME NEW f, NEW e, NEW n, Joins(f, e, n), NEW i \in 0 .. n
  PROVE  f[i] = IF i = 0 THEN <<>> ELSE f[i - 1] \o EncodeBank(e.banks[i], e.wide, e.foreign)
<1>1. PICK h : h = [j \in 0 .. n |-> IF j = 0 THEN <<>> ELSE f[j - 1] \o EncodeBank(e.banks[j], e.wide, e.foreign)]
  OBVIOUS
<1>2. f = h
  BY <1>1 DEF Joins
<1>3. h[i] = IF i = 0 THEN <<>> ELSE f[i - 1] \o EncodeBank(e.banks[i], e.wide, e.foreign)
  BY <1>1
<1>4. QED
  BY <1>2, <1>3

\* The recursive definition has a solution.
LEMMA JoinsExist ==
  ASSUME NEW e
  PROVE  \A n \in Nat : \E f : Joins(f, e, n)
<1>1. PICK S : S = {n \in Nat : \E f : Joins(f, e, n)}
  OBVIOUS
<1>2. 0 \in S
  <2>1. PICK f : f = [i \in 0 .. 0 |-> <<>>]
    OBVIOUS
  <2>2. Joins(f, e, 0)
    BY <2>1 DEF Joins
  <2>3. QED
    BY <1>1, <2>2
<1>3. ASSUME NEW n \in Nat, n \in S PROVE n + 1 \in S
  <2>1. PICK f : Joins(f, e, n)
    BY <1>1, <1>3
  <2>2. PICK x : x = IF n + 1 = 0 THEN <<>> ELSE f[n] \o EncodeBank(e.banks[n + 1], e.wide, e.foreign)
    OBVIOUS
  <2>3. PICK g : g = [i \in 0 .. n + 1 |-> IF i = n + 1 THEN x ELSE f[i]]
    OBVIOUS
  <2>4. ASSUME NEW i \in 0 .. n + 1
        PROVE  g[i] = IF i = 0 THEN <<>> ELSE g[i - 1] \o EncodeBank(e.banks[i], e.wide, e.foreign)
    <3>1. CASE i = n + 1
      <4>1. g[i] = x /\ i - 1 = n /\ (i # 0 => g[n] = f[n])
        BY <1>3, <2>3, <3>1
      <4>2. QED
        BY <2>2, <3>1, <4>1
    <3>2. CASE i # n + 1
      <4>1. i \in 0 .. n /\ g[i] = f[i] /\ (i # 0 => g[i - 1] = f[i - 1])
        BY <1>3, <2>3, <2>4, <3>2
      <4>2. f[i] = IF i = 0 THEN <<>> ELSE f[i - 1] \o EncodeBank(e.banks[i], e.wide, e.foreign)
        BY <2>1, <4>1, JoinsAt
      <4>3. QED
        BY <4>1, <4>2
    <3>3. QED
      BY <3>1, <3>2
  <2>5. Joins(g, e, n + 1)
    BY <2>3, <2>4 DEF Joins
  <2>6. QED
    BY <1>1, <1>3, <2>5
<1>4. \A n \in Nat : n \in S
  BY <1>2, <1>3, Induction
<1>5. QED
  BY <1>1, <1>4

\* f has the addresses of a walk through the banks
Walks(f, m, first, n) ==
  f = [i \in 1 .. n |-> IF i = 1 THEN first ELSE After(m, f[i - 1])]

\* One step of the walk
LEMMA WalksAt ==
  ASSUME NEW f, NEW m, NEW first, NEW n, Walks(f, m, first, n), NEW i \in 1 .. n
  PROVE  f[i] = IF i = 1 THEN first ELSE After(m, f[i - 1])
<1>1. PICK h : h = [j \in 1 .. n |-> IF j = 1 THEN first ELSE After(m, f[j - 1])]
  OBVIOUS
<1>2. f = h
  BY <1>1 DEF Walks
<1>3. h[i] = IF i = 1 THEN first ELSE After(m, f[i - 1])
  BY <1>1
<1>4. QED
  BY <1>2, <1>3

\* The recursive definition has a solution.
LEMMA WalksExist ==
  ASSUME NEW m, NEW first
  PROVE  \A n \in Nat : \E f : Walks(f, m, first, n)
<1>1. PICK S : S = {n \in Nat : \E f : Walks(f, m, first, n)}
  OBVIOUS
<1>2. 0 \in S
  <2>1. PICK f : f = [i \in 1 .. 0 |-> first]
    OBVIOUS
  <2>2. Walks(f, m, first, 0)
    BY <2>1 DEF Walks
  <2>3. QED
    BY <1>1, <2>2
<1>3. ASSUME NEW n \in Nat, n \in S PROVE n + 1 \in S
  <2>1. PICK f : Walks(f, m, first, n)
    BY <1>1, <1>3
  <2>2. PICK x : x = IF n + 1 = 1 THEN first ELSE After(m, f[n])
    OBVIOUS
  <2>3. PICK g : g = [i \in 1 .. n + 1 |-> IF i = n + 1 THEN x ELSE f[i]]
    OBVIOUS
  <2>4. ASSUME NEW i \in 1 .. n + 1
        PROVE  g[i] = IF i = 1 THEN first ELSE After(m, g[i - 1])
    <3>1. CASE i = n + 1
      <4>1. g[i] = x /\ i - 1 = n /\ (i # 1 => g[n] = f[n])
        BY <1>3, <2>3, <3>1
      <4>2. QED
        BY <2>2, <3>1, <4>1
    <3>2. CASE i # n + 1
      <4>1. i \in 1 .. n /\ g[i] = f[i] /\ (i # 1 => g[i - 1] = f[i - 1])
        BY <1>3, <2>3, <2>4, <3>2
      <4>2. f[i] = IF i = 1 THEN first ELSE After(m, f[i - 1])
        BY <2>1, <4>1, WalksAt
      <4>3. QED
        BY <4>1, <4>2
    <3>3. QED
      BY <3>1, <3>2
  <2>5. Walks(g, m, first, n + 1)
    BY <2>3, <2>4 DEF Walks
  <2>6. QED
    BY <1>1, <1>3, <2>5
<1>4. \A n \in Nat : n \in S
  BY <1>2, <1>3, Induction
<1>5. QED
  BY <1>1, <1>4

\* f has the states of the loop that swaps the banks
Swaps(f, m, b32, n) ==
  f = [i \in 0 .. n |-> IF i = 0 THEN [mem |-> m, at |-> BankHeaderSize] ELSE SwapBank(f[i - 1], b32)]

\* One step of the loop
LEMMA SwapsAt ==
  ASSUME NEW f, NEW m, NEW b32, NEW n, Swaps(f, m, b32, n), NEW i \in 0 .. n
  PROVE  f[i] = IF i = 0 THEN [mem |-> m, at |-> BankHeaderSize] ELSE SwapBank(f[i - 1], b32)
<1>1. PICK h : h = [j \in 0 .. n |-> IF j = 0 THEN [mem |-> m, at |-> BankHeaderSize] ELSE SwapBank(f[j - 1], b32)]
  OBVIOUS
<1>2. f = h
  BY <1>1 DEF Swaps
<1>3. h[i] = IF i = 0 THEN [mem |-> m, at |-> BankHeaderSize] ELSE SwapBank(f[i - 1], b32)
  BY <1>1
<1>4. QED
  BY <1>2, <1>3

\* The recursive definition has a solution.
LEMMA SwapsExist ==
  ASSUME NEW m, NEW b32
  PROVE  \A n \in Nat : \E f : Swaps(f, m, b32, n)
<1>1. PICK S : S = {n \in Nat : \E f : Swaps(f, m, b32, n)}
  OBVIOUS
<1>2. 0 \in S
  <2>1. PICK f : f = [i \in 0 .. 0 |-> [mem |-> m, at |-> BankHeaderSize]]
    OBVIOUS
  <2>2. Swaps(f, m, b32, 0)
    BY <2>1 DEF Swaps
  <2>3. QED
    BY <1>1, <2>2
<1>3. ASSUME NEW n \in Nat, n \in S PROVE n + 1 \in S
  <2>1. PICK f : Swaps(f, m, b32, n)
    BY <1>1, <1>3
  <2>2. PICK x : x = IF n + 1 = 0 THEN [mem |-> m, at |-> BankHeaderSize] ELSE SwapBank(f[n], b32)
    OBVIOUS
  <2>3. PICK g : g = [i \in 0 .. n + 1 |-> IF i = n + 1 THEN x ELSE f[i]]
    OBVIOUS
  <2>4. ASSUME NEW i \in 0 .. n + 1
        PROVE  g[i] = IF i = 0 THEN [mem |-> m, at |-> BankHeaderSize] ELSE SwapBank(g[i - 1], b32)
    <3>1. CASE i = n + 1
      <4>1. g[i] = x /\ i - 1 = n /\ (i # 0 => g[n] = f[n])
        BY <1>3, <2>3, <3>1
      <4>2. QED
        BY <2>2, <3>1, <4>1
    <3>2. CASE i # n + 1
      <4>1. i \in 0 .. n /\ g[i] = f[i] /\ (i # 0 => g[i - 1] = f[i - 1])
        BY <1>3, <2>3, <2>4, <3>2
      <4>2. f[i] = IF i = 0 THEN [mem |-> m, at |-> BankHeaderSize] ELSE SwapBank(f[i - 1], b32)
        BY <2>1, <4>1, SwapsAt
      <4>3. QED
        BY <4>1, <4>2
    <3>3. QED
      BY <3>1, <3>2
  <2>5. Swaps(g, m, b32, n + 1)
    BY <2>3, <2>4 DEF Swaps
  <2>6. QED
    BY <1>1, <1>3, <2>5
<1>4. \A n \in Nat : n \in S
  BY <1>2, <1>3, Induction
<1>5. QED
  BY <1>1, <1>4

\* EncodeBanks is that solution.
LEMMA JoinsIs ==
  ASSUME NEW e, Len(e.banks) \in Nat
  PROVE  Joins(EncodeBanks(e), e, Len(e.banks))
<1>1. PICK f : f = CHOOSE g : Joins(g, e, Len(e.banks))
  OBVIOUS
<1>2. Joins(f, e, Len(e.banks))
  BY <1>1, JoinsExist
<1>3. EncodeBanks(e) = f
  BY <1>1 DEF EncodeBanks, Joins
<1>4. QED
  BY <1>2, <1>3

\* BanksFrom is that solution.
LEMMA WalksIs ==
  ASSUME NEW m, NEW first, MostBanks(m) \in Nat
  PROVE  Walks(BanksFrom(m, first), m, first, MostBanks(m))
<1>1. PICK f : f = CHOOSE g : Walks(g, m, first, MostBanks(m))
  OBVIOUS
<1>2. Walks(f, m, first, MostBanks(m))
  BY <1>1, WalksExist
<1>3. BanksFrom(m, first) = f
  BY <1>1 DEF BanksFrom, Walks
<1>4. QED
  BY <1>2, <1>3

\* SwapBanks returns the memory after the last step.
LEMMA SwapsIs ==
  ASSUME NEW m, NEW b32, MostBanks(m) \in Nat
  PROVE  \E f : Swaps(f, m, b32, MostBanks(m)) /\ SwapBanks(m, b32) = f[MostBanks(m)].mem
<1>1. PICK f : f = CHOOSE g : Swaps(g, m, b32, MostBanks(m))
  OBVIOUS
<1>2. Swaps(f, m, b32, MostBanks(m))
  BY <1>1, SwapsExist
<1>3. SwapBanks(m, b32) = f[MostBanks(m)].mem
  BY <1>1 DEF SwapBanks, Swaps
<1>4. QED
  BY <1>2, <1>3

-----------------------------------------------------------------------------
(***************************************************************************)
(* A bank as it is written                                                 *)
(***************************************************************************)
SixOf(s1, s2, s3, s4, s5, s6) == s1 \o s2 \o s3 \o s4 \o s5 \o s6

\* The six parts of a bank, one behind the other
LEMMA SixPieces ==
  ASSUME NEW q, \A i \in 1 .. 6 : q[i] \in Seq(Nat), NEW m, NEW a \in Nat, NEW s,
         s = SixOf(q[1], q[2], q[3], q[4], q[5], q[6])
  PROVE  /\ s \in Seq(Nat)
         /\ Len(s) = Len(q[1]) + Len(q[2]) + Len(q[3]) + Len(q[4]) + Len(q[5]) + Len(q[6])
         /\ Stands(m, a, s) =>
              /\ Stands(m, a + Len(q[1]), q[2])
              /\ Stands(m, a + Len(q[1]) + Len(q[2]), q[3])
              /\ Stands(m, a + Len(q[1]) + Len(q[2]) + Len(q[3]), q[4])
              /\ Stands(m, a + Len(q[1]) + Len(q[2]) + Len(q[3]) + Len(q[4]), q[5])
<1>0. PICK s1, s2, s3, s4, s5, s6 \in Seq(Nat) :
        s1 = q[1] /\ s2 = q[2] /\ s3 = q[3] /\ s4 = q[4] /\ s5 = q[5] /\ s6 = q[6]
  OBVIOUS
<1>1. PICK t2, t3, t4, t5 :
        t2 = s1 \o s2 /\ t3 = t2 \o s3 /\ t4 = t3 \o s4 /\ t5 = t4 \o s5
  OBVIOUS
<1>2. t2 \in Seq(Nat) /\ Len(t2) = Len(s1) + Len(s2)
  BY <1>1
<1>3. t3 \in Seq(Nat) /\ Len(t3) = Len(s1) + Len(s2) + Len(s3)
  BY <1>1, <1>2
<1>4. t4 \in Seq(Nat) /\ Len(t4) = Len(s1) + Len(s2) + Len(s3) + Len(s4)
  BY <1>1, <1>3
<1>5. t5 \in Seq(Nat) /\ Len(t5) = Len(s1) + Len(s2) + Len(s3) + Len(s4) + Len(s5)
  BY <1>1, <1>4
<1>6. s = t5 \o s6
  BY <1>0, <1>1 DEF SixOf
<1>7. s \in Seq(Nat) /\ Len(s) = Len(t5) + Len(s6)
  <2>1. \A x \in Seq(Nat) : x \o s6 \in Seq(Nat) /\ Len(x \o s6) = Len(x) + Len(s6)
    BY SMT
  <2>2. QED
    BY <1>5, <1>6, <2>1, Zenon
<1>8. ASSUME Stands(m, a, s)
      PROVE  /\ Stands(m, a + Len(s1), s2)
             /\ Stands(m, a + Len(t2), s3)
             /\ Stands(m, a + Len(t3), s4)
             /\ Stands(m, a + Len(t4), s5)
  <2>1. Stands(m, a, t5)
    BY <1>5, <1>6, <1>8, StandsConcat
  <2>2. Stands(m, a, t4) /\ Stands(m, a + Len(t4), s5)
    BY <1>1, <1>4, <2>1, StandsConcat
  <2>3. Stands(m, a, t3) /\ Stands(m, a + Len(t3), s4)
    BY <1>1, <1>3, <2>2, StandsConcat
  <2>4. Stands(m, a, t2) /\ Stands(m, a + Len(t2), s3)
    BY <1>1, <1>2, <2>3, StandsConcat
  <2>5. Stands(m, a + Len(s1), s2)
    BY <1>1, <2>4, StandsConcat
  <2>6. QED
    BY <2>2, <2>3, <2>4, <2>5
<1>9. /\ a + Len(t2) = a + Len(s1) + Len(s2)
      /\ a + Len(t3) = a + Len(s1) + Len(s2) + Len(s3)
      /\ a + Len(t4) = a + Len(s1) + Len(s2) + Len(s3) + Len(s4)
  BY <1>2, <1>3, <1>4
<1>10. QED
  BY <1>0, <1>5, <1>7, <1>8, <1>9

\* Bytes of a field, of a bank's header and of the gap before a bank
FieldWidth(wide) == IF wide THEN 4 ELSE 2
HeaderLen(wide) == IF wide THEN 12 ELSE 8
GapLen(b) == IF b.gap THEN 4 ELSE 0
BankLen(b, wide) == GapLen(b) + HeaderLen(wide) + Align(b.size)

\* What Possible says of a bank
Fine(b, wide, foreign) ==
  /\ b \in Bank
  /\ b.size % Elem(b.type) = 0
  /\ ~wide => b.size <= Most2
  /\ b.gap => wide /\ ~foreign

\* The table of the element sizes agrees with the switch in SwapBytes.
LEMMA TidSizes ==
  /\ TID_MAX = 17
  /\ \A t \in 0 .. 16 :
       /\ TID_SIZE[t + 1] \in {0, 1, 2, 4, 8}
       /\ Elem(t) = IF TID_SIZE[t + 1] = 0 THEN 1 ELSE TID_SIZE[t + 1]
       /\ Elem(t) \in {1, 2, 4, 8}
       /\ Elem(t) = SwapWidth(t)
<1>1. PICK s : s = TID_SIZE
  OBVIOUS
<1>2. /\ Len(s) = 17 /\ s[1] = 0 /\ s[2] = 1 /\ s[3] = 1 /\ s[4] = 1 /\ s[5] = 2 /\ s[6] = 2
      /\ s[7] = 4 /\ s[8] = 4 /\ s[9] = 4 /\ s[10] = 4 /\ s[11] = 8 /\ s[12] = 1 /\ s[13] = 0
      /\ s[14] = 0 /\ s[15] = 0 /\ s[16] = 0 /\ s[17] = 0
  BY <1>1 DEF TID_SIZE
<1>3. TID_MAX = 17
  BY <1>1, <1>2 DEF TID_MAX
<1>4. ASSUME NEW t \in 0 .. 16
      PROVE  s[t + 1] = IF t \in 4 .. 5 THEN 2 ELSE IF t \in 6 .. 9 THEN 4
                        ELSE IF t = 10 THEN 8 ELSE IF t \in {1, 2, 3, 11} THEN 1 ELSE 0
  <2>1. t \in {0, 1, 2, 3, 4, 5, 6, 7, 8, 9, 10, 11, 12, 13, 14, 15, 16}
    BY <1>4
  <2>2. QED
    BY <1>2, <2>1
<1>5. QED
  BY <1>1, <1>3, <1>4 DEF Elem, SwapWidth

\* The padding fills up to a multiple of 8.
LEMMA Aligned ==
  ASSUME NEW n \in Nat
  PROVE  Align(n) \in Nat /\ Align(n) >= n /\ Align(n) % 8 = 0
BY DEF Align

\* The fields of a bank the front-ends make
LEMMA FineTypes ==
  ASSUME NEW b, NEW wide, NEW foreign, Fine(b, wide, foreign)
  PROVE  /\ b.name \in Seq(Nat) /\ Len(b.name) = 4
         /\ \A i \in 1 .. 4 : b.name[i] \in Nat
         /\ b.name[1] >= 32
         /\ b.name = [i \in 1 .. 4 |-> b.name[i]]
         /\ b.type \in Nat /\ b.type <= 16 /\ b.size \in Nat /\ b.gap \in BOOLEAN
<1>1. b \in Bank
  BY DEF Fine
<1>2. b.name \in BankName /\ b.type \in 0 .. 16 /\ b.size \in Nat /\ b.gap \in BOOLEAN
  BY <1>1, TidSizes DEF Bank
<1>3. PICK s : s = b.name
  OBVIOUS
<1>4. s \in [1 .. 4 -> {0} \cup 32 .. 126] /\ s[1] # 0
  BY <1>2, <1>3 DEF BankName
<1>5. s = [i \in 1 .. 4 |-> s[i]] /\ (\A i \in 1 .. 4 : s[i] \in Nat) /\ s[1] >= 32
  BY <1>4
<1>6. [i \in 1 .. 4 |-> s[i]] \in Seq(Nat) /\ Len([i \in 1 .. 4 |-> s[i]]) = 4
  <2>1. \A i \in 1 .. 4 : s[i] \in Nat
    BY <1>5
  <2>2. QED
    BY <2>1
<1>7. s \in Seq(Nat) /\ Len(s) = 4
  BY <1>5, <1>6, Zenon
<1>8. QED
  BY <1>2, <1>3, <1>5, <1>7

\* A field is as long as it should be, in either byte order.
LEMMA FieldSeq ==
  ASSUME NEW n \in Nat, NEW w \in {2, 4}, NEW foreign \in BOOLEAN
  PROVE  Field(n, w, foreign) \in Seq(Nat) /\ Len(Field(n, w, foreign)) = w
<1>1. CASE foreign = TRUE
  BY <1>1, FieldIs
<1>2. CASE foreign = FALSE
  BY <1>2, FieldIs, BytesSeq
<1>3. QED
  BY <1>1, <1>2

\* Zeros are a sequence of numbers.
LEMMA ZerosSeq ==
  ASSUME NEW n \in Nat
  PROVE  Zeros(n) \in Seq(Nat) /\ Len(Zeros(n)) = n
BY DEF Zeros

\* Where the byte i stands in an element of w bytes of the other byte order
Mirror(i, w) == i - ((i - 1) % w) + (w - 1 - ((i - 1) % w))

\* Mirrored twice within its element, a byte is where it was.
LEMMA Mirrored ==
  ASSUME NEW w \in {1, 2, 4, 8}, NEW n \in Nat, n % w = 0, NEW i \in 1 .. n
  PROVE  Mirror(i, w) \in 1 .. n /\ Mirror(Mirror(i, w), w) = i
<1>1. CASE w = 1
  BY <1>1 DEF Mirror
<1>2. CASE w = 2
  BY <1>2 DEF Mirror
<1>3. CASE w = 4
  BY <1>3 DEF Mirror
<1>4. CASE w = 8
  BY <1>4 DEF Mirror
<1>5. QED
  BY <1>1, <1>2, <1>3, <1>4

\* The bytes of the data as the front-end wrote them
LEMMA WrittenIs ==
  ASSUME NEW b, NEW wide, NEW foreign \in BOOLEAN, Fine(b, wide, foreign)
  PROVE  /\ Written(b, foreign) \in Seq(Nat)
         /\ Len(Written(b, foreign)) = b.size
         /\ \A i \in 1 .. b.size :
              Written(b, foreign)[i] = IF foreign THEN Mirror(i, Elem(b.type)) ELSE i
<1>1. PICK n, w : n = b.size /\ w = Elem(b.type)
  OBVIOUS
<1>2. n \in Nat /\ w \in {1, 2, 4, 8} /\ n % w = 0
  <2>1. b.size \in Nat /\ b.type \in Nat /\ b.type <= 16
    BY FineTypes
  <2>2. b.size % Elem(b.type) = 0
    BY DEF Fine
  <2>3. b.type \in 0 .. 16
    BY <2>1
  <2>4. QED
    BY <1>1, <2>1, <2>2, <2>3, TidSizes
<1>3. PICK s : s = [i \in 1 .. n |-> IF foreign THEN Mirror(i, w) ELSE i]
  OBVIOUS
<1>4. Written(b, foreign) = s
  BY <1>1, <1>3, Zenon DEF Written, Mirror
<1>5. \A i \in 1 .. n : Mirror(i, w) \in Nat
  <2>1. \A i \in 1 .. n : Mirror(i, w) \in 1 .. n
    BY <1>2, Mirrored
  <2>2. QED
    BY <1>2, <2>1
<1>6. s \in Seq(Nat) /\ Len(s) = n
  BY <1>2, <1>3, <1>5
<1>7. \A i \in 1 .. n : s[i] = IF foreign THEN Mirror(i, w) ELSE i
  BY <1>3
<1>8. QED
  BY <1>1, <1>4, <1>6, <1>7

\* Where the parts of an encoded bank stand
LEMMA BankPieces ==
  ASSUME NEW b, NEW wide \in BOOLEAN, NEW foreign \in BOOLEAN, Fine(b, wide, foreign)
  PROVE  /\ EncodeBank(b, wide, foreign) \in Seq(Nat)
         /\ Len(EncodeBank(b, wide, foreign)) = BankLen(b, wide)
         /\ \A m : \A a \in Nat : Stands(m, a, EncodeBank(b, wide, foreign)) =>
              /\ Stands(m, a + GapLen(b), b.name)
              /\ Stands(m, a + GapLen(b) + 4, Field(b.type, FieldWidth(wide), foreign))
              /\ Stands(m, a + GapLen(b) + 4 + FieldWidth(wide),
                        Field(b.size, FieldWidth(wide), foreign))
              /\ Stands(m, a + GapLen(b) + HeaderLen(wide), Written(b, foreign))
<1>1. PICK g, w : g = GapLen(b) /\ w = FieldWidth(wide)
  OBVIOUS
<1>2. g \in Nat /\ w \in {2, 4} /\ HeaderLen(wide) = 4 + w + w
  BY <1>1, FineTypes DEF GapLen, FieldWidth, HeaderLen
<1>3. b.type \in Nat /\ b.size \in Nat
  BY FineTypes
<1>4. PICK pad : pad = Align(b.size) - b.size
  OBVIOUS
<1>5. pad \in Nat /\ b.size + pad = Align(b.size)
  BY <1>3, <1>4, Aligned
<1>6. PICK s1, s2, s3, s4, s5, s6 :
        /\ s1 = Zeros(g) /\ s2 = b.name /\ s3 = Field(b.type, w, foreign)
        /\ s4 = Field(b.size, w, foreign) /\ s5 = Written(b, foreign) /\ s6 = Zeros(pad)
  OBVIOUS
<1>7. EncodeBank(b, wide, foreign) = SixOf(s1, s2, s3, s4, s5, s6)
  BY <1>1, <1>4, <1>6, Zenon DEF EncodeBank, GapLen, FieldWidth, SixOf
<1>8. s1 \in Seq(Nat) /\ s6 \in Seq(Nat) /\ Len(s1) = g /\ Len(s6) = pad
  BY <1>2, <1>5, <1>6, ZerosSeq
<1>9. s2 \in Seq(Nat) /\ Len(s2) = 4
  BY <1>6, FineTypes
<1>10. s3 \in Seq(Nat) /\ s4 \in Seq(Nat) /\ Len(s3) = w /\ Len(s4) = w
  BY <1>2, <1>3, <1>6, FieldSeq
<1>11. s5 \in Seq(Nat) /\ Len(s5) = b.size
  BY <1>6, WrittenIs
<1>12. PICK s : s = SixOf(s1, s2, s3, s4, s5, s6)
  OBVIOUS
<1>13. ASSUME NEW m, NEW a \in Nat
       PROVE  /\ s \in Seq(Nat)
              /\ Len(s) = Len(s1) + Len(s2) + Len(s3) + Len(s4) + Len(s5) + Len(s6)
              /\ Stands(m, a, s) =>
                   /\ Stands(m, a + Len(s1), s2)
                   /\ Stands(m, a + Len(s1) + Len(s2), s3)
                   /\ Stands(m, a + Len(s1) + Len(s2) + Len(s3), s4)
                   /\ Stands(m, a + Len(s1) + Len(s2) + Len(s3) + Len(s4), s5)
  <2>1. PICK q : q = <<s1, s2, s3, s4, s5, s6>>
    OBVIOUS
  <2>2. q[1] = s1 /\ q[2] = s2 /\ q[3] = s3 /\ q[4] = s4 /\ q[5] = s5 /\ q[6] = s6
    BY <2>1
  <2>3. \A i \in 1 .. 6 : q[i] \in Seq(Nat)
    <3>1. \A i \in 1 .. 6 : i \in {1, 2, 3, 4, 5, 6}
      OBVIOUS
    <3>2. QED
      BY <1>8, <1>9, <1>10, <1>11, <2>2, <3>1
  <2>4. s = SixOf(q[1], q[2], q[3], q[4], q[5], q[6])
    BY <1>12, <2>2
  <2>5. QED
    BY <2>2, <2>3, <2>4, SixPieces
<1>14. s \in Seq(Nat) /\ Len(s) = BankLen(b, wide)
  <2>1. Len(s) = g + 4 + w + w + b.size + pad /\ s \in Seq(Nat)
    BY <1>8, <1>9, <1>10, <1>11, <1>13
  <2>2. g + 4 + w + w + b.size + pad = g + (4 + w + w) + Align(b.size)
    BY <1>2, <1>3, <1>5
  <2>3. QED
    BY <1>1, <1>2, <2>1, <2>2 DEF BankLen
<1>15. ASSUME NEW m, NEW a \in Nat, Stands(m, a, s)
       PROVE  /\ Stands(m, a + g, b.name)
              /\ Stands(m, a + g + 4, Field(b.type, w, foreign))
              /\ Stands(m, a + g + 4 + w, Field(b.size, w, foreign))
              /\ Stands(m, a + g + HeaderLen(wide), Written(b, foreign))
  <2>1. a + g + HeaderLen(wide) = a + g + 4 + w + w
    BY <1>2
  <2>2. QED
    BY <1>6, <1>8, <1>9, <1>10, <1>13, <1>15, <2>1
<1>16. QED
  BY <1>1, <1>7, <1>12, <1>14, <1>15

-----------------------------------------------------------------------------
(***************************************************************************)
(* An event as it is written                                               *)
(***************************************************************************)
\* The address behind the first i banks of an event
Begin(e, i) == 8 + Len(EncodeBanks(e)[i])

\* The length of a concatenation
LEMMA ConcatLen ==
  ASSUME NEW s \in Seq(Nat), NEW t \in Seq(Nat)
  PROVE  s \o t \in Seq(Nat) /\ Len(s \o t) = Len(s) + Len(t)
OBVIOUS

\* The parts of an event the front-ends make
LEMMA PossibleTypes ==
  ASSUME NEW e, Possible(e)
  PROVE  /\ e.wide \in BOOLEAN /\ e.foreign \in BOOLEAN /\ e.id \in Nat
         /\ e.banks \in Seq(Bank) /\ Len(e.banks) \in Nat
         /\ \A i \in 1 .. Len(e.banks) : Fine(e.banks[i], e.wide, e.foreign)
<1>1. e \in Event
  BY DEF Possible
<1>2. e.wide \in BOOLEAN /\ e.foreign \in BOOLEAN /\ e.id \in Nat /\ e.banks \in Seq(Bank)
  BY <1>1 DEF Event
<1>3. Len(e.banks) \in Nat /\ DOMAIN e.banks = 1 .. Len(e.banks)
  BY <1>2
<1>4. ASSUME NEW i \in 1 .. Len(e.banks) PROVE Fine(e.banks[i], e.wide, e.foreign)
  <2>1. PICK b : b = e.banks[i]
    OBVIOUS
  <2>2. b \in Bank
    BY <1>2, <2>1
  <2>3. /\ b.size % Elem(b.type) = 0 /\ (~e.wide => b.size < 65536)
        /\ (b.gap => e.wide /\ ~e.foreign)
    <3>1. i \in DOMAIN e.banks
      BY <1>3, <1>4
    <3>2. QED
      BY <2>1, <3>1, SMT DEF Possible
  <2>4. ~e.wide => b.size <= Most2
    <3>1. b.size \in Nat
      BY <2>2 DEF Bank
    <3>2. QED
      BY <2>3, <3>1, SMT DEF Most2
  <2>5. QED
    BY <2>1, <2>2, <2>3, <2>4 DEF Fine
<1>5. QED
  BY <1>2, <1>3, <1>4

\* EncodeBanks adds one bank after the other.
LEMMA Joined ==
  ASSUME NEW e, Possible(e)
  PROVE  /\ EncodeBanks(e)[0] = <<>>
         /\ \A i \in 1 .. Len(e.banks) :
              EncodeBanks(e)[i] =
                EncodeBanks(e)[i - 1] \o EncodeBank(e.banks[i], e.wide, e.foreign)
         /\ \A i \in 0 .. Len(e.banks) : EncodeBanks(e)[i] \in Seq(Nat)
<1>1. PICK n, f : n = Len(e.banks) /\ f = EncodeBanks(e)
  OBVIOUS
<1>2. n \in Nat /\ Joins(f, e, n)
  BY <1>1, PossibleTypes, JoinsIs
<1>3. f[0] = <<>>
  <2>1. 0 \in 0 .. n
    BY <1>2
  <2>2. QED
    BY <1>2, <2>1, JoinsAt
<1>4. ASSUME NEW i \in 1 .. n
      PROVE  f[i] = f[i - 1] \o EncodeBank(e.banks[i], e.wide, e.foreign)
  <2>1. i \in 0 .. n /\ i # 0
    BY <1>2, <1>4
  <2>2. QED
    BY <1>2, <2>1, JoinsAt
<1>5. PICK S : S = {i \in Nat : i <= n => f[i] \in Seq(Nat)}
  OBVIOUS
<1>6. 0 \in S
  <2>1. <<>> \in Seq(Nat)
    OBVIOUS
  <2>2. QED
    BY <1>3, <1>5, <2>1
<1>7. ASSUME NEW i \in Nat, i \in S PROVE i + 1 \in S
  <2>1. SUFFICES ASSUME i + 1 <= n PROVE f[i + 1] \in Seq(Nat)
    BY <1>5
  <2>2. i + 1 \in 1 .. n /\ f[i] \in Seq(Nat) /\ (i + 1) - 1 = i
    BY <1>2, <1>5, <1>7, <2>1
  <2>3. EncodeBank(e.banks[i + 1], e.wide, e.foreign) \in Seq(Nat)
    BY <1>1, <2>2, PossibleTypes, BankPieces
  <2>4. f[i + 1] = f[i] \o EncodeBank(e.banks[i + 1], e.wide, e.foreign)
    BY <1>4, <2>2
  <2>5. QED
    BY <2>2, <2>3, <2>4
<1>8. \A i \in Nat : i \in S
  BY <1>6, <1>7, Induction
<1>9. \A i \in 0 .. n : f[i] \in Seq(Nat)
  BY <1>2, <1>5, <1>8
<1>10. QED
  BY <1>1, <1>3, <1>4, <1>9

\* A bank is as long as its gap, its header and its padded data.
LEMMA BankLens ==
  ASSUME NEW b, NEW wide \in BOOLEAN, NEW foreign, Fine(b, wide, foreign)
  PROVE  /\ BankLen(b, wide) \in Nat /\ GapLen(b) \in {0, 4}
         /\ BankLen(b, wide) >= GapLen(b) + HeaderLen(wide) + b.size
         /\ HeaderLen(wide) \in {8, 12} /\ (HeaderLen(wide) = 12 <=> wide)
<1>1. b.size \in Nat /\ b.gap \in BOOLEAN
  BY FineTypes
<1>2. Align(b.size) \in Nat /\ Align(b.size) >= b.size
  BY <1>1, Aligned
<1>3. QED
  BY <1>1, <1>2 DEF BankLen, GapLen, HeaderLen

\* Every bank begins behind the one before, the first behind the event's header.
LEMMA Begins ==
  ASSUME NEW e, Possible(e)
  PROVE  /\ Begin(e, 0) = 8
         /\ \A i \in 0 .. Len(e.banks) : Begin(e, i) \in Nat
         /\ \A i \in 1 .. Len(e.banks) :
              Begin(e, i) = Begin(e, i - 1) + BankLen(e.banks[i], e.wide)
<1>1. PICK n, f : n = Len(e.banks) /\ f = EncodeBanks(e)
  OBVIOUS
<1>2. /\ n \in Nat /\ f[0] = <<>> /\ \A i \in 0 .. n : f[i] \in Seq(Nat)
      /\ \A i \in 1 .. n : f[i] = f[i - 1] \o EncodeBank(e.banks[i], e.wide, e.foreign)
  BY <1>1, PossibleTypes, Joined
<1>3. ASSUME NEW i \in 1 .. n
      PROVE  Begin(e, i) = Begin(e, i - 1) + BankLen(e.banks[i], e.wide)
  <2>1. PICK s : s = EncodeBank(e.banks[i], e.wide, e.foreign)
    OBVIOUS
  <2>2. s \in Seq(Nat) /\ Len(s) = BankLen(e.banks[i], e.wide)
    BY <1>1, <2>1, PossibleTypes, BankPieces
  <2>3. f[i] = f[i - 1] \o s /\ f[i - 1] \in Seq(Nat)
    <3>1. i - 1 \in 0 .. n
      BY <1>2, <1>3
    <3>2. QED
      BY <1>2, <1>3, <2>1, <3>1
  <2>4. Len(f[i]) = Len(f[i - 1]) + Len(s)
    <3>1. PICK u \in Seq(Nat) : u = f[i - 1]
      BY <2>3
    <3>2. Len(u \o s) = Len(u) + Len(s)
      BY <2>2, ConcatLen, Zenon
    <3>3. QED
      BY <2>3, <3>1, <3>2
  <2>5. Len(f[i - 1]) \in Nat /\ Len(s) \in Nat
    BY <2>2, <2>3
  <2>6. QED
    BY <1>1, <2>2, <2>4, <2>5 DEF Begin
<1>4. \A i \in 0 .. n : Begin(e, i) \in Nat
  BY <1>1, <1>2 DEF Begin
<1>5. Begin(e, 0) = 8
  BY <1>1, <1>2 DEF Begin
<1>6. QED
  BY <1>1, <1>3, <1>4, <1>5

\* The banks do not overlap, and each takes eight bytes or more.
LEMMA BeginGrows ==
  ASSUME NEW e, Possible(e), NEW i \in 0 .. Len(e.banks), NEW j \in i .. Len(e.banks)
  PROVE  Begin(e, i) + 8 * (j - i) <= Begin(e, j)
<1>1. PICK n : n = Len(e.banks)
  OBVIOUS
<1>2. n \in Nat /\ \A k \in 0 .. n : Begin(e, k) \in Nat
  BY <1>1, PossibleTypes, Begins
<1>3. PICK S : S = {k \in Nat : i + k <= n => Begin(e, i) + 8 * k <= Begin(e, i + k)}
  OBVIOUS
<1>4. 0 \in S
  BY <1>1, <1>2, <1>3
<1>5. ASSUME NEW k \in Nat, k \in S PROVE k + 1 \in S
  <2>1. SUFFICES ASSUME i + (k + 1) <= n PROVE Begin(e, i) + 8 * (k + 1) <= Begin(e, i + (k + 1))
    BY <1>3
  <2>2. PICK x : x = i + (k + 1)
    OBVIOUS
  <2>3. x \in 1 .. n /\ x - 1 = i + k /\ i + k <= n
    BY <1>1, <1>2, <2>1, <2>2
  <2>4. Begin(e, i) + 8 * k <= Begin(e, i + k)
    BY <1>3, <1>5, <2>3
  <2>5. Begin(e, x) = Begin(e, i + k) + BankLen(e.banks[x], e.wide)
    BY <1>1, <2>3, Begins
  <2>6. BankLen(e.banks[x], e.wide) \in Nat /\ BankLen(e.banks[x], e.wide) >= 8
    <3>1. Fine(e.banks[x], e.wide, e.foreign) /\ e.wide \in BOOLEAN
      BY <1>1, <2>3, PossibleTypes
    <3>2. PICK b, l, g : /\ b = e.banks[x] /\ l = HeaderLen(e.wide) /\ g = GapLen(b)
                         /\ b.size \in Nat
      BY <3>1, FineTypes
    <3>3. /\ BankLen(b, e.wide) \in Nat /\ g \in {0, 4}
          /\ BankLen(b, e.wide) >= g + l + b.size /\ l \in {8, 12}
      BY <3>1, <3>2, BankLens
    <3>4. PICK z \in Nat, len \in Nat : z = b.size /\ len = BankLen(b, e.wide)
      BY <3>2, <3>3
    <3>5. len >= g + l + z /\ g \in {0, 4} /\ l \in {8, 12}
      BY <3>3, <3>4
    <3>6. len >= 8
      BY <3>4, <3>5
    <3>7. QED
      BY <3>2, <3>4, <3>6
  <2>7. Begin(e, i) \in Nat /\ Begin(e, i + k) \in Nat
    BY <1>1, <1>2, <2>3
  <2>8. QED
    BY <2>2, <2>4, <2>5, <2>6, <2>7
<1>6. \A k \in Nat : k \in S
  BY <1>4, <1>5, Induction
<1>7. j - i \in Nat /\ i + (j - i) = j /\ j <= n
  BY <1>1, <1>2
<1>8. QED
  BY <1>3, <1>6, <1>7

\* The flags of the event's bank header
Flags(e) == IF e.wide THEN 17 ELSE 1

\* The event's length, and where its header and its banks stand
LEMMA EncodeLen ==
  ASSUME NEW e, Possible(e)
  PROVE  /\ Encode(e) \in Seq(Nat)
         /\ Len(Encode(e)) = Begin(e, Len(e.banks))
         /\ \A m : Stands(m, 0, Encode(e)) =>
              /\ Stands(m, 0, Field(Begin(e, Len(e.banks)) - 8, 4, e.foreign))
              /\ Stands(m, 4, Field(Flags(e), 4, e.foreign))
              /\ Stands(m, 8, EncodeBanks(e)[Len(e.banks)])
<1>1. PICK n, t : n = Len(e.banks) /\ t = EncodeBanks(e)[n]
  OBVIOUS
<1>2. n \in Nat /\ t \in Seq(Nat) /\ e.foreign \in BOOLEAN
  <2>1. n \in Nat /\ e.foreign \in BOOLEAN
    BY <1>1, PossibleTypes
  <2>2. n \in 0 .. n
    BY <2>1
  <2>3. QED
    BY <1>1, <2>1, <2>2, Joined
<1>3. Len(t) \in Nat /\ Begin(e, n) = 8 + Len(t) /\ Begin(e, n) - 8 = Len(t)
  BY <1>1, <1>2 DEF Begin
<1>4. PICK s1, s2 : s1 = Field(Len(t), 4, e.foreign) /\ s2 = Field(Flags(e), 4, e.foreign)
  OBVIOUS
<1>5. s1 \in Seq(Nat) /\ Len(s1) = 4 /\ s2 \in Seq(Nat) /\ Len(s2) = 4
  <2>1. Flags(e) \in Nat
    BY DEF Flags
  <2>2. QED
    BY <1>2, <1>3, <1>4, <2>1, FieldSeq
<1>6. PICK u : u = s1 \o s2
  OBVIOUS
<1>7. u \in Seq(Nat) /\ Len(u) = 8
  <2>1. u \in Seq(Nat) /\ Len(u) = Len(s1) + Len(s2)
    BY <1>5, <1>6, ConcatLen, Zenon
  <2>2. QED
    BY <1>5, <2>1
<1>8. Encode(e) = u \o t
  BY <1>1, <1>4, <1>6, Zenon DEF Encode, Flags
<1>9. PICK s : s = u \o t
  OBVIOUS
<1>10. s \in Seq(Nat) /\ Len(s) = 8 + Len(t)
  BY <1>2, <1>7, <1>9, ConcatLen
<1>11. ASSUME NEW m, Stands(m, 0, s)
       PROVE  Stands(m, 0, s1) /\ Stands(m, 4, s2) /\ Stands(m, 8, t)
  <2>1. Stands(m, 0, u) /\ Stands(m, 0 + 8, t)
    BY <1>2, <1>7, <1>9, <1>11, StandsConcat
  <2>2. Stands(m, 0, s1) /\ Stands(m, 0 + 4, s2)
    BY <1>5, <1>6, <2>1, StandsConcat
  <2>3. QED
    BY <2>1, <2>2
<1>12. QED
  BY <1>1, <1>3, <1>4, <1>8, <1>9, <1>10, <1>11

\* Every bank stands where it begins.
LEMMA StandsBanks ==
  ASSUME NEW e, Possible(e), NEW m, Stands(m, 8, EncodeBanks(e)[Len(e.banks)]),
         NEW i \in 1 .. Len(e.banks)
  PROVE  Stands(m, Begin(e, i - 1), EncodeBank(e.banks[i], e.wide, e.foreign))
<1>1. PICK n, f : n = Len(e.banks) /\ f = EncodeBanks(e)
  OBVIOUS
<1>2. /\ n \in Nat /\ \A j \in 0 .. n : f[j] \in Seq(Nat)
      /\ \A j \in 1 .. n : f[j] = f[j - 1] \o EncodeBank(e.banks[j], e.wide, e.foreign)
  BY <1>1, PossibleTypes, Joined
<1>3. ASSUME NEW j \in 1 .. n, Stands(m, 8, f[j])
      PROVE  /\ Stands(m, 8, f[j - 1])
             /\ Stands(m, Begin(e, j - 1), EncodeBank(e.banks[j], e.wide, e.foreign))
  <2>1. PICK t : t = EncodeBank(e.banks[j], e.wide, e.foreign)
    OBVIOUS
  <2>2. t \in Seq(Nat)
    BY <1>1, <2>1, PossibleTypes, BankPieces
  <2>3. j - 1 \in 0 .. n
    BY <1>2, <1>3
  <2>4. f[j - 1] \in Seq(Nat) /\ f[j] = f[j - 1] \o t
    BY <1>2, <1>3, <2>1, <2>3
  <2>5. Stands(m, 8, f[j - 1]) /\ Stands(m, 8 + Len(f[j - 1]), t)
    BY <1>3, <2>2, <2>4, StandsConcat
  <2>6. QED
    BY <1>1, <2>1, <2>5 DEF Begin
<1>4. PICK S : S = {k \in Nat : k < n => Stands(m, 8, f[n - k])}
  OBVIOUS
<1>5. 0 \in S
  BY <1>1, <1>2, <1>4
<1>6. ASSUME NEW k \in Nat, k \in S PROVE k + 1 \in S
  <2>1. SUFFICES ASSUME k + 1 < n PROVE Stands(m, 8, f[n - (k + 1)])
    BY <1>4
  <2>2. n - k \in 1 .. n /\ (n - k) - 1 = n - (k + 1) /\ k < n
    BY <1>2, <2>1
  <2>3. Stands(m, 8, f[n - k])
    BY <1>4, <1>6, <2>2
  <2>4. Stands(m, 8, f[(n - k) - 1])
    BY <1>3, <2>2, <2>3
  <2>5. QED
    BY <2>2, <2>4
<1>7. \A k \in Nat : k \in S
  BY <1>5, <1>6, Induction
<1>8. n - i \in Nat /\ n - i < n /\ n - (n - i) = i
  BY <1>1, <1>2
<1>9. Stands(m, 8, f[i])
  BY <1>4, <1>7, <1>8
<1>10. QED
  BY <1>1, <1>3, <1>9

-----------------------------------------------------------------------------
(***************************************************************************)
(* An event in native byte order in memory                                 *)
(***************************************************************************)
\* The bank b stands at the address p, in native byte order.
BankAt(m, p, b, wide) ==
  /\ Name(m, p) = b.name
  /\ Type(m, p, wide) = b.type
  /\ Size(m, p, wide) = b.size
  /\ \A k \in 1 .. b.size : m[DataOf(p, wide) + k - 1] = k

\* Where the header of the i-th bank stands
HeadAt(e, i) == Begin(e, i - 1) + GapLen(e.banks[i])

\* The memory holds the event in native byte order.
Holds(m, e) ==
  /\ End(m) = Begin(e, Len(e.banks))
  /\ IsBank32(m) <=> e.wide
  /\ \A i \in 1 .. Len(e.banks) : BankAt(m, HeadAt(e, i), e.banks[i], e.wide)

\* A field in our byte order
LEMMA NativeField ==
  ASSUME NEW n, NEW w, NEW foreign, ~foreign
  PROVE  Field(n, w, foreign) = Bytes(n, w)
BY DEF Field

\* The header of a bank is read as it was written.
LEMMA HeaderStands ==
  ASSUME NEW b, NEW wide \in BOOLEAN, NEW foreign, Fine(b, wide, foreign), b.size <= IntMax,
         NEW m, NEW p \in Nat,
         Stands(m, p, b.name),
         Stands(m, p + 4, Bytes(b.type, FieldWidth(wide))),
         Stands(m, p + 4 + FieldWidth(wide), Bytes(b.size, FieldWidth(wide)))
  PROVE  Name(m, p) = b.name /\ Type(m, p, wide) = b.type /\ Size(m, p, wide) = b.size
<1>1. /\ b.type \in Nat /\ b.size \in Nat /\ b.type <= Most2 /\ b.type <= IntMax
      /\ (~wide => b.size <= Most2)
  <2>1. b.type \in Nat /\ b.size \in Nat /\ b.type <= 16
    BY FineTypes
  <2>2. ~wide => b.size <= Most2
    BY DEF Fine
  <2>3. b.type <= Most2 /\ b.type <= IntMax
    BY <2>1, SMT DEF Most2, IntMax
  <2>4. QED
    BY <2>1, <2>2, <2>3
<1>2. Name(m, p) = b.name
  <2>1. \A i \in 1 .. 4 : m[p + i - 1] = b.name[i]
    BY FineTypes DEF Stands
  <2>2. b.name = [i \in 1 .. 4 |-> b.name[i]]
    BY FineTypes
  <2>3. PICK s : s = b.name
    OBVIOUS
  <2>4. [i \in 1 .. 4 |-> m[p + i - 1]] = [i \in 1 .. 4 |-> s[i]]
    BY <2>1, <2>3
  <2>5. QED
    BY <2>2, <2>3, <2>4 DEF Name
<1>3. Type(m, p, wide) = b.type /\ Size(m, p, wide) = b.size
  <2>1. CASE wide
    <3>1. Stands(m, p + 4, Bytes(b.type, 4)) /\ Stands(m, p + 8, Bytes(b.size, 4))
      <4>1. FieldWidth(wide) = 4 /\ p + 4 + 4 = p + 8
        BY <2>1 DEF FieldWidth
      <4>2. QED
        BY <4>1
    <3>2. p + 4 \in Nat /\ p + 8 \in Nat
      OBVIOUS
    <3>3. U32(m, p + 4) = b.type /\ U32(m, p + 8) = b.size
      BY <1>1, <3>1, <3>2, ReadFour
    <3>4. QED
      BY <2>1, <3>3 DEF Type, Size
  <2>2. CASE ~wide
    <3>1. Stands(m, p + 4, Bytes(b.type, 2)) /\ Stands(m, p + 6, Bytes(b.size, 2))
      <4>1. FieldWidth(wide) = 2 /\ p + 4 + 2 = p + 6
        BY <2>2 DEF FieldWidth
      <4>2. QED
        BY <4>1
    <3>2. p + 4 \in Nat /\ p + 6 \in Nat
      OBVIOUS
    <3>3. U16(m, p + 4) = b.type /\ U16(m, p + 6) = b.size
      BY <1>1, <2>2, <3>1, <3>2, ReadTwo
    <3>4. QED
      BY <2>2, <3>3 DEF Type, Size
  <2>3. QED
    BY <2>1, <2>2
<1>4. QED
  BY <1>2, <1>3

\* A bank of which the header is native and the payload too
LEMMA BankStands ==
  ASSUME NEW b, NEW wide \in BOOLEAN, NEW foreign, Fine(b, wide, foreign), b.size <= IntMax,
         NEW m, NEW p \in Nat,
         Stands(m, p, b.name),
         Stands(m, p + 4, Bytes(b.type, FieldWidth(wide))),
         Stands(m, p + 4 + FieldWidth(wide), Bytes(b.size, FieldWidth(wide))),
         \A k \in 1 .. b.size : m[p + HeaderLen(wide) + k - 1] = k
  PROVE  BankAt(m, p, b, wide)
<1>1. Name(m, p) = b.name /\ Type(m, p, wide) = b.type /\ Size(m, p, wide) = b.size
  BY HeaderStands
<1>2. DataOf(p, wide) = p + HeaderLen(wide)
  BY DEF DataOf, HeaderLen, Bank32Size, BankHeaderSize
<1>3. QED
  BY <1>1, <1>2 DEF BankAt

\* A bank in our byte order is read as it was written.
LEMMA NativeBank ==
  ASSUME NEW b, NEW wide \in BOOLEAN, NEW foreign \in BOOLEAN, ~foreign,
         Fine(b, wide, foreign), b.size <= IntMax,
         NEW m, NEW a \in Nat, Stands(m, a, EncodeBank(b, wide, foreign))
  PROVE  BankAt(m, a + GapLen(b), b, wide)
<1>1. PICK p : p = a + GapLen(b)
  OBVIOUS
<1>2. p \in Nat /\ HeaderLen(wide) \in Nat
  BY <1>1, BankLens
<1>3. /\ Stands(m, p, b.name)
      /\ Stands(m, p + 4, Field(b.type, FieldWidth(wide), foreign))
      /\ Stands(m, p + 4 + FieldWidth(wide), Field(b.size, FieldWidth(wide), foreign))
      /\ Stands(m, p + HeaderLen(wide), Written(b, foreign))
  BY <1>1, BankPieces
<1>4. /\ Stands(m, p + 4, Bytes(b.type, FieldWidth(wide)))
      /\ Stands(m, p + 4 + FieldWidth(wide), Bytes(b.size, FieldWidth(wide)))
  BY <1>3, NativeField
<1>5. ASSUME NEW k \in 1 .. b.size PROVE m[p + HeaderLen(wide) + k - 1] = k
  BY <1>3, <1>5, WrittenIs DEF Stands
<1>6. QED
  BY <1>1, <1>2, <1>3, <1>4, <1>5, BankStands

\* The numbers in the bank header are those of the event.
LEMMA HeaderRead ==
  ASSUME NEW e, Possible(e), NEW m, Begin(e, Len(e.banks)) <= IntMax,
         Stands(m, 0, Bytes(Begin(e, Len(e.banks)) - 8, 4)),
         Stands(m, 4, Bytes(Flags(e), 4))
  PROVE  End(m) = Begin(e, Len(e.banks)) /\ fFlags(m) = Flags(e) /\ (IsBank32(m) <=> e.wide)
<1>1. PICK d : d = Begin(e, Len(e.banks)) - 8
  OBVIOUS
<1>2. d \in Nat /\ d <= IntMax /\ Begin(e, Len(e.banks)) = d + 8
  <2>1. Len(e.banks) \in Nat /\ 0 \in 0 .. Len(e.banks) /\ Len(e.banks) \in 0 .. Len(e.banks)
    BY PossibleTypes
  <2>2. Begin(e, 0) = 8 /\ Begin(e, Len(e.banks)) \in Nat
    BY <2>1, Begins
  <2>3. Begin(e, 0) + 8 * (Len(e.banks) - 0) <= Begin(e, Len(e.banks))
    BY <2>1, BeginGrows
  <2>4. IntMax \in Nat
    BY SMT DEF IntMax
  <2>5. QED
    BY <1>1, <2>1, <2>2, <2>3, <2>4
<1>3. U32(m, 0) = d
  BY <1>1, <1>2, ReadFour
<1>4. Flags(e) \in Nat /\ Flags(e) <= IntMax /\ ((Flags(e) \div 16) % 2 = 1 <=> e.wide)
  BY PossibleTypes, SMT DEF Flags, IntMax
<1>5. U32(m, 4) = Flags(e)
  BY <1>4, ReadFour
<1>6. QED
  BY <1>2, <1>3, <1>4, <1>5 DEF End, fDataSize, fFlags, IsBank32, BankHeaderSize

\* Every bank's size is one that four bytes can tell.
LEMMA SizesFit ==
  ASSUME NEW e, Possible(e), Begin(e, Len(e.banks)) <= IntMax, NEW i \in 1 .. Len(e.banks)
  PROVE  e.banks[i].size <= IntMax /\ Begin(e, i) <= Begin(e, Len(e.banks))
<1>1. PICK n, b : n = Len(e.banks) /\ b = e.banks[i]
  OBVIOUS
<1>2. n \in Nat /\ Fine(b, e.wide, e.foreign) /\ e.wide \in BOOLEAN
  BY <1>1, PossibleTypes
<1>3. i \in 0 .. n /\ n \in i .. n /\ i - 1 \in 0 .. n /\ n \in 0 .. n
  BY <1>1, <1>2
<1>4. Begin(e, i) + 8 * (n - i) <= Begin(e, n)
  BY <1>1, <1>3, BeginGrows
<1>5. Begin(e, i) = Begin(e, i - 1) + BankLen(b, e.wide)
  BY <1>1, Begins
<1>6. Begin(e, i - 1) \in Nat /\ Begin(e, i) \in Nat /\ Begin(e, n) \in Nat
  BY <1>1, <1>3, Begins
<1>7. BankLen(b, e.wide) \in Nat /\ BankLen(b, e.wide) >= b.size /\ b.size \in Nat
  <2>1. b.size \in Nat
    BY <1>2, FineTypes
  <2>2. /\ BankLen(b, e.wide) \in Nat /\ GapLen(b) \in {0, 4} /\ HeaderLen(e.wide) \in {8, 12}
        /\ BankLen(b, e.wide) >= GapLen(b) + HeaderLen(e.wide) + b.size
    BY <1>2, BankLens
  <2>3. QED
    BY <2>1, <2>2
<1>8. IntMax \in Nat
  BY SMT DEF IntMax
<1>9. Begin(e, i) <= Begin(e, n)
  BY <1>1, <1>2, <1>4, <1>6
<1>10. b.size <= Begin(e, n) /\ Begin(e, n) <= IntMax
  BY <1>1, <1>5, <1>6, <1>7, <1>9
<1>11. QED
  BY <1>1, <1>6, <1>7, <1>8, <1>9, <1>10

\* An event that was written on a machine like ours is in native order.
LEMMA NativeHolds ==
  ASSUME NEW e, Possible(e), ~e.foreign, Begin(e, Len(e.banks)) <= IntMax,
         NEW m, Stands(m, 0, Encode(e))
  PROVE  Holds(m, e) /\ fFlags(m) = Flags(e)
<1>1. /\ Stands(m, 0, Field(Begin(e, Len(e.banks)) - 8, 4, e.foreign))
      /\ Stands(m, 4, Field(Flags(e), 4, e.foreign))
      /\ Stands(m, 8, EncodeBanks(e)[Len(e.banks)])
  BY EncodeLen
<1>2. /\ Stands(m, 0, Bytes(Begin(e, Len(e.banks)) - 8, 4))
      /\ Stands(m, 4, Bytes(Flags(e), 4))
  BY <1>1, NativeField
<1>3. ASSUME NEW i \in 1 .. Len(e.banks)
      PROVE  BankAt(m, HeadAt(e, i), e.banks[i], e.wide)
  <2>1. Stands(m, Begin(e, i - 1), EncodeBank(e.banks[i], e.wide, e.foreign))
    BY <1>1, StandsBanks
  <2>2. /\ e.wide \in BOOLEAN /\ e.foreign \in BOOLEAN
        /\ Fine(e.banks[i], e.wide, e.foreign) /\ i - 1 \in 0 .. Len(e.banks)
    BY PossibleTypes
  <2>3. Begin(e, i - 1) \in Nat /\ e.banks[i].size <= IntMax
    BY <2>2, Begins, SizesFit
  <2>4. QED
    BY <2>1, <2>2, <2>3, NativeBank DEF HeadAt
<1>4. QED
  BY <1>2, <1>3, HeaderRead DEF Holds

-----------------------------------------------------------------------------
(***************************************************************************)
(* The walk through the banks of an event                                  *)
(***************************************************************************)
\* Where the i-th bank is found, and Null behind the last
Addr(e, i) == IF i <= Len(e.banks) THEN HeadAt(e, i) ELSE Null

\* The heads of the banks lie in front of the event's end.
LEMMA Heads ==
  ASSUME NEW e, Possible(e), NEW i \in 1 .. Len(e.banks)
  PROVE  /\ HeadAt(e, i) \in Nat /\ HeadAt(e, i) >= 8
         /\ Begin(e, i - 1) \in Nat /\ Begin(e, i) \in Nat /\ Begin(e, Len(e.banks)) \in Nat
         /\ HeadAt(e, i) = Begin(e, i - 1) + GapLen(e.banks[i])
         /\ GapLen(e.banks[i]) \in {0, 4}
         /\ HeadAt(e, i) + HeaderLen(e.wide) + Align(e.banks[i].size) = Begin(e, i)
         /\ HeaderLen(e.wide) \in {8, 12} /\ Align(e.banks[i].size) \in Nat
         /\ Align(e.banks[i].size) >= e.banks[i].size
         /\ Begin(e, i) <= Begin(e, Len(e.banks))
<1>1. PICK n, b : n = Len(e.banks) /\ b = e.banks[i]
  OBVIOUS
<1>2. n \in Nat /\ Fine(b, e.wide, e.foreign) /\ e.wide \in BOOLEAN
  BY <1>1, PossibleTypes
<1>3. i \in 0 .. n /\ n \in i .. n /\ i - 1 \in 0 .. n /\ n \in 0 .. n /\ 0 \in 0 .. n
      /\ i - 1 \in 0 .. n
  BY <1>1, <1>2
<1>4. Begin(e, i) + 8 * (n - i) <= Begin(e, n)
  BY <1>1, <1>3, BeginGrows
<1>5. Begin(e, i) = Begin(e, i - 1) + BankLen(b, e.wide)
  BY <1>1, Begins
<1>6. Begin(e, i - 1) \in Nat /\ Begin(e, i) \in Nat /\ Begin(e, n) \in Nat
  BY <1>1, <1>3, Begins
<1>7. Begin(e, 0) + 8 * ((i - 1) - 0) <= Begin(e, i - 1) /\ Begin(e, 0) = 8
  <2>1. i - 1 \in 0 .. Len(e.banks) /\ 0 \in 0 .. Len(e.banks)
    BY <1>1, <1>3
  <2>2. QED
    BY <2>1, BeginGrows, Begins
<1>8. b.size \in Nat
  BY <1>2, FineTypes
<1>9. Align(b.size) \in Nat /\ Align(b.size) >= b.size
  BY <1>8, Aligned
<1>10. GapLen(b) \in {0, 4} /\ HeaderLen(e.wide) \in {8, 12}
  BY <1>2, BankLens
<1>11. BankLen(b, e.wide) = GapLen(b) + HeaderLen(e.wide) + Align(b.size)
  BY DEF BankLen
<1>12. HeadAt(e, i) = Begin(e, i - 1) + GapLen(b)
  BY <1>1 DEF HeadAt
<1>13. Begin(e, i) <= Begin(e, n)
  BY <1>2, <1>3, <1>4, <1>6
<1>14. Begin(e, i - 1) >= 8
  BY <1>2, <1>3, <1>6, <1>7
<1>15. /\ HeadAt(e, i) \in Nat /\ HeadAt(e, i) >= 8
       /\ HeadAt(e, i) + HeaderLen(e.wide) + Align(b.size) = Begin(e, i)
  <2>1. PICK x, y, z, u, v :
          /\ x = Begin(e, i - 1) /\ y = GapLen(b) /\ z = HeaderLen(e.wide)
          /\ u = Align(b.size) /\ v = Begin(e, i)
    OBVIOUS
  <2>2. x \in Nat /\ x >= 8 /\ y \in {0, 4} /\ z \in {8, 12} /\ u \in Nat /\ v = x + (y + z + u)
    BY <1>5, <1>6, <1>9, <1>10, <1>11, <1>14, <2>1
  <2>3. x + y \in Nat /\ x + y >= 8 /\ x + y + z + u = v
    BY <2>2
  <2>4. QED
    BY <1>12, <2>1, <2>3
<1>16. QED
  BY <1>1, <1>6, <1>9, <1>10, <1>12, <1>13, <1>15

\* NextBank is where the next bank begins.
LEMMA NextIs ==
  ASSUME NEW e, Possible(e), NEW m, Holds(m, e), NEW i \in 1 .. Len(e.banks)
  PROVE  NextBank(m, HeadAt(e, i), e.wide) = Begin(e, i)
<1>1. Size(m, HeadAt(e, i), e.wide) = e.banks[i].size
  BY DEF Holds, BankAt
<1>2. DataOf(HeadAt(e, i), e.wide) = HeadAt(e, i) + HeaderLen(e.wide)
  BY DEF DataOf, HeaderLen, Bank32Size, BankHeaderSize
<1>3. QED
  BY <1>1, <1>2, Heads DEF NextBank

\* A bank is recognised by its type, or by it behind the gap of four bytes.
LEMMA RealignedIs ==
  ASSUME NEW e, Possible(e), NEW m, Holds(m, e), e.wide, NEW i \in 1 .. Len(e.banks)
  PROVE  Realigned(m, Begin(e, i - 1)) = HeadAt(e, i)
<1>1. PICK p, b : p = Begin(e, i - 1) /\ b = e.banks[i]
  OBVIOUS
<1>2. p \in Nat /\ HeadAt(e, i) = p + GapLen(b)
  BY <1>1, Heads
<1>3. Fine(b, e.wide, e.foreign)
  BY <1>1, PossibleTypes
<1>4. b.type \in Nat /\ b.type <= TID_MAX
  <2>1. b.type \in Nat /\ b.type <= 16
    BY <1>3, FineTypes
  <2>2. QED
    BY <2>1, TidSizes
<1>5. BankAt(m, HeadAt(e, i), b, e.wide)
  BY <1>1 DEF Holds
<1>6. U32(m, HeadAt(e, i) + 4) = b.type
  BY <1>5 DEF BankAt, Type
<1>7. CASE ~b.gap
  <2>1. HeadAt(e, i) = p
    BY <1>2, <1>7 DEF GapLen
  <2>2. U32(m, p + 4) <= TID_MAX
    BY <1>4, <1>6, <2>1
  <2>3. QED
    BY <1>1, <2>1, <2>2, Zenon DEF Realigned
<1>8. CASE b.gap
  <2>1. HeadAt(e, i) = p + 4 /\ p + 4 + 4 = p + 8 /\ p + 4 \in Nat
    BY <1>2, <1>8 DEF GapLen
  <2>2. U32(m, p + 8) <= TID_MAX
    BY <1>4, <1>6, <2>1
  <2>3. Name(m, p + 4) = b.name
    BY <1>5, <2>1 DEF BankAt
  <2>4. (\A k \in 1 .. 4 : m[(p + 4) + k - 1] \in Nat) /\ m[(p + 4) + 1 - 1] >= 32
    <3>1. (\A k \in 1 .. 4 : b.name[k] \in Nat) /\ b.name[1] >= 32
      BY <1>3, FineTypes
    <3>2. \A k \in 1 .. 4 : Name(m, p + 4)[k] = m[(p + 4) + k - 1]
      BY DEF Name
    <3>3. QED
      BY <2>3, <3>1, <3>2
  <2>5. PICK q : q = p + 4
    OBVIOUS
  <2>6. /\ m[q + 1 - 1] \in Nat /\ m[q + 1 - 1] >= 32 /\ m[q + 2 - 1] \in Nat
        /\ m[q + 3 - 1] \in Nat /\ m[q + 4 - 1] \in Nat
    BY <2>4, <2>5
  <2>7. q + 1 - 1 = q /\ q + 2 - 1 = q + 1 /\ q + 3 - 1 = q + 2 /\ q + 4 - 1 = q + 2 + 1
    BY <1>2, <2>5
  <2>8. m[q] \in Nat /\ m[q] >= 32 /\ m[q + 1] \in Nat /\ m[q + 2] \in Nat /\ m[q + 2 + 1] \in Nat
    BY <2>6, <2>7
  <2>9. U32(m, q) >= 32 /\ U32(m, q) \in Nat
    <3>1. U16(m, q) \in Nat /\ U16(m, q) >= 32
      BY <2>8, SMT DEF U16
    <3>2. U16(m, q + 2) \in Nat
      BY <2>8, SMT DEF U16
    <3>3. QED
      BY <3>1, <3>2, SMT DEF U32
  <2>10. ~(U32(m, p + 4) <= TID_MAX)
    BY <2>5, <2>9, TidSizes
  <2>11. QED
    <3>1. Realigned(m, p) = IF U32(m, p + 8) <= TID_MAX THEN p + 4 ELSE Null
      BY <2>10, Zenon DEF Realigned
    <3>2. Realigned(m, p) = p + 4
      BY <2>2, <3>1, Zenon
    <3>3. QED
      BY <1>1, <2>1, <3>2
<1>9. QED
  BY <1>7, <1>8

\* The step from the j-th bank, or from the beginning, in either format
LEMMA IterateFrom ==
  ASSUME NEW e, Possible(e), NEW m, Holds(m, e), NEW j \in 0 .. Len(e.banks),
         NEW pbk, pbk = IF j = 0 THEN Null ELSE HeadAt(e, j)
  PROVE  Iterate(m, pbk) = Addr(e, j + 1)
<1>1. PICK n : n = Len(e.banks)
  OBVIOUS
<1>2. n \in Nat /\ e.wide \in BOOLEAN /\ n \in 0 .. n /\ j \in 0 .. n /\ n \in j .. n
  BY <1>1, PossibleTypes
<1>3. End(m) = Begin(e, n) /\ Begin(e, n) \in Nat /\ Begin(e, j) \in Nat
  BY <1>1, <1>2, Begins DEF Holds
<1>4. Begin(e, j) + 8 * (n - j) <= Begin(e, n)
  BY <1>1, <1>2, BeginGrows
<1>5. Begin(e, n) >= 8
  <2>1. 0 \in 0 .. Len(e.banks) /\ Len(e.banks) \in 0 .. Len(e.banks)
    BY <1>1, <1>2
  <2>2. Begin(e, 0) + 8 * (Len(e.banks) - 0) <= Begin(e, Len(e.banks)) /\ Begin(e, 0) = 8
    BY <2>1, BeginGrows, Begins
  <2>3. QED
    BY <1>1, <1>2, <1>3, <2>2
<1>6. (IF pbk = Null THEN BankHeaderSize ELSE NextBank(m, pbk, e.wide)) = Begin(e, j)
  <2>1. CASE j = 0
    BY <2>1, Begins DEF BankHeaderSize
  <2>2. CASE j # 0
    <3>1. j \in 1 .. Len(e.banks)
      BY <1>1, <1>2, <2>2
    <3>2. HeadAt(e, j) \in Nat /\ HeadAt(e, j) >= 8 /\ NextBank(m, HeadAt(e, j), e.wide) = Begin(e, j)
      BY <3>1, Heads, NextIs
    <3>3. pbk = HeadAt(e, j) /\ pbk # Null
      BY <2>2, <3>2 DEF Null
    <3>4. QED
      BY <3>2, <3>3
  <2>3. QED
    BY <2>1, <2>2
<1>7. ASSUME j < n
      PROVE  /\ j + 1 \in 1 .. Len(e.banks) /\ Addr(e, j + 1) = HeadAt(e, j + 1)
             /\ (j + 1) - 1 = j /\ HeadAt(e, j + 1) \in Nat /\ ~(HeadAt(e, j + 1) >= End(m))
             /\ HeadAt(e, j + 1) = Begin(e, j) + GapLen(e.banks[j + 1])
  <2>1. j + 1 \in 1 .. Len(e.banks) /\ (j + 1) - 1 = j /\ j + 1 <= Len(e.banks)
    BY <1>1, <1>2, <1>7
  <2>2. /\ HeadAt(e, j + 1) \in Nat /\ Begin(e, j + 1) \in Nat
        /\ HeadAt(e, j + 1) = Begin(e, j) + GapLen(e.banks[j + 1])
        /\ HeadAt(e, j + 1) + HeaderLen(e.wide) + Align(e.banks[j + 1].size) = Begin(e, j + 1)
        /\ HeaderLen(e.wide) \in {8, 12} /\ Align(e.banks[j + 1].size) \in Nat
        /\ Begin(e, j + 1) <= Begin(e, n)
    BY <1>1, <2>1, Heads
  <2>3. ~(HeadAt(e, j + 1) >= End(m))
    BY <1>3, <2>2
  <2>4. QED
    BY <2>1, <2>2, <2>3 DEF Addr
<1>8. ASSUME j = n PROVE Addr(e, j + 1) = Null /\ Begin(e, j) = End(m)
  BY <1>1, <1>2, <1>3, <1>8 DEF Addr
<1>9. CASE ~e.wide
  <2>1. e.wide = FALSE /\ ~IsBank32(m)
    BY <1>2, <1>9 DEF Holds
  <2>2. Iterate(m, pbk) = IterateBank(m, pbk)
    BY <2>1, Zenon DEF Iterate
  <2>3. (IF pbk = Null THEN BankHeaderSize ELSE NextBank(m, pbk, FALSE)) = Begin(e, j)
    BY <1>6, <2>1, Zenon
  <2>4. IterateBank(m, pbk) = IF Begin(e, j) >= End(m) THEN Null ELSE Begin(e, j)
    BY <2>3, Zenon DEF IterateBank
  <2>5. CASE j < n
    <3>1. GapLen(e.banks[j + 1]) = 0
      <4>1. Fine(e.banks[j + 1], e.wide, e.foreign)
        BY <1>7, <2>5, PossibleTypes
      <4>2. QED
        BY <1>9, <4>1 DEF Fine, GapLen
    <3>2. HeadAt(e, j + 1) = Begin(e, j)
      BY <1>3, <1>7, <2>5, <3>1
    <3>3. QED
      BY <1>7, <2>2, <2>4, <2>5, <3>2
  <2>6. CASE j = n
    <3>1. Begin(e, j) >= End(m)
      BY <1>3, <1>8, <2>6
    <3>2. QED
      BY <1>8, <2>2, <2>4, <2>6, <3>1
  <2>7. QED
    BY <1>2, <2>5, <2>6
<1>10. CASE e.wide
  <2>1. e.wide = TRUE /\ IsBank32(m)
    BY <1>2, <1>10 DEF Holds
  <2>2. Iterate(m, pbk) = IterateBank32(m, pbk)
    BY <2>1, Zenon DEF Iterate
  <2>3. (IF pbk = Null THEN BankHeaderSize ELSE NextBank(m, pbk, TRUE)) = Begin(e, j)
    BY <1>6, <2>1, Zenon
  <2>4. PICK r : r = Realigned(m, Begin(e, j))
    OBVIOUS
  <2>5. IterateBank32(m, pbk) = IF r >= End(m) THEN Null ELSE r
    BY <2>3, <2>4, Zenon DEF IterateBank32
  <2>6. CASE j < n
    <3>1. r = HeadAt(e, j + 1)
      BY <1>7, <1>10, <2>4, <2>6, RealignedIs
    <3>2. QED
      BY <1>7, <2>2, <2>5, <2>6, <3>1
  <2>7. CASE j = n
    <3>1. r \in {Begin(e, j), Begin(e, j) + 4, Null}
      BY <2>4, Zenon DEF Realigned
    <3>2. r >= End(m) \/ r = Null
      BY <1>3, <1>8, <2>7, <3>1
    <3>3. QED
      BY <1>8, <2>2, <2>5, <2>7, <3>2
  <2>8. QED
    BY <1>2, <2>6, <2>7
<1>11. QED
  BY <1>9, <1>10

\* The walk has enough steps for all the banks and the Null behind them.
LEMMA Enough ==
  ASSUME NEW e, Possible(e), NEW m, Holds(m, e)
  PROVE  MostBanks(m) \in Nat /\ Len(e.banks) + 1 <= MostBanks(m)
<1>1. PICK n : n = Len(e.banks)
  OBVIOUS
<1>2. n \in Nat /\ 0 \in 0 .. n /\ n \in 0 .. n
  BY <1>1, PossibleTypes
<1>3. Begin(e, 0) + 8 * (n - 0) <= Begin(e, n) /\ Begin(e, 0) = 8 /\ Begin(e, n) \in Nat
  BY <1>1, <1>2, BeginGrows, Begins
<1>4. MostBanks(m) = Begin(e, n) \div 8
  BY <1>1 DEF MostBanks, BankHeaderSize, Holds
<1>5. QED
  BY <1>1, <1>2, <1>3, <1>4

\* The walk finds one bank after the other.
LEMMA WalkIs ==
  ASSUME NEW e, Possible(e), NEW m, Holds(m, e), NEW first, first = Addr(e, 1)
  PROVE  /\ DOMAIN BanksFrom(m, first) = 1 .. MostBanks(m)
         /\ \A i \in 1 .. MostBanks(m) : BanksFrom(m, first)[i] = Addr(e, i)
<1>1. PICK f, n : f = BanksFrom(m, first) /\ n = MostBanks(m)
  OBVIOUS
<1>2. n \in Nat /\ Walks(f, m, first, n)
  BY <1>1, Enough, WalksIs
<1>3. DOMAIN f = 1 .. n
  BY <1>2 DEF Walks
<1>4. PICK S : S = {k \in Nat : k + 1 <= n => f[k + 1] = Addr(e, k + 1)}
  OBVIOUS
<1>5. 0 \in S
  <2>1. ASSUME 1 <= n PROVE f[1] = first
    <3>1. 1 \in 1 .. n
      BY <1>2, <2>1
    <3>2. QED
      BY <1>2, <3>1, WalksAt
  <2>2. QED
    BY <1>4, <2>1
<1>6. ASSUME NEW k \in Nat, k \in S PROVE k + 1 \in S
  <2>1. PICK i : i = k + 1
    OBVIOUS
  <2>2. SUFFICES ASSUME i + 1 <= n PROVE f[i + 1] = Addr(e, i + 1)
    BY <1>4, <2>1
  <2>3. i \in Nat /\ i >= 1 /\ i + 1 \in 1 .. n /\ i + 1 # 1 /\ (i + 1) - 1 = i
    BY <1>2, <1>6, <2>1, <2>2
  <2>4. f[i] = Addr(e, i)
    <3>1. k + 1 <= n
      BY <1>2, <1>6, <2>1, <2>3
    <3>2. f[k + 1] = Addr(e, k + 1)
      BY <1>4, <1>6, <3>1
    <3>3. QED
      BY <2>1, <3>2
  <2>5. f[i + 1] = After(m, f[i])
    <3>1. f[i + 1] = IF i + 1 = 1 THEN first ELSE After(m, f[(i + 1) - 1])
      BY <1>2, <2>3, WalksAt
    <3>2. QED
      BY <2>3, <3>1
  <2>6. CASE i <= Len(e.banks)
    <3>1. i \in 1 .. Len(e.banks) /\ i \in 0 .. Len(e.banks) /\ i # 0
      BY <2>3, <2>6, PossibleTypes
    <3>2. Addr(e, i) = HeadAt(e, i) /\ HeadAt(e, i) # Null
      BY <2>6, <3>1, Heads DEF Addr, Null
    <3>3. Iterate(m, HeadAt(e, i)) = Addr(e, i + 1)
      BY <3>1, IterateFrom
    <3>4. QED
      BY <2>4, <2>5, <3>2, <3>3 DEF After
  <2>7. CASE ~(i <= Len(e.banks))
    <3>1. Addr(e, i) = Null /\ Addr(e, i + 1) = Null
      BY <2>3, <2>7, PossibleTypes DEF Addr
    <3>2. QED
      BY <2>4, <2>5, <3>1 DEF After
  <2>8. QED
    BY <2>6, <2>7
<1>7. \A k \in Nat : k \in S
  BY <1>5, <1>6, Induction
<1>8. ASSUME NEW i \in 1 .. n PROVE f[i] = Addr(e, i)
  <2>1. PICK k : k = i - 1
    OBVIOUS
  <2>2. k \in Nat /\ k + 1 = i /\ k + 1 <= n
    BY <1>2, <1>8, <2>1
  <2>3. k \in S
    BY <1>7, <2>2
  <2>4. QED
    BY <1>4, <2>2, <2>3
<1>9. QED
  BY <1>1, <1>3, <1>8

\* A bank has an address exactly if there is such a bank.
LEMMA AddrNull ==
  ASSUME NEW e, Possible(e), NEW i \in Nat, i >= 1
  PROVE  Addr(e, i) # Null <=> i <= Len(e.banks)
<1>1. CASE i <= Len(e.banks)
  <2>1. i \in 1 .. Len(e.banks)
    BY <1>1, PossibleTypes
  <2>2. HeadAt(e, i) # Null
    BY <2>1, Heads DEF Null
  <2>3. QED
    BY <1>1, <2>2 DEF Addr
<1>2. CASE ~(i <= Len(e.banks))
  BY <1>2 DEF Addr
<1>3. QED
  BY <1>1, <1>2

\* The names on the walk are those of the banks.
LEMMA NameAt ==
  ASSUME NEW e, Possible(e), NEW m, Holds(m, e), NEW i \in 1 .. Len(e.banks)
  PROVE  Addr(e, i) = HeadAt(e, i) /\ Name(m, Addr(e, i)) = e.banks[i].name
<1>1. Addr(e, i) = HeadAt(e, i)
  BY PossibleTypes DEF Addr
<1>2. QED
  BY <1>1 DEF Holds, BankAt

\* SetBankList lists the banks that were written.
LEMMA BankListIs ==
  ASSUME NEW e, Possible(e), NEW m, Holds(m, e)
  PROVE  BankList(m) = BankNames(e)
<1>1. PICK at, M, n : at = BanksFrom(m, Iterate(m, Null)) /\ M = MostBanks(m) /\ n = Len(e.banks)
  OBVIOUS
<1>2. n \in Nat /\ M \in Nat /\ n + 1 <= M /\ 0 \in 0 .. Len(e.banks) /\ DOMAIN e.banks = 1 .. n
  BY <1>1, PossibleTypes, Enough
<1>3. Iterate(m, Null) = Addr(e, 1)
  <2>1. Iterate(m, Null) = Addr(e, 0 + 1)
    BY <1>2, IterateFrom
  <2>2. QED
    BY <2>1
<1>4. DOMAIN at = 1 .. M /\ \A i \in 1 .. M : at[i] = Addr(e, i)
  BY <1>1, <1>3, WalkIs
<1>5. \A i \in 1 .. M : at[i] # Null <=> i <= n
  BY <1>1, <1>2, <1>4, AddrNull
<1>6. PICK len : len = CHOOSE k \in 0 .. M : \A i \in DOMAIN at : at[i] # Null <=> i <= k
  OBVIOUS
<1>7. n \in 0 .. M /\ \A i \in DOMAIN at : at[i] # Null <=> i <= n
  BY <1>2, <1>4, <1>5
<1>8. len \in 0 .. M /\ \A i \in DOMAIN at : at[i] # Null <=> i <= len
  BY <1>6, <1>7
<1>9. len = n
  <2>1. CASE len < n
    <3>1. n \in 1 .. M /\ ~(n <= len)
      BY <1>2, <1>8, <2>1
    <3>2. QED
      BY <1>2, <1>4, <1>7, <1>8, <3>1
  <2>2. CASE n < len
    <3>1. len \in 1 .. M /\ ~(len <= n)
      BY <1>2, <1>8, <2>2
    <3>2. QED
      BY <1>2, <1>4, <1>7, <1>8, <3>1
  <2>3. QED
    BY <1>2, <1>8, <2>1, <2>2
<1>10. BankList(m) = [i \in 1 .. len |-> Name(m, at[i])]
  BY <1>1, <1>6, Zenon DEF BankList
<1>11. \A i \in 1 .. n : Name(m, at[i]) = e.banks[i].name
  <2>1. \A i \in 1 .. n : i \in 1 .. M /\ i \in 1 .. Len(e.banks)
    BY <1>1, <1>2
  <2>2. QED
    BY <1>4, <2>1, NameAt
<1>12. [i \in 1 .. n |-> Name(m, at[i])] = [i \in 1 .. n |-> e.banks[i].name]
  BY <1>11, Zenon
<1>13. QED
  BY <1>2, <1>9, <1>10, <1>12 DEF BankNames

\* FindBank finds the first bank of the name, or none if there is none, but
\* for an event without banks in the 16-bit format.
LEMMA FindBankIs ==
  ASSUME NEW e, Possible(e), NEW m, Holds(m, e), e.wide \/ Len(e.banks) >= 1, NEW name
  PROVE  /\ (\A i \in 1 .. Len(e.banks) : e.banks[i].name # name) => FindBank(m, name) = NotFound
         /\ \A i \in 1 .. Len(e.banks) :
              (e.banks[i].name = name /\ \A j \in 1 .. i - 1 : e.banks[j].name # name) =>
                FindBank(m, name) = Found(m, HeadAt(e, i), e.wide)
<1>1. PICK first, at, M, n :
        /\ first = IF IsBank32(m) THEN IterateBank32(m, Null) ELSE BankHeaderSize
        /\ at = BanksFrom(m, first) /\ M = MostBanks(m) /\ n = Len(e.banks)
  OBVIOUS
<1>2. n \in Nat /\ M \in Nat /\ n + 1 <= M /\ 0 \in 0 .. Len(e.banks) /\ e.wide \in BOOLEAN
  BY <1>1, PossibleTypes, Enough
<1>3. first = Addr(e, 1)
  <2>1. CASE e.wide
    <3>1. Iterate(m, Null) = Addr(e, 0 + 1)
      BY <1>2, IterateFrom
    <3>2. Iterate(m, Null) = first
      BY <1>1, <2>1 DEF Iterate, Holds
    <3>3. QED
      BY <3>1, <3>2
  <2>2. CASE ~e.wide
    <3>1. 1 \in 1 .. Len(e.banks) /\ 1 <= Len(e.banks)
      BY <1>1, <1>2, <2>2
    <3>2. GapLen(e.banks[1]) = 0
      <4>1. Fine(e.banks[1], e.wide, e.foreign)
        BY <3>1, PossibleTypes
      <4>2. QED
        BY <2>2, <4>1 DEF Fine, GapLen
    <3>3. HeadAt(e, 1) = 8
      BY <3>2, Begins DEF HeadAt
    <3>4. Addr(e, 1) = 8
      BY <3>1, <3>3 DEF Addr
    <3>5. first = 8
      BY <1>1, <2>2 DEF Holds, BankHeaderSize
    <3>6. QED
      BY <3>4, <3>5
  <2>3. QED
    BY <2>1, <2>2
<1>4. DOMAIN at = 1 .. M /\ \A i \in 1 .. M : at[i] = Addr(e, i)
  BY <1>1, <1>3, WalkIs
<1>5. PICK hits : hits = {i \in DOMAIN at : at[i] # Null /\ Name(m, at[i]) = name}
  OBVIOUS
<1>6. hits = {i \in 1 .. n : e.banks[i].name = name}
  <2>1. ASSUME NEW i \in 1 .. M
        PROVE  (at[i] # Null /\ Name(m, at[i]) = name) <=> (i \in 1 .. n /\ e.banks[i].name = name)
    <3>1. at[i] # Null <=> i <= n
      BY <1>1, <1>2, <1>4, <2>1, AddrNull
    <3>2. CASE i <= n
      <4>1. i \in 1 .. n
        BY <1>2, <2>1, <3>2
      <4>2. Name(m, at[i]) = e.banks[i].name
        BY <1>1, <1>4, <2>1, <4>1, NameAt
      <4>3. QED
        BY <3>1, <3>2, <4>1, <4>2
    <3>3. CASE ~(i <= n)
      BY <1>2, <2>1, <3>1, <3>3
    <3>4. QED
      BY <3>2, <3>3
  <2>2. \A i \in 1 .. n : i \in 1 .. M
    BY <1>2
  <2>3. QED
    BY <1>4, <1>5, <2>1, <2>2
<1>7. FindBank(m, name) =
        IF hits = {} THEN NotFound
        ELSE Found(m, at[CHOOSE i \in hits : \A j \in hits : i <= j], IsBank32(m))
  BY <1>1, <1>5 DEF FindBank
<1>8. ASSUME \A i \in 1 .. n : e.banks[i].name # name PROVE FindBank(m, name) = NotFound
  <2>1. hits = {}
    BY <1>6, <1>8
  <2>2. QED
    BY <1>7, <2>1
<1>9. ASSUME NEW i \in 1 .. n, e.banks[i].name = name,
             \A j \in 1 .. i - 1 : e.banks[j].name # name
      PROVE  FindBank(m, name) = Found(m, HeadAt(e, i), e.wide)
  <2>1. i \in hits /\ hits # {}
    BY <1>6, <1>9
  <2>2. \A j \in hits : i <= j
    <3>1. SUFFICES ASSUME NEW j \in hits, ~(i <= j) PROVE FALSE
      OBVIOUS
    <3>2. j \in 1 .. n /\ e.banks[j].name = name
      BY <1>6, <3>1
    <3>3. j \in 1 .. i - 1
      BY <1>2, <1>9, <3>1, <3>2
    <3>4. QED
      BY <1>9, <3>2, <3>3
  <2>3. PICK c : c = CHOOSE k \in hits : \A j \in hits : k <= j
    OBVIOUS
  <2>4. c \in hits /\ \A j \in hits : c <= j
    BY <2>1, <2>2, <2>3
  <2>5. c = i
    <3>1. c \in 1 .. n /\ c <= i /\ i <= c
      BY <1>6, <2>1, <2>2, <2>4
    <3>2. QED
      BY <1>2, <1>9, <3>1
  <2>6. i \in 1 .. M /\ i \in 1 .. Len(e.banks)
    BY <1>1, <1>2, <1>9
  <2>7. at[i] = HeadAt(e, i)
    BY <1>4, <2>6, NameAt
  <2>8. FindBank(m, name) = Found(m, HeadAt(e, i), IsBank32(m))
    BY <1>7, <2>1, <2>3, <2>5, <2>7
  <2>9. IsBank32(m) = e.wide
    <3>1. IsBank32(m) \in BOOLEAN
      BY DEF IsBank32
    <3>2. QED
      BY <1>2, <3>1 DEF Holds
  <2>10. QED
    BY <2>8, <2>9
<1>10. QED
  BY <1>1, <1>8, <1>9

\* A set of numbers has a least one.
LEMMA Least ==
  ASSUME NEW T, T \subseteq Nat, T # {}
  PROVE  \E x \in T : \A y \in T : x <= y
<1>1. SUFFICES ASSUME \A x \in T : \E y \in T : ~(x <= y) PROVE FALSE
  OBVIOUS
<1>2. PICK S : S = {k \in Nat : \A j \in 0 .. k : j \notin T}
  OBVIOUS
<1>3. 0 \in S
  <2>1. 0 \notin T
    BY <1>1
  <2>2. QED
    BY <1>2, <2>1
<1>4. ASSUME NEW k \in Nat, k \in S PROVE k + 1 \in S
  <2>1. \A j \in 0 .. k : j \notin T
    BY <1>2, <1>4
  <2>2. k + 1 \notin T
    <3>1. SUFFICES ASSUME k + 1 \in T PROVE FALSE
      OBVIOUS
    <3>2. PICK y \in T : ~(k + 1 <= y)
      BY <1>1, <3>1
    <3>3. y \in 0 .. k
      BY <3>2
    <3>4. QED
      BY <2>1, <3>2, <3>3
  <2>3. \A j \in 0 .. k + 1 : j \notin T
    BY <2>1, <2>2
  <2>4. QED
    BY <1>2, <2>3
<1>5. \A k \in Nat : k \in S
  BY <1>3, <1>4, Induction
<1>6. PICK x : x \in T
  OBVIOUS
<1>7. x \in Nat /\ x \in 0 .. x
  BY <1>6
<1>8. QED
  BY <1>2, <1>5, <1>6, <1>7

\* The first bank of a name is one of the event's, and no earlier one has it.
LEMMA FirstIs ==
  ASSUME NEW e, Possible(e), NEW name, Contains(BankNames(e), name)
  PROVE  \E i \in 1 .. Len(e.banks) :
           /\ First(e, name) = e.banks[i] /\ e.banks[i].name = name
           /\ \A j \in 1 .. i - 1 : e.banks[j].name # name
<1>1. PICK n : n = Len(e.banks)
  OBVIOUS
<1>2. n \in Nat /\ DOMAIN e.banks = 1 .. n
  BY <1>1, PossibleTypes
<1>3. PICK s : s = [i \in 1 .. n |-> e.banks[i].name]
  OBVIOUS
<1>4. BankNames(e) = s
  BY <1>2, <1>3 DEF BankNames
<1>5. Len(s) = n
  BY <1>2, <1>3
<1>6. PICK T : T = {i \in 1 .. n : e.banks[i].name = name}
  OBVIOUS
<1>7. T # {} /\ T \subseteq Nat
  <2>1. PICK i \in 1 .. n : s[i] = name
    BY <1>4, <1>5 DEF Contains
  <2>2. i \in T
    BY <1>3, <1>6, <2>1
  <2>3. QED
    BY <1>6, <2>2
<1>8. PICK x : x = CHOOSE y \in T : \A z \in T : y <= z
  OBVIOUS
<1>9. x \in T /\ \A z \in T : x <= z
  BY <1>7, <1>8, Least
<1>10. First(e, name) = e.banks[x]
  <2>1. SelectInSeq(e.banks, LAMBDA b : b.name = name) = x
    BY <1>1, <1>6, <1>7, <1>8 DEF SelectInSeq, Min
  <2>2. QED
    BY <2>1 DEF First
<1>11. x \in 1 .. n /\ e.banks[x].name = name
  BY <1>6, <1>9
<1>12. ASSUME NEW j \in 1 .. x - 1 PROVE e.banks[j].name # name
  <2>1. j \in 1 .. n /\ ~(x <= j)
    BY <1>2, <1>11, <1>12
  <2>2. j \notin T
    BY <1>9, <2>1
  <2>3. QED
    BY <1>6, <2>1, <2>2
<1>13. QED
  BY <1>1, <1>10, <1>11, <1>12

\* What FindBank returns of a bank: its type, its elements, its bytes.
Tells(m, d, b) ==
  /\ d.bktype = b.type
  /\ d.bklen = b.size \div Elem(b.type)
  /\ [k \in 1 .. b.size |-> m[d.pdata + k - 1]] = Payload(b)

\* FindBank describes the bank it stands at.
LEMMA FoundIs ==
  ASSUME NEW e, Possible(e), NEW m, Holds(m, e), NEW i \in 1 .. Len(e.banks)
  PROVE  Tells(m, Found(m, HeadAt(e, i), e.wide), e.banks[i])
<1>0. PICK d, b : d = Found(m, HeadAt(e, i), e.wide) /\ b = e.banks[i]
  OBVIOUS
<1>1. Fine(b, e.wide, e.foreign)
  BY <1>0, PossibleTypes
<1>2. b.type \in Nat /\ b.type <= 16 /\ b.size \in Nat
  BY <1>1, FineTypes
<1>3. BankAt(m, HeadAt(e, i), b, e.wide)
  BY <1>0 DEF Holds
<1>4. PICK p : p = HeadAt(e, i)
  OBVIOUS
<1>5. Type(m, p, e.wide) = b.type /\ Size(m, p, e.wide) = b.size
  BY <1>3, <1>4 DEF BankAt
<1>6. d = [bktype |-> Type(m, p, e.wide),
           bklen  |-> IF TID_SIZE[(Type(m, p, e.wide) % 256) + 1] = 0 THEN Size(m, p, e.wide)
                      ELSE Size(m, p, e.wide) \div TID_SIZE[(Type(m, p, e.wide) % 256) + 1],
           pdata  |-> DataOf(p, e.wide)]
  BY <1>0, <1>4, Zenon DEF Found
<1>7. b.type % 256 = b.type /\ b.type \in 0 .. 16
  <2>1. \A t \in Nat : t <= 16 => t % 256 = t /\ t \in 0 .. 16
    BY SMT
  <2>2. QED
    BY <1>2, <2>1, Zenon
<1>8. d.bktype = b.type /\ d.pdata = DataOf(p, e.wide)
  BY <1>5, <1>6
<1>9. d.bklen = IF TID_SIZE[b.type + 1] = 0 THEN b.size ELSE b.size \div TID_SIZE[b.type + 1]
  BY <1>5, <1>6, <1>7
<1>10. d.bklen = b.size \div Elem(b.type)
  <2>1. Elem(b.type) = IF TID_SIZE[b.type + 1] = 0 THEN 1 ELSE TID_SIZE[b.type + 1]
    BY DEF Elem
  <2>2. b.size \div 1 = b.size
    BY <1>2
  <2>3. QED
    BY <1>9, <2>1, <2>2
<1>11. \A k \in 1 .. b.size : m[d.pdata + k - 1] = k
  BY <1>3, <1>4, <1>8 DEF BankAt
<1>12. [k \in 1 .. b.size |-> m[d.pdata + k - 1]] = [k \in 1 .. b.size |-> k]
  BY <1>11
<1>13. QED
  BY <1>0, <1>8, <1>10, <1>12 DEF Payload, Tells

\* Whatever FindBank returns, it shows what was written, if anything was.
LEMMA FindBankShows ==
  ASSUME NEW e, Possible(e), NEW m, Holds(m, e), NEW d, d.bank = FindBank(m, d.name)
  PROVE  Shows(d, m, e)
<1>1. SUFFICES ASSUME Contains(BankNames(e), d.name) PROVE Tells(m, d.bank, First(e, d.name))
  BY Zenon DEF Shows, Tells
<1>2. PICK i \in 1 .. Len(e.banks) :
        /\ First(e, d.name) = e.banks[i] /\ e.banks[i].name = d.name
        /\ \A j \in 1 .. i - 1 : e.banks[j].name # d.name
  BY <1>1, FirstIs
<1>3. Len(e.banks) >= 1
  BY <1>2, PossibleTypes
<1>4. d.bank = Found(m, HeadAt(e, i), e.wide)
  BY <1>2, <1>3, FindBankIs
<1>5. QED
  BY <1>2, <1>4, FoundIs

\* A bank that is found is one of the event's.
LEMMA FindBankOwn ==
  ASSUME NEW e, Possible(e), NEW m, Holds(m, e), e.wide \/ e.banks # <<>>,
         NEW name, FindBank(m, name) # NotFound
  PROVE  Contains(BankNames(e), name)
<1>1. e.wide \/ Len(e.banks) >= 1
  <2>1. e.banks \in Seq(Bank) /\ Len(e.banks) \in Nat
    BY PossibleTypes
  <2>2. e.banks # <<>> => Len(e.banks) # 0
    BY <2>1
  <2>3. QED
    BY <2>1, <2>2
<1>2. PICK i \in 1 .. Len(e.banks) : e.banks[i].name = name
  BY <1>1, FindBankIs
<1>3. PICK n : n = Len(e.banks)
  OBVIOUS
<1>4. n \in Nat /\ DOMAIN e.banks = 1 .. n
  BY <1>3, PossibleTypes
<1>5. PICK s : s = [j \in 1 .. n |-> e.banks[j].name]
  OBVIOUS
<1>6. BankNames(e) = s /\ Len(s) = n /\ s[i] = name
  BY <1>2, <1>3, <1>4, <1>5 DEF BankNames
<1>7. QED
  BY <1>2, <1>3, <1>6 DEF Contains

-----------------------------------------------------------------------------
(***************************************************************************)
(* SwapBytes                                                               *)
(***************************************************************************)
LEMMA MemSizeType == MemSize \in Nat /\ MemSize <= IntMax
<1>1. MemSize \in 1 .. IntMax
  BY EventAssumption, Zenon
<1>2. IntMax \in Nat
  BY SMT DEF IntMax
<1>3. QED
  BY <1>1, <1>2

\* Swapping changes no address.
LEMMA SwapDomain ==
  ASSUME NEW m, NEW lo, NEW hi, NEW w
  PROVE  DOMAIN Swap(m, lo, hi, w) = DOMAIN m
BY DEF Swap

\* What Swap does with one byte
LEMMA SwapAt ==
  ASSUME NEW m, NEW lo, NEW hi, NEW w, NEW x \in DOMAIN m
  PROVE  /\ x \notin lo .. hi - 1 => Swap(m, lo, hi, w)[x] = m[x]
         /\ x \in lo .. hi - 1 =>
              Swap(m, lo, hi, w)[x] = m[x - ((x - lo) % w) + (w - 1 - ((x - lo) % w))]
BY Zenon DEF Swap

\* Bytes that are not changed still stand there.
LEMMA StandsKeep ==
  ASSUME NEW m, NEW m2, NEW a \in Nat, NEW s \in Seq(Nat), Stands(m, a, s),
         \A x \in a .. a + Len(s) - 1 : m2[x] = m[x]
  PROVE  Stands(m2, a, s)
<1>1. SUFFICES ASSUME NEW i \in 1 .. Len(s) PROVE m2[a + i - 1] = s[i]
  BY DEF Stands
<1>2. Len(s) \in Nat
  OBVIOUS
<1>3. a + i - 1 \in a .. a + Len(s) - 1
  BY <1>1, <1>2
<1>4. m[a + i - 1] = s[i]
  BY <1>1 DEF Stands
<1>5. QED
  BY <1>3, <1>4

\* A number of the other byte order becomes native when it is swapped, be it
\* the first or the second in the range.
LEMMA SwapField ==
  ASSUME NEW m, DOMAIN m = Places, NEW lo \in Nat, NEW hi \in Nat, NEW w \in {2, 4},
         NEW a \in {lo, lo + w}, a + w <= hi, a + w <= MemSize,
         NEW n \in Nat, NEW foreign, foreign = TRUE, Stands(m, a, Field(n, w, foreign))
  PROVE  Stands(Swap(m, lo, hi, w), a, Bytes(n, w))
<1>1. PICK r : r = Swap(m, lo, hi, w)
  OBVIOUS
<1>2. PICK s, t : s = Field(n, w, foreign) /\ t = Bytes(n, w)
  OBVIOUS
<1>3. Len(s) = w /\ \A i \in 1 .. w : s[i] = t[w - i + 1]
  BY <1>2, FieldIs
<1>4. Len(t) = w
  BY <1>2, BytesSeq
<1>5. ASSUME NEW i \in 1 .. w PROVE r[a + i - 1] = t[i]
  <2>1. PICK x : x = a + i - 1
    OBVIOUS
  <2>2. x \in lo .. hi - 1 /\ x \in Places
    <3>1. MemSize \in Nat
      BY MemSizeType
    <3>2. QED
      BY <1>5, <2>1, <3>1 DEF Places
  <2>3. (x - lo) % w = i - 1
    <3>1. CASE a = lo
      BY <1>5, <2>1, <3>1
    <3>2. CASE a = lo + w
      <4>1. x - lo = w + (i - 1)
        BY <1>5, <2>1, <3>2
      <4>2. (w + (i - 1)) % w = i - 1
        BY <1>5
      <4>3. QED
        BY <4>1, <4>2
    <3>3. QED
      BY <3>1, <3>2
  <2>4. PICK j : j = w - i + 1
    OBVIOUS
  <2>5. j \in 1 .. w /\ w - j + 1 = i /\ x - (i - 1) + (w - 1 - (i - 1)) = a + j - 1
    BY <1>5, <2>1, <2>4
  <2>6. r[x] = m[x - ((x - lo) % w) + (w - 1 - ((x - lo) % w))]
    <3>1. x \in DOMAIN m
      BY <2>2
    <3>2. x \in lo .. hi - 1
      BY <2>2
    <3>3. Swap(m, lo, hi, w)[x] = m[x - ((x - lo) % w) + (w - 1 - ((x - lo) % w))]
      BY <3>1, <3>2, SwapAt
    <3>4. QED
      BY <1>1, <3>3, Zenon
  <2>7. r[x] = m[a + j - 1]
    BY <2>3, <2>5, <2>6
  <2>8. m[a + j - 1] = s[j]
    BY <1>2, <1>3, <2>5 DEF Stands
  <2>9. s[j] = t[i]
    BY <1>3, <2>5
  <2>10. QED
    BY <2>1, <2>7, <2>8, <2>9
<1>6. QED
  BY <1>1, <1>2, <1>4, <1>5 DEF Stands

\* The data of a bank, in the other byte order, stand at q and end before hi.
Carries(m, q, hi, b, wide, foreign) ==
  /\ DOMAIN m = Places /\ q \in Nat /\ hi \in Nat
  /\ foreign = TRUE /\ Fine(b, wide, foreign)
  /\ q + b.size <= hi /\ q + b.size <= MemSize
  /\ Stands(m, q, Written(b, foreign))

\* The data of a bank become native when they are swapped with their padding.
LEMMA SwapPayload ==
  ASSUME NEW m, NEW q, NEW hi, NEW b, NEW wide, NEW foreign, Carries(m, q, hi, b, wide, foreign)
  PROVE  \A k \in 1 .. b.size : Swap(m, q, hi, SwapWidth(b.type))[q + k - 1] = k
<1>0. /\ DOMAIN m = Places /\ q \in Nat /\ hi \in Nat /\ foreign = TRUE
      /\ Fine(b, wide, foreign) /\ q + b.size <= hi /\ q + b.size <= MemSize
      /\ Stands(m, q, Written(b, foreign))
  BY DEF Carries
<1>1. ASSUME NEW k \in 1 .. b.size PROVE Swap(m, q, hi, SwapWidth(b.type))[q + k - 1] = k
  <2> USE <1>0
  <2>1. PICK n, w, t : n = b.size /\ w = Elem(b.type) /\ t = Written(b, foreign)
    OBVIOUS
  <2>2. n \in Nat /\ b.type \in 0 .. 16
    <3>1. b.size \in Nat /\ b.type \in Nat /\ b.type <= 16
      BY FineTypes
    <3>2. QED
      BY <2>1, <3>1
  <2>3. w \in {1, 2, 4, 8} /\ w = SwapWidth(b.type)
    BY <2>1, <2>2, TidSizes
  <2>4. n % w = 0
    BY <2>1 DEF Fine
  <2>5. Len(t) = n /\ \A i \in 1 .. n : t[i] = Mirror(i, w)
    BY <2>1, WrittenIs
  <2>6. PICK x : x = q + k - 1
    OBVIOUS
  <2>7. x \in q .. hi - 1 /\ x \in Places /\ x - q = k - 1 /\ k \in 1 .. n
    <3>1. MemSize \in Nat
      BY MemSizeType
    <3>2. QED
      BY <2>1, <2>2, <2>6, <3>1 DEF Places
  <2>8. PICK y : y = Mirror(k, w)
    OBVIOUS
  <2>9. y \in 1 .. n /\ Mirror(y, w) = k
    BY <2>3, <2>2, <2>4, <2>7, <2>8, Mirrored
  <2>10. Swap(m, q, hi, w)[x] = m[x - ((x - q) % w) + (w - 1 - ((x - q) % w))]
    BY <2>7, SwapAt
  <2>11. x - ((x - q) % w) + (w - 1 - ((x - q) % w)) = q + y - 1
    <3>1. PICK z : z = (k - 1) % w
      OBVIOUS
    <3>2. z \in Nat
      BY <2>2, <2>3, <2>7, <3>1
    <3>3. y = k - z + (w - 1 - z)
      BY <2>8, <3>1 DEF Mirror
    <3>4. x - z + (w - 1 - z) = q + y - 1
      BY <2>2, <2>3, <2>6, <2>7, <3>2, <3>3
    <3>5. QED
      BY <2>7, <3>1, <3>4
  <2>12. m[q + y - 1] = t[y]
    BY <2>1, <2>5, <2>9 DEF Stands
  <2>13. t[y] = k
    BY <2>5, <2>9
  <2>14. QED
    BY <2>3, <2>6, <2>10, <2>11, <2>12, <2>13
<1>2. QED
  BY <1>1

\* m2 is m from lo up to hi.
Agree(m, m2, lo, hi) == \A x \in lo .. hi - 1 : m2[x] = m[x]

\* A bank that is not changed is still there.
LEMMA BankKeep ==
  ASSUME NEW m, NEW m2, NEW p \in Nat, NEW b, NEW wide \in BOOLEAN, b.size \in Nat,
         BankAt(m, p, b, wide), Agree(m, m2, p, p + HeaderLen(wide) + b.size)
  PROVE  BankAt(m2, p, b, wide)
<1>1. HeaderLen(wide) \in {8, 12} /\ (wide => HeaderLen(wide) = 12)
  BY DEF HeaderLen
<1>0. ASSUME NEW x \in p .. p + HeaderLen(wide) + b.size - 1 PROVE m2[x] = m[x]
  <2>1. PICK hi : hi = p + HeaderLen(wide) + b.size
    OBVIOUS
  <2>2. Agree(m, m2, p, hi)
    BY <2>1, Zenon
  <2>3. x \in p .. hi - 1
    BY <1>0, <1>1, <2>1, SMT
  <2>4. QED
    BY <2>2, <2>3 DEF Agree
<1>2. \A k \in 0 .. 7 : m2[p + k] = m[p + k]
  <2>1. \A k \in 0 .. 7 : p + k \in p .. p + HeaderLen(wide) + b.size - 1
    BY <1>1
  <2>2. QED
    BY <1>0, <2>1
<1>3. wide => \A k \in 8 .. 11 : m2[p + k] = m[p + k]
  <2>1. ASSUME wide, NEW k \in 8 .. 11 PROVE m2[p + k] = m[p + k]
    <3>1. HeaderLen(wide) = 12
      BY <1>1, <2>1
    <3>2. p + k \in p .. p + 12 + b.size - 1
      BY <2>1
    <3>3. QED
      BY <1>0, <3>1, <3>2
  <2>2. QED
    BY <2>1
<1>4. Name(m2, p) = Name(m, p)
  <2>1. \A i \in 1 .. 4 : m2[p + i - 1] = m[p + i - 1]
    <3>1. \A i \in 1 .. 4 : i - 1 \in 0 .. 7 /\ p + (i - 1) = p + i - 1
      OBVIOUS
    <3>2. QED
      BY <1>2, <3>1
  <2>2. QED
    BY <2>1 DEF Name
<1>5. Type(m2, p, wide) = Type(m, p, wide) /\ Size(m2, p, wide) = Size(m, p, wide)
  <2>1. /\ p + 4 + 1 = p + 5 /\ p + 4 + 2 = p + 6 /\ p + 6 + 1 = p + 7
        /\ p + 8 + 1 = p + 9 /\ p + 8 + 2 = p + 10 /\ p + 10 + 1 = p + 11
    OBVIOUS
  <2>2. /\ m2[p + 4] = m[p + 4] /\ m2[p + 5] = m[p + 5]
        /\ m2[p + 6] = m[p + 6] /\ m2[p + 7] = m[p + 7]
    BY <1>2
  <2>3. U16(m2, p + 4) = U16(m, p + 4) /\ U16(m2, p + 6) = U16(m, p + 6)
    BY <2>1, <2>2 DEF U16
  <2>4. CASE ~wide
    BY <2>3, <2>4 DEF Type, Size
  <2>5. CASE wide
    <3>1. /\ m2[p + 8] = m[p + 8] /\ m2[p + 9] = m[p + 9]
          /\ m2[p + 10] = m[p + 10] /\ m2[p + 11] = m[p + 11]
      BY <1>3, <2>5
    <3>2. U16(m2, p + 8) = U16(m, p + 8) /\ U16(m2, p + 10) = U16(m, p + 10)
      BY <2>1, <3>1 DEF U16
    <3>3. U32(m2, p + 4) = U32(m, p + 4) /\ U32(m2, p + 8) = U32(m, p + 8)
      BY <2>1, <2>3, <3>2, SMT DEF U32
    <3>4. QED
      BY <2>5, <3>3 DEF Type, Size
  <2>6. QED
    BY <2>4, <2>5
<1>6. DataOf(p, wide) = p + HeaderLen(wide)
  BY DEF DataOf, HeaderLen, Bank32Size, BankHeaderSize
<1>7. ASSUME NEW k \in 1 .. b.size PROVE m2[DataOf(p, wide) + k - 1] = k
  <2>1. p + HeaderLen(wide) + k - 1 \in p .. p + HeaderLen(wide) + b.size - 1
    BY <1>1, <1>7
  <2>2. m2[p + HeaderLen(wide) + k - 1] = m[p + HeaderLen(wide) + k - 1]
    BY <1>0, <2>1
  <2>3. m[DataOf(p, wide) + k - 1] = k
    BY <1>7 DEF BankAt
  <2>4. QED
    BY <1>6, <2>2, <2>3
<1>8. QED
  BY <1>4, <1>5, <1>7 DEF BankAt

\* m2 is m but for the addresses from lo up to hi.
Same(m, m2, lo, hi) == \A x \in Places : x \notin lo .. hi - 1 => m2[x] = m[x]

\* Swapping changes nothing outside.
LEMMA SwapSame ==
  ASSUME NEW m, DOMAIN m = Places, NEW lo, NEW hi, NEW w
  PROVE  Same(m, Swap(m, lo, hi, w), lo, hi)
<1>1. ASSUME NEW x \in Places, x \notin lo .. hi - 1 PROVE Swap(m, lo, hi, w)[x] = m[x]
  <2>1. x \in DOMAIN m
    BY <1>1
  <2>2. QED
    BY <1>1, <2>1, SwapAt
<1>2. QED
  BY <1>1 DEF Same

\* What does not overlap a change still stands.
LEMMA SameStands ==
  ASSUME NEW m, NEW m2, NEW lo \in Nat, NEW hi \in Nat, Same(m, m2, lo, hi),
         NEW a \in Nat, NEW s \in Seq(Nat), Stands(m, a, s), a + Len(s) <= MemSize,
         a + Len(s) <= lo \/ hi <= a
  PROVE  Stands(m2, a, s)
<1>1. PICK n : n = Len(s)
  OBVIOUS
<1>2. n \in Nat /\ a + n <= MemSize /\ (a + n <= lo \/ hi <= a)
  BY <1>1
<1>3. ASSUME NEW x \in a .. a + n - 1 PROVE m2[x] = m[x]
  <2>1. x \in Places /\ x \notin lo .. hi - 1
    BY <1>2, <1>3, MemSizeType DEF Places
  <2>2. QED
    BY <2>1 DEF Same
<1>4. QED
  BY <1>1, <1>3, StandsKeep

\* It may be in front of the change,
LEMMA StandsBelow ==
  ASSUME NEW m, NEW m2, NEW lo \in Nat, NEW hi \in Nat, Same(m, m2, lo, hi),
         NEW a \in Nat, NEW s \in Seq(Nat), Stands(m, a, s), a + Len(s) <= MemSize,
         a + Len(s) <= lo
  PROVE  Stands(m2, a, s)
BY SameStands

\* or behind it.
LEMMA StandsAbove ==
  ASSUME NEW m, NEW m2, NEW lo \in Nat, NEW hi \in Nat, Same(m, m2, lo, hi),
         NEW a \in Nat, NEW s \in Seq(Nat), Stands(m, a, s), a + Len(s) <= MemSize,
         hi <= a
  PROVE  Stands(m2, a, s)
BY SameStands

\* The parts of a bank at p: its header ends at q, its padding at end.
LEMMA Layout ==
  ASSUME NEW p \in Nat, NEW w \in {2, 4}, NEW n \in Nat, NEW al \in Nat, al >= n,
         NEW q, q = p + (4 + w + w), NEW end, end = q + al, end <= MemSize
  PROVE  /\ q \in Nat /\ end \in Nat /\ q + n <= end /\ q <= MemSize /\ q + n <= MemSize
         /\ p + 4 \in Nat /\ p + 4 <= q /\ p + 4 <= MemSize
         /\ p + 4 + w \in Nat /\ p + 4 + w <= q /\ p + 4 + w <= MemSize
         /\ (p + 4 + w) + w <= q /\ (p + 4 + w) + w <= MemSize
         /\ \A x \in Places : x \notin p .. end - 1 =>
                              x \notin q .. end - 1 /\ x \notin p + 4 .. q - 1
<1>1. q \in Nat /\ end \in Nat
  OBVIOUS
<1>2. ASSUME NEW x \in Places, x \notin p .. end - 1
      PROVE  x \notin q .. end - 1 /\ x \notin p + 4 .. q - 1
  BY <1>1, <1>2, MemSizeType DEF Places
<1>3. QED
  BY <1>1, <1>2, MemSizeType

\* The header of a bank has been swapped, and nothing else.
HeaderSwapped(m, h, p, wide, t, n) ==
  /\ DOMAIN h = Places
  /\ Stands(h, p + 4, Bytes(t, FieldWidth(wide)))
  /\ Stands(h, p + 4 + FieldWidth(wide), Bytes(n, FieldWidth(wide)))
  /\ Same(m, h, p + 4, p + HeaderLen(wide))

\* SwapBankHeader makes a bank's header native.
LEMMA SwapHeader ==
  ASSUME NEW m, DOMAIN m = Places, NEW wide \in BOOLEAN, NEW foreign, foreign = TRUE,
         NEW t \in Nat, NEW n \in Nat, NEW p \in Nat, p + HeaderLen(wide) <= MemSize,
         Stands(m, p + 4, Field(t, FieldWidth(wide), foreign)),
         Stands(m, p + 4 + FieldWidth(wide), Field(n, FieldWidth(wide), foreign))
  PROVE  HeaderSwapped(m, SwapBankHeader(m, p, wide), p, wide, t, n)
<1>0. PICK h : h = SwapBankHeader(m, p, wide)
  OBVIOUS
<1>1. PICK lo, hi, w : lo = p + 4 /\ hi = p + HeaderLen(wide) /\ w = FieldWidth(wide)
  OBVIOUS
<1>2. lo \in Nat /\ hi \in Nat /\ w \in {2, 4} /\ hi = lo + w + w /\ hi <= MemSize
  BY <1>1 DEF HeaderLen, FieldWidth
<1>3. h = Swap(m, lo, hi, w)
  BY <1>0, <1>1 DEF SwapBankHeader, HeaderLen, FieldWidth
<1>4. DOMAIN h = Places /\ Same(m, h, lo, hi)
  BY <1>3, SwapDomain, SwapSame
<1>5. Stands(m, lo, Field(t, w, foreign)) /\ Stands(m, lo + w, Field(n, w, foreign))
  BY <1>1
<1>6. lo \in {lo, lo + w} /\ lo + w \in {lo, lo + w}
  OBVIOUS
<1>7. lo + w <= hi /\ lo + w <= MemSize /\ (lo + w) + w <= hi /\ (lo + w) + w <= MemSize
  BY <1>2, MemSizeType
<1>8. Stands(h, lo, Bytes(t, w))
  BY <1>2, <1>3, <1>5, <1>6, <1>7, SwapField
<1>9. Stands(h, lo + w, Bytes(n, w))
  BY <1>2, <1>3, <1>5, <1>6, <1>7, SwapField
<1>10. QED
  BY <1>0, <1>1, <1>4, <1>8, <1>9 DEF HeaderSwapped

\* At s.at of the memory s.mem stands a bank of the other byte order.
ForeignAt(s, b, wide, foreign) ==
  /\ wide \in BOOLEAN /\ foreign = TRUE /\ Fine(b, wide, foreign) /\ b.size <= IntMax
  /\ DOMAIN s.mem = Places /\ s.at \in Nat /\ s.at + BankLen(b, wide) <= MemSize
  /\ Stands(s.mem, s.at, EncodeBank(b, wide, foreign))
  /\ ~(s.at >= End(s.mem))

\* In r it is native, r is behind it, and nothing else has changed.
TurnedTo(s, r, b, wide) ==
  /\ r.at = s.at + BankLen(b, wide)
  /\ DOMAIN r.mem = Places
  /\ BankAt(r.mem, s.at, b, wide)
  /\ Same(s.mem, r.mem, s.at, s.at + BankLen(b, wide))

\* SwapBank makes one bank native.
LEMMA SwapBankIs ==
  ASSUME NEW s, NEW b, NEW wide, NEW foreign, ForeignAt(s, b, wide, foreign),
         NEW r, r = SwapBank(s, wide)
  PROVE  TurnedTo(s, r, b, wide)
<1>0. PICK m, p : m = s.mem /\ p = s.at
  OBVIOUS
<1>a. /\ wide \in BOOLEAN /\ foreign = TRUE /\ Fine(b, wide, foreign) /\ b.size <= IntMax
       /\ DOMAIN m = Places /\ p \in Nat /\ p + BankLen(b, wide) <= MemSize
       /\ Stands(m, p, EncodeBank(b, wide, foreign)) /\ s.mem = m /\ s.at = p /\ ~(p >= End(m))
  BY <1>0 DEF ForeignAt
<1> USE <1>a
<1>1. PICK w, len, q, al, end :
        /\ w = FieldWidth(wide) /\ len = HeaderLen(wide) /\ q = p + len
        /\ al = Align(b.size) /\ end = q + al
  OBVIOUS
<1>2. w \in {2, 4} /\ len = 4 + w + w /\ q \in Nat /\ q = p + 4 + w + w
  BY <1>1 DEF FieldWidth, HeaderLen
<1>3. b.size \in Nat /\ b.type \in Nat /\ b.type <= 16 /\ b.name \in Seq(Nat) /\ Len(b.name) = 4
  BY FineTypes
<1>4. al \in Nat /\ al >= b.size
  BY <1>1, <1>3, Aligned
<1>5. GapLen(b) = 0 /\ BankLen(b, wide) = len + al /\ p + BankLen(b, wide) = end
  <2>1. ~b.gap
    BY DEF Fine
  <2>2. GapLen(b) = 0
    BY <2>1 DEF GapLen
  <2>3. BankLen(b, wide) = 0 + len + al
    BY <1>1, <2>2 DEF BankLen
  <2>4. QED
    BY <1>1, <1>2, <1>4, <2>2, <2>3
<1>6. /\ Stands(m, p, b.name)
      /\ Stands(m, p + 4, Field(b.type, w, foreign))
      /\ Stands(m, p + 4 + w, Field(b.size, w, foreign))
      /\ Stands(m, q, Written(b, foreign))
  <2>1. foreign \in BOOLEAN /\ p + GapLen(b) = p
    BY <1>5
  <2>2. QED
    BY <1>1, <2>1, BankPieces
<1>7. /\ q \in Nat /\ end \in Nat /\ q + b.size <= end /\ q <= MemSize /\ q + b.size <= MemSize
      /\ p + 4 \in Nat /\ p + 4 <= q /\ p + 4 <= MemSize
      /\ p + 4 + w \in Nat /\ p + 4 + w <= q /\ p + 4 + w <= MemSize
      /\ (p + 4 + w) + w <= q /\ (p + 4 + w) + w <= MemSize
      /\ \A x \in Places : x \notin p .. end - 1 =>
                           x \notin q .. end - 1 /\ x \notin p + 4 .. q - 1
  <2>1. PICK n \in Nat : n = b.size
    BY <1>3
  <2>2. q = p + (4 + w + w) /\ end = q + al /\ end <= MemSize /\ al >= n
    BY <1>1, <1>2, <1>4, <1>5, <2>1
  <2>3. QED
    BY <1>2, <1>4, <2>1, <2>2, Layout
<1>8. PICK h : h = SwapBankHeader(m, p, wide)
  OBVIOUS
<1>9. /\ DOMAIN h = Places
      /\ Stands(h, p + 4, Bytes(b.type, w))
      /\ Stands(h, p + 4 + w, Bytes(b.size, w))
      /\ Same(m, h, p + 4, q)
  <2>1. /\ p + HeaderLen(wide) <= MemSize
        /\ Stands(m, p + 4, Field(b.type, FieldWidth(wide), foreign))
        /\ Stands(m, p + 4 + FieldWidth(wide), Field(b.size, FieldWidth(wide), foreign))
    BY <1>1, <1>6, <1>7
  <2>2. HeaderSwapped(m, h, p, wide, b.type, b.size)
    BY <1>3, <1>8, <2>1, SwapHeader
  <2>3. QED
    BY <1>1, <2>2 DEF HeaderSwapped
<1>10. Stands(h, p, b.name)
  <2>1. PICK t \in Seq(Nat) : t = b.name /\ Len(t) = 4
    BY <1>3
  <2>2. p + Len(t) <= p + 4 /\ p + Len(t) <= MemSize
    BY <1>7, <2>1
  <2>3. QED
    BY <1>6, <1>7, <1>9, <2>1, <2>2, StandsBelow
<1>11. Stands(h, q, Written(b, foreign))
  <2>1. foreign \in BOOLEAN
    OBVIOUS
  <2>2. Written(b, foreign) \in Seq(Nat) /\ Len(Written(b, foreign)) = b.size
    BY <2>1, WrittenIs
  <2>3. PICK t \in Seq(Nat) : t = Written(b, foreign) /\ Len(t) = b.size
    BY <2>2
  <2>4. q + Len(t) <= MemSize /\ q <= q
    BY <1>7, <2>3
  <2>5. QED
    BY <1>6, <1>7, <1>9, <2>3, <2>4, StandsAbove
<1>12. Type(h, p, wide) = b.type /\ Size(h, p, wide) = b.size
  BY <1>1, <1>9, <1>10, HeaderStands
<1>13. DataOf(p, wide) = q /\ NextBank(h, p, wide) = end
  <2>1. DataOf(p, wide) = q
    BY <1>1 DEF DataOf, HeaderLen, Bank32Size, BankHeaderSize
  <2>2. QED
    BY <1>1, <1>12, <2>1 DEF NextBank
<1>14. b.type % 65536 = b.type
  <2>1. PICK t \in Nat : t = b.type /\ t <= 16
    BY <1>3
  <2>2. t % 65536 = t
    BY <2>1, SMT
  <2>3. QED
    BY <2>1, <2>2, SMT
<1>15. PICK g : g = Swap(h, q, end, SwapWidth(b.type))
  OBVIOUS
<1>16. r.mem = g /\ r.at = end
  <2>1. r = [mem |-> Swap(h, DataOf(p, wide), NextBank(h, p, wide),
                          SwapWidth(Type(h, p, wide) % 65536)),
             at |-> NextBank(h, p, wide)]
    BY <1>8, SMT DEF SwapBank
  <2>2. QED
    BY <1>12, <1>13, <1>14, <1>15, <2>1, SMT
<1>17. DOMAIN g = Places /\ Same(h, g, q, end)
  BY <1>9, <1>15, SwapDomain, SwapSame
<1>18. ASSUME NEW k \in 1 .. b.size PROVE g[q + k - 1] = k
  <2>0. Carries(h, q, end, b, wide, foreign)
    BY <1>7, <1>9, <1>11 DEF Carries
  <2>1. \A i \in 1 .. b.size : Swap(h, q, end, SwapWidth(b.type))[q + i - 1] = i
    BY <2>0, SwapPayload
  <2>2. QED
    BY <1>15, <1>18, <2>1
<1>19. Stands(g, p, b.name)
  <2>1. PICK t \in Seq(Nat) : t = b.name /\ Len(t) = 4
    BY <1>3
  <2>2. p + Len(t) <= q /\ p + Len(t) <= MemSize
    BY <1>7, <2>1
  <2>3. QED
    BY <1>7, <1>10, <1>17, <2>1, <2>2, StandsBelow
<1>20. Bytes(b.type, w) \in Seq(Nat) /\ Len(Bytes(b.type, w)) = w
  BY <1>2, <1>3, BytesSeq
<1>21. Bytes(b.size, w) \in Seq(Nat) /\ Len(Bytes(b.size, w)) = w
  BY <1>2, <1>3, BytesSeq
<1>22. Stands(g, p + 4, Bytes(b.type, w))
  <2>1. PICK a \in Nat, t \in Seq(Nat) : a = p + 4 /\ t = Bytes(b.type, w) /\ Len(t) = w
    BY <1>7, <1>20
  <2>2. a + Len(t) <= q /\ a + Len(t) <= MemSize /\ Stands(h, a, t)
    BY <1>7, <1>9, <2>1
  <2>3. Stands(g, a, t)
    BY <1>7, <1>17, <2>2, StandsBelow
  <2>4. QED
    BY <2>1, <2>3
<1>23. Stands(g, p + 4 + w, Bytes(b.size, w))
  <2>1. PICK a \in Nat, t \in Seq(Nat) : a = p + 4 + w /\ t = Bytes(b.size, w) /\ Len(t) = w
    BY <1>7, <1>21
  <2>2. a + Len(t) <= q /\ a + Len(t) <= MemSize /\ Stands(h, a, t)
    BY <1>7, <1>9, <2>1
  <2>3. Stands(g, a, t)
    BY <1>7, <1>17, <2>2, StandsBelow
  <2>4. QED
    BY <2>1, <2>3
<1>25. BankAt(g, p, b, wide)
  BY <1>1, <1>18, <1>19, <1>22, <1>23, BankStands
<1>26. ASSUME NEW x \in Places, x \notin p .. end - 1 PROVE g[x] = m[x]
  <2>1. x \notin q .. end - 1 /\ x \notin p + 4 .. q - 1
    BY <1>7, <1>26
  <2>2. g[x] = h[x] /\ h[x] = m[x]
    BY <1>9, <1>17, <1>26, <2>1 DEF Same
  <2>3. QED
    BY <2>2
<1>27. Same(m, g, p, end)
  BY <1>26 DEF Same
<1>28. QED
  BY <1>5, <1>16, <1>17, <1>25, <1>27 DEF TurnedTo

-----------------------------------------------------------------------------
(***************************************************************************)
(* SwapBytes over all the banks of an event                                *)
(***************************************************************************)
\* The event's own header depends on its eight bytes only.
LEMMA HeaderKeep ==
  ASSUME NEW m, NEW m2, \A x \in 0 .. 7 : m2[x] = m[x]
  PROVE  End(m2) = End(m) /\ fFlags(m2) = fFlags(m) /\ (IsBank32(m2) <=> IsBank32(m))
<1>1. /\ m2[0] = m[0] /\ m2[1] = m[1] /\ m2[2] = m[2] /\ m2[3] = m[3]
      /\ m2[4] = m[4] /\ m2[5] = m[5] /\ m2[6] = m[6] /\ m2[7] = m[7]
  OBVIOUS
<1>2. 0 + 1 = 1 /\ 0 + 2 = 2 /\ 2 + 1 = 3 /\ 4 + 1 = 5 /\ 4 + 2 = 6 /\ 6 + 1 = 7
  OBVIOUS
<1>3. /\ U16(m2, 0) = U16(m, 0) /\ U16(m2, 2) = U16(m, 2)
      /\ U16(m2, 4) = U16(m, 4) /\ U16(m2, 6) = U16(m, 6)
  BY <1>1, <1>2 DEF U16
<1>4. U32(m2, 0) = U32(m, 0) /\ U32(m2, 4) = U32(m, 4)
  BY <1>2, <1>3, SMT DEF U32
<1>5. QED
  BY <1>4 DEF End, fFlags, fDataSize, IsBank32

\* Of the banks of the event e the first j are native, the others still foreign.
Half(m, e, j) ==
  /\ DOMAIN m = Places
  /\ End(m) = Begin(e, Len(e.banks))
  /\ IsBank32(m) <=> e.wide
  /\ \A i \in 1 .. j : BankAt(m, Begin(e, i - 1), e.banks[i], e.wide)
  /\ \A i \in j + 1 .. Len(e.banks) :
       Stands(m, Begin(e, i - 1), EncodeBank(e.banks[i], e.wide, e.foreign))

\* The places of two banks, the one before the other
LEMMA Apart ==
  ASSUME NEW e, Possible(e), NEW i \in 1 .. Len(e.banks), NEW j \in i + 1 .. Len(e.banks)
  PROVE  /\ Begin(e, i) <= Begin(e, j - 1)
         /\ Begin(e, i - 1) \in Nat /\ Begin(e, i) \in Nat
         /\ Begin(e, j - 1) \in Nat /\ Begin(e, j) \in Nat
<1>1. PICK n \in Nat : n = Len(e.banks)
  BY PossibleTypes
<1>2. /\ i \in 0 .. Len(e.banks) /\ i - 1 \in 0 .. Len(e.banks) /\ j \in 0 .. Len(e.banks)
      /\ j - 1 \in 0 .. Len(e.banks) /\ j - 1 \in i .. Len(e.banks)
  BY <1>1
<1>3. /\ Begin(e, i - 1) \in Nat /\ Begin(e, i) \in Nat
      /\ Begin(e, j - 1) \in Nat /\ Begin(e, j) \in Nat
  BY <1>2, Begins
<1>4. Begin(e, i) + 8 * ((j - 1) - i) <= Begin(e, j - 1)
  BY <1>2, BeginGrows
<1>5. QED
  BY <1>2, <1>3, <1>4

\* A foreign event has no gaps.
LEMMA NoGap ==
  ASSUME NEW e, Possible(e), e.foreign, NEW i \in 1 .. Len(e.banks)
  PROVE  GapLen(e.banks[i]) = 0 /\ HeadAt(e, i) = Begin(e, i - 1)
<1>1. Fine(e.banks[i], e.wide, e.foreign)
  BY PossibleTypes
<1>2. GapLen(e.banks[i]) = 0
  BY <1>1 DEF Fine, GapLen
<1>3. Begin(e, i - 1) \in Nat
  BY Heads
<1>4. QED
  BY <1>2, <1>3 DEF HeadAt

\* A bank of an event stays where the memory does not change.
LEMMA BankStays ==
  ASSUME NEW e, Possible(e), NEW i \in 1 .. Len(e.banks), NEW m, NEW m2,
         BankAt(m, HeadAt(e, i), e.banks[i], e.wide), Agree(m, m2, Begin(e, i - 1), Begin(e, i))
  PROVE  BankAt(m2, HeadAt(e, i), e.banks[i], e.wide)
<1>1. PICK a, c, p, g, l, al, b, wide :
        /\ a = Begin(e, i - 1) /\ c = Begin(e, i) /\ p = HeadAt(e, i)
        /\ g = GapLen(e.banks[i]) /\ l = HeaderLen(e.wide) /\ al = Align(e.banks[i].size)
        /\ b = e.banks[i] /\ wide = e.wide
  OBVIOUS
<1>2. /\ p \in Nat /\ a \in Nat /\ c \in Nat /\ p = a + g /\ g \in {0, 4}
      /\ l \in {8, 12} /\ al \in Nat
  BY <1>1, Heads
<1>3. p + l + al = c
  BY <1>1, Heads
<1>4. Fine(b, wide, e.foreign) /\ wide \in BOOLEAN
  BY <1>1, PossibleTypes
<1>5. b.size \in Nat
  BY <1>4, FineTypes
<1>6. PICK n \in Nat : n = b.size /\ al >= n
  BY <1>1, <1>5, Aligned
<1>7. PICK hi \in Nat : hi = p + l + n
  BY <1>2
<1>8. a <= p /\ hi <= c
  <2>1. a <= p
    BY <1>2
  <2>2. hi <= c
    BY <1>2, <1>3, <1>6, <1>7
  <2>3. QED
    BY <2>1, <2>2
<1>9. ASSUME NEW x \in p .. hi - 1 PROVE m2[x] = m[x]
  <2>1. x \in a .. c - 1
    BY <1>2, <1>7, <1>8, <1>9
  <2>2. Agree(m, m2, a, c)
    BY <1>1
  <2>3. QED
    BY <2>1, <2>2 DEF Agree
<1>10. Agree(m, m2, p, hi)
  BY <1>9 DEF Agree
<1>11. Agree(m, m2, p, p + HeaderLen(wide) + b.size)
  BY <1>1, <1>6, <1>7, <1>10
<1>12. BankAt(m, p, b, wide)
  BY <1>1
<1>13. BankAt(m2, p, b, wide)
  BY <1>2, <1>4, <1>5, <1>11, <1>12, BankKeep
<1>14. QED
  BY <1>1, <1>13

\* What is in front of a part of the memory is in the memory.
LEMMA InFront ==
  ASSUME NEW a \in Nat, NEW c \in Nat, NEW p \in Nat, NEW q \in Nat, c <= p, p <= q, q <= MemSize,
         NEW x \in a .. c - 1
  PROVE  x \in Places /\ x \notin p .. q - 1
BY MemSizeType DEF Places

\* A step of the loop makes one more bank native.
LEMMA SwapOne ==
  ASSUME NEW e, Possible(e), e.foreign, Begin(e, Len(e.banks)) <= MemSize,
         NEW j \in 1 .. Len(e.banks), NEW s, Half(s.mem, e, j - 1), s.at = Begin(e, j - 1),
         NEW r, r = SwapBank(s, e.wide)
  PROVE  Half(r.mem, e, j) /\ r.at = Begin(e, j)
<1>1. PICK n \in Nat : n = Len(e.banks)
  BY PossibleTypes
<1>2. /\ Fine(e.banks[j], e.wide, e.foreign) /\ e.wide \in BOOLEAN /\ e.foreign = TRUE
      /\ j - 1 \in 0 .. Len(e.banks) /\ Len(e.banks) \in 0 .. Len(e.banks)
      /\ Len(e.banks) \in j - 1 .. Len(e.banks) /\ 0 \in 0 .. Len(e.banks)
      /\ (j - 1) + 1 = j
  <2>1. Fine(e.banks[j], e.wide, e.foreign) /\ e.wide \in BOOLEAN /\ e.foreign \in BOOLEAN
    BY PossibleTypes
  <2>2. e.foreign = TRUE
    BY <2>1, Zenon
  <2>3. /\ j - 1 \in 0 .. Len(e.banks) /\ Len(e.banks) \in 0 .. Len(e.banks)
        /\ Len(e.banks) \in j - 1 .. Len(e.banks) /\ 0 \in 0 .. Len(e.banks)
        /\ (j - 1) + 1 = j
    BY <1>1
  <2>4. QED
    BY <2>1, <2>2, <2>3, Zenon
<1>3. PICK p \in Nat, q \in Nat, z \in Nat :
        /\ p = Begin(e, j - 1) /\ q = Begin(e, j) /\ z = Begin(e, Len(e.banks))
  BY Heads
<1>4. q = p + BankLen(e.banks[j], e.wide) /\ p <= q /\ q <= z /\ 8 <= p /\ z <= MemSize
  <2>1. q = p + BankLen(e.banks[j], e.wide)
    BY <1>3, Begins
  <2>2. q <= z
    BY <1>3, Heads
  <2>3. Begin(e, 0) + 8 * ((j - 1) - 0) <= Begin(e, j - 1) /\ Begin(e, 0) = 8
    BY <1>2, Begins, BeginGrows
  <2>4. p <= q
    <3>1. BankLen(e.banks[j], e.wide) \in Nat
      BY <1>2, BankLens
    <3>2. QED
      BY <2>1, <3>1
  <2>5. QED
    BY <1>3, <2>1, <2>2, <2>3, <2>4
<1>5. e.banks[j].size <= IntMax
  <2>1. Begin(e, Len(e.banks)) <= IntMax
    <3>1. IntMax \in Nat
      BY DEF IntMax
    <3>2. QED
      BY <1>3, <1>4, <3>1, MemSizeType
  <2>2. QED
    BY <2>1, SizesFit
<1>6. PICK m : m = s.mem
  OBVIOUS
<1>7. DOMAIN m = Places /\ Stands(m, p, EncodeBank(e.banks[j], e.wide, e.foreign)) /\ End(m) = z
  <2>1. j \in (j - 1) + 1 .. Len(e.banks)
    BY <1>1
  <2>2. QED
    BY <1>3, <1>6, <2>1 DEF Half
<1>8. ~(p >= End(m))
  <2>1. Begin(e, j - 1) + 8 * (Len(e.banks) - (j - 1)) <= Begin(e, Len(e.banks))
    BY <1>2, BeginGrows
  <2>2. p + 8 * (n - (j - 1)) <= z
    BY <1>1, <1>3, <2>1
  <2>3. n - (j - 1) >= 1 /\ n - (j - 1) \in Nat
    BY <1>1
  <2>4. p < z
    BY <2>2, <2>3
  <2>5. QED
    BY <1>7, <2>4
<1>9. /\ r.at = q /\ DOMAIN r.mem = Places
      /\ BankAt(r.mem, p, e.banks[j], e.wide) /\ Same(m, r.mem, p, q)
  <2>1. s.at + BankLen(e.banks[j], e.wide) <= MemSize
    BY <1>3, <1>4, MemSizeType
  <2>2. ForeignAt(s, e.banks[j], e.wide, e.foreign)
    BY <1>2, <1>3, <1>5, <1>6, <1>7, <1>8, <2>1 DEF ForeignAt
  <2>3. TurnedTo(s, r, e.banks[j], e.wide)
    BY <2>2, SwapBankIs
  <2>4. QED
    BY <1>3, <1>4, <1>6, <2>3 DEF TurnedTo
<1>10. End(r.mem) = z /\ (IsBank32(r.mem) <=> e.wide)
  <2>1. ASSUME NEW x \in 0 .. 7 PROVE r.mem[x] = m[x]
    <3>1. x \in Places /\ x \notin p .. q - 1
      BY <1>4, <2>1, MemSizeType DEF Places
    <3>2. QED
      BY <1>9, <3>1 DEF Same
  <2>2. End(r.mem) = End(m) /\ (IsBank32(r.mem) <=> IsBank32(m))
    BY <2>1, HeaderKeep
  <2>3. QED
    BY <1>6, <1>7, <2>2 DEF Half
<1>11. ASSUME NEW i \in 1 .. j PROVE BankAt(r.mem, Begin(e, i - 1), e.banks[i], e.wide)
  <2>1. CASE i = j
    BY <1>3, <1>9, <2>1
  <2>2. CASE i # j
    <3>1. i \in 1 .. j - 1 /\ i \in 1 .. Len(e.banks) /\ j \in i + 1 .. Len(e.banks)
      BY <1>1, <2>2
    <3>2. HeadAt(e, i) = Begin(e, i - 1)
      BY <3>1, NoGap
    <3>3. BankAt(m, HeadAt(e, i), e.banks[i], e.wide)
      BY <1>6, <3>1, <3>2 DEF Half
    <3>4. PICK a \in Nat, c \in Nat : a = Begin(e, i - 1) /\ c = Begin(e, i) /\ c <= p
      BY <1>3, <3>1, Apart
    <3>5. ASSUME NEW x \in a .. c - 1 PROVE r.mem[x] = m[x]
      <4>1. c <= p /\ p <= q /\ q <= MemSize
        BY <1>4, <3>4, MemSizeType
      <4>2. x \in Places /\ x \notin p .. q - 1
        BY <3>5, <4>1, InFront
      <4>3. QED
        BY <1>9, <4>2 DEF Same
    <3>6. Agree(m, r.mem, Begin(e, i - 1), Begin(e, i))
      BY <3>4, <3>5 DEF Agree
    <3>7. BankAt(r.mem, HeadAt(e, i), e.banks[i], e.wide)
      BY <3>1, <3>3, <3>6, BankStays
    <3>8. QED
      BY <3>2, <3>7
  <2>3. QED
    BY <2>1, <2>2
<1>12. ASSUME NEW i \in j + 1 .. Len(e.banks)
       PROVE  Stands(r.mem, Begin(e, i - 1), EncodeBank(e.banks[i], e.wide, e.foreign))
  <2>1. i \in (j - 1) + 1 .. Len(e.banks) /\ i \in 1 .. Len(e.banks) /\ i \in j + 1 .. Len(e.banks)
    BY <1>1
  <2>2. Fine(e.banks[i], e.wide, e.foreign)
    BY <2>1, PossibleTypes
  <2>3. PICK a \in Nat, c \in Nat : a = Begin(e, i - 1) /\ c = Begin(e, i) /\ q <= a
    BY <1>3, <2>1, Apart
  <2>4. PICK t : t = EncodeBank(e.banks[i], e.wide, e.foreign)
    OBVIOUS
  <2>5. t \in Seq(Nat) /\ Len(t) = BankLen(e.banks[i], e.wide)
    BY <1>2, <2>2, <2>4, BankPieces
  <2>6. a + Len(t) = c /\ c <= z
    <3>1. c = a + BankLen(e.banks[i], e.wide)
      BY <2>1, <2>3, Begins
    <3>2. c <= z
      BY <1>3, <2>1, <2>3, Heads
    <3>3. QED
      BY <2>5, <3>1, <3>2
  <2>7. Stands(m, a, t)
    BY <1>6, <2>1, <2>3, <2>4 DEF Half
  <2>8. a + Len(t) <= MemSize
    BY <1>4, <2>6, MemSizeType
  <2>9. Stands(r.mem, a, t)
    BY <1>9, <2>3, <2>5, <2>7, <2>8, StandsAbove
  <2>10. QED
    BY <2>3, <2>4, <2>9
<1>13. QED
  BY <1>3, <1>9, <1>10, <1>11, <1>12 DEF Half

\* Behind the last bank the loop stays where it is.
LEMMA SwapNone ==
  ASSUME NEW e, NEW s, NEW wide, Half(s.mem, e, Len(e.banks)), s.at = Begin(e, Len(e.banks)),
         Begin(e, Len(e.banks)) \in Nat
  PROVE  SwapBank(s, wide) = s
<1>1. s.at >= End(s.mem)
  BY DEF Half
<1>2. QED
  BY <1>1 DEF SwapBank

\* How many banks are native after i steps of the loop
Turned(e, i) == IF i <= Len(e.banks) THEN i ELSE Len(e.banks)

\* The state of the loop after i steps
Reached(s, e, i) == Half(s.mem, e, Turned(e, i)) /\ s.at = Begin(e, Turned(e, i))

\* Every step keeps the invariant of the loop.
LEMMA SwapNext ==
  ASSUME NEW e, Possible(e), e.foreign, Begin(e, Len(e.banks)) <= MemSize,
         NEW i \in Nat, NEW s, Reached(s, e, i)
  PROVE  Reached(SwapBank(s, e.wide), e, i + 1)
<1>1. PICK n \in Nat : n = Len(e.banks)
  BY PossibleTypes
<1>2. CASE i < n
  <2>1. PICK j : j = i + 1
    OBVIOUS
  <2>2. j \in 1 .. Len(e.banks) /\ Turned(e, i) = j - 1 /\ Turned(e, i + 1) = j
    BY <1>1, <1>2, <2>1 DEF Turned
  <2>3. Half(s.mem, e, j - 1) /\ s.at = Begin(e, j - 1)
    BY <2>2 DEF Reached
  <2>4. PICK r : r = SwapBank(s, e.wide)
    OBVIOUS
  <2>5. Half(r.mem, e, j) /\ r.at = Begin(e, j)
    BY <2>2, <2>3, <2>4, SwapOne
  <2>6. QED
    BY <2>2, <2>4, <2>5 DEF Reached
<1>3. CASE ~(i < n)
  <2>1. Turned(e, i) = Len(e.banks) /\ Turned(e, i + 1) = Len(e.banks)
    BY <1>1, <1>3 DEF Turned
  <2>2. Half(s.mem, e, Len(e.banks)) /\ s.at = Begin(e, Len(e.banks))
    BY <2>1 DEF Reached
  <2>3. Begin(e, Len(e.banks)) \in Nat
    <3>1. Len(e.banks) \in 0 .. Len(e.banks)
      BY <1>1
    <3>2. QED
      BY <3>1, Begins
  <2>4. SwapBank(s, e.wide) = s
    BY <2>2, <2>3, SwapNone
  <2>5. QED
    BY <2>1, <2>2, <2>4 DEF Reached
<1>4. QED
  BY <1>2, <1>3

\* The state after one more step
LEMMA SwapsNext ==
  ASSUME NEW f, NEW h, NEW b32, NEW n \in Nat, Swaps(f, h, b32, n), NEW k \in Nat, k + 1 <= n
  PROVE  f[k + 1] = SwapBank(f[k], b32)
<1>1. PICK i : i = k + 1
  OBVIOUS
<1>2. i \in 0 .. n /\ i # 0 /\ i - 1 = k
  BY <1>1
<1>3. PICK g : g = [j \in 0 .. n |-> IF j = 0 THEN [mem |-> h, at |-> BankHeaderSize] ELSE SwapBank(f[j - 1], b32)]
  OBVIOUS
<1>4. f = g
  BY <1>3 DEF Swaps
<1>5. g[i] = SwapBank(f[i - 1], b32)
  BY <1>2, <1>3
<1>6. QED
  BY <1>1, <1>2, <1>4, <1>5

\* The invariant of the loop
LEMMA SwapLoop ==
  ASSUME NEW e, Possible(e), e.foreign, Begin(e, Len(e.banks)) <= MemSize,
         NEW h, Half(h, e, 0), NEW M \in Nat, NEW f, Swaps(f, h, e.wide, M)
  PROVE  \A k \in Nat : k <= M => Reached(f[k], e, k)
<1>1. PICK S : S = {k \in Nat : k <= M => Reached(f[k], e, k)}
  OBVIOUS
<1>2. 0 \in S
  <2>1. f[0] = [mem |-> h, at |-> BankHeaderSize]
    <3>1. 0 \in 0 .. M
      OBVIOUS
    <3>2. QED
      BY <3>1, SwapsAt
  <2>2. f[0].mem = h /\ f[0].at = 8
    BY <2>1 DEF BankHeaderSize
  <2>3. Turned(e, 0) = 0 /\ Begin(e, 0) = 8
    BY PossibleTypes, Begins DEF Turned
  <2>4. Reached(f[0], e, 0)
    BY <2>2, <2>3 DEF Reached
  <2>5. QED
    BY <1>1, <2>4
<1>3. ASSUME NEW k \in Nat, k \in S PROVE k + 1 \in S
  <2>1. ASSUME k + 1 <= M PROVE Reached(f[k + 1], e, k + 1)
    <3>1. Reached(f[k], e, k)
      BY <1>1, <1>3, <2>1
    <3>2. Reached(SwapBank(f[k], e.wide), e, k + 1)
      BY <3>1, SwapNext
    <3>3. k + 1 \in 0 .. M /\ k + 1 # 0 /\ (k + 1) - 1 = k
      BY <2>1
    <3>4. f[k + 1] = SwapBank(f[k], e.wide)
      BY <2>1, SwapsNext
    <3>5. QED
      BY <3>2, <3>4
  <2>2. QED
    BY <1>1, <2>1
<1>4. \A k \in Nat : k \in S
  BY <1>2, <1>3, Induction
<1>5. QED
  BY <1>1, <1>4

\* With its header native, the banks of a foreign event are all made native.
LEMMA SwapBanksIs ==
  ASSUME NEW e, Possible(e), e.foreign, Begin(e, Len(e.banks)) <= MemSize,
         NEW h, Half(h, e, 0)
  PROVE  Holds(SwapBanks(h, e.wide), e) /\ DOMAIN SwapBanks(h, e.wide) = Places
<1>1. PICK n \in Nat : n = Len(e.banks)
  BY PossibleTypes
<1>2. MostBanks(h) \in Nat /\ n <= MostBanks(h)
  <2>1. /\ 0 \in 0 .. Len(e.banks) /\ Len(e.banks) \in 0 .. Len(e.banks)
    BY <1>1
  <2>2. Begin(e, 0) + 8 * (Len(e.banks) - 0) <= Begin(e, Len(e.banks)) /\ Begin(e, 0) = 8
    BY <2>1, Begins, BeginGrows
  <2>3. PICK z \in Nat : z = Begin(e, Len(e.banks))
    BY <2>1, Begins
  <2>4. 8 + 8 * n <= z /\ End(h) = z
    BY <1>1, <2>2, <2>3 DEF Half
  <2>5. MostBanks(h) = z \div 8
    BY <2>4 DEF MostBanks, BankHeaderSize
  <2>6. z \div 8 \in Nat /\ n <= z \div 8
    BY <2>4
  <2>7. QED
    BY <2>5, <2>6
<1>3. PICK f : Swaps(f, h, e.wide, MostBanks(h)) /\ SwapBanks(h, e.wide) = f[MostBanks(h)].mem
  BY <1>2, SwapsIs
<1>4. Reached(f[MostBanks(h)], e, MostBanks(h))
  <2>1. PICK M \in Nat : M = MostBanks(h)
    BY <1>2
  <2>2. Swaps(f, h, e.wide, M) /\ M <= M
    BY <1>3, <2>1
  <2>3. \A k \in Nat : k <= M => Reached(f[k], e, k)
    BY <2>2, SwapLoop
  <2>4. QED
    BY <2>1, <2>2, <2>3
<1>5. Turned(e, MostBanks(h)) = Len(e.banks)
  BY <1>1, <1>2 DEF Turned
<1>6. PICK m : m = SwapBanks(h, e.wide)
  OBVIOUS
<1>7. Half(m, e, Len(e.banks))
  BY <1>3, <1>4, <1>5, <1>6 DEF Reached
<1>8. ASSUME NEW i \in 1 .. Len(e.banks) PROVE BankAt(m, HeadAt(e, i), e.banks[i], e.wide)
  <2>1. BankAt(m, Begin(e, i - 1), e.banks[i], e.wide)
    BY <1>7 DEF Half
  <2>2. HeadAt(e, i) = Begin(e, i - 1)
    BY NoGap
  <2>3. QED
    BY <2>1, <2>2
<1>9. Holds(m, e) /\ DOMAIN m = Places
  BY <1>7, <1>8 DEF Half, Holds
<1>10. QED
  BY <1>6, <1>9

\* What has been stored stands there.
LEMMA StoreIs ==
  ASSUME NEW m, DOMAIN m = Places, NEW s \in Seq(Nat), Len(s) <= MemSize
  PROVE  DOMAIN Store(m, s) = Places /\ Stands(Store(m, s), 0, s)
<1>1. DOMAIN Store(m, s) = Places
  BY DEF Store
<1>2. ASSUME NEW i \in 1 .. Len(s) PROVE Store(m, s)[0 + i - 1] = s[i]
  <2>1. PICK x : x = 0 + i - 1
    OBVIOUS
  <2>2. x \in Places /\ x < Len(s) /\ x + 1 = i
    BY <2>1, MemSizeType DEF Places
  <2>3. Store(m, s)[x] = s[x + 1]
    BY <2>2 DEF Store
  <2>4. QED
    BY <2>1, <2>2, <2>3
<1>3. QED
  BY <1>1, <1>2 DEF Stands

\* The flags of an event's header, in the other byte order
FlagsStand(m, n, foreign) ==
  n \in {1, 17} /\ foreign = TRUE /\ Stands(m, 4, Field(n, 4, foreign))

\* Read in the wrong byte order, the flags are very large.
LEMMA ForeignFlags ==
  ASSUME NEW m, NEW n, NEW foreign, FlagsStand(m, n, foreign)
  PROVE  U32(m, 4) >= 65536
<1>0. n \in {1, 17} /\ foreign = TRUE /\ Stands(m, 4, Field(n, 4, foreign))
  BY DEF FlagsStand
<1> USE <1>0
<1>1. PICK t, s : t = Bytes(n, 4) /\ s = Field(n, 4, foreign)
  OBVIOUS
<1>2. n \in Nat /\ 4 \in {2, 4}
  OBVIOUS
<1>3. Len(s) = 4 /\ \A i \in 1 .. 4 : s[i] = t[4 - i + 1]
  BY <1>1, <1>2, FieldIs
<1>4. s[1] = t[4] /\ s[2] = t[3] /\ s[3] = t[2] /\ s[4] = t[1]
  BY <1>3
<1>5. /\ t[1] = n % 256 /\ t[2] = (n \div 256) % 256
      /\ t[3] = (n \div 65536) % 256 /\ t[4] = (n \div 16777216) % 256
  BY <1>1, <1>2, BytesAt
<1>6. t[1] = n /\ t[2] = 0 /\ t[3] = 0 /\ t[4] = 0
  BY <1>5, SMT
<1>7. m[4] = s[1] /\ m[5] = s[2] /\ m[6] = s[3] /\ m[7] = s[4]
  <2>1. \A i \in 1 .. 4 : m[4 + i - 1] = s[i]
    BY <1>1, <1>3 DEF Stands
  <2>2. /\ 4 + 1 - 1 = 4 /\ 4 + 2 - 1 = 5 /\ 4 + 3 - 1 = 6 /\ 4 + 4 - 1 = 7
        /\ 1 \in 1 .. 4 /\ 2 \in 1 .. 4 /\ 3 \in 1 .. 4 /\ 4 \in 1 .. 4
    OBVIOUS
  <2>3. QED
    BY <2>1, <2>2
<1>8. U16(m, 4) = 0 /\ U16(m, 6) = 256 * n
  BY <1>4, <1>6, <1>7 DEF U16
<1>9. QED
  BY <1>8, SMT DEF U32

\* The header of a foreign event is found to be foreign, and made native.
LEMMA SwapHead ==
  ASSUME NEW e, Possible(e), e.foreign, NEW m, DOMAIN m = Places, Stands(m, 0, Encode(e)),
         Len(Encode(e)) <= MemSize
  PROVE  SwapNeeded(m, Len(Encode(e))) /\ Half(Swap(m, 0, 8, 4), e, 0)
<1>0. PICK k \in Nat : k = Len(e.banks)
  BY PossibleTypes
<1>1. PICK z \in Nat, n \in Nat : z = Begin(e, Len(e.banks)) /\ n = z - 8
  <2>1. Len(e.banks) \in 0 .. Len(e.banks) /\ 0 \in 0 .. Len(e.banks)
    BY <1>0
  <2>2. Begin(e, 0) + 8 * (Len(e.banks) - 0) <= Begin(e, Len(e.banks)) /\ Begin(e, 0) = 8
    BY <2>1, Begins, BeginGrows
  <2>3. PICK z \in Nat : z = Begin(e, Len(e.banks))
    BY <2>1, Begins
  <2>4. z - 8 \in Nat
    BY <1>0, <2>2, <2>3
  <2>5. QED
    BY <2>3, <2>4
<1>2. z = n + 8 /\ z <= MemSize /\ z = Len(Encode(e)) /\ n <= IntMax /\ z <= IntMax
  <2>1. z = Len(Encode(e))
    BY <1>1, EncodeLen
  <2>2. IntMax \in Nat
    BY DEF IntMax
  <2>3. QED
    BY <1>1, <2>1, <2>2, MemSizeType
<1>3. PICK foreign, fl : foreign = e.foreign /\ fl = Flags(e)
  OBVIOUS
<1>4. foreign = TRUE /\ fl \in {1, 17} /\ e.wide \in BOOLEAN
  <2>1. e.foreign \in BOOLEAN /\ e.wide \in BOOLEAN
    BY PossibleTypes
  <2>2. foreign = TRUE
    BY <1>3, <2>1, Zenon
  <2>3. fl \in {1, 17}
    BY <1>3 DEF Flags
  <2>4. QED
    BY <2>1, <2>2, <2>3
<1>5. Stands(m, 0, Field(n, 4, foreign)) /\ Stands(m, 4, Field(fl, 4, foreign))
  BY <1>1, <1>3, EncodeLen
<1>6. fFlags(m) >= 65536
  <2>1. FlagsStand(m, fl, foreign)
    BY <1>4, <1>5 DEF FlagsStand
  <2>2. U32(m, 4) >= 65536
    BY <2>1, ForeignFlags
  <2>3. QED
    BY <2>2 DEF fFlags
<1>7. /\ 4 \in {2, 4} /\ 0 \in {0, 0 + 4} /\ 4 \in {0, 0 + 4} /\ 0 + 4 <= 4 /\ 0 + 4 <= 8 /\ 4 + 4 <= 8
      /\ 0 + 4 <= MemSize /\ 4 + 4 <= MemSize /\ 0 \in Nat /\ 4 \in Nat /\ 8 \in Nat /\ fl \in Nat
  BY <1>1, <1>2, <1>4, MemSizeType
<1>8. Stands(Swap(m, 0, 4, 4), 0, Bytes(n, 4))
  BY <1>4, <1>5, <1>7, SwapField
<1>9. U32(Swap(m, 0, 4, 4), 0) = n
  BY <1>2, <1>7, <1>8, ReadFour
<1>10. n <= Len(Encode(e)) + 100
  BY <1>2
<1>11. SwapNeeded(m, Len(Encode(e)))
  BY <1>6, <1>9, <1>10 DEF SwapNeeded
<1>12. PICK h : h = Swap(m, 0, 8, 4)
  OBVIOUS
<1>13. DOMAIN h = Places /\ Same(m, h, 0, 8)
  BY <1>12, SwapDomain, SwapSame
<1>14. Stands(h, 0, Bytes(n, 4))
  BY <1>4, <1>5, <1>7, <1>12, SwapField
<1>15. Stands(h, 4, Bytes(fl, 4))
  BY <1>4, <1>5, <1>7, <1>12, SwapField
<1>16. End(h) = Begin(e, Len(e.banks)) /\ (IsBank32(h) <=> e.wide)
  <2>1. /\ Begin(e, Len(e.banks)) <= IntMax
        /\ Stands(h, 0, Bytes(Begin(e, Len(e.banks)) - 8, 4))
        /\ Stands(h, 4, Bytes(Flags(e), 4))
    BY <1>1, <1>2, <1>3, <1>14, <1>15
  <2>2. QED
    BY <2>1, HeaderRead
<1>17. ASSUME NEW i \in 1 .. Len(e.banks)
       PROVE  Stands(h, Begin(e, i - 1), EncodeBank(e.banks[i], e.wide, e.foreign))
  <2>1. Stands(m, Begin(e, i - 1), EncodeBank(e.banks[i], e.wide, e.foreign))
    BY EncodeLen, StandsBanks
  <2>2. Fine(e.banks[i], e.wide, e.foreign) /\ e.foreign \in BOOLEAN /\ e.wide \in BOOLEAN
    BY PossibleTypes
  <2>3. PICK t : t = EncodeBank(e.banks[i], e.wide, e.foreign)
    OBVIOUS
  <2>4. t \in Seq(Nat) /\ Len(t) = BankLen(e.banks[i], e.wide)
    BY <2>2, <2>3, BankPieces
  <2>5. PICK a \in Nat, c \in Nat : a = Begin(e, i - 1) /\ c = Begin(e, i) /\ c <= z
    BY <1>1, Heads
  <2>6. a + Len(t) = c
    BY <2>4, <2>5, Begins
  <2>7. 8 <= a
    <3>1. HeadAt(e, i) = Begin(e, i - 1) /\ HeadAt(e, i) >= 8
      BY Heads, NoGap
    <3>2. QED
      BY <2>5, <3>1
  <2>8. a + Len(t) <= MemSize
    BY <1>2, <2>5, <2>6, MemSizeType
  <2>9. Stands(h, a, t)
    <3>1. PICK hi \in Nat, lo \in Nat : hi = 8 /\ lo = 0
      OBVIOUS
    <3>2. Stands(m, a, t) /\ Same(m, h, lo, hi) /\ hi <= a
      BY <1>13, <2>1, <2>3, <2>5, <2>7, <3>1
    <3>3. QED
      BY <2>4, <2>8, <3>2, StandsAbove
  <2>10. QED
    BY <2>3, <2>5, <2>9
<1>18. Half(h, e, 0)
  <2>1. \A i \in 0 + 1 .. Len(e.banks) : i \in 1 .. Len(e.banks)
    BY <1>0
  <2>2. \A i \in 1 .. 0 : FALSE
    OBVIOUS
  <2>3. QED
    BY <1>13, <1>16, <1>17, <2>1, <2>2 DEF Half
<1>19. QED
  BY <1>11, <1>12, <1>18

\* Whatever machine wrote the event and whatever the memory held before, the
\* program has the event in native order after SwapBytes.
LEMMA SwapBytesIs ==
  ASSUME NEW e, Possible(e), Len(Encode(e)) <= MemSize, NEW m0, DOMAIN m0 = Places,
         NEW m, m = SwapBytes(Store(m0, Encode(e)), Len(Encode(e)))
  PROVE  Holds(m, e) /\ DOMAIN m = Places
<1>1. PICK b : b = Store(m0, Encode(e))
  OBVIOUS
<1>2. DOMAIN b = Places /\ Stands(b, 0, Encode(e))
  BY <1>1, StoreIs, EncodeLen
<1>3. Begin(e, Len(e.banks)) = Len(Encode(e))
  BY EncodeLen
<1>4. Begin(e, Len(e.banks)) <= MemSize /\ Begin(e, Len(e.banks)) <= IntMax
  <2>1. Len(Encode(e)) \in Nat
    BY EncodeLen
  <2>2. IntMax \in Nat
    BY DEF IntMax
  <2>3. QED
    BY <1>3, <2>1, <2>2, MemSizeType
<1>5. CASE ~e.foreign
  <2>1. Holds(b, e) /\ fFlags(b) = Flags(e)
    BY <1>2, <1>4, <1>5, NativeHolds
  <2>2. Flags(e) \in {1, 17}
    BY DEF Flags
  <2>3. ~(fFlags(b) >= 65536)
    BY <2>1, <2>2, SMT
  <2>4. m = b
    BY <1>1, <2>3 DEF SwapBytes, SwapNeeded
  <2>5. QED
    BY <1>2, <2>1, <2>4
<1>6. CASE e.foreign
  <2>1. PICK h : h = Swap(b, 0, 8, 4)
    OBVIOUS
  <2>2. SwapNeeded(b, Len(Encode(e))) /\ Half(h, e, 0)
    BY <1>2, <1>6, <2>1, SwapHead
  <2>3. IsBank32(h) = e.wide
    <3>1. e.wide \in BOOLEAN
      BY PossibleTypes
    <3>2. IsBank32(h) \in BOOLEAN
      BY DEF IsBank32
    <3>3. IsBank32(h) <=> e.wide
      BY <2>2 DEF Half
    <3>4. QED
      BY <3>1, <3>2, <3>3, Zenon
  <2>4. m = SwapBanks(h, e.wide)
    BY <1>1, <2>1, <2>2, <2>3 DEF SwapBytes
  <2>5. QED
    BY <1>4, <1>6, <2>2, <2>4, SwapBanksIs
<1>7. QED
  BY <1>5, <1>6

-----------------------------------------------------------------------------
(***************************************************************************)
(* The event, its container and the display's copy                         *)
(***************************************************************************)
\* Only an event's own bytes matter.
LEMMA HoldsKeep ==
  ASSUME NEW e, Possible(e), NEW m, Holds(m, e), NEW m2, NEW z, z = Len(Encode(e)),
         Agree(m, m2, 0, z)
  PROVE  Holds(m2, e)
<1>1. PICK n \in Nat : n = Len(e.banks)
  BY PossibleTypes
<1>2. z \in Nat /\ z = Begin(e, Len(e.banks)) /\ 8 <= z
  <2>1. Len(e.banks) \in 0 .. Len(e.banks) /\ 0 \in 0 .. Len(e.banks)
    BY <1>1
  <2>2. Begin(e, 0) + 8 * (Len(e.banks) - 0) <= Begin(e, Len(e.banks)) /\ Begin(e, 0) = 8
    BY <2>1, Begins, BeginGrows
  <2>3. z = Begin(e, Len(e.banks)) /\ z \in Nat
    BY <2>1, Begins, EncodeLen
  <2>4. QED
    BY <1>1, <2>2, <2>3
<1>3. ASSUME NEW x \in 0 .. z - 1 PROVE m2[x] = m[x]
  BY <1>3 DEF Agree
<1>4. \A x \in 0 .. 7 : m2[x] = m[x]
  BY <1>2, <1>3
<1>5. End(m2) = End(m) /\ (IsBank32(m2) <=> IsBank32(m))
  BY <1>4, HeaderKeep
<1>6. ASSUME NEW i \in 1 .. Len(e.banks) PROVE BankAt(m2, HeadAt(e, i), e.banks[i], e.wide)
  <2>1. PICK a \in Nat, c \in Nat : a = Begin(e, i - 1) /\ c = Begin(e, i) /\ c <= z
    BY <1>2, Heads
  <2>2. ASSUME NEW x \in a .. c - 1 PROVE m2[x] = m[x]
    BY <1>2, <1>3, <2>1, <2>2
  <2>3. Agree(m, m2, Begin(e, i - 1), Begin(e, i))
    BY <2>1, <2>2 DEF Agree
  <2>4. BankAt(m, HeadAt(e, i), e.banks[i], e.wide)
    BY DEF Holds
  <2>5. QED
    BY <2>3, <2>4, BankStays
<1>7. QED
  BY <1>5, <1>6 DEF Holds

Fields == {"fEventId", "size", "fData", "own", "listed", "fBankList"}

\* The TMidasEvent ev, with the receive buffer buf, has the event e, and these
\* names are in its bank list if it has one.
Keeps(ev, buf, e, names) ==
  /\ e \in Events
  /\ DOMAIN ev = Fields
  /\ ev.fData \in {"buffer", "own"}
  /\ ev.size = Len(Encode(e))
  /\ Holds(Memory(ev, buf), e)
  /\ ev.listed => ev.fBankList = names

\* Every decoded bank was found by its name in the event's memory.
Decoded(list, m) ==
  /\ \E S : list \in Seq(S)
  /\ \A i \in 1 .. Len(list) :
       list[i].bank = FindBank(m, list[i].name) /\ list[i].bank # NotFound

\* The event of the loop is the one that was sent while it is processed, and
\* as long as anything decoded from it is there; the copy is always the event
\* that was copied, in memory of its own.  What is decoded was found there.
EventInv ==
  /\ DOMAIN buffer = Places
  /\ phase = "idle" => cache = <<>>
  /\ phase = "process" \/ cache # <<>> => Keeps(event, buffer, sent, BankNames(sent))
  /\ copy = Gone \/ (copy.fData = "own" /\ Keeps(copy, buffer, copied, Strdup(BankNames(copied))))
  /\ copy = Gone => copyCache = <<>>
  /\ Decoded(cache, Memory(event, buffer))
  /\ Decoded(copyCache, Memory(copy, buffer))

\* What the assumption on the constants says of an event and of a memory
LEMMA EventIs ==
  ASSUME NEW e \in Events
  PROVE  Possible(e) /\ Len(Encode(e)) \in Nat /\ Len(Encode(e)) <= MemSize
<1>1. Possible(e) /\ Len(Encode(e)) + Behind <= MemSize
  BY EventAssumption
<1>2. Len(Encode(e)) \in Nat
  BY <1>1, EncodeLen
<1>3. QED
  BY <1>1, <1>2, MemSizeType DEF Behind

\* Memories have all the addresses.
LEMMA StaleIs ==
  ASSUME NEW heap \in Stale
  PROVE  DOMAIN heap = Places
<1>1. heap \in [0 .. MemSize - 1 -> Nat]
  BY EventAssumption
<1>2. QED
  BY <1>1 DEF Places

\* An empty cache is right for any memory.
LEMMA NothingDecoded ==
  ASSUME NEW m
  PROVE  Decoded(<<>>, m)
BY DEF Decoded

\* SetBankList lists the banks that are there.
LEMMA SetBankListKeeps ==
  ASSUME NEW ev, NEW buf, NEW e, Keeps(ev, buf, e, BankNames(e))
  PROVE  Keeps(SetBankList(ev, buf), buf, e, BankNames(e))
<1>1. CASE SetBankList(ev, buf) = ev
  BY <1>1
<1>2. CASE SetBankList(ev, buf) # ev
  <2>1. PICK g : g = SetBankList(ev, buf)
    OBVIOUS
  <2>2. g = [ev EXCEPT !.listed = TRUE, !.fBankList = BankList(Memory(ev, buf))]
    BY <1>2, <2>1 DEF SetBankList
  <2>3. /\ e \in Events /\ DOMAIN ev = Fields /\ ev.fData \in {"buffer", "own"}
        /\ ev.size = Len(Encode(e)) /\ Holds(Memory(ev, buf), e)
    BY DEF Keeps
  <2>4. /\ DOMAIN g = Fields /\ g.fData = ev.fData /\ g.size = ev.size /\ g.own = ev.own
        /\ g.fBankList = BankList(Memory(ev, buf))
    BY <2>2, <2>3 DEF Fields
  <2>5. Memory(g, buf) = Memory(ev, buf)
    BY <2>4 DEF Memory
  <2>6. BankList(Memory(ev, buf)) = BankNames(e)
    BY <2>3, EventIs, BankListIs
  <2>7. Keeps(g, buf, e, BankNames(e))
    BY <2>3, <2>4, <2>5, <2>6 DEF Keeps
  <2>8. QED
    BY <2>1, <2>7
<1>3. QED
  BY <1>1, <1>2

\* The copy has the event, whatever its memory held and the buffer holds.
LEMMA CopyKeeps ==
  ASSUME NEW ev, NEW buf, NEW e, Keeps(ev, buf, e, BankNames(e)), NEW heap \in Stale, NEW buf2,
         NEW g, g = Copy(ev, buf, heap)
  PROVE  Keeps(g, buf2, e, Strdup(BankNames(e))) /\ g.fData = "own"
<1>1. /\ e \in Events /\ DOMAIN ev = Fields /\ ev.size = Len(Encode(e))
      /\ Holds(Memory(ev, buf), e) /\ (ev.listed => ev.fBankList = BankNames(e))
  BY DEF Keeps
<1>2. PICK m, z, own : /\ m = Memory(ev, buf) /\ z = Len(Encode(e))
                       /\ own = [a \in Places |-> IF a < z THEN m[a] ELSE heap[a]]
  OBVIOUS
<1>3. g = [ev EXCEPT !.fData = "own", !.fBankList = Strdup(ev.fBankList), !.own = own]
  <2>1. g = [ev EXCEPT !.fData = "own", !.fBankList = Strdup(ev.fBankList),
                       !.own = [a \in DOMAIN heap |-> IF a < ev.size THEN m[a] ELSE heap[a]]]
    BY <1>2 DEF Copy
  <2>2. QED
    BY <1>1, <1>2, <2>1, StaleIs
<1>4. /\ DOMAIN g = Fields /\ g.fData = "own" /\ g.own = own /\ g.size = ev.size
      /\ g.listed = ev.listed /\ g.fBankList = Strdup(ev.fBankList)
  BY <1>1, <1>3 DEF Fields
<1>5. Agree(m, own, 0, z)
  <2>1. z \in Nat /\ z <= MemSize
    BY <1>1, <1>2, EventIs
  <2>2. ASSUME NEW x \in 0 .. z - 1 PROVE own[x] = m[x]
    <3>1. x \in Places /\ x < z
      BY <2>1, <2>2, MemSizeType DEF Places
    <3>2. QED
      BY <1>2, <3>1
  <2>3. QED
    BY <2>2 DEF Agree
<1>6. Holds(own, e)
  BY <1>1, <1>2, <1>5, EventIs, HoldsKeep
<1>7. Memory(g, buf2) = own
  BY <1>4 DEF Memory
<1>8. QED
  BY <1>1, <1>4, <1>6, <1>7 DEF Keeps

\* A decoded bank is added.
LEMMA DecodedMore ==
  ASSUME NEW list, NEW m, Decoded(list, m), NEW d,
         d.bank = FindBank(m, d.name), d.bank # NotFound
  PROVE  Decoded(Append(list, d), m)
<1>1. PICK S : list \in Seq(S)
  BY DEF Decoded
<1>2. PICK T : T = S \cup {d}
  OBVIOUS
<1>3. list \in Seq(T) /\ d \in T
  BY <1>1, <1>2
<1>4. PICK g : g = Append(list, d)
  OBVIOUS
<1>5. /\ g \in Seq(T) /\ Len(g) = Len(list) + 1 /\ Len(list) \in Nat
      /\ g[Len(list) + 1] = d /\ \A i \in 1 .. Len(list) : g[i] = list[i]
  BY <1>3, <1>4
<1>6. ASSUME NEW i \in 1 .. Len(g)
      PROVE  g[i].bank = FindBank(m, g[i].name) /\ g[i].bank # NotFound
  <2>1. CASE i = Len(list) + 1
    BY <1>5, <2>1
  <2>2. CASE i # Len(list) + 1
    <3>1. i \in 1 .. Len(list) /\ g[i] = list[i]
      BY <1>5, <2>2
    <3>2. QED
      BY <3>1 DEF Decoded
  <2>3. QED
    BY <2>1, <2>2
<1>7. Decoded(g, m)
  BY <1>5, <1>6 DEF Decoded
<1>8. QED
  BY <1>4, <1>7

\* The program begins without events and copies.
LEMMA EventInit == Init => EventInv
<1> SUFFICES ASSUME Init PROVE EventInv
  OBVIOUS
<1>1. buffer \in Stale /\ cache = <<>> /\ copy = Gone /\ copyCache = <<>> /\ phase = "idle"
  BY DEF Init
<1>2. DOMAIN buffer = Places
  BY <1>1, StaleIs
<1>3. Decoded(cache, Memory(event, buffer)) /\ Decoded(copyCache, Memory(copy, buffer))
  BY <1>1, NothingDecoded
<1>4. QED
  BY <1>1, <1>2, <1>3 DEF EventInv

\* A copy's memory is not the receive buffer.
LEMMA OwnMemory ==
  ASSUME NEW ev, NEW buf, NEW buf2, ev.fData = "own"
  PROVE  Memory(ev, buf2) = Memory(ev, buf) /\ \A e, names : Keeps(ev, buf, e, names) => Keeps(ev, buf2, e, names)
<1>1. Memory(ev, buf2) = Memory(ev, buf)
  BY DEF Memory
<1>2. QED
  BY <1>1 DEF Keeps

\* Whatever the copy is, it does not notice what happens to the buffer.
LEMMA CopyStays ==
  ASSUME NEW c, NEW l, NEW buf, NEW buf2, NEW e, NEW names,
         c = Gone \/ (c.fData = "own" /\ Keeps(c, buf, e, names)), c = Gone => l = <<>>,
         Decoded(l, Memory(c, buf))
  PROVE  /\ c = Gone \/ (c.fData = "own" /\ Keeps(c, buf2, e, names))
         /\ Decoded(l, Memory(c, buf2))
<1>1. CASE c = Gone
  BY <1>1, NothingDecoded
<1>2. CASE c.fData = "own" /\ Keeps(c, buf, e, names)
  BY <1>2, OwnMemory
<1>3. QED
  BY <1>1, <1>2

\* A new event is in the memory it was put in.
LEMMA HandleKeeps ==
  ASSUME EventInv, phase = "idle", NEW e \in Events, NEW ev, NEW buf, DOMAIN buf = Places,
         Keeps(ev, buf, e, BankNames(e)), Handle(e, ev, buf)
  PROVE  EventInv'
<1>1. /\ event' = SetBankList(ev, buf) /\ buffer' = buf /\ sent' = e /\ phase' = "process"
      /\ cache' = cache /\ copy' = copy /\ copyCache' = copyCache /\ copied' = copied
  BY DEF Handle
<1>2. Keeps(event', buffer', sent', BankNames(sent'))
  BY <1>1, SetBankListKeeps
<1>3. cache' = <<>>
  BY <1>1 DEF EventInv
<1>4. Decoded(cache', Memory(event', buffer'))
  BY <1>3, NothingDecoded
<1>5. /\ copy = Gone \/ (copy.fData = "own" /\ Keeps(copy, buffer, copied, Strdup(BankNames(copied))))
      /\ copy = Gone => copyCache = <<>>
      /\ Decoded(copyCache, Memory(copy, buffer))
  BY DEF EventInv
<1>6. /\ copy = Gone \/ (copy.fData = "own" /\ Keeps(copy, buf, copied, Strdup(BankNames(copied))))
      /\ Decoded(copyCache, Memory(copy, buf))
  BY <1>5, CopyStays
<1>7. /\ copy' = Gone \/ (copy'.fData = "own" /\ Keeps(copy', buffer', copied', Strdup(BankNames(copied'))))
      /\ copy' = Gone => copyCache' = <<>>
      /\ Decoded(copyCache', Memory(copy', buffer'))
  BY <1>1, <1>5, <1>6
<1>8. QED
  BY <1>1, <1>2, <1>3, <1>4, <1>7 DEF EventInv

\* The TMidasEvent of a new event, whichever memory it is in
LEMMA NewKeeps ==
  ASSUME NEW e \in Events, NEW m, Holds(m, e), NEW ev, NEW buf, DOMAIN ev = Fields,
         ev.size = Len(Encode(e)), ev.listed = FALSE, Memory(ev, buf) = m,
         ev.fData \in {"buffer", "own"}
  PROVE  Keeps(ev, buf, e, BankNames(e))
BY DEF Keeps

\* An event that comes into MIDAS's buffer, which held another
LEMMA ReceiveInv ==
  ASSUME EventInv, NEW e \in Events, Receive(e)
  PROVE  EventInv'
<1>1. PICK m : m = SwapBytes(Store(buffer, Encode(e)), Len(Encode(e)))
  OBVIOUS
<1>2. PICK ev : ev = [Gone EXCEPT !.fEventId = e.id, !.size = Len(Encode(e)), !.fData = "buffer"]
  OBVIOUS
<1>3. phase = "idle" /\ Handle(e, ev, m)
  BY <1>1, <1>2 DEF Receive, Arrives
<1>4. Holds(m, e) /\ DOMAIN m = Places
  <2>1. DOMAIN buffer = Places
    BY DEF EventInv
  <2>2. QED
    BY <1>1, <2>1, EventIs, SwapBytesIs
<1>5. /\ DOMAIN ev = Fields /\ ev.size = Len(Encode(e)) /\ ev.listed = FALSE
      /\ ev.fData = "buffer"
  BY <1>2 DEF Gone, Fields
<1>6. Memory(ev, m) = m
  BY <1>5 DEF Memory
<1>7. Keeps(ev, m, e, BankNames(e))
  BY <1>4, <1>5, <1>6, NewKeeps
<1>8. QED
  BY <1>3, <1>4, <1>7, HandleKeeps

\* An event that is read from a file
LEMMA ReadInv ==
  ASSUME EventInv, NEW e \in Events, NEW heap \in Stale, Read(e, heap)
  PROVE  EventInv'
<1>1. PICK m : m = SwapBytes(Store(heap, Encode(e)), Len(Encode(e)))
  OBVIOUS
<1>2. PICK ev : ev = [Gone EXCEPT !.fEventId = e.id, !.size = Len(Encode(e)), !.fData = "own",
                                  !.own = m]
  OBVIOUS
<1>3. phase = "idle" /\ Handle(e, ev, buffer)
  BY <1>1, <1>2 DEF Read, Arrives
<1>4. Holds(m, e)
  <2>1. DOMAIN heap = Places
    BY StaleIs
  <2>2. QED
    BY <1>1, <2>1, EventIs, SwapBytesIs
<1>5. /\ DOMAIN ev = Fields /\ ev.size = Len(Encode(e)) /\ ev.listed = FALSE
      /\ ev.fData = "own" /\ ev.own = m
  BY <1>2 DEF Gone, Fields
<1>6. Memory(ev, buffer) = m
  BY <1>5 DEF Memory
<1>7. Keeps(ev, buffer, e, BankNames(e))
  BY <1>4, <1>5, <1>6, NewKeeps
<1>8. DOMAIN buffer = Places
  BY DEF EventInv
<1>9. QED
  BY <1>3, <1>7, <1>8, HandleKeeps

\* A container asked for a bank looks for it in its own event.
LEMMA GetEventDataIs ==
  ASSUME NEW ev, NEW list, NEW name, NEW class, NEW after, NEW m, m = Memory(ev, buffer),
         Decoded(list, m), GetEventData(ev, list, name, class, after)
  PROVE  Decoded(after, m) /\ phase' \in {phase, "thrown"}
<1>1. PICK bank, d : bank = FindBank(m, name) /\ d = [name |-> name, class |-> class, bank |-> bank]
  OBVIOUS
<1>2. /\ after = list \/ (bank # NotFound /\ after = Append(list, d))
      /\ phase' \in {phase, "thrown"}
  BY <1>1 DEF GetEventData
<1>3. d.name = name /\ d.bank = bank
  BY <1>1
<1>4. CASE after = list
  BY <1>2, <1>4
<1>5. CASE bank # NotFound /\ after = Append(list, d)
  <2>1. Decoded(Append(list, d), m)
    BY <1>1, <1>3, <1>5, DecodedMore
  <2>2. QED
    BY <1>2, <1>5, <2>1
<1>6. QED
  BY <1>2, <1>4, <1>5

\* The analysis asks for a bank.
LEMMA RequestInv ==
  ASSUME EventInv, NEW n \in Names, NEW c \in Classes, Request(n, c)
  PROVE  EventInv'
<1>1. /\ phase = "process" /\ GetEventData(event, cache, n, c, cache')
      /\ buffer' = buffer /\ event' = event /\ copy' = copy /\ copyCache' = copyCache
      /\ sent' = sent /\ copied' = copied
  BY DEF Request
<1>2. Decoded(cache, Memory(event, buffer)) /\ Keeps(event, buffer, sent, BankNames(sent))
  BY <1>1 DEF EventInv
<1>3. Decoded(cache', Memory(event, buffer)) /\ phase' \in {phase, "thrown"}
  BY <1>1, <1>2, GetEventDataIs
<1>4. phase' # "idle"
  BY <1>1, <1>3
<1>5. /\ DOMAIN buffer = Places
      /\ copy = Gone \/ (copy.fData = "own" /\ Keeps(copy, buffer, copied, Strdup(BankNames(copied))))
      /\ copy = Gone => copyCache = <<>>
      /\ Decoded(copyCache, Memory(copy, buffer))
  BY DEF EventInv
<1>6. QED
  BY <1>1, <1>2, <1>3, <1>4, <1>5 DEF EventInv

\* A display's canvas asks for a bank.
LEMMA RequestCopyInv ==
  ASSUME EventInv, NEW n \in Names, NEW c \in Classes, RequestCopy(n, c)
  PROVE  EventInv'
<1>1. /\ copy # Gone /\ phase \in {"idle", "process"}
      /\ GetEventData(copy, copyCache, n, c, copyCache')
      /\ buffer' = buffer /\ event' = event /\ cache' = cache /\ copy' = copy
      /\ sent' = sent /\ copied' = copied
  BY DEF RequestCopy
<1>2. Decoded(copyCache, Memory(copy, buffer))
  BY DEF EventInv
<1>3. Decoded(copyCache', Memory(copy, buffer)) /\ phase' \in {phase, "thrown"}
  BY <1>1, <1>2, GetEventDataIs
<1>4. /\ DOMAIN buffer = Places
      /\ phase = "idle" => cache = <<>>
      /\ phase = "process" \/ cache # <<>> => Keeps(event, buffer, sent, BankNames(sent))
      /\ copy.fData = "own" /\ Keeps(copy, buffer, copied, Strdup(BankNames(copied)))
      /\ Decoded(cache, Memory(event, buffer))
  BY <1>1 DEF EventInv
<1>5. (phase' = "idle" => phase = "idle") /\ (phase' = "process" => phase = "process")
  BY <1>3
<1>6. QED
  BY <1>1, <1>3, <1>4, <1>5 DEF EventInv

\* The display's copy is made anew.
LEMMA CopyContainerInv ==
  ASSUME EventInv, CopyContainer
  PROVE  EventInv'
<1>1. /\ phase = "process" /\ buffer' = buffer /\ event' = event /\ cache' = cache
      /\ sent' = sent
  BY DEF CopyContainer
<1>2. /\ DOMAIN buffer = Places
      /\ Keeps(event, buffer, sent, BankNames(sent))
      /\ copy = Gone \/ (copy.fData = "own" /\ Keeps(copy, buffer, copied, Strdup(BankNames(copied))))
      /\ copy = Gone => copyCache = <<>>
      /\ Decoded(cache, Memory(event, buffer))
      /\ Decoded(copyCache, Memory(copy, buffer))
  BY <1>1 DEF EventInv
<1>3. CASE CopyCrashes(event)
  <2>1. phase' = "crashed" /\ copy' = copy /\ copied' = copied /\ copyCache' = copyCache
    BY <1>3 DEF CopyContainer
  <2>2. QED
    BY <1>1, <1>2, <2>1 DEF EventInv
<1>4. CASE ~CopyCrashes(event)
  <2>1. PICK heap \in Stale : copy' = Copy(event, buffer, heap)
    BY <1>4 DEF CopyContainer
  <2>2. copyCache' = <<>> /\ copied' = sent /\ phase' = phase
    BY <1>4 DEF CopyContainer
  <2>3. Keeps(copy', buffer, sent, Strdup(BankNames(sent))) /\ copy'.fData = "own"
    BY <1>2, <2>1, CopyKeeps
  <2>4. Decoded(copyCache', Memory(copy', buffer'))
    BY <2>2, NothingDecoded
  <2>5. QED
    BY <1>1, <1>2, <2>2, <2>3, <2>4 DEF EventInv
<1>5. QED
  BY <1>3, <1>4

\* The event loop is through with its event.
LEMMA FinishInv ==
  ASSUME EventInv, Finish
  PROVE  EventInv'
<1>1. /\ cache' = <<>> /\ phase' = "idle" /\ buffer' = buffer /\ copy' = copy
      /\ copyCache' = copyCache /\ copied' = copied
  BY DEF Finish, CleanupEvent
<1>2. /\ DOMAIN buffer = Places
      /\ copy = Gone \/ (copy.fData = "own" /\ Keeps(copy, buffer, copied, Strdup(BankNames(copied))))
      /\ copy = Gone => copyCache = <<>>
      /\ Decoded(copyCache, Memory(copy, buffer))
  BY DEF EventInv
<1>3. Decoded(cache', Memory(event', buffer'))
  BY <1>1, NothingDecoded
<1>4. QED
  BY <1>1, <1>2, <1>3 DEF EventInv

\* Every step keeps the invariant.
LEMMA EventNext == EventInv /\ [Next]_vars => EventInv'
<1> SUFFICES ASSUME EventInv, [Next]_vars PROVE EventInv'
  OBVIOUS
<1>1. CASE UNCHANGED vars
  BY <1>1 DEF vars, EventInv
<1>2. CASE \E e \in Events : Receive(e)
  BY <1>2, ReceiveInv
<1>3. CASE \E e \in Events : \E heap \in Stale : Read(e, heap)
  BY <1>3, ReadInv
<1>4. CASE \E n \in Names, c \in Classes : Request(n, c)
  BY <1>4, RequestInv
<1>5. CASE \E n \in Names, c \in Classes : RequestCopy(n, c)
  BY <1>5, RequestCopyInv
<1>6. CASE CopyContainer
  BY <1>6, CopyContainerInv
<1>7. CASE Finish
  BY <1>7, FinishInv
<1>8. CASE Done
  BY <1>1, <1>8 DEF Done
<1>9. QED
  BY <1>1, <1>2, <1>3, <1>4, <1>5, <1>6, <1>7, <1>8 DEF Next

\* The loop's event, the copy and everything decoded from them stay what they
\* are meant to be, through every order of events, requests and copies.
THEOREM EventsCorrect == Spec => []EventInv
<1>1. Init => EventInv
  BY EventInit
<1>2. EventInv /\ [Next]_vars => EventInv'
  BY EventNext
<1>3. QED
  BY <1>1, <1>2, PTL DEF Spec

\* The bank list that SetBankList makes, and the copy keeps, names the banks
\* the front-end wrote, in order, in either format and byte order.
THEOREM BankListsMatch == Spec => []BankListMatches
<1>1. EventInv => BankListMatches
  <2> SUFFICES ASSUME EventInv PROVE BankListMatches
    OBVIOUS
  <2>1. ASSUME phase = "process", event.listed PROVE event.fBankList = BankNames(sent)
    BY <2>1 DEF EventInv, Keeps
  <2>2. ASSUME copy.listed PROVE copy.fBankList = Strdup(BankNames(copied))
    <3>1. copy # Gone
      BY <2>2 DEF Gone
    <3>2. Keeps(copy, buffer, copied, Strdup(BankNames(copied)))
      BY <3>1 DEF EventInv
    <3>3. QED
      BY <2>2, <3>2 DEF Keeps
  <2>3. QED
    BY <2>1, <2>2 DEF BankListMatches
<1>2. QED
  BY <1>1, EventsCorrect, PTL

\* Decoded banks show what the front-end wrote.
LEMMA DecodedShow ==
  ASSUME NEW list, NEW m, Decoded(list, m), NEW e, list # <<>> => Possible(e) /\ Holds(m, e)
  PROVE  \A i \in DOMAIN list : Shows(list[i], m, e)
<1>1. PICK S : list \in Seq(S)
  BY DEF Decoded
<1>2. ASSUME NEW i \in DOMAIN list PROVE Shows(list[i], m, e)
  <2>1. i \in 1 .. Len(list) /\ list # <<>>
    BY <1>1, <1>2
  <2>2. PICK d : d = list[i]
    OBVIOUS
  <2>3. d.bank = FindBank(m, d.name)
    BY <2>1, <2>2 DEF Decoded
  <2>4. Shows(d, m, e)
    BY <2>1, <2>3, FindBankShows
  <2>5. QED
    BY <2>2, <2>4
<1>3. QED
  BY <1>2

\* What GetEventData returned to the analysis or a display shows, as long as it
\* is there, the type, length and bytes of the first bank of its name in its
\* own event.
THEOREM DecodedBanksMatch == Spec => []DecodedMatches
<1>1. EventInv => DecodedMatches
  <2> SUFFICES ASSUME EventInv PROVE DecodedMatches
    OBVIOUS
  <2>1. cache # <<>> => Possible(sent) /\ Holds(Memory(event, buffer), sent)
    BY EventIs DEF EventInv, Keeps
  <2>2. copyCache # <<>> => Possible(copied) /\ Holds(Memory(copy, buffer), copied)
    BY EventIs DEF EventInv, Keeps
  <2>3. Decoded(cache, Memory(event, buffer)) /\ Decoded(copyCache, Memory(copy, buffer))
    BY DEF EventInv
  <2>4. \A i \in DOMAIN cache : Shows(cache[i], Memory(event, buffer), sent)
    BY <2>1, <2>3, DecodedShow
  <2>5. \A i \in DOMAIN copyCache : Shows(copyCache[i], Memory(copy, buffer), copied)
    BY <2>2, <2>3, DecodedShow
  <2>6. QED
    BY <2>4, <2>5 DEF DecodedMatches
<1>2. QED
  BY <1>1, EventsCorrect, PTL

\* Decoded banks are banks of their event.
LEMMA DecodedOwn ==
  ASSUME NEW list, NEW m, Decoded(list, m), NEW e, Possible(e), Holds(m, e),
         ~(~e.wide /\ e.banks = <<>>)
  PROVE  \A i \in DOMAIN list : Contains(BankNames(e), list[i].name)
<1>1. PICK S : list \in Seq(S)
  BY DEF Decoded
<1>2. ASSUME NEW i \in DOMAIN list PROVE Contains(BankNames(e), list[i].name)
  <2>1. i \in 1 .. Len(list)
    BY <1>1, <1>2
  <2>2. PICK name : name = list[i].name
    OBVIOUS
  <2>3. FindBank(m, name) # NotFound
    BY <2>1, <2>2 DEF Decoded
  <2>4. Contains(BankNames(e), name)
    BY <2>3, FindBankOwn
  <2>5. QED
    BY <2>2, <2>4
<1>3. QED
  BY <1>2

\* FindBank finds no bank the event does not have, but in an event without
\* banks in the 16-bit format.
THEOREM BanksAreOwn == Spec => []NoInventedBanks
<1>1. EventInv => NoInventedBanks
  <2> SUFFICES ASSUME EventInv PROVE NoInventedBanks
    OBVIOUS
  <2>1. cache # <<>> => Possible(sent) /\ Holds(Memory(event, buffer), sent)
    BY EventIs DEF EventInv, Keeps
  <2>2. copyCache # <<>> => Possible(copied) /\ Holds(Memory(copy, buffer), copied)
    BY EventIs DEF EventInv, Keeps
  <2>3. Decoded(cache, Memory(event, buffer)) /\ Decoded(copyCache, Memory(copy, buffer))
    BY DEF EventInv
  <2>4. cache # <<>> => \/ ~sent.wide /\ sent.banks = <<>>
                        \/ \A i \in DOMAIN cache : Contains(BankNames(sent), cache[i].name)
    BY <2>1, <2>3, DecodedOwn
  <2>5. copyCache # <<>> => \/ ~copied.wide /\ copied.banks = <<>>
                            \/ \A i \in DOMAIN copyCache :
                                 Contains(BankNames(copied), copyCache[i].name)
    BY <2>2, <2>3, DecodedOwn
  <2>6. QED
    BY <2>4, <2>5 DEF NoInventedBanks
<1>2. QED
  BY <1>1, EventsCorrect, PTL
=============================================================================
