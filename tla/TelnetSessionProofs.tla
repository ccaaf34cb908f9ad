------------------------ MODULE TelnetSessionProofs ------------------------
(***************************************************************************)
(* One port's connection: the data fit the buffers and the arrays of the   *)
(* telnet layer, output that waits is watched, and the device's bytes go   *)
(* into the connection in order, whatever the client sends, however it is  *)
(* cut into reads, and whatever the sizes of the buffers, unless doubled   *)
(* IACs filled the buffer and moved its start.  The device gets exactly    *)
(* what the client meant, and, unless an answer was put into the middle of *)
(* a pair, the client finds exactly the data that were sent.               *)
(***************************************************************************)
EXTENDS TelnetSession, SequenceTheorems, WellFoundedInduction, TLAPS

(***************************************************************************)
(* Induction over the natural numbers, with a set for the predicate.       *)
(***************************************************************************)
LEMMA Induction ==
  ASSUME NEW S, 0 \in S, \A k \in Nat : k \in S => k + 1 \in S
  PROVE  \A k \in Nat : k \in S
<1>1. SUFFICES ASSUME NEW k \in Nat, k \notin S PROVE FALSE
  OBVIOUS
<1>2. PICK R, T : R = OpToRel(<, Nat) /\ T = {i \in Nat : i \notin S}
  OBVIOUS
<1>3. IsWellFoundedOn(R, Nat)
  BY <1>2, NatLessThanWellFounded, Zenon
<1>4. T \subseteq Nat /\ T # {}
  BY <1>1, <1>2
<1>5. PICK x \in T : \A y \in T : ~ (<<y, x>> \in R)
  BY <1>3, <1>4, WFMin, Zenon
<1>6. x \in Nat /\ x \notin S /\ x # 0
  BY <1>2, <1>5
<1>7. PICK y : y = x - 1
  OBVIOUS
<1>8. y \in Nat /\ y + 1 = x /\ y < x
  BY <1>6, <1>7
<1>9. y \in T
  BY <1>2, <1>6, <1>8
<1>10. <<y, x>> \in R
  BY <1>2, <1>6, <1>8 DEF OpToRel
<1>11. QED
  BY <1>5, <1>9, <1>10

(***************************************************************************)
(* FlattenSeq                                                              *)
(***************************************************************************)
\* f joins the first n of seqs, as FlattenSeq's function does.
Joins(f, seqs, n) ==
  f = [i \in 1 .. n |-> IF i = 1 THEN seqs[i] ELSE f[i - 1] \o seqs[i]]

\* One step of a join
LEMMA JoinsAt ==
  ASSUME NEW f, NEW seqs, NEW n, Joins(f, seqs, n), NEW i \in 1 .. n
  PROVE  f[i] = IF i = 1 THEN seqs[i] ELSE f[i - 1] \o seqs[i]
<1>1. PICK e : e = [j \in 1 .. n |-> IF j = 1 THEN seqs[j] ELSE f[j - 1] \o seqs[j]]
  OBVIOUS
<1>2. f = e
  BY <1>1 DEF Joins
<1>3. e[i] = IF i = 1 THEN seqs[i] ELSE f[i - 1] \o seqs[i]
  BY <1>1
<1>4. QED
  BY <1>2, <1>3

\* A join exists for every length.
LEMMA JoinsExist ==
  ASSUME NEW seqs
  PROVE  \A n \in Nat : \E f : Joins(f, seqs, n)
<1>1. PICK S : S = {n \in Nat : \E f : Joins(f, seqs, n)}
  OBVIOUS
<1>2. 0 \in S
  <2>1. PICK f : f = [i \in 1 .. 0 |-> 0]
    OBVIOUS
  <2>2. Joins(f, seqs, 0)
    BY <2>1 DEF Joins
  <2>3. QED
    BY <1>1, <2>2
<1>3. ASSUME NEW n \in Nat, n \in S PROVE n + 1 \in S
  <2>1. PICK f : Joins(f, seqs, n)
    BY <1>1, <1>3
  <2>2. PICK x : x = IF n = 0 THEN seqs[1] ELSE f[n] \o seqs[n + 1]
    OBVIOUS
  <2>3. PICK g : g = [i \in 1 .. n + 1 |-> IF i = n + 1 THEN x ELSE f[i]]
    OBVIOUS
  <2>4. ASSUME NEW i \in 1 .. n + 1
        PROVE  g[i] = IF i = 1 THEN seqs[i] ELSE g[i - 1] \o seqs[i]
    <3>1. CASE i = n + 1
      BY <1>3, <2>2, <2>3, <2>4, <3>1
    <3>2. CASE i # n + 1
      <4>1. i \in 1 .. n /\ g[i] = f[i] /\ (i # 1 => g[i - 1] = f[i - 1])
        BY <1>3, <2>3, <2>4, <3>2
      <4>2. f[i] = IF i = 1 THEN seqs[i] ELSE f[i - 1] \o seqs[i]
        BY <2>1, <4>1 DEF Joins
      <4>3. QED
        BY <4>1, <4>2
    <3>3. QED
      BY <3>1, <3>2
  <2>5. Joins(g, seqs, n + 1)
    BY <2>3, <2>4 DEF Joins
  <2>6. QED
    BY <1>1, <1>3, <2>5
<1>4. \A n \in Nat : n \in S
  BY <1>2, <1>3, Induction
<1>5. QED
  BY <1>1, <1>4

\* FlattenSeq is what such a function gives.
LEMMA FlattenIs ==
  ASSUME NEW seqs, Len(seqs) \in Nat \ {0}
  PROVE  \E f : Joins(f, seqs, Len(seqs)) /\ FlattenSeq(seqs) = f[Len(seqs)]
<1>1. \E f : Joins(f, seqs, Len(seqs))
  BY JoinsExist
<1>2. PICK f : f = CHOOSE g : Joins(g, seqs, Len(seqs))
  OBVIOUS
<1>3. Joins(f, seqs, Len(seqs))
  BY <1>1, <1>2
<1>4. FlattenSeq(seqs) = f[Len(seqs)]
  BY <1>2 DEF FlattenSeq, Joins
<1>5. QED
  BY <1>3, <1>4

\* Such functions agree where both are defined.
LEMMA JoinsAgree ==
  ASSUME NEW f, NEW s, NEW m \in Nat, Joins(f, s, m),
         NEW g, NEW t, NEW n \in Nat, Joins(g, t, n),
         m <= n, \A i \in 1 .. m : s[i] = t[i]
  PROVE  \A i \in 1 .. m : f[i] = g[i]
<1>1. PICK S : S = {k \in Nat : k \in 1 .. m => f[k] = g[k]}
  OBVIOUS
<1>2. 0 \in S
  BY <1>1
<1>3. ASSUME NEW k \in Nat, k \in S PROVE k + 1 \in S
  <2>1. SUFFICES ASSUME k + 1 \in 1 .. m PROVE f[k + 1] = g[k + 1]
    BY <1>1, <1>3
  <2>2. /\ f[k + 1] = IF k + 1 = 1 THEN s[k + 1] ELSE f[k + 1 - 1] \o s[k + 1]
        /\ g[k + 1] = IF k + 1 = 1 THEN t[k + 1] ELSE g[k + 1 - 1] \o t[k + 1]
    <3>1. k + 1 \in 1 .. n
      BY <2>1
    <3>2. QED
      BY <2>1, <3>1, JoinsAt
  <2>3. s[k + 1] = t[k + 1] /\ k + 1 - 1 = k /\ (k + 1 # 1 => f[k] = g[k])
    BY <1>1, <1>3, <2>1
  <2>4. QED
    BY <2>2, <2>3
<1>4. \A k \in Nat : k \in S
  BY <1>2, <1>3, Induction
<1>5. QED
  BY <1>1, <1>4

\* Joining one sequence more
LEMMA FlattenAppend ==
  ASSUME NEW B, NEW seqs \in Seq(Seq(B)), NEW x \in Seq(B)
  PROVE  FlattenSeq(<<>>) = <<>> /\ FlattenSeq(Append(seqs, x)) = FlattenSeq(seqs) \o x
<1>1. FlattenSeq(<<>>) = <<>>
  BY DEF FlattenSeq
<1>2. PICK t, m, n : t = Append(seqs, x) /\ m = Len(seqs) /\ n = m + 1
  OBVIOUS
<1>3. /\ m \in Nat /\ n \in Nat /\ n \in 1 .. n /\ n - 1 = m /\ Len(t) = n /\ t[n] = x
      /\ \A i \in 1 .. m : seqs[i] = t[i]
  BY <1>2
<1>4. PICK g : Joins(g, t, n) /\ FlattenSeq(t) = g[n]
  <2>1. Len(t) \in Nat \ {0}
    BY <1>2, <1>3
  <2>2. QED
    BY <1>3, <2>1, FlattenIs, Zenon
<1>5. g[n] = IF n = 1 THEN t[n] ELSE g[n - 1] \o t[n]
  BY <1>3, <1>4, JoinsAt
<1>6. CASE seqs = <<>>
  <2>1. n = 1
    BY <1>2, <1>6
  <2>2. <<>> \o x = x
    BY ConcatEmptySeq, Zenon
  <2>3. FlattenSeq(t) = x
    BY <1>3, <1>4, <1>5, <2>1
  <2>4. QED
    BY <1>1, <1>2, <1>6, <2>2, <2>3, Zenon
<1>7. CASE seqs # <<>>
  <2>1. m \in Nat \ {0} /\ n # 1 /\ m \in 1 .. m /\ m <= n
    BY <1>2, <1>3, <1>7
  <2>2. PICK f : Joins(f, seqs, m) /\ FlattenSeq(seqs) = f[m]
    BY <1>2, <2>1, FlattenIs, Zenon
  <2>3. f[m] = g[m]
    BY <1>3, <1>4, <2>1, <2>2, JoinsAgree
  <2>4. g[n] = g[m] \o x
    BY <1>3, <1>5, <2>1
  <2>5. QED
    BY <1>1, <1>2, <1>4, <2>2, <2>3, <2>4, Zenon
<1>8. QED
  BY <1>6, <1>7

\* What holds of the empty sequence, and of a sequence with one more element
\* when it holds of the sequence, holds of all.
LEMMA SeqInduction ==
  ASSUME NEW B, NEW S, <<>> \in S,
         \A s \in Seq(B), b \in B : s \in S => Append(s, b) \in S
  PROVE  \A s \in Seq(B) : s \in S
<1>1. PICK T : T = {k \in Nat : \A s \in Seq(B) : Len(s) = k => s \in S}
  OBVIOUS
<1>2. 0 \in T
  <2>1. \A s \in Seq(B) : Len(s) = 0 => s = <<>>
    BY EmptySeq
  <2>2. QED
    BY <1>1, <2>1
<1>3. ASSUME NEW k \in Nat, k \in T PROVE k + 1 \in T
  <2>1. SUFFICES ASSUME NEW s \in Seq(B), Len(s) = k + 1 PROVE s \in S
    BY <1>1, <1>3
  <2>2. s # <<>>
    BY <1>3, <2>1
  <2>3. PICK r \in Seq(B), b \in B : s = Append(r, b)
    BY <2>2, SequenceEmptyOrAppend, Zenon
  <2>4. Len(r) = k
    BY <1>3, <2>1, <2>3
  <2>5. r \in S
    BY <1>1, <1>3, <2>4
  <2>6. QED
    BY <2>3, <2>5, Zenon
<1>4. \A k \in Nat : k \in T
  BY <1>2, <1>3, Induction
<1>5. SUFFICES ASSUME NEW s \in Seq(B) PROVE s \in S
  OBVIOUS
<1>6. Len(s) \in Nat
  OBVIOUS
<1>7. Len(s) \in T
  BY <1>4, <1>6
<1>8. QED
  BY <1>1, <1>7
-----------------------------------------------------------------------------
(***************************************************************************)
(* Doubled                                                                 *)
(***************************************************************************)
Twice(b) == IF b = IAC THEN <<IAC, IAC>> ELSE <<b>>

\* A byte becomes one or two.
LEMMA TwiceIs ==
  ASSUME NEW b \in Byte
  PROVE  Twice(b) \in Seq(Byte) /\ Len(Twice(b)) <= 2 /\ Len(Twice(b)) \in Nat
<1>1. IAC \in Byte
  BY DEF IAC, Byte
<1>2. PICK i : i = IAC
  OBVIOUS
<1>3. /\ <<i, i>> \in Seq(Byte) /\ Len(<<i, i>>) = 2
      /\ <<b>> \in Seq(Byte) /\ Len(<<b>>) = 1
  BY <1>1, <1>2
<1>4. QED
  BY <1>2, <1>3 DEF Twice

\* Nothing stays nothing.
LEMMA DoubledEmpty == Doubled(<<>>) = <<>>
<1>1. [i \in DOMAIN <<>> |-> Twice(<<>>[i])] = <<>>
  OBVIOUS
<1>2. QED
  BY <1>1 DEF Doubled, FlattenSeq, Twice

\* One byte more is doubled behind the others.
LEMMA DoubledAppend ==
  ASSUME NEW s \in Seq(Byte), NEW b \in Byte
  PROVE  Doubled(Append(s, b)) = Doubled(s) \o Twice(b)
<1>1. PICK u : u = [i \in DOMAIN s |-> Twice(s[i])]
  OBVIOUS
<1>2. u \in Seq(Seq(Byte)) /\ Len(u) = Len(s)
  <2>1. \A i \in DOMAIN s : Twice(s[i]) \in Seq(Byte)
    BY TwiceIs
  <2>2. PICK B : B = Seq(Byte)
    OBVIOUS
  <2>3. DOMAIN s = 1 .. Len(s) /\ Len(s) \in Nat
    OBVIOUS
  <2>4. u = [i \in 1 .. Len(s) |-> Twice(s[i])] /\ \A i \in 1 .. Len(s) : Twice(s[i]) \in B
    BY <1>1, <2>1, <2>2, <2>3, Zenon
  <2>5. u \in Seq(B) /\ Len(u) = Len(s)
    BY <2>3, <2>4
  <2>6. QED
    BY <2>2, <2>5, Zenon
<1>3. PICK t : t = Append(s, b)
  OBVIOUS
<1>4. /\ DOMAIN t = 1 .. Len(s) + 1 /\ t[Len(s) + 1] = b /\ Len(s) \in Nat
      /\ DOMAIN s = 1 .. Len(s)
      /\ \A i \in 1 .. Len(s) : t[i] = s[i]
  BY <1>3
<1>5. [i \in DOMAIN t |-> Twice(t[i])] = Append(u, Twice(b))
  <2>1. PICK v : v = [i \in DOMAIN t |-> Twice(t[i])]
    OBVIOUS
  <2>2. PICK w : w = Append(u, Twice(b))
    OBVIOUS
  <2>3. Twice(b) \in Seq(Byte)
    BY TwiceIs
  <2>4. /\ w \in Seq(Seq(Byte)) /\ Len(w) = Len(s) + 1 /\ w[Len(s) + 1] = Twice(b)
        /\ \A i \in 1 .. Len(s) : w[i] = u[i]
    BY <1>2, <1>4, <2>2, <2>3
  <2>5. /\ DOMAIN v = 1 .. Len(s) + 1
        /\ \A i \in 1 .. Len(s) + 1 : v[i] = w[i]
    BY <1>1, <1>4, <2>1, <2>4
  <2>6. v = w
    BY <2>1, <2>4, <2>5
  <2>7. QED
    BY <2>1, <2>2, <2>6
<1>6. Doubled(s) = FlattenSeq(u)
  BY <1>1 DEF Doubled, Twice
<1>7. Doubled(t) = FlattenSeq(Append(u, Twice(b)))
  <2>1. Doubled(t) = FlattenSeq([i \in DOMAIN t |-> Twice(t[i])])
    BY DEF Doubled, Twice
  <2>2. QED
    BY <1>5, <2>1, Zenon
<1>8. FlattenSeq(Append(u, Twice(b))) = FlattenSeq(u) \o Twice(b)
  BY <1>2, TwiceIs, FlattenAppend, Zenon
<1>9. QED
  BY <1>3, <1>6, <1>7, <1>8, Zenon

\* No more than two bytes for each
LEMMA DoubledIs ==
  ASSUME NEW s \in Seq(Byte)
  PROVE  Doubled(s) \in Seq(Byte) /\ Len(Doubled(s)) <= 2 * Len(s)
<1>1. PICK S : S = {r \in Seq(Byte) :
                      Doubled(r) \in Seq(Byte) /\ Len(Doubled(r)) <= 2 * Len(r)}
  OBVIOUS
<1>2. <<>> \in S
  <2>1. PICK e : e = <<>>
    OBVIOUS
  <2>2. e \in Seq(Byte) /\ Len(e) = 0
    BY <2>1
  <2>3. Doubled(e) = e
    BY <2>1, DoubledEmpty, Zenon
  <2>4. e \in S
    <3>1. Doubled(e) \in Seq(Byte) /\ Len(Doubled(e)) <= 2 * Len(e)
      BY <2>2, <2>3
    <3>2. QED
      BY <1>1, <2>2, <3>1, Zenon
  <2>5. QED
    BY <2>1, <2>4
<1>3. ASSUME NEW r \in Seq(Byte), NEW b \in Byte, r \in S PROVE Append(r, b) \in S
  <2>1. Doubled(Append(r, b)) = Doubled(r) \o Twice(b)
    BY DoubledAppend, Zenon
  <2>2. PICK d, w : d = Doubled(r) /\ w = Twice(b)
    OBVIOUS
  <2>3. d \in Seq(Byte) /\ Len(d) <= 2 * Len(r) /\ w \in Seq(Byte) /\ Len(w) <= 2
    BY <1>1, <1>3, <2>2, TwiceIs
  <2>4. d \o w \in Seq(Byte) /\ Len(d \o w) <= 2 * (Len(r) + 1)
    BY <2>3
  <2>5. Append(r, b) \in Seq(Byte) /\ Len(Append(r, b)) = Len(r) + 1
    OBVIOUS
  <2>6. QED
    BY <1>1, <2>1, <2>2, <2>4, <2>5
<1>4. \A r \in Seq(Byte) : r \in S
  BY <1>2, <1>3, SeqInduction
<1>5. QED
  BY <1>1, <1>4

\* Doubling byte by byte
LEMMA DoubledConcat ==
  ASSUME NEW s \in Seq(Byte), NEW t \in Seq(Byte)
  PROVE  Doubled(s \o t) = Doubled(s) \o Doubled(t)
<1>1. PICK S : S = {r \in Seq(Byte) : Doubled(s \o r) = Doubled(s) \o Doubled(r)}
  OBVIOUS
<1>2. Doubled(s) \in Seq(Byte)
  BY DoubledIs
<1>3. <<>> \in S
  <2>1. Doubled(<<>>) = <<>>
    BY DoubledEmpty
  <2>2. s \o <<>> = s /\ Doubled(s) \o <<>> = Doubled(s)
    BY <1>2, ConcatEmptySeq, Zenon
  <2>3. <<>> \in Seq(Byte)
    OBVIOUS
  <2>4. QED
    BY <1>1, <2>1, <2>2, <2>3, Zenon
<1>4. ASSUME NEW r \in Seq(Byte), NEW b \in Byte, r \in S PROVE Append(r, b) \in S
  <2>1. Doubled(s \o r) = Doubled(s) \o Doubled(r)
    BY <1>1, <1>4
  <2>2. s \o Append(r, b) = Append(s \o r, b) /\ s \o r \in Seq(Byte)
    OBVIOUS
  <2>3. Doubled(Append(s \o r, b)) = Doubled(s \o r) \o Twice(b)
    BY <2>2, DoubledAppend, Zenon
  <2>4. Doubled(Append(r, b)) = Doubled(r) \o Twice(b)
    BY DoubledAppend, Zenon
  <2>5. Doubled(r) \in Seq(Byte) /\ Twice(b) \in Seq(Byte)
    BY DoubledIs, TwiceIs
  <2>6. (Doubled(s) \o Doubled(r)) \o Twice(b) = Doubled(s) \o (Doubled(r) \o Twice(b))
    BY <1>2, <2>5, ConcatAssociative, SMTT(30)
  <2>7. Append(r, b) \in Seq(Byte)
    OBVIOUS
  <2>8. Doubled(s \o Append(r, b)) = Doubled(s) \o Doubled(Append(r, b))
    BY <2>1, <2>2, <2>3, <2>4, <2>6, Zenon
  <2>9. QED
    BY <1>1, <2>7, <2>8, Zenon
<1>5. \A r \in Seq(Byte) : r \in S
  BY <1>3, <1>4, SeqInduction
<1>6. QED
  BY <1>1, <1>5
-----------------------------------------------------------------------------
(***************************************************************************)
(* The telnet layer's data fit its arrays, whatever bytes come.            *)
(***************************************************************************)
TnData ==
  [cmd : Seq(Byte), suboption_iac : BOOLEAN, out : Seq(Byte), error : BOOLEAN,
   sent_will : SUBSET KnownOptions, sent_do : SUBSET KnownOptions,
   is_2217 : BOOLEAN, modemstate : Byte, modemstate_mask : Byte, crash : BOOLEAN]

\* The second byte of a command that has one is SB, WILL, WONT, DO or DONT.
CmdFits(cmd) ==
  /\ cmd \in Seq(Byte) /\ Len(cmd) <= MAX_TELNET_CMD_SIZE + 1
  /\ Len(cmd) >= 2 => cmd[2] \in SB .. DONT

OutFits(out) == out \in Seq(Byte) /\ Len(out) <= MAX_TELNET_CMD_XMIT_BUF

Fits(d) == d \in TnData /\ CmdFits(d.cmd) /\ OutFits(d.out)

\* telnet_cmd_send
LEMMA CmdSendFits ==
  ASSUME NEW d, Fits(d), NEW bytes \in Seq(Byte)
  PROVE  Fits(CmdSend(d, bytes))
<1>1. d \in TnData /\ CmdFits(d.cmd) /\ OutFits(d.out)
  BY DEF Fits
<1>2. d.out \in Seq(Byte) /\ Len(d.out) \in Nat /\ Len(bytes) \in Nat
  BY <1>1 DEF OutFits
<1>3. MAX_TELNET_CMD_XMIT_BUF \in Nat
  BY TelnetAssumption
<1>4. CASE Len(bytes) > MAX_TELNET_CMD_XMIT_BUF - Len(d.out)
  <2>1. PICK k : k = [d EXCEPT !.error = TRUE]
    OBVIOUS
  <2>2. k \in TnData /\ k.cmd = d.cmd /\ k.out = d.out
    BY <1>1, <2>1 DEF TnData
  <2>3. QED
    BY <1>1, <1>4, <2>1, <2>2 DEF CmdSend, Fits
<1>5. CASE ~(Len(bytes) > MAX_TELNET_CMD_XMIT_BUF - Len(d.out))
  <2>1. PICK o : o = d.out \o bytes
    OBVIOUS
  <2>2. OutFits(o)
    BY <1>2, <1>3, <1>5, <2>1 DEF OutFits
  <2>3. PICK k : k = [d EXCEPT !.out = o]
    OBVIOUS
  <2>4. k \in TnData /\ k.cmd = d.cmd /\ k.out = o
    BY <1>1, <2>2, <2>3 DEF TnData, OutFits
  <2>5. CmdSend(d, bytes) = k
    BY <1>5, <2>1, <2>3 DEF CmdSend
  <2>6. QED
    BY <1>1, <2>2, <2>4, <2>5 DEF Fits
<1>6. QED
  BY <1>4, <1>5

\* telnet_send_option and send_i
LEMMA SendOptionFits ==
  ASSUME NEW d, Fits(d), NEW option \in Seq(Byte)
  PROVE  Fits(SendOption(d, option))
<1>1. IAC \in Byte /\ SB \in Byte /\ SE \in Byte
  BY DEF IAC, SB, SE, Byte
<1>2. PICK x, y, z : x = <<IAC, SB>> /\ y = Doubled(option) /\ z = <<IAC, SE>>
  OBVIOUS
<1>3. x \in Seq(Byte) /\ y \in Seq(Byte) /\ z \in Seq(Byte)
  BY <1>1, <1>2, DoubledIs
<1>4. x \o y \o z \in Seq(Byte)
  BY <1>3
<1>5. Fits(CmdSend(d, x \o y \o z))
  BY <1>4, CmdSendFits
<1>6. QED
  BY <1>2, <1>5 DEF SendOption

\* send_i
LEMMA SendIFits ==
  ASSUME NEW d, Fits(d), NEW type \in Byte, NEW option \in Byte
  PROVE  Fits(SendI(d, type, option))
<1>1. IAC \in Byte
  BY DEF IAC, Byte
<1>2. <<IAC, type, option>> \in Seq(Byte)
  BY <1>1
<1>3. QED
  BY <1>2, CmdSendFits DEF SendI

\* com_port_will
LEMMA ComPortWillFits ==
  ASSUME NEW d, Fits(d), NEW modem \in Byte
  PROVE  Fits(ComPortWill(d, modem))
<1>1. PICK k : k = [d EXCEPT !.is_2217 = TRUE, !.modemstate = modem,
                             !.modemstate_mask = 255]
  OBVIOUS
<1>2. 255 \in Byte /\ COM_PORT \in Byte /\ 107 \in Byte
  BY DEF Byte, COM_PORT
<1>3. k \in TnData /\ k.cmd = d.cmd /\ k.out = d.out
  <2>1. PICK i : i = [d EXCEPT !.is_2217 = TRUE]
    OBVIOUS
  <2>2. i \in TnData /\ i.cmd = d.cmd /\ i.out = d.out
    BY <2>1 DEF Fits, TnData
  <2>3. PICK j : j = [i EXCEPT !.modemstate = modem]
    OBVIOUS
  <2>4. j \in TnData /\ j.cmd = d.cmd /\ j.out = d.out
    BY <2>2, <2>3 DEF TnData
  <2>5. k = [j EXCEPT !.modemstate_mask = 255]
    BY <1>1, <2>1, <2>3
  <2>6. QED
    BY <1>2, <2>4, <2>5, ZenonT(30) DEF TnData
<1>4. Fits(k)
  BY <1>3 DEF Fits
<1>5. <<COM_PORT, 107, modem>> \in Seq(Byte)
  BY <1>2
<1>6. QED
  BY <1>1, <1>4, <1>5, SendOptionFits DEF ComPortWill

\* handle_telnet_cmd for WILL, WONT, DO and DONT
LEMMA NegotiateFits ==
  ASSUME NEW d, Fits(d), NEW type \in WILL .. DONT, NEW option \in Byte,
         NEW modem \in Byte
  PROVE  Fits(Negotiate(d, type, option, modem))
<1>1. CASE type \in {WILL, WONT} /\ option \in d.sent_do
  <2>1. PICK k : k = [d EXCEPT !.sent_do = @ \ {option}]
    OBVIOUS
  <2>2. k \in TnData /\ k.cmd = d.cmd /\ k.out = d.out
    BY <2>1 DEF Fits, TnData
  <2>3. QED
    BY <1>1, <2>1, <2>2 DEF Negotiate, Fits
<1>2. CASE /\ ~(type \in {WILL, WONT} /\ option \in d.sent_do)
           /\ type \in {DO, DONT} /\ option \in d.sent_will
  <2>1. PICK k : k = [d EXCEPT !.sent_will = @ \ {option}]
    OBVIOUS
  <2>2. k \in TnData /\ k.cmd = d.cmd /\ k.out = d.out
    BY <2>1 DEF Fits, TnData
  <2>3. QED
    BY <1>2, <2>1, <2>2 DEF Negotiate, Fits
<1>3. CASE /\ ~(type \in {WILL, WONT} /\ option \in d.sent_do)
           /\ ~(type \in {DO, DONT} /\ option \in d.sent_will)
  <2>1. PICK a : a = Answer(type, option)
    OBVIOUS
  <2>2. a \in Byte
    <3>1. type \in {WILL, WONT, DO, DONT}
      BY DEF WILL, WONT, DO, DONT
    <3>2. DO \in Byte /\ DONT \in Byte /\ WILL \in Byte /\ WONT \in Byte
      BY DEF DO, DONT, WILL, WONT, Byte
    <3>3. a \in {DO, DONT, WILL, WONT}
      BY <2>1, <3>1 DEF Answer, WILL, WONT, DO, DONT
    <3>4. QED
      BY <3>2, <3>3
  <2>3. PICK k : k = IF <<type, option>> = <<WILL, COM_PORT>> /\ allow_2217
                     THEN ComPortWill(d, modem) ELSE d
    OBVIOUS
  <2>4. Fits(k)
    BY <2>3, ComPortWillFits
  <2>5. Negotiate(d, type, option, modem) = SendI(k, a, option)
    BY <1>3, <2>1, <2>3 DEF Negotiate
  <2>6. QED
    BY <2>2, <2>4, <2>5, SendIFits
<1>4. QED
  BY <1>1, <1>2, <1>3

\* com_port_handler
LEMMA ComPortHandlerFits ==
  ASSUME NEW d, Fits(d), NEW option \in Seq(Byte)
  PROVE  Fits(ComPortHandler(d, option))
<1>1. PICK len, cmd : len = Len(option) /\ cmd = option[2]
  OBVIOUS
<1>2. /\ len \in Nat /\ COM_PORT \in Byte
      /\ \A i \in 1 .. len : option[i] \in Byte
  <2>1. COM_PORT \in Byte
    BY DEF COM_PORT, Byte
  <2>2. QED
    BY <1>1, <2>1
<1>3. ASSUME NEW bytes \in Seq(Byte), cmd \in 0 .. 12
      PROVE  Fits(SendOption(d, <<COM_PORT, 100 + cmd>> \o bytes))
  <2>1. 100 + cmd \in Byte
    BY <1>3 DEF Byte
  <2>2. <<COM_PORT, 100 + cmd>> \o bytes \in Seq(Byte)
    <3>1. <<COM_PORT, 100 + cmd>> \in Seq(Byte)
      BY <1>2, <2>1
    <3>2. QED
      BY <3>1, ConcatProperties, Zenon
  <2>3. QED
    BY <2>2, SendOptionFits
<1>4. CASE len >= 2 /\ cmd = 0
  <2>1. Signature \in Seq(Byte)
    BY DEF Signature, Byte
  <2>2. Fits(SendOption(d, <<COM_PORT, 100 + cmd>> \o Signature))
    BY <1>3, <1>4, <2>1, SMTT(30)
  <2>3. QED
    BY <1>1, <1>4, <2>2 DEF ComPortHandler
<1>5. CASE len >= 6 /\ cmd = 1
  <2>1. SubSeq(option, 3, 6) \in Seq(Byte)
    BY <1>1, <1>5
  <2>2. Fits(SendOption(d, <<COM_PORT, 100 + cmd>> \o SubSeq(option, 3, 6)))
    <3>1. cmd \in 0 .. 12
      BY <1>5
    <3>2. QED
      BY <1>3, <2>1, <3>1, Zenon
  <2>3. QED
    BY <1>1, <1>5, <2>2 DEF ComPortHandler
<1>6. CASE len >= 3 /\ cmd \in {2, 3, 4, 5, 10, 11, 12}
  <2>1. option[3] \in Byte
    BY <1>2, <1>6
  <2>2. <<option[3]>> \in Seq(Byte)
    BY <2>1
  <2>3. PICK k : k = SendOption(d, <<COM_PORT, 100 + cmd>> \o <<option[3]>>)
    OBVIOUS
  <2>4. Fits(k)
    <3>1. cmd \in 0 .. 12
      BY <1>6
    <3>2. QED
      BY <1>3, <2>2, <2>3, <3>1, Zenon
  <2>5. PICK j : j = [k EXCEPT !.modemstate_mask = option[3]]
    OBVIOUS
  <2>6. j \in TnData /\ j.cmd = k.cmd /\ j.out = k.out
    BY <2>1, <2>4, <2>5 DEF Fits, TnData
  <2>7. Fits(j)
    BY <2>4, <2>6 DEF Fits
  <2>8. ComPortHandler(d, option) \in {d, j, k}
    BY <1>1, <1>2, <1>6, <2>3, <2>5 DEF ComPortHandler
  <2>9. QED
    BY <2>4, <2>7, <2>8
<1>7. CASE len >= 2 /\ cmd \in {8, 9}
  <2>1. <<>> \in Seq(Byte)
    OBVIOUS
  <2>2. Fits(SendOption(d, <<COM_PORT, 100 + cmd>> \o <<>>))
    <3>1. cmd \in 0 .. 12
      BY <1>7
    <3>2. QED
      BY <1>3, <2>1, <3>1, Zenon
  <2>3. QED
    BY <1>1, <1>7, <2>2 DEF ComPortHandler
<1>8. CASE /\ ~(len >= 2 /\ cmd = 0) /\ ~(len >= 6 /\ cmd = 1)
           /\ ~(len >= 3 /\ cmd \in {2, 3, 4, 5, 10, 11, 12})
           /\ ~(len >= 2 /\ cmd \in {8, 9})
  <2>1. ComPortHandler(d, option) = d
    BY <1>1, <1>8 DEF ComPortHandler
  <2>2. QED
    BY <2>1
<1>9. QED
  BY <1>4, <1>5, <1>6, <1>7, <1>8

\* handle_telnet_cmd for a suboption
LEMMA HandleOptionFits ==
  ASSUME NEW d, Fits(d), NEW option \in Seq(Byte)
  PROVE  Fits(HandleOption(d, option))
<1>1. PICK k : k = [d EXCEPT !.crash = TRUE]
  OBVIOUS
<1>2. k \in TnData /\ k.cmd = d.cmd /\ k.out = d.out
  BY <1>1 DEF Fits, TnData
<1>3. Fits(k)
  BY <1>2 DEF Fits
<1>4. HandleOption(d, option) \in {d, k, ComPortHandler(d, option)}
  BY <1>1 DEF HandleOption
<1>5. QED
  BY <1>3, <1>4, ComPortHandlerFits

\* A byte of a suboption goes into the array.
LEMMA StoreFits ==
  ASSUME NEW cmd, CmdFits(cmd), Len(cmd) >= 2, NEW b \in Byte
  PROVE  CmdFits(Store(cmd, b))
<1>1. /\ cmd \in Seq(Byte) /\ Len(cmd) \in Nat /\ Len(cmd) <= MAX_TELNET_CMD_SIZE + 1
      /\ cmd[2] \in SB .. DONT
      /\ MAX_TELNET_CMD_SIZE \in Nat /\ MAX_TELNET_CMD_SIZE > 2
  BY TelnetAssumption DEF CmdFits
<1>2. CASE Len(cmd) > MAX_TELNET_CMD_SIZE
  <2>1. PICK s : s = SubSeq(cmd, 1, MAX_TELNET_CMD_SIZE)
    OBVIOUS
  <2>2. s \in Seq(Byte) /\ Len(s) = MAX_TELNET_CMD_SIZE /\ s[2] = cmd[2]
    BY <1>1, <1>2, <2>1
  <2>3. PICK r : r = Append(s, b)
    OBVIOUS
  <2>4. r \in Seq(Byte) /\ Len(r) = MAX_TELNET_CMD_SIZE + 1 /\ r[2] = cmd[2]
    BY <1>1, <2>2, <2>3
  <2>5. Store(cmd, b) = r
    BY <1>2, <2>1, <2>3 DEF Store
  <2>6. QED
    BY <1>1, <2>4, <2>5 DEF CmdFits
<1>3. CASE ~(Len(cmd) > MAX_TELNET_CMD_SIZE)
  <2>1. PICK r : r = Append(cmd, b)
    OBVIOUS
  <2>2. r \in Seq(Byte) /\ Len(r) = Len(cmd) + 1 /\ r[2] = cmd[2]
    BY <1>1, <2>1
  <2>3. Store(cmd, b) = r
    BY <1>3, <2>1 DEF Store
  <2>4. QED
    BY <1>1, <1>3, <2>2, <2>3 DEF CmdFits
<1>4. QED
  BY <1>2, <1>3

\* A new value for the current command
LEMMA CmdSet ==
  ASSUME NEW d, Fits(d), NEW cmd, CmdFits(cmd)
  PROVE  Fits([d EXCEPT !.cmd = cmd])
<1>1. PICK k : k = [d EXCEPT !.cmd = cmd]
  OBVIOUS
<1>2. k \in TnData /\ k.cmd = cmd /\ k.out = d.out
  BY <1>1 DEF Fits, TnData, CmdFits
<1>3. QED
  BY <1>1, <1>2 DEF Fits

\* Setting suboption_iac disturbs nothing else.
LEMMA IacSet ==
  ASSUME NEW d, Fits(d), NEW iac \in BOOLEAN
  PROVE  /\ Fits([d EXCEPT !.suboption_iac = iac])
         /\ [d EXCEPT !.suboption_iac = iac].cmd = d.cmd
<1>1. PICK k : k = [d EXCEPT !.suboption_iac = iac]
  OBVIOUS
<1>2. k \in TnData /\ k.cmd = d.cmd /\ k.out = d.out
  BY <1>1 DEF Fits, TnData, CmdFits
<1>3. QED
  BY <1>1, <1>2 DEF Fits

\* The current command is empty.
LEMMA NoCmd == CmdFits(<<>>)
<1>1. <<>> \in Seq(Byte) /\ Len(<<>>) = 0
  BY EmptySeq, Zenon
<1>2. 0 <= MAX_TELNET_CMD_SIZE + 1 /\ ~(0 >= 2)
  BY TelnetAssumption
<1>3. QED
  BY <1>1, <1>2 DEF CmdFits

\* process_telnet_data, a byte of a suboption
LEMMA SuboptionFits ==
  ASSUME NEW d, Fits(d), Len(d.cmd) >= 3, NEW b \in Byte
  PROVE  Fits(SuboptionByte(d, b))
<1>1. /\ d \in TnData /\ CmdFits(d.cmd) /\ d.cmd \in Seq(Byte) /\ Len(d.cmd) \in Nat
      /\ d.suboption_iac \in BOOLEAN
  BY DEF Fits, TnData
<1>2. PICK end : end = [d EXCEPT !.suboption_iac = FALSE]
  OBVIOUS
<1>3. Fits(end) /\ end.cmd = d.cmd
  BY <1>2, IacSet
<1>4. CASE d.suboption_iac /\ b = SE
  <2>1. PICK k : k = [end EXCEPT !.cmd = <<>>]
    OBVIOUS
  <2>2. Fits(k)
    BY <1>3, <2>1, NoCmd, CmdSet, Zenon
  <2>3. SubSeq(d.cmd, 3, Len(d.cmd) - 1) \in Seq(Byte)
    BY <1>1
  <2>4. SuboptionByte(d, b) = HandleOption(k, SubSeq(d.cmd, 3, Len(d.cmd) - 1))
    BY <1>2, <1>4, <2>1 DEF SuboptionByte, SE, IAC
  <2>5. QED
    BY <2>2, <2>3, <2>4, HandleOptionFits
<1>5. CASE d.suboption_iac /\ b = IAC
  <2>1. SuboptionByte(d, b) = end
    BY <1>2, <1>5 DEF SuboptionByte, IAC, SE
  <2>2. QED
    BY <1>3, <2>1
<1>6. CASE d.suboption_iac /\ b \notin {SE, IAC}
  <2>1. PICK c : c = SubSeq(d.cmd, 1, Len(d.cmd) - 1)
    OBVIOUS
  <2>2. c \in Seq(Byte) /\ Len(c) = Len(d.cmd) - 1 /\ c[2] = d.cmd[2]
    BY <1>1, <2>1
  <2>3. CmdFits(c)
    BY <1>1, <2>2, TelnetAssumption DEF CmdFits
  <2>4. SuboptionByte(d, b) = [end EXCEPT !.cmd = c]
    BY <1>2, <1>3, <1>6, <2>1 DEF SuboptionByte
  <2>5. QED
    BY <1>3, <2>3, <2>4, CmdSet
<1>7. CASE ~d.suboption_iac
  <2>0. PICK iac \in BOOLEAN : iac = (b = IAC)
    BY Zenon
  <2>1. PICK c : c = Store(d.cmd, b)
    OBVIOUS
  <2>2. CmdFits(c)
    BY <1>1, <2>1, StoreFits
  <2>3. PICK k : k = [d EXCEPT !.cmd = c]
    OBVIOUS
  <2>4. Fits(k)
    BY <2>2, <2>3, CmdSet
  <2>5. Fits([k EXCEPT !.suboption_iac = iac])
    BY <2>4, IacSet
  <2>6. SuboptionByte(d, b) = [k EXCEPT !.suboption_iac = iac]
    BY <1>7, <2>0, <2>1, <2>3 DEF SuboptionByte
  <2>7. QED
    BY <2>5, <2>6
<1>8. QED
  BY <1>1, <1>4, <1>5, <1>6, <1>7

\* What process_telnet_data has after i bytes
Parsed(p, i) ==
  /\ p \in [td : TnData, data : Seq(Byte)]
  /\ Fits(p.td) /\ Len(p.data) <= i

\* A byte that only changes the state of the telnet layer
LEMMA TdSet ==
  ASSUME NEW i \in Nat, NEW p, Parsed(p, i), NEW d, Fits(d)
  PROVE  Parsed([p EXCEPT !.td = d], i + 1)
<1>1. p \in [td : TnData, data : Seq(Byte)] /\ Len(p.data) <= i /\ d \in TnData
  BY DEF Parsed, Fits
<1>2. PICK k : k = [p EXCEPT !.td = d]
  OBVIOUS
<1>3. k \in [td : TnData, data : Seq(Byte)] /\ k.td = d /\ k.data = p.data
  BY <1>1, <1>2
<1>4. Len(p.data) <= i + 1
  BY <1>1
<1>5. QED
  BY <1>2, <1>3, <1>4 DEF Parsed

\* A byte that is data for the device
LEMMA DataSet ==
  ASSUME NEW i \in Nat, NEW p, Parsed(p, i), NEW b \in Byte, NEW d, Fits(d)
  PROVE  Parsed([p EXCEPT !.data = Append(p.data, b), !.td = d], i + 1)
<1>1. p \in [td : TnData, data : Seq(Byte)] /\ Len(p.data) <= i /\ d \in TnData
  BY DEF Parsed, Fits
<1>2. PICK s : s = Append(p.data, b)
  OBVIOUS
<1>3. s \in Seq(Byte) /\ Len(s) <= i + 1
  BY <1>1, <1>2
<1>4. PICK k : k = [p EXCEPT !.data = s, !.td = d]
  OBVIOUS
<1>5. k \in [td : TnData, data : Seq(Byte)] /\ k.td = d /\ k.data = s
  BY <1>1, <1>3, <1>4
<1>6. QED
  BY <1>2, <1>3, <1>4, <1>5 DEF Parsed

\* One byte
LEMMA ParseByteFits ==
  ASSUME NEW i \in Nat, NEW p, Parsed(p, i), NEW b \in Byte, NEW modem \in Byte
  PROVE  Parsed(ParseByte(p, b, modem), i + 1)
<1>1. PICK d, cmd, pos : d = p.td /\ cmd = d.cmd /\ pos = Len(cmd)
  OBVIOUS
<1>2. /\ Fits(d) /\ CmdFits(cmd) /\ cmd \in Seq(Byte) /\ pos \in Nat
      /\ pos >= 2 => cmd[2] \in SB .. DONT
      /\ p \in [td : TnData, data : Seq(Byte)] /\ d \in TnData
  BY <1>1 DEF Parsed, Fits, CmdFits
<1>3. b \in 0 .. 255 /\ MAX_TELNET_CMD_SIZE \in Nat /\ MAX_TELNET_CMD_SIZE > 2
  BY TelnetAssumption DEF Byte
<1>4. PICK none : none = [d EXCEPT !.cmd = <<>>]
  OBVIOUS
<1>5. Fits(none)
  BY <1>2, <1>4, NoCmd, CmdSet, Zenon
<1>6. CASE pos = 0 /\ b = IAC
  <2>1. PICK c : c = <<b>>
    OBVIOUS
  <2>2. c \in Seq(Byte) /\ Len(c) = 1
    BY <2>1
  <2>3. CmdFits(c)
    BY <1>3, <2>2 DEF CmdFits
  <2>4. PICK k : k = [d EXCEPT !.cmd = c]
    OBVIOUS
  <2>5. PICK j : j = [k EXCEPT !.suboption_iac = FALSE]
    OBVIOUS
  <2>6. Fits(k)
    BY <1>2, <2>3, <2>4, CmdSet
  <2>7. Fits(j)
    BY <2>5, <2>6, IacSet
  <2>8. ParseByte(p, b, modem) = [p EXCEPT !.td = j]
    <3>1. ParseByte(p, b, modem) = [p EXCEPT !.td.cmd = <<b>>, !.td.suboption_iac = FALSE]
      BY <1>1, <1>6 DEF ParseByte
    <3>2. QED
      BY <1>1, <1>2, <2>1, <2>4, <2>5, <3>1
  <2>9. QED
    BY <2>7, <2>8, TdSet
<1>7. CASE pos = 0 /\ b # IAC
  <2>1. ParseByte(p, b, modem) = [p EXCEPT !.data = Append(@, b)]
    BY <1>1, <1>7 DEF ParseByte
  <2>2. [p EXCEPT !.data = Append(@, b)]
          = [p EXCEPT !.data = Append(p.data, b), !.td = d]
    BY <1>1, <1>2
  <2>3. Parsed([p EXCEPT !.data = Append(p.data, b), !.td = d], i + 1)
    BY <1>2, DataSet, Zenon
  <2>4. QED
    BY <2>1, <2>2, <2>3, Zenon
<1>8. CASE pos = 1 /\ b = IAC
  <2>1. ParseByte(p, b, modem) = [p EXCEPT !.data = Append(@, b), !.td.cmd = <<>>]
    BY <1>1, <1>8 DEF ParseByte, IAC, SB
  <2>2. [p EXCEPT !.data = Append(@, b), !.td.cmd = <<>>]
          = [p EXCEPT !.data = Append(p.data, b), !.td = none]
    BY <1>1, <1>2, <1>4
  <2>3. Parsed([p EXCEPT !.data = Append(p.data, b), !.td = none], i + 1)
    BY <1>5, DataSet, Zenon
  <2>4. QED
    BY <2>1, <2>2, <2>3, Zenon
<1>9. CASE pos = 1 /\ b < SB
  <2>1. ParseByte(p, b, modem) = [p EXCEPT !.td.cmd = <<>>]
    <3>1. pos = 1 /\ b # IAC /\ ~(b >= SB)
      BY <1>3, <1>9 DEF IAC, SB
    <3>2. QED
      BY <1>1, <1>9, <3>1 DEF ParseByte
  <2>2. [p EXCEPT !.td.cmd = <<>>] = [p EXCEPT !.td = none]
    BY <1>1, <1>2, <1>4
  <2>3. QED
    BY <1>5, <2>1, <2>2, TdSet
<1>10. CASE (pos = 1 /\ b >= SB /\ b # IAC) \/ (pos = 2 /\ cmd[2] = SB)
  <2>1. PICK c : c = Append(cmd, b)
    OBVIOUS
  <2>2. /\ c \in Seq(Byte) /\ Len(c) = pos + 1
        /\ pos = 1 => c[2] = b
        /\ pos = 2 => c[2] = cmd[2]
    BY <1>1, <1>2, <1>10, <2>1
  <2>3. CmdFits(c)
    <3>1. c[2] \in SB .. DONT
      BY <1>3, <1>10, <2>2, SMTT(30) DEF SB, IAC, DONT
    <3>2. Len(c) <= MAX_TELNET_CMD_SIZE + 1
      BY <1>3, <1>10, <2>2
    <3>3. QED
      BY <2>2, <3>1, <3>2 DEF CmdFits
  <2>4. PICK k : k = [d EXCEPT !.cmd = c]
    OBVIOUS
  <2>5. Fits(k)
    BY <1>2, <2>3, <2>4, CmdSet
  <2>6. ParseByte(p, b, modem) = [p EXCEPT !.td.cmd = Append(@, b)]
    BY <1>1, <1>3, <1>10 DEF ParseByte, IAC, SB
  <2>7. [p EXCEPT !.td.cmd = Append(@, b)] = [p EXCEPT !.td = k]
    BY <1>1, <1>2, <2>1, <2>4
  <2>8. QED
    BY <2>5, <2>6, <2>7, TdSet
<1>11. CASE pos = 2 /\ cmd[2] # SB
  <2>1. cmd[2] \in WILL .. DONT
    BY <1>2, <1>11 DEF SB, WILL, DONT
  <2>2. Fits(Negotiate(none, cmd[2], b, modem))
    BY <1>5, <2>1, NegotiateFits
  <2>3. ParseByte(p, b, modem) = [p EXCEPT !.td = Negotiate(none, cmd[2], b, modem)]
    BY <1>1, <1>4, <1>11 DEF ParseByte
  <2>4. QED
    BY <2>2, <2>3, TdSet
<1>12. CASE pos >= 3
  <2>1. Fits(SuboptionByte(d, b))
    BY <1>1, <1>2, <1>12, SuboptionFits
  <2>2. ParseByte(p, b, modem) = [p EXCEPT !.td = SuboptionByte(d, b)]
    <3>1. pos # 0 /\ pos # 1 /\ pos # 2
      BY <1>2, <1>12
    <3>2. QED
      BY <1>1, <3>1 DEF ParseByte
  <2>3. QED
    BY <2>1, <2>2, TdSet
<1>13. QED
  BY <1>2, <1>3, <1>6, <1>7, <1>8, <1>9, <1>10, <1>11, <1>12 DEF SB

\* f is what the loop of process_telnet_data has after each byte.
Parses(f, bytes, d, modem, n) ==
  f = [i \in 0 .. n |-> IF i = 0 THEN [td |-> d, data |-> <<>>]
                        ELSE ParseByte(f[i - 1], bytes[i], modem)]

\* One step of process_telnet_data
LEMMA ParsesAt ==
  ASSUME NEW f, NEW bytes, NEW d, NEW modem, NEW n, Parses(f, bytes, d, modem, n),
         NEW i \in 0 .. n
  PROVE  f[i] = IF i = 0 THEN [td |-> d, data |-> <<>>]
                ELSE ParseByte(f[i - 1], bytes[i], modem)
<1>1. PICK e : e = [j \in 0 .. n |-> IF j = 0 THEN [td |-> d, data |-> <<>>]
                                     ELSE ParseByte(f[j - 1], bytes[j], modem)]
  OBVIOUS
<1>2. f = e
  BY <1>1 DEF Parses
<1>3. e[i] = IF i = 0 THEN [td |-> d, data |-> <<>>]
             ELSE ParseByte(f[i - 1], bytes[i], modem)
  BY <1>1
<1>4. QED
  BY <1>2, <1>3

\* The bytes can be processed, however many there are.
LEMMA ParsesExist ==
  ASSUME NEW bytes, NEW d, NEW modem
  PROVE  \A n \in Nat : \E f : Parses(f, bytes, d, modem, n)
<1>1. PICK S : S = {n \in Nat : \E f : Parses(f, bytes, d, modem, n)}
  OBVIOUS
<1>2. 0 \in S
  <2>1. PICK f : f = [i \in 0 .. 0 |-> [td |-> d, data |-> <<>>]]
    OBVIOUS
  <2>2. Parses(f, bytes, d, modem, 0)
    BY <2>1 DEF Parses
  <2>3. QED
    BY <1>1, <2>2
<1>3. ASSUME NEW n \in Nat, n \in S PROVE n + 1 \in S
  <2>1. PICK f : Parses(f, bytes, d, modem, n)
    BY <1>1, <1>3
  <2>2. PICK x : x = ParseByte(f[n], bytes[n + 1], modem)
    OBVIOUS
  <2>3. PICK g : g = [i \in 0 .. n + 1 |-> IF i = n + 1 THEN x ELSE f[i]]
    OBVIOUS
  <2>4. ASSUME NEW i \in 0 .. n + 1
        PROVE  g[i] = IF i = 0 THEN [td |-> d, data |-> <<>>]
                      ELSE ParseByte(g[i - 1], bytes[i], modem)
    <3>1. CASE i = n + 1
      <4>1. i # 0 /\ i - 1 = n /\ g[n] = f[n] /\ g[i] = x
        BY <1>3, <2>3, <3>1
      <4>2. QED
        BY <2>2, <3>1, <4>1
    <3>2. CASE i # n + 1
      <4>1. i \in 0 .. n /\ g[i] = f[i] /\ (i # 0 => g[i - 1] = f[i - 1])
        BY <1>3, <2>3, <2>4, <3>2
      <4>2. f[i] = IF i = 0 THEN [td |-> d, data |-> <<>>]
                   ELSE ParseByte(f[i - 1], bytes[i], modem)
        BY <2>1, <4>1 DEF Parses
      <4>3. QED
        BY <4>1, <4>2
    <3>3. QED
      BY <3>1, <3>2
  <2>5. Parses(g, bytes, d, modem, n + 1)
    BY <2>3, <2>4 DEF Parses
  <2>6. QED
    BY <1>1, <1>3, <2>5
<1>4. \A n \in Nat : n \in S
  BY <1>2, <1>3, Induction
<1>5. QED
  BY <1>1, <1>4

\* process_telnet_data: neither array is overrun, and no more data are left
\* than bytes came.
LEMMA ProcessFits ==
  ASSUME NEW bytes \in Seq(Byte), NEW d, Fits(d), NEW modem \in Byte
  PROVE  Parsed(ProcessTelnetData(bytes, d, modem), Len(bytes))
<1>1. PICK n : n = Len(bytes)
  OBVIOUS
<1>2. n \in Nat /\ \A i \in 1 .. n : bytes[i] \in Byte
  BY <1>1
<1>3. \E g : Parses(g, bytes, d, modem, n)
  BY <1>2, ParsesExist
<1>4. PICK f : f = CHOOSE g : Parses(g, bytes, d, modem, n)
  OBVIOUS
<1>5. Parses(f, bytes, d, modem, n)
  BY <1>3, <1>4
<1>6. ProcessTelnetData(bytes, d, modem) = f[n]
  BY <1>1, <1>4 DEF ProcessTelnetData, Parses
<1>7. PICK S : S = {i \in Nat : i <= n => Parsed(f[i], i)}
  OBVIOUS
<1>8. 0 \in S
  <2>1. f[0] = [td |-> d, data |-> <<>>]
    <3>1. 0 \in 0 .. n
      BY <1>2
    <3>2. QED
      BY <1>5, <3>1, ParsesAt
  <2>2. <<>> \in Seq(Byte) /\ Len(<<>>) = 0 /\ d \in TnData
    BY DEF Fits
  <2>3. Parsed(f[0], 0)
    BY <2>1, <2>2 DEF Parsed
  <2>4. QED
    BY <1>7, <2>3
<1>9. ASSUME NEW i \in Nat, i \in S PROVE i + 1 \in S
  <2>1. SUFFICES ASSUME i + 1 <= n PROVE Parsed(f[i + 1], i + 1)
    BY <1>7, <1>9
  <2>2. Parsed(f[i], i) /\ bytes[i + 1] \in Byte /\ i + 1 \in 0 .. n
    BY <1>2, <1>7, <1>9, <2>1
  <2>3. f[i + 1] = ParseByte(f[i], bytes[i + 1], modem)
    <3>1. i + 1 # 0 /\ i + 1 - 1 = i
      BY <1>9
    <3>2. f[i + 1] = IF i + 1 = 0 THEN [td |-> d, data |-> <<>>]
                     ELSE ParseByte(f[i + 1 - 1], bytes[i + 1], modem)
      BY <1>5, <2>2, ParsesAt
    <3>3. QED
      BY <3>1, <3>2
  <2>4. QED
    BY <2>2, <2>3, ParseByteFits
<1>10. \A i \in Nat : i \in S
  BY <1>8, <1>9, Induction
<1>11. QED
  BY <1>1, <1>2, <1>6, <1>7, <1>10
-----------------------------------------------------------------------------
(***************************************************************************)
(* The session                                                             *)
(***************************************************************************)
\* The bounds of the buffers, with all else typed that a step depends on.
Types ==
  /\ port \in {"unconnected", "connected", "crashed"} /\ mode \in Modes
  /\ enabled \subseteq Handlers /\ pass \subseteq Handlers
  /\ tcp_to_dev \in Seq(Byte) /\ Len(tcp_to_dev) <= PORT_BUFSIZE
  /\ dev_to_tcp \in Seq(Byte) /\ Len(dev_to_tcp) <= PORT_BUFSIZE
  /\ dataSent \in Seq(Byte) /\ astray \in BOOLEAN
  /\ Fits(td) /\ sent \in [will : SUBSET KnownOptions, do : SUBSET KnownOptions]
  /\ stream \in Seq(Byte) /\ devStream \in Seq(Byte) /\ banner \in Seq(Byte)
  /\ nread \in 0 .. Len(stream) /\ ndev \in 0 .. Len(devStream)
  /\ sessions \in 0 .. MaxSessions /\ spurious \in 0 .. MaxSpurious

\* A port without telnet has no client that asked for the modem lines, and
\* writes nothing to the client before the device's first bytes.
RawQuiet ==
  mode # "telnet" =>
    /\ td.is_2217 = FALSE
    /\ mode = "rawlp" => ndev = 0
    /\ port = "connected" /\ ndev = 0 =>
         "tcpWrite" \notin enabled /\ "tcpWrite" \notin pass /\ dataSent = <<>>

\* When the device is to be read in this round, its buffer is empty; a banner
\* of a raw port may be there.
ReadsIntoEmpty ==
  port = "connected" /\ "devRead" \in pass /\ (mode = "telnet" \/ ndev > 0) =>
    dev_to_tcp = <<>>

SessionInv ==
  Types /\ RawQuiet /\ ReadsIntoEmpty /\ PendingOutputWatched /\ DataKeepsOrder

\* The invariant holds the bounds of all buffers.
LEMMA SessionTyped == SessionInv => TypeOK
<1> SUFFICES ASSUME SessionInv PROVE TypeOK
  OBVIOUS
<1>1. Types /\ Fits(td)
  BY DEF SessionInv, Types
<1>2. /\ td.cmd \in Seq(Byte) /\ Len(td.cmd) <= MAX_TELNET_CMD_SIZE + 1
      /\ td.out \in Seq(Byte) /\ Len(td.out) <= MAX_TELNET_CMD_XMIT_BUF
      /\ td.sent_will \subseteq KnownOptions /\ td.sent_do \subseteq KnownOptions
  BY <1>1 DEF Fits, TnData, CmdFits, OutFits
<1>3. QED
  BY <1>1, <1>2 DEF Types, TypeOK

\* Concatenation of bytes is associative.
LEMMA Assoc ==
  \A a, b, c \in Seq(Byte) : (a \o b) \o c = a \o (b \o c)
BY ConcatAssociative

\* A write that takes the first n bytes of b sends them behind a.
LEMMA SplitIs ==
  ASSUME NEW a \in Seq(Byte), NEW b \in Seq(Byte), NEW n \in 0 .. Len(b)
  PROVE  /\ a \o SubSeq(b, 1, n) \in Seq(Byte)
         /\ Rest(b, n) \in Seq(Byte) /\ Len(Rest(b, n)) = Len(b) - n
         /\ (a \o SubSeq(b, 1, n)) \o Rest(b, n) = a \o b
         /\ n = Len(b) => Rest(b, n) = <<>>
         /\ b = <<>> => Rest(b, n) = <<>>
<1>1. PICK x, y : x = SubSeq(b, 1, n) /\ y = SubSeq(b, n + 1, Len(b))
  OBVIOUS
<1>2. x \in Seq(Byte) /\ y \in Seq(Byte) /\ Len(y) = Len(b) - n /\ x \o y = b
  <2>1. PICK k : k = Len(b)
    OBVIOUS
  <2>2. k \in Nat /\ n \in Nat /\ n <= k /\ b \in Seq(Byte)
    BY <2>1
  <2>3. x \in Seq(Byte) /\ y \in Seq(Byte) /\ Len(y) = k - n
    BY <1>1, <2>1, <2>2
  <2>4. 1 \in 1 .. k + 1 /\ n \in 1 - 1 .. k /\ k \in n .. k
    BY <2>2
  <2>5. x \o y = SubSeq(b, 1, k)
    BY <1>1, <2>1, <2>4, ConcatAdjacentSubSeq, Zenon
  <2>6. SubSeq(b, 1, k) = b
    BY <2>1, SubSeqFull, Zenon
  <2>7. QED
    BY <2>1, <2>3, <2>5, <2>6
<1>3. (a \o x) \o y = a \o (x \o y) /\ a \o x \in Seq(Byte)
  <2>0. x \in Seq(Byte) /\ y \in Seq(Byte)
    BY <1>2
  <2>1. (a \o x) \o y = a \o (x \o y)
    BY <2>0, Assoc, Zenon
  <2>2. a \o x \in Seq(Byte)
    BY <1>2
  <2>3. QED
    BY <2>1, <2>2
<1>4. n = Len(b) \/ b = <<>> => y = <<>>
  BY <1>2
<1>5. QED
  BY <1>1, <1>2, <1>3, <1>4 DEF Rest

\* telnet_init, and the tn_data of a raw port
LEMMA TelnetInitFits ==
  ASSUME NEW seq, OutFits(seq),
         NEW s \in [will : SUBSET KnownOptions, do : SUBSET KnownOptions]
  PROVE  /\ Fits(TelnetInit(seq, s))
         /\ TelnetInit(seq, s).out = seq /\ TelnetInit(seq, s).is_2217 = FALSE
<1>1. PICK k : k = TelnetInit(seq, s)
  OBVIOUS
<1>2. 0 \in Byte /\ 255 \in Byte /\ seq \in Seq(Byte) /\ <<>> \in Seq(Byte)
  BY DEF Byte, OutFits
<1>3. k \in TnData /\ k.cmd = <<>> /\ k.out = seq /\ k.is_2217 = FALSE
  BY <1>1, <1>2 DEF TelnetInit, TnData
<1>4. QED
  BY <1>1, <1>3, NoCmd DEF Fits

\* The state of the telnet layer outside a session
LEMMA NothingFits ==
  /\ Fits(Nothing) /\ Nothing.out = <<>> /\ Nothing.is_2217 = FALSE
  /\ SentAtStart \in [will : SUBSET KnownOptions, do : SUBSET KnownOptions]
<1>1. OutFits(<<>>)
  BY TelnetAssumption DEF OutFits
<1>2. SentAtStart \in [will : SUBSET KnownOptions, do : SUBSET KnownOptions]
  BY DEF SentAtStart, KnownOptions
<1>3. QED
  BY <1>1, <1>2, TelnetInitFits, Zenon DEF Nothing

\* display_banner stays inside the buffer.
LEMMA BannerFits ==
  ASSUME NEW b \in Seq(Byte)
  PROVE  DisplayBanner(b) \in Seq(Byte) /\ Len(DisplayBanner(b)) <= PORT_BUFSIZE
BY SessionAssumption DEF DisplayBanner

\* The initial states
LEMMA SessionInit == Init => SessionInv
<1> SUFFICES ASSUME Init PROVE SessionInv
  OBVIOUS
<1>1. <<>> \in Seq(Byte) /\ Len(<<>>) = 0
  OBVIOUS
<1>2. /\ port = "unconnected" /\ mode \in Modes /\ td = Nothing /\ sent = SentAtStart
      /\ enabled = {} /\ pass = {} /\ tcp_to_dev = <<>> /\ dev_to_tcp = <<>>
      /\ stream = <<>> /\ nread = 0 /\ devStream = <<>> /\ ndev = 0 /\ banner = <<>>
      /\ dataSent = <<>> /\ astray = FALSE /\ sessions = 0 /\ spurious = 0
  BY DEF Init
<1>3. Types
  <2>1. stream = <<>>
    BY <1>2
  <2>2. /\ 0 \in 0 .. MaxSessions /\ 0 \in 0 .. MaxSpurious
        /\ 0 <= PORT_BUFSIZE /\ 0 \in 0 .. 0
    BY SessionAssumption
  <2>3. QED
    BY <1>1, <1>2, <2>1, <2>2, NothingFits DEF Types
<1>4. RawQuiet
  BY <1>2, NothingFits DEF RawQuiet
<1>5. QED
  BY <1>2, <1>3, <1>4 DEF SessionInv, ReadsIntoEmpty, PendingOutputWatched, DataKeepsOrder, InOrder

\* setup_tcp_port
LEMMA ConnectKeeps ==
  ASSUME SessionInv, Connect
  PROVE  SessionInv'
<1>1. Types
  BY DEF SessionInv
<1>2. /\ port' = "connected" /\ mode' = mode /\ sent' = sent /\ pass' = {}
      /\ stream' \in Streams /\ devStream' \in DevStreams /\ banner' \in Banners
      /\ enabled' = {"tcpRead", IF mode = "telnet" THEN "tcpWrite" ELSE "devRead"}
      /\ dev_to_tcp' = DisplayBanner(banner') /\ tcp_to_dev' = <<>>
      /\ nread' = 0 /\ ndev' = 0 /\ dataSent' = <<>> /\ spurious' = spurious
      /\ sessions' = sessions + 1 /\ sessions < MaxSessions /\ astray' = FALSE
  BY DEF Connect
<1>3. PICK left \in RawCommands \cup {<<>>} :
        \E seq : /\ seq = IF mode = "telnet" THEN telnet_init_seq ELSE left
                /\ td' = TelnetInit(seq, sent)
  BY DEF Connect
<1>31. PICK seq : /\ seq = IF mode = "telnet" THEN telnet_init_seq ELSE left
                  /\ td' = TelnetInit(seq, sent)
  BY <1>3
<1>4. OutFits(seq)
  <2>1. OutFits(left)
    <3>1. CASE left \in RawCommands
      BY <3>1, SessionAssumption DEF OutFits
    <3>2. CASE left = <<>>
      BY <3>2, TelnetAssumption DEF OutFits
    <3>3. QED
      BY <1>3, <3>1, <3>2
  <2>2. OutFits(telnet_init_seq)
    BY SessionAssumption DEF OutFits
  <2>3. QED
    BY <1>31, <2>1, <2>2, Zenon
<1>5. Fits(td') /\ td'.out = seq /\ td'.is_2217 = FALSE
  BY <1>1, <1>2, <1>31, <1>4, TelnetInitFits DEF Types
<1>6. /\ stream' \in Seq(Byte) /\ devStream' \in Seq(Byte) /\ banner' \in Seq(Byte)
  BY <1>2, SessionAssumption
<1>7. /\ dev_to_tcp' \in Seq(Byte) /\ Len(dev_to_tcp') <= PORT_BUFSIZE
  BY <1>2, <1>6, BannerFits
<1>8. Types'
  <2>1. <<>> \in Seq(Byte) /\ Len(<<>>) <= PORT_BUFSIZE
    BY SessionAssumption
  <2>2. nread' \in 0 .. Len(stream') /\ ndev' \in 0 .. Len(devStream')
    BY <1>2, <1>6
  <2>3. sessions' \in 0 .. MaxSessions
    BY <1>1, <1>2, SessionAssumption DEF Types
  <2>4. enabled' \subseteq Handlers /\ pass' \subseteq Handlers
    BY <1>2 DEF Handlers, Order
  <2>5. QED
    BY <1>1, <1>2, <1>5, <1>6, <1>7, <2>1, <2>2, <2>3, <2>4 DEF Types
<1>9. RawQuiet'
  BY <1>2, <1>31, <1>5 DEF RawQuiet
<1>10. PendingOutputWatched' /\ ReadsIntoEmpty'
  BY <1>2, <1>31, <1>5 DEF PendingOutputWatched, ReadsIntoEmpty
<1>11. DataKeepsOrder'
  <2>1. SubSeq(devStream', 1, 0) = <<>>
    BY <1>6
  <2>2. Doubled(SubSeq(devStream', 1, 0)) = <<>>
    BY <2>1, DoubledEmpty
  <2>3. <<>> \o dev_to_tcp' = dev_to_tcp' /\ dev_to_tcp' \o <<>> = dev_to_tcp'
    BY <1>7, ConcatEmptySeq, Zenon
  <2>4. CASE mode = "telnet"
    <3>1. dataSent' \o dev_to_tcp'
            = DisplayBanner(banner') \o Doubled(SubSeq(devStream', 1, ndev'))
      BY <1>2, <2>2, <2>3, Zenon
    <3>2. QED
      BY <1>2, <2>4, <3>1 DEF DataKeepsOrder, InOrder
  <2>5. CASE mode # "telnet"
    BY <1>2, <2>5 DEF DataKeepsOrder, InOrder
  <2>6. QED
    BY <2>4, <2>5
<1>12. QED
  BY <1>8, <1>9, <1>10, <1>11 DEF SessionInv

\* shutdown_port
LEMMA ShutdownKeeps ==
  ASSUME SessionInv, NEW d, Fits(d), ShutdownPort(d)
  PROVE  SessionInv'
<1>1. Types
  BY DEF SessionInv
<1>2. /\ port' = "unconnected" /\ mode' = mode /\ td' = Nothing
      /\ sent' = [will |-> d.sent_will, do |-> d.sent_do]
      /\ enabled' = {} /\ pass' = {} /\ tcp_to_dev' = <<>> /\ dev_to_tcp' = <<>>
      /\ stream' = <<>> /\ nread' = 0 /\ devStream' = <<>> /\ ndev' = 0 /\ banner' = <<>>
      /\ dataSent' = <<>> /\ astray' = FALSE
      /\ sessions' = sessions /\ spurious' = spurious
  BY DEF ShutdownPort
<1>3. sent' \in [will : SUBSET KnownOptions, do : SUBSET KnownOptions]
  BY <1>2 DEF Fits, TnData
<1>4. Types'
  <2>1. stream' = <<>>
    BY <1>2
  <2>2. /\ 0 <= PORT_BUFSIZE /\ 0 \in 0 .. 0
        /\ <<>> \in Seq(Byte) /\ Len(<<>>) = 0
    BY SessionAssumption
  <2>3. QED
    BY <1>1, <1>2, <1>3, <2>1, <2>2, NothingFits DEF Types
<1>5. RawQuiet'
  BY <1>2, NothingFits DEF RawQuiet
<1>6. QED
  BY <1>2, <1>4, <1>5
     DEF SessionInv, ReadsIntoEmpty, PendingOutputWatched, DataKeepsOrder, InOrder

\* select returns.
LEMMA SelectKeeps ==
  ASSUME SessionInv, Select
  PROVE  SessionInv'
<1>1. /\ UNCHANGED <<port, mode, td, sent, enabled, tcp_to_dev, dev_to_tcp, stream, nread,
                     devStream, ndev, banner, dataSent, astray, sessions, spurious>>
      /\ pass' \subseteq enabled /\ port = "connected"
  BY DEF Select, tn, buffers, client, device, setup
<1>2. Types /\ RawQuiet /\ PendingOutputWatched
  BY DEF SessionInv
<1>3. Types'
  BY <1>1, <1>2 DEF Types
<1>4. RawQuiet'
  BY <1>1, <1>2 DEF RawQuiet
<1>5. ReadsIntoEmpty'
  <2>1. CASE mode = "rawlp"
    BY <1>1, <1>2, <2>1 DEF ReadsIntoEmpty, RawQuiet
  <2>2. CASE mode # "rawlp"
    BY <1>1, <1>2, <2>2 DEF ReadsIntoEmpty, PendingOutputWatched
  <2>3. QED
    BY <2>1, <2>2
<1>6. PendingOutputWatched'
  BY <1>1, <1>2 DEF PendingOutputWatched
<1>7. DataKeepsOrder'
  BY <1>1 DEF SessionInv, DataKeepsOrder, InOrder
<1>8. QED
  BY <1>3, <1>4, <1>5, <1>6, <1>7 DEF SessionInv

\* What handle_tcp_fd_read makes of the bytes it got
Processed(got, m) ==
  IF mode = "telnet" THEN ProcessTelnetData(got, td, m) ELSE [td |-> td, data |-> got]

\* What handle_tcp_fd_read makes of the bytes it read
LEMMA ProcessedFits ==
  ASSUME Types, NEW n \in 1 .. PORT_BUFSIZE, NEW m \in ModemStates,
         nread + n <= Len(stream)
  PROVE  LET got == SubSeq(stream, nread + 1, nread + n) IN
         Parsed(Processed(got, m), n) /\ (mode # "telnet" => Processed(got, m).td = td)
<1>1. PICK s : s = stream
  OBVIOUS
<1>2. /\ s \in Seq(Byte) /\ nread \in Nat /\ nread + n <= Len(s) /\ n \in Nat
      /\ Fits(td) /\ m \in Byte
  BY <1>1, SessionAssumption DEF Types
<1>3. PICK got : got = SubSeq(s, nread + 1, nread + n)
  OBVIOUS
<1>4. got \in Seq(Byte) /\ Len(got) = n
  BY <1>2, <1>3
<1>5. CASE mode = "telnet"
  <2>1. Parsed(ProcessTelnetData(got, td, m), n)
    BY <1>2, <1>4, ProcessFits
  <2>2. QED
    BY <1>1, <1>3, <1>5, <2>1 DEF Processed
<1>6. CASE mode # "telnet"
  <2>1. PICK q : q = [td |-> td, data |-> got]
    OBVIOUS
  <2>2. q \in [td : TnData, data : Seq(Byte)] /\ q.td = td /\ q.data = got
    BY <1>2, <1>4, <2>1 DEF Fits
  <2>3. Parsed(q, n)
    BY <1>2, <1>4, <2>2 DEF Parsed
  <2>4. QED
    BY <1>1, <1>3, <1>6, <2>1, <2>2, <2>3 DEF Processed
<1>7. QED
  BY <1>5, <1>6

\* handle_tcp_fd_read
LEMMA TcpReadKeeps ==
  ASSUME SessionInv, NEW n \in 1 .. PORT_BUFSIZE, NEW m \in ModemStates,
         HandleTcpFdRead(n, m)
  PROVE  SessionInv'
<1>1. Types /\ RawQuiet /\ ReadsIntoEmpty /\ PendingOutputWatched /\ DataKeepsOrder
  BY DEF SessionInv
<1>2. /\ UNCHANGED <<port, mode, sent, dev_to_tcp, stream, devStream, ndev, banner,
                     dataSent, astray, sessions, spurious>>
      /\ pass' \subseteq pass /\ port = "connected"
      /\ nread' = nread + n /\ nread + n <= Len(stream)
  BY DEF HandleTcpFdRead, Called, Turn, setup
<1>3. PICK p : p = Processed(SubSeq(stream, nread + 1, nread + n), m)
  OBVIOUS
<1>4. Parsed(p, n) /\ (mode # "telnet" => p.td = td)
  BY <1>1, <1>2, <1>3, ProcessedFits
<1>5. PICK ready : ready = OutputReady(p.td.out # td.out, enabled)
  OBVIOUS
<1>6. /\ td' = p.td
      /\ \E w \in 0 .. Len(p.data) : tcp_to_dev' = Rest(p.data, w)
      /\ enabled' = IF tcp_to_dev' = <<>> THEN ready
                    ELSE (ready \ {"tcpRead"}) \cup {"devWrite"}
  BY <1>3, <1>5 DEF HandleTcpFdRead, Processed, LeftOver
<1>7. /\ p.data \in Seq(Byte) /\ Len(p.data) <= n /\ Fits(p.td) /\ n \in Nat
      /\ n <= PORT_BUFSIZE /\ PORT_BUFSIZE \in Nat
  BY <1>4, SessionAssumption DEF Parsed
<1>8. tcp_to_dev' \in Seq(Byte) /\ Len(tcp_to_dev') <= PORT_BUFSIZE
  <2>1. PICK w \in 0 .. Len(p.data) : tcp_to_dev' = Rest(p.data, w)
    BY <1>6
  <2>2. PICK e : e = <<>>
    OBVIOUS
  <2>3. e \in Seq(Byte)
    BY <2>2
  <2>4. Rest(p.data, w) \in Seq(Byte) /\ Len(Rest(p.data, w)) = Len(p.data) - w
    BY <1>7, <2>3, SplitIs
  <2>5. QED
    BY <1>7, <2>1, <2>4
<1>9. /\ p.td.out # td.out => "tcpWrite" \in ready /\ "devRead" \notin ready
      /\ p.td.out = td.out => ready = enabled
      /\ "tcpRead" \in ready <=> "tcpRead" \in enabled
      /\ "devWrite" \in ready <=> "devWrite" \in enabled
      /\ ready \subseteq enabled \cup {"tcpWrite"}
  BY <1>5 DEF OutputReady
<1>10. Types'
  <2>1. nread' \in 0 .. Len(stream)
    BY <1>1, <1>2, <1>7 DEF Types
  <2>2. stream' = stream
    BY <1>2
  <2>3. enabled' \subseteq Handlers
    BY <1>1, <1>6, <1>9 DEF Types, Handlers, Order
  <2>4. QED
    BY <1>1, <1>2, <1>6, <1>7, <1>8, <2>1, <2>2, <2>3 DEF Types
<1>11. RawQuiet'
  BY <1>1, <1>2, <1>4, <1>6, <1>9 DEF RawQuiet
<1>12. ReadsIntoEmpty'
  BY <1>1, <1>2 DEF ReadsIntoEmpty
<1>13. PendingOutputWatched'
  <2>1. CASE p.td.out = td.out
    BY <1>1, <1>2, <1>6, <1>9, <2>1 DEF PendingOutputWatched
  <2>2. CASE p.td.out # td.out
    BY <1>1, <1>2, <1>6, <1>9, <2>2 DEF PendingOutputWatched
  <2>3. QED
    BY <2>1, <2>2
<1>14. DataKeepsOrder'
  BY <1>1, <1>2 DEF DataKeepsOrder, InOrder
<1>15. QED
  BY <1>10, <1>11, <1>12, <1>13, <1>14 DEF SessionInv

\* The telnet layer fails: the program crashes or the session ends.
LEMMA TelnetFailsKeeps ==
  ASSUME SessionInv, NEW n \in 1 .. PORT_BUFSIZE, NEW m \in ModemStates,
         TelnetFails(n, m)
  PROVE  SessionInv'
<1>1. Types /\ mode = "telnet" /\ nread + n <= Len(stream)
  BY DEF SessionInv, TelnetFails
<1>2. PICK p : p = ProcessTelnetData(SubSeq(stream, nread + 1, nread + n), td, m)
  OBVIOUS
<1>3. Fits(p.td)
  BY <1>1, <1>2, ProcessedFits DEF Processed, Parsed
<1>4. CASE ShutdownPort(p.td)
  BY <1>3, <1>4, ShutdownKeeps
<1>5. CASE /\ port' = "crashed"
           /\ UNCHANGED <<pass, tn, buffers, client, device, mode, banner, sessions,
                          enabled, notified, spurious>>
  <2>1. UNCHANGED <<pass, td, sent, tcp_to_dev, dev_to_tcp, stream, nread, dataSent, astray,
                    devStream, ndev, mode, banner, sessions, enabled, spurious>>
    BY <1>5 DEF tn, buffers, client, device
  <2>2. Types'
    BY <1>1, <1>5, <2>1 DEF Types
  <2>3. RawQuiet'
    BY <1>1, <2>1 DEF RawQuiet
  <2>4. QED
    BY <1>5, <2>2, <2>3
       DEF SessionInv, ReadsIntoEmpty, PendingOutputWatched, DataKeepsOrder, InOrder
<1>6. QED
  BY <1>2, <1>4, <1>5 DEF TelnetFails

\* handle_dev_fd_write
LEMMA DevWriteKeeps ==
  ASSUME SessionInv, NEW n \in 0 .. Len(tcp_to_dev), HandleDevFdWrite(n)
  PROVE  SessionInv'
<1>1. Types /\ RawQuiet /\ ReadsIntoEmpty /\ PendingOutputWatched /\ DataKeepsOrder
  BY DEF SessionInv
<1>2. /\ UNCHANGED <<port, mode, td, sent, dev_to_tcp, stream, nread, devStream, ndev,
                     banner, dataSent, astray, sessions>>
      /\ pass' \subseteq pass /\ port = "connected"
      /\ tcp_to_dev' = Rest(tcp_to_dev, n)
      /\ n = 0 => spurious < MaxSpurious
      /\ spurious' = IF n = 0 THEN spurious + 1 ELSE spurious
      /\ enabled' = IF n < Len(tcp_to_dev) THEN enabled
                    ELSE (enabled \ {"devWrite"}) \cup {"tcpRead"}
  BY DEF HandleDevFdWrite, Called, Turn, setup, tn, client
<1>3. /\ tcp_to_dev \in Seq(Byte) /\ Len(tcp_to_dev) <= PORT_BUFSIZE /\ PORT_BUFSIZE \in Nat
      /\ dataSent \in Seq(Byte)
      /\ spurious \in 0 .. MaxSpurious /\ MaxSpurious \in Nat
  BY <1>1, SessionAssumption DEF Types
<1>4. /\ tcp_to_dev' \in Seq(Byte) /\ Len(tcp_to_dev') = Len(tcp_to_dev) - n
      /\ n = Len(tcp_to_dev) => tcp_to_dev' = <<>>
  BY <1>2, <1>3, SplitIs
<1>5. spurious' \in 0 .. MaxSpurious /\ (spurious' = 0 => spurious = 0)
  BY <1>2, <1>3
<1>6. Types'
  <2>1. Len(tcp_to_dev') <= PORT_BUFSIZE
    BY <1>3, <1>4
  <2>2. enabled' \subseteq Handlers
    BY <1>1, <1>2 DEF Types, Handlers, Order
  <2>3. QED
    BY <1>1, <1>2, <1>4, <1>5, <2>1, <2>2 DEF Types
<1>7. RawQuiet'
  BY <1>1, <1>2 DEF RawQuiet
<1>8. ReadsIntoEmpty'
  BY <1>1, <1>2 DEF ReadsIntoEmpty
<1>9. PendingOutputWatched'
  <2>1. CASE n < Len(tcp_to_dev)
    <3>1. tcp_to_dev # <<>>
      BY <2>1
    <3>2. QED
      BY <1>1, <1>2, <1>5, <2>1, <3>1 DEF PendingOutputWatched
  <2>2. CASE ~(n < Len(tcp_to_dev))
    <3>1. tcp_to_dev' = <<>>
      BY <1>3, <1>4, <2>2
    <3>2. QED
      BY <1>1, <1>2, <1>5, <2>2, <3>1 DEF PendingOutputWatched
  <2>3. QED
    BY <2>1, <2>2
<1>10. DataKeepsOrder'
  BY <1>1, <1>2 DEF DataKeepsOrder, InOrder
<1>11. QED
  BY <1>6, <1>7, <1>8, <1>9, <1>10 DEF SessionInv

\* The device's next bytes, as they are put into the buffer
LEMMA ReadFits ==
  ASSUME Types, NEW n \in 1 .. PORT_BUFSIZE, n <= ReadSize, ndev + n <= Len(devStream),
         NEW got, got = SubSeq(devStream, ndev + 1, ndev + n)
  PROVE  /\ got \in Seq(Byte)
         /\ mode = "telnet" =>
              Doubled(got) \in Seq(Byte) /\ Len(Doubled(got)) <= PORT_BUFSIZE
         /\ mode # "telnet" => Len(got) <= PORT_BUFSIZE
         /\ SubSeq(devStream, 1, ndev) \in Seq(Byte)
         /\ SubSeq(devStream, 1, ndev + n) = SubSeq(devStream, 1, ndev) \o got
<1>1. PICK k, s : k = ndev + n /\ s = devStream
  OBVIOUS
<1>2. /\ s \in Seq(Byte) /\ ndev \in Nat /\ n \in Nat /\ k \in Nat /\ k <= Len(s)
      /\ PORT_BUFSIZE \in Nat /\ ndev <= Len(s) /\ k = ndev + n /\ n >= 1
  BY <1>1, SessionAssumption DEF Types
<1>3. got \in Seq(Byte) /\ Len(got) = n
  BY <1>1, <1>2
<1>4. mode = "telnet" => 2 * n <= PORT_BUFSIZE
  BY <1>2 DEF ReadSize
<1>5. Doubled(got) \in Seq(Byte) /\ Len(Doubled(got)) <= 2 * n
  BY <1>3, DoubledIs
<1>6. mode = "telnet" => Len(Doubled(got)) <= PORT_BUFSIZE
  BY <1>2, <1>4, <1>5
<1>7. SubSeq(s, 1, ndev) \in Seq(Byte)
  BY <1>2
<1>8. SubSeq(s, 1, ndev) \o SubSeq(s, ndev + 1, k) = SubSeq(s, 1, k)
  <2>1. 1 \in 1 .. Len(s) + 1 /\ ndev \in 1 - 1 .. Len(s) /\ k \in ndev .. Len(s)
    BY <1>2
  <2>2. QED
    BY <1>2, <2>1, ConcatAdjacentSubSeq, Zenon
<1>9. Len(got) <= PORT_BUFSIZE
  BY <1>2, <1>3
<1>10. SubSeq(devStream, 1, ndev) \in Seq(Byte)
  BY <1>1, <1>7, Zenon
<1>11. SubSeq(devStream, 1, ndev + n) = SubSeq(devStream, 1, ndev) \o got
  BY <1>1, <1>8, Zenon
<1>12. QED
  BY <1>3, <1>5, <1>6, <1>9, <1>10, <1>11, Zenon

\* What is left of the device's bytes after the first write: it fits the buffer
\* wherever it is sent from, and unless the doubling moved the start and
\* something is left, it is the rest of these bytes.
LEMMA LeftFits ==
  ASSUME NEW data \in Seq(Byte), NEW w \in 0 .. Len(data), NEW stray \in Byte,
         NEW behind \in [1 .. stray -> StrayBytes],
         NEW left, left = Rest(data \o behind, stray + w)
  PROVE  /\ left \in Seq(Byte) /\ Len(left) = Len(data) - w
         /\ ~(stray > 0 /\ w < Len(data)) => left = Rest(data, w)
<1>1. stray \in Nat /\ \A i \in 1 .. stray : behind[i] \in Byte
  <2>1. StrayBytes \subseteq Byte
    BY SessionAssumption
  <2>2. stray \in Nat
    BY DEF Byte
  <2>3. QED
    BY <2>1, <2>2
<1>2. behind \in Seq(Byte) /\ Len(behind) = stray
  BY <1>1, IsASeq
<1>3. PICK mem : mem = data \o behind
  OBVIOUS
<1>4. mem \in Seq(Byte) /\ Len(mem) = Len(data) + stray
  BY <1>2, <1>3, ConcatProperties
<1>5. PICK k : k = stray + w
  OBVIOUS
<1>6. k \in 0 .. Len(mem) /\ Len(mem) - k = Len(data) - w
  BY <1>1, <1>4, <1>5
<1>7. PICK e : e = <<>>
  OBVIOUS
<1>8. e \in Seq(Byte)
  BY <1>7
<1>9. /\ Rest(mem, k) \in Seq(Byte) /\ Len(Rest(mem, k)) = Len(mem) - k
      /\ k = Len(mem) => Rest(mem, k) = <<>>
  BY <1>4, <1>6, <1>8, SplitIs
<1>10. left = Rest(mem, k)
  BY <1>3, <1>5, Zenon
<1>11. CASE stray = 0
  <2>1. behind = <<>>
    BY <1>2, <1>11, EmptySeq
  <2>2. mem = data
    BY <1>3, <2>1, ConcatEmptySeq, Zenon
  <2>3. k = w
    BY <1>5, <1>11
  <2>4. QED
    BY <1>6, <1>9, <1>10, <2>2, <2>3
<1>12. CASE w = Len(data)
  <2>1. Rest(data, w) = <<>>
    BY <1>8, <1>12, SplitIs
  <2>2. k = Len(mem)
    BY <1>1, <1>4, <1>5, <1>12
  <2>3. QED
    BY <1>6, <1>9, <1>10, <2>1, <2>2
<1>13. CASE stray > 0 /\ w < Len(data)
  BY <1>6, <1>9, <1>10, <1>13
<1>14. QED
  BY <1>1, <1>11, <1>12, <1>13

\* handle_dev_fd_read
LEMMA DevReadKeeps ==
  ASSUME SessionInv, NEW n \in 1 .. PORT_BUFSIZE, HandleDevFdRead(n)
  PROVE  SessionInv'
<1>1. Types /\ RawQuiet /\ ReadsIntoEmpty /\ PendingOutputWatched /\ DataKeepsOrder
  BY DEF SessionInv
<1>2. /\ UNCHANGED <<port, mode, td, sent, tcp_to_dev, stream, nread, devStream,
                     banner, sessions, spurious>>
      /\ pass' = pass \ {"devRead"} /\ "devRead" \in pass /\ port = "connected"
      /\ mode # "rawlp" /\ n <= ReadSize
      /\ ndev + n <= Len(devStream) /\ ndev' = ndev + n
      /\ enabled' = IF dev_to_tcp' = <<>> THEN enabled
                    ELSE (enabled \ {"devRead"}) \cup {"tcpWrite"}
  BY DEF HandleDevFdRead, Called, Turn, setup, tn
<1>3. PICK got : got = SubSeq(devStream, ndev + 1, ndev + n)
  OBVIOUS
<1>4. PICK data : data = IF mode = "telnet" THEN Doubled(got) ELSE got
  OBVIOUS
<1>5. PICK w \in 0 .. Len(data), stray \in Strays(data) :
        /\ \E behind \in [1 .. stray -> StrayBytes] :
             dev_to_tcp' = Rest(data \o behind, stray + w)
        /\ dataSent' = dataSent \o SubSeq(data, 1, w)
        /\ astray' = (astray \/ (stray > 0 /\ w < Len(data)))
  BY <1>3, <1>4 DEF HandleDevFdRead, LeftOver
<1>6. PICK old : old = SubSeq(devStream, 1, ndev)
  OBVIOUS
<1>7. /\ got \in Seq(Byte) /\ data \in Seq(Byte) /\ Len(data) <= PORT_BUFSIZE
      /\ old \in Seq(Byte) /\ SubSeq(devStream, 1, ndev + n) = old \o got
  BY <1>1, <1>2, <1>3, <1>4, <1>6, ReadFits
<1>8. /\ dataSent \in Seq(Byte) /\ ndev \in Nat /\ n \in Nat /\ n > 0 /\ ndev' > 0
      /\ ndev' \in 0 .. Len(devStream) /\ PORT_BUFSIZE \in Nat
  BY <1>1, <1>2, SessionAssumption DEF Types
<1>9. /\ dataSent' \in Seq(Byte) /\ dev_to_tcp' \in Seq(Byte) /\ astray' \in BOOLEAN
      /\ Len(dev_to_tcp') = Len(data) - w
      /\ ~astray' => ~astray /\ dataSent' \o dev_to_tcp' = dataSent \o data
  <2>1. stray \in Byte
    BY SessionAssumption DEF Strays, Byte
  <2>2. PICK behind \in [1 .. stray -> StrayBytes] :
          dev_to_tcp' = Rest(data \o behind, stray + w)
    BY <1>5
  <2>3. /\ dev_to_tcp' \in Seq(Byte) /\ Len(dev_to_tcp') = Len(data) - w
        /\ ~(stray > 0 /\ w < Len(data)) => dev_to_tcp' = Rest(data, w)
    BY <1>7, <2>1, <2>2, LeftFits
  <2>4. /\ dataSent' \in Seq(Byte)
        /\ dataSent' \o Rest(data, w) = dataSent \o data
    BY <1>5, <1>7, <1>8, SplitIs, Zenon
  <2>5. astray' \in BOOLEAN /\ (~astray' => ~astray /\ dev_to_tcp' = Rest(data, w))
    BY <1>1, <1>5, <2>3 DEF Types
  <2>6. QED
    BY <2>3, <2>4, <2>5
<1>10. Types'
  <2>1. Len(dev_to_tcp') <= PORT_BUFSIZE
    BY <1>5, <1>7, <1>8, <1>9
  <2>2. enabled' \subseteq Handlers /\ pass' \subseteq Handlers
    BY <1>1, <1>2 DEF Types, Handlers, Order
  <2>3. QED
    BY <1>1, <1>2, <1>8, <1>9, <2>1, <2>2 DEF Types
<1>11. RawQuiet'
  BY <1>1, <1>2, <1>8 DEF RawQuiet
<1>12. ReadsIntoEmpty'
  BY <1>2 DEF ReadsIntoEmpty
<1>13. PendingOutputWatched'
  BY <1>1, <1>2 DEF PendingOutputWatched
<1>14. ASSUME ~astray' PROVE DataKeepsOrder'
  <2>1. mode = "telnet" \/ ndev > 0 => dev_to_tcp = <<>>
    BY <1>1, <1>2 DEF ReadsIntoEmpty
  <2>2. dataSent \o <<>> = dataSent
    BY <1>8, ConcatEmptySeq, Zenon
  <2>3. CASE mode = "telnet"
    <3>1. PICK b : b = DisplayBanner(banner)
      OBVIOUS
    <3>2. b \in Seq(Byte)
      BY <1>1, <3>1, BannerFits DEF Types
    <3>3. dataSent \o dev_to_tcp = b \o Doubled(old)
      BY <1>1, <1>2, <1>6, <1>9, <1>14, <2>3, <3>1 DEF DataKeepsOrder, InOrder
    <3>4. dataSent = b \o Doubled(old)
      BY <2>1, <2>2, <2>3, <3>3, Zenon
    <3>5. Doubled(old) \in Seq(Byte) /\ data = Doubled(got)
      BY <1>4, <1>7, <2>3, DoubledIs
    <3>6. Doubled(old \o got) = Doubled(old) \o data
      BY <1>7, <3>5, DoubledConcat
    <3>7. (b \o Doubled(old)) \o data = b \o (Doubled(old) \o data)
      BY <1>7, <3>2, <3>5, Assoc, ZenonT(40)
    <3>8. dataSent' \o dev_to_tcp' = b \o Doubled(old \o got)
      BY <1>9, <1>14, <3>4, <3>6, <3>7, Zenon
    <3>9. QED
      BY <1>2, <1>7, <2>3, <3>1, <3>8 DEF DataKeepsOrder, InOrder
  <2>4. CASE mode # "telnet" /\ ndev > 0
    <3>1. dataSent \o dev_to_tcp = old
      BY <1>1, <1>2, <1>6, <1>9, <1>14, <2>4 DEF DataKeepsOrder, InOrder
    <3>2. dataSent = old
      BY <2>1, <2>2, <2>4, <3>1, Zenon
    <3>3. dataSent' \o dev_to_tcp' = old \o got
      BY <1>4, <1>9, <1>14, <2>4, <3>2
    <3>4. QED
      BY <1>2, <1>7, <1>8, <2>4, <3>3 DEF DataKeepsOrder, InOrder
  <2>5. CASE mode # "telnet" /\ ndev = 0
    <3>1. dataSent = <<>>
      BY <1>1, <1>2, <2>5 DEF RawQuiet
    <3>2. old = <<>>
      BY <1>1, <1>6, <2>5 DEF Types
    <3>3. dataSent' \o dev_to_tcp' = old \o got
      BY <1>4, <1>9, <1>14, <2>5, <3>1, <3>2
    <3>4. QED
      BY <1>2, <1>7, <1>8, <2>5, <3>3 DEF DataKeepsOrder, InOrder
  <2>6. QED
    BY <1>8, <2>3, <2>4, <2>5
<1>15. DataKeepsOrder'
  BY <1>14 DEF DataKeepsOrder
<1>16. QED
  BY <1>10, <1>11, <1>12, <1>13, <1>15 DEF SessionInv

\* The select loop drops the reader of a rawlp port.
LEMMA NoReaderKeeps ==
  ASSUME SessionInv, NoDevReader
  PROVE  SessionInv'
<1>1. Types /\ RawQuiet /\ ReadsIntoEmpty /\ DataKeepsOrder
  BY DEF SessionInv
<1>2. /\ UNCHANGED <<port, mode, td, sent, tcp_to_dev, dev_to_tcp, stream, nread, devStream,
                     ndev, banner, dataSent, astray, sessions, spurious>>
      /\ pass' \subseteq pass /\ mode = "rawlp" /\ enabled' \subseteq enabled
  BY DEF NoDevReader, Called, Turn, setup, tn, client, device, buffers
<1>3. Types'
  BY <1>1, <1>2 DEF Types
<1>4. RawQuiet'
  BY <1>1, <1>2 DEF RawQuiet
<1>5. ReadsIntoEmpty'
  BY <1>1, <1>2 DEF ReadsIntoEmpty
<1>6. PendingOutputWatched'
  BY <1>2 DEF PendingOutputWatched
<1>7. DataKeepsOrder'
  BY <1>1, <1>2 DEF DataKeepsOrder, InOrder
<1>8. QED
  BY <1>3, <1>4, <1>5, <1>6, <1>7 DEF SessionInv

\* handle_tcp_fd_write
LEMMA TcpWriteKeeps ==
  ASSUME SessionInv, NEW c \in 0 .. Len(td.out), NEW n \in 0 .. Len(dev_to_tcp),
         HandleTcpFdWrite(c, n)
  PROVE  SessionInv'
<1>1. Types /\ RawQuiet /\ ReadsIntoEmpty /\ PendingOutputWatched /\ DataKeepsOrder
  BY DEF SessionInv
<1>2. /\ UNCHANGED <<port, mode, sent, tcp_to_dev, astray, stream, nread, devStream, ndev,
                     banner, sessions>>
      /\ pass' = pass \ {"tcpWrite"} /\ "tcpWrite" \in pass /\ port = "connected"
      /\ td' = [td EXCEPT !.out = Rest(@, c)]
      /\ dev_to_tcp' = Rest(dev_to_tcp, n)
      /\ dataSent' = dataSent \o SubSeq(dev_to_tcp, 1, n)
      /\ enabled' = IF (c = Len(td.out) \/ c = 0) /\ n = Len(dev_to_tcp)
                    THEN (enabled \ {"tcpWrite"}) \cup {"devRead"} ELSE enabled
  BY DEF HandleTcpFdWrite, Called, Turn, MayWriteData, setup, device
<1>3. /\ spurious' \in {spurious, spurious + 1}
      /\ spurious' # spurious => spurious < MaxSpurious
      /\ td.out # <<>> /\ c = 0 => spurious' = spurious + 1
  BY DEF HandleTcpFdWrite
<1>4. /\ td \in TnData /\ CmdFits(td.cmd) /\ td.out \in Seq(Byte) /\ Fits(td)
      /\ Len(td.out) <= MAX_TELNET_CMD_XMIT_BUF /\ MAX_TELNET_CMD_XMIT_BUF \in Nat
      /\ dev_to_tcp \in Seq(Byte) /\ Len(dev_to_tcp) <= PORT_BUFSIZE /\ PORT_BUFSIZE \in Nat
      /\ dataSent \in Seq(Byte)
      /\ spurious \in 0 .. MaxSpurious /\ MaxSpurious \in Nat
  BY <1>1, SessionAssumption, TelnetAssumption DEF Types, Fits, OutFits
<1>5. PICK o : o = Rest(td.out, c)
  OBVIOUS
<1>6. /\ o \in Seq(Byte) /\ Len(o) = Len(td.out) - c
      /\ c = Len(td.out) => o = <<>>
      /\ td.out = <<>> => o = <<>>
  BY <1>4, <1>5, SplitIs
<1>7. /\ dataSent' \in Seq(Byte) /\ dev_to_tcp' \in Seq(Byte)
      /\ Len(dev_to_tcp') = Len(dev_to_tcp) - n
      /\ n = Len(dev_to_tcp) => dev_to_tcp' = <<>>
      /\ dev_to_tcp = <<>> => dev_to_tcp' = <<>>
      /\ dataSent' \o dev_to_tcp' = dataSent \o dev_to_tcp
  BY <1>2, <1>4, SplitIs
<1>8. /\ td' \in TnData /\ td'.cmd = td.cmd /\ td'.out = o /\ td'.is_2217 = td.is_2217
  BY <1>2, <1>4, <1>5, <1>6 DEF TnData
<1>9. Fits(td')
  <2>1. OutFits(o)
    BY <1>4, <1>6 DEF OutFits
  <2>2. QED
    BY <1>4, <1>8, <2>1 DEF Fits
<1>10. spurious' \in 0 .. MaxSpurious /\ (spurious' = 0 => spurious = 0)
  BY <1>3, <1>4
<1>11. Types'
  <2>1. Len(dev_to_tcp') <= PORT_BUFSIZE
    BY <1>4, <1>7
  <2>2. enabled' \subseteq Handlers /\ pass' \subseteq Handlers
    BY <1>1, <1>2 DEF Types, Handlers, Order
  <2>3. QED
    BY <1>1, <1>2, <1>7, <1>9, <1>10, <2>1, <2>2 DEF Types
<1>12. mode # "telnet" => ndev # 0 /\ mode # "rawlp"
  BY <1>1, <1>2 DEF RawQuiet
<1>13. RawQuiet'
  BY <1>1, <1>2, <1>6, <1>8, <1>12 DEF RawQuiet
<1>14. ReadsIntoEmpty'
  BY <1>1, <1>2, <1>7 DEF ReadsIntoEmpty
<1>15. PendingOutputWatched'
  <2>1. CASE (c = Len(td.out) \/ c = 0) /\ n = Len(dev_to_tcp)
    <3>1. o # <<>> => spurious' # 0
      BY <1>3, <1>4, <1>6, <2>1
    <3>2. /\ dev_to_tcp' = <<>> /\ "tcpWrite" \notin enabled' /\ "devRead" \in enabled'
          /\ "tcpRead" \in enabled' <=> "tcpRead" \in enabled
          /\ "devWrite" \in enabled' <=> "devWrite" \in enabled
      BY <1>2, <1>7, <2>1
    <3>3. QED
      BY <1>1, <1>2, <1>8, <3>1, <3>2 DEF PendingOutputWatched
  <2>2. CASE ~((c = Len(td.out) \/ c = 0) /\ n = Len(dev_to_tcp))
    <3>1. enabled' = enabled
      BY <1>2, <2>2
    <3>2. QED
      BY <1>1, <1>2, <1>6, <1>7, <1>8, <1>10, <3>1 DEF PendingOutputWatched
  <2>3. QED
    BY <2>1, <2>2
<1>16. DataKeepsOrder'
  BY <1>1, <1>2, <1>7, <1>12 DEF DataKeepsOrder, InOrder
<1>17. QED
  BY <1>11, <1>13, <1>14, <1>15, <1>16 DEF SessionInv

\* What a client hears of the modem lines is a byte.
LEMMA MaskedIs ==
  ASSUME NEW m, NEW mask
  PROVE  Masked(m, mask) \in Byte
<1> DEFINE both(bit) == IF (m \div bit) % 2 = 1 /\ (mask \div bit) % 2 = 1
                        THEN bit ELSE 0
<1>1. both(16) \in {0, 16} /\ both(32) \in {0, 32}
  BY Zenon
<1>2. both(64) \in {0, 64} /\ both(128) \in {0, 128}
  BY Zenon
<1>3. Masked(m, mask) = both(16) + both(32) + both(64) + both(128)
  BY Zenon DEF Masked
<1> HIDE DEF both
<1>4. QED
  BY <1>1, <1>2, <1>3 DEF Byte

\* got_timeout
LEMMA NotifyKeeps ==
  ASSUME SessionInv, NEW m \in ModemStates, NotifyModemstate(m)
  PROVE  SessionInv'
<1>1. Types /\ RawQuiet /\ ReadsIntoEmpty /\ PendingOutputWatched /\ DataKeepsOrder
  BY DEF SessionInv
<1>2. PICK state : state = Masked(m, td.modemstate_mask)
  OBVIOUS
<1>3. /\ UNCHANGED <<port, mode, sent, tcp_to_dev, dev_to_tcp, stream, nread, devStream,
                     ndev, banner, dataSent, astray, sessions, spurious, pass>>
      /\ td.is_2217 /\ pass = {}
      /\ td' = SendOption([td EXCEPT !.modemstate = state], <<COM_PORT, 107, state>>)
      /\ enabled' = OutputReady(td'.out # td.out, enabled)
  BY <1>2 DEF NotifyModemstate, setup, client, device, buffers
<1>4. state \in Byte
  BY <1>2, MaskedIs
<1>5. Fits(td')
  <2>1. PICK k : k = [td EXCEPT !.modemstate = state]
    OBVIOUS
  <2>2. k \in TnData /\ k.cmd = td.cmd /\ k.out = td.out
    BY <1>1, <1>4, <2>1 DEF Types, Fits, TnData
  <2>3. Fits(k)
    BY <1>1, <2>2 DEF Types, Fits
  <2>4. COM_PORT \in Byte /\ 107 \in Byte
    BY DEF COM_PORT, Byte
  <2>5. <<COM_PORT, 107, state>> \in Seq(Byte)
    BY <1>4, <2>4
  <2>6. QED
    BY <1>3, <2>1, <2>3, <2>5, SendOptionFits
<1>6. mode = "telnet"
  BY <1>1, <1>3 DEF RawQuiet
<1>7. /\ td'.out # td.out => "tcpWrite" \in enabled' /\ "devRead" \notin enabled'
      /\ td'.out = td.out => enabled' = enabled
      /\ "tcpRead" \in enabled' <=> "tcpRead" \in enabled
      /\ "devWrite" \in enabled' <=> "devWrite" \in enabled
      /\ enabled' \subseteq enabled \cup {"tcpWrite"}
  BY <1>3 DEF OutputReady
<1>8. Types'
  <2>1. enabled' \subseteq Handlers
    BY <1>1, <1>7 DEF Types, Handlers, Order
  <2>2. QED
    BY <1>1, <1>3, <1>5, <2>1 DEF Types
<1>9. RawQuiet'
  BY <1>3, <1>6 DEF RawQuiet
<1>10. ReadsIntoEmpty'
  BY <1>3 DEF ReadsIntoEmpty
<1>11. PendingOutputWatched'
  <2>1. CASE td'.out = td.out
    BY <1>1, <1>3, <1>7, <2>1 DEF PendingOutputWatched
  <2>2. CASE td'.out # td.out
    BY <1>1, <1>3, <1>7, <2>2 DEF PendingOutputWatched
  <2>3. QED
    BY <2>1, <2>2
<1>12. DataKeepsOrder'
  BY <1>1, <1>3 DEF DataKeepsOrder, InOrder
<1>13. QED
  BY <1>8, <1>9, <1>10, <1>11, <1>12 DEF SessionInv

\* Every step keeps the invariant.
LEMMA SessionStep ==
  ASSUME SessionInv, [Next]_vars
  PROVE  SessionInv'
<1>1. CASE Connect
  BY <1>1, ConnectKeeps
<1>2. CASE Select
  BY <1>2, SelectKeeps
<1>3. CASE Handle
  BY <1>3, TcpReadKeeps, TelnetFailsKeeps, DevWriteKeeps, DevReadKeeps, NoReaderKeeps,
     TcpWriteKeeps DEF Handle
<1>4. ASSUME NEW m \in ModemStates, NotifyModemstate(m) PROVE SessionInv'
  BY <1>4, NotifyKeeps
<1>5. CASE Fail
  <2>1. Fits(td) /\ ShutdownPort(td)
    BY <1>5 DEF Fail, SessionInv, Types
  <2>2. QED
    BY <2>1, ShutdownKeeps
<1>6. CASE UNCHANGED vars
  <2>1. UNCHANGED <<port, mode, td, sent, enabled, pass, tcp_to_dev, dev_to_tcp, stream,
                    nread, devStream, ndev, banner, dataSent, astray, sessions, spurious>>
    BY <1>6 DEF vars, tn, buffers, client, device, setup
  <2>2. QED
    BY <2>1 DEF SessionInv, Types, RawQuiet, ReadsIntoEmpty, PendingOutputWatched,
                DataKeepsOrder, InOrder
<1>7. QED
  BY <1>1, <1>2, <1>3, <1>4, <1>5, <1>6 DEF Next, Done

\* The invariant of a session
THEOREM SessionCorrect == Spec => []SessionInv
BY SessionInit, SessionStep, PTL DEF Spec

\* The data fit the buffers of a port, and commands and answers the arrays of
\* the telnet layer, whatever a client sends and however its bytes are cut into
\* reads (process_telnet_data, telnet_cmd_send, handle_dev_fd_read).  It does
\* not say that no byte behind dev_to_tcp_buf is written: handle_dev_fd_read
\* moves one more than the data, as Strays has it.
THEOREM BuffersBounded == Spec => []TypeOK
BY SessionCorrect, SessionTyped, PTL

\* Each direction is watched on exactly one side, and output that waits has its
\* writer watched, in whatever order the handlers of a round are called.
THEOREM OutputWatched == Spec => []PendingOutputWatched
<1>1. SessionInv => PendingOutputWatched
  BY DEF SessionInv
<1>2. QED
  BY <1>1, SessionCorrect, PTL

\* What the device delivers reaches the TCP connection once and in order,
\* behind the banner, for any sizes of the writes, as long as no rest was sent
\* from a wrong place: that takes half a buffer of IACs on a telnet port and a
\* first write that does not take them all (handle_dev_fd_read,
\* handle_tcp_fd_write).
THEOREM OrderKept == Spec => []DataKeepsOrder
<1>1. SessionInv => DataKeepsOrder
  BY DEF SessionInv
<1>2. QED
  BY <1>1, SessionCorrect, PTL
-----------------------------------------------------------------------------
(***************************************************************************)
(* Reading the protocol                                                    *)
(***************************************************************************)
Places == {"data", "iac", "option", "sb", "sub", "subiac"}
Readers == [at : Places, data : Seq(Byte)]

\* f is where a reader is after each byte.
Reads(f, c, s, n) ==
  f = [i \in 0 .. n |-> IF i = 0 THEN c ELSE ReadByte(f[i - 1], s[i])]

\* One step of a reader
LEMMA ReadsAt ==
  ASSUME NEW f, NEW c, NEW s, NEW n, Reads(f, c, s, n), NEW i \in 0 .. n
  PROVE  f[i] = IF i = 0 THEN c ELSE ReadByte(f[i - 1], s[i])
<1>1. PICK e : e = [j \in 0 .. n |-> IF j = 0 THEN c ELSE ReadByte(f[j - 1], s[j])]
  OBVIOUS
<1>2. f = e
  BY <1>1 DEF Reads
<1>3. e[i] = IF i = 0 THEN c ELSE ReadByte(f[i - 1], s[i])
  BY <1>1
<1>4. QED
  BY <1>2, <1>3

\* The bytes can be read, however many there are.
LEMMA ReadsExist ==
  ASSUME NEW c, NEW s
  PROVE  \A n \in Nat : \E f : Reads(f, c, s, n)
<1>1. PICK S : S = {n \in Nat : \E f : Reads(f, c, s, n)}
  OBVIOUS
<1>2. 0 \in S
  <2>1. PICK f : f = [i \in 0 .. 0 |-> c]
    OBVIOUS
  <2>2. Reads(f, c, s, 0)
    BY <2>1 DEF Reads
  <2>3. QED
    BY <1>1, <2>2
<1>3. ASSUME NEW n \in Nat, n \in S PROVE n + 1 \in S
  <2>1. PICK f : Reads(f, c, s, n)
    BY <1>1, <1>3
  <2>2. PICK x : x = ReadByte(f[n], s[n + 1])
    OBVIOUS
  <2>3. PICK g : g = [i \in 0 .. n + 1 |-> IF i = n + 1 THEN x ELSE f[i]]
    OBVIOUS
  <2>4. ASSUME NEW i \in 0 .. n + 1
        PROVE  g[i] = IF i = 0 THEN c ELSE ReadByte(g[i - 1], s[i])
    <3>1. CASE i = n + 1
      <4>1. i # 0 /\ i - 1 = n /\ g[n] = f[n] /\ g[i] = x
        BY <1>3, <2>3, <3>1
      <4>2. QED
        BY <2>2, <3>1, <4>1
    <3>2. CASE i # n + 1
      <4>1. i \in 0 .. n /\ g[i] = f[i] /\ (i # 0 => g[i - 1] = f[i - 1])
        BY <1>3, <2>3, <2>4, <3>2
      <4>2. f[i] = IF i = 0 THEN c ELSE ReadByte(f[i - 1], s[i])
        BY <2>1, <4>1 DEF Reads
      <4>3. QED
        BY <4>1, <4>2
    <3>3. QED
      BY <3>1, <3>2
  <2>5. Reads(g, c, s, n + 1)
    BY <2>3, <2>4 DEF Reads
  <2>6. QED
    BY <1>1, <1>3, <2>5
<1>4. \A n \in Nat : n \in S
  BY <1>2, <1>3, Induction
<1>5. QED
  BY <1>1, <1>4

\* ReadBytes is what such a function gives.
LEMMA ReadBytesIs ==
  ASSUME NEW c, NEW s, Len(s) \in Nat
  PROVE  \E f : Reads(f, c, s, Len(s)) /\ ReadBytes(c, s) = f[Len(s)]
<1>1. \E f : Reads(f, c, s, Len(s))
  BY ReadsExist
<1>2. PICK f : f = CHOOSE g : Reads(g, c, s, Len(s))
  OBVIOUS
<1>3. Reads(f, c, s, Len(s))
  BY <1>1, <1>2
<1>4. ReadBytes(c, s) = f[Len(s)]
  BY <1>2 DEF ReadBytes, Reads
<1>5. QED
  BY <1>3, <1>4

\* Such functions agree where both are defined.
LEMMA ReadsAgree ==
  ASSUME NEW c, NEW f, NEW s, NEW m \in Nat, Reads(f, c, s, m),
         NEW g, NEW t, NEW n \in Nat, Reads(g, c, t, n),
         m <= n, \A i \in 1 .. m : s[i] = t[i]
  PROVE  \A i \in 0 .. m : f[i] = g[i]
<1>1. PICK S : S = {k \in Nat : k \in 0 .. m => f[k] = g[k]}
  OBVIOUS
<1>2. 0 \in S
  <2>1. 0 \in 0 .. m /\ 0 \in 0 .. n
    OBVIOUS
  <2>2. f[0] = c /\ g[0] = c
    BY <2>1, ReadsAt
  <2>3. QED
    BY <1>1, <2>2
<1>3. ASSUME NEW k \in Nat, k \in S PROVE k + 1 \in S
  <2>1. SUFFICES ASSUME k + 1 \in 0 .. m PROVE f[k + 1] = g[k + 1]
    BY <1>1, <1>3
  <2>2. k + 1 \in 0 .. n /\ k + 1 # 0 /\ k + 1 - 1 = k
    BY <2>1
  <2>3. /\ f[k + 1] = IF k + 1 = 0 THEN c ELSE ReadByte(f[k + 1 - 1], s[k + 1])
        /\ g[k + 1] = IF k + 1 = 0 THEN c ELSE ReadByte(g[k + 1 - 1], t[k + 1])
    BY <2>1, <2>2, ReadsAt
  <2>4. s[k + 1] = t[k + 1] /\ f[k] = g[k]
    BY <1>1, <1>3, <2>1
  <2>5. QED
    BY <2>2, <2>3, <2>4
<1>4. \A k \in Nat : k \in S
  BY <1>2, <1>3, Induction
<1>5. QED
  BY <1>1, <1>4

\* No byte changes nothing.
LEMMA ReadNothing ==
  ASSUME NEW c
  PROVE  ReadBytes(c, <<>>) = c
<1>1. PICK e : e = <<>>
  OBVIOUS
<1>2. Len(e) = 0
  BY <1>1
<1>3. PICK f : Reads(f, c, e, 0) /\ ReadBytes(c, e) = f[0]
  BY <1>2, ReadBytesIs
<1>4. f[0] = c
  <2>1. 0 \in 0 .. 0
    OBVIOUS
  <2>2. QED
    BY <1>3, <2>1, ReadsAt
<1>5. QED
  BY <1>1, <1>3, <1>4

\* One byte more
LEMMA ReadAppend ==
  ASSUME NEW c, NEW s \in Seq(Byte), NEW b \in Byte
  PROVE  ReadBytes(c, Append(s, b)) = ReadByte(ReadBytes(c, s), b)
<1>1. PICK t, m, n : t = Append(s, b) /\ m = Len(s) /\ n = m + 1
  OBVIOUS
<1>2. /\ m \in Nat /\ n \in Nat /\ Len(t) = n /\ t[n] = b /\ m <= n
      /\ \A i \in 1 .. m : s[i] = t[i]
  BY <1>1
<1>3. PICK f : Reads(f, c, s, m) /\ ReadBytes(c, s) = f[m]
  BY <1>1, <1>2, ReadBytesIs, Zenon
<1>4. PICK g : Reads(g, c, t, n) /\ ReadBytes(c, t) = g[n]
  <2>1. Len(t) \in Nat
    BY <1>2
  <2>2. QED
    BY <1>2, <2>1, ReadBytesIs, Zenon
<1>5. f[m] = g[m]
  <2>1. m \in 0 .. m
    BY <1>2
  <2>2. QED
    BY <1>2, <1>3, <1>4, <2>1, ReadsAgree
<1>6. g[n] = ReadByte(g[m], b)
  <2>1. n \in 0 .. n /\ n # 0 /\ n - 1 = m
    BY <1>1, <1>2
  <2>2. g[n] = IF n = 0 THEN c ELSE ReadByte(g[n - 1], t[n])
    BY <1>4, <2>1, ReadsAt
  <2>3. QED
    BY <1>2, <2>1, <2>2
<1>7. QED
  BY <1>1, <1>3, <1>4, <1>5, <1>6

\* A reader stays a reader, and its data only grow.
LEMMA ReadByteIs ==
  ASSUME NEW c \in Readers, NEW b \in Byte
  PROVE  /\ ReadByte(c, b) \in Readers
         /\ ReadByte(c, b).at = NextAt(c.at, b)
         /\ ReadByte(c, b).data = IF IsData(c.at, b) THEN Append(c.data, b) ELSE c.data
<1>1. c.at \in Places /\ c.data \in Seq(Byte)
  BY DEF Readers
<1>2. PICK a : a = NextAt(c.at, b)
  OBVIOUS
<1>3. a \in Places
  BY <1>1, <1>2 DEF NextAt, Places
<1>4. PICK d : d = IF IsData(c.at, b) THEN Append(c.data, b) ELSE c.data
  OBVIOUS
<1>5. d \in Seq(Byte)
  BY <1>1, <1>4
<1>6. PICK r : r = [at |-> a, data |-> d]
  OBVIOUS
<1>7. r \in Readers /\ r.at = a /\ r.data = d
  BY <1>3, <1>5, <1>6 DEF Readers
<1>8. ReadByte(c, b) = r
  BY <1>2, <1>4, <1>6 DEF ReadByte
<1>9. QED
  BY <1>2, <1>4, <1>7, <1>8

\* Whatever the bytes are
LEMMA ReadTyped ==
  ASSUME NEW c \in Readers, NEW s \in Seq(Byte)
  PROVE  ReadBytes(c, s) \in Readers
<1>1. PICK S : S = {r \in Seq(Byte) : ReadBytes(c, r) \in Readers}
  OBVIOUS
<1>2. <<>> \in S
  <2>1. <<>> \in Seq(Byte)
    OBVIOUS
  <2>2. QED
    BY <1>1, <2>1, ReadNothing, Zenon
<1>3. ASSUME NEW r \in Seq(Byte), NEW b \in Byte, r \in S PROVE Append(r, b) \in S
  <2>1. ReadBytes(c, Append(r, b)) = ReadByte(ReadBytes(c, r), b)
    BY ReadAppend, Zenon
  <2>2. ReadBytes(c, r) \in Readers
    BY <1>1, <1>3, Zenon
  <2>3. ReadByte(ReadBytes(c, r), b) \in Readers
    BY <2>2, ReadByteIs, Zenon
  <2>4. Append(r, b) \in Seq(Byte)
    OBVIOUS
  <2>5. QED
    BY <1>1, <2>1, <2>3, <2>4, Zenon
<1>4. \A r \in Seq(Byte) : r \in S
  BY <1>2, <1>3, SeqInduction
<1>5. QED
  BY <1>1, <1>4

\* Reading in two portions is reading at once.
LEMMA ReadConcat ==
  ASSUME NEW c, NEW s \in Seq(Byte), NEW t \in Seq(Byte)
  PROVE  ReadBytes(c, s \o t) = ReadBytes(ReadBytes(c, s), t)
<1>1. PICK S : S = {r \in Seq(Byte) : ReadBytes(c, s \o r) = ReadBytes(ReadBytes(c, s), r)}
  OBVIOUS
<1>2. <<>> \in S
  <2>1. s \o <<>> = s
    BY ConcatEmptySeq, Zenon
  <2>2. ReadBytes(ReadBytes(c, s), <<>>) = ReadBytes(c, s)
    BY ReadNothing, Zenon
  <2>3. <<>> \in Seq(Byte)
    OBVIOUS
  <2>4. QED
    BY <1>1, <2>1, <2>2, <2>3, Zenon
<1>3. ASSUME NEW r \in Seq(Byte), NEW b \in Byte, r \in S PROVE Append(r, b) \in S
  <2>1. ReadBytes(c, s \o r) = ReadBytes(ReadBytes(c, s), r)
    BY <1>1, <1>3, Zenon
  <2>2. s \o Append(r, b) = Append(s \o r, b) /\ s \o r \in Seq(Byte)
    OBVIOUS
  <2>3. ReadBytes(c, Append(s \o r, b)) = ReadByte(ReadBytes(c, s \o r), b)
    BY <2>2, ReadAppend, Zenon
  <2>4. ReadBytes(ReadBytes(c, s), Append(r, b))
          = ReadByte(ReadBytes(ReadBytes(c, s), r), b)
    BY ReadAppend, Zenon
  <2>5. Append(r, b) \in Seq(Byte)
    OBVIOUS
  <2>6. ReadBytes(c, s \o Append(r, b)) = ReadBytes(ReadBytes(c, s), Append(r, b))
    BY <2>1, <2>2, <2>3, <2>4, Zenon
  <2>7. QED
    BY <1>1, <2>5, <2>6, Zenon
<1>4. \A r \in Seq(Byte) : r \in S
  BY <1>2, <1>3, SeqInduction
<1>5. QED
  BY <1>1, <1>4

\* A reader who starts at the place a
From(a) == [at |-> a, data |-> <<>>]

\* A starting reader is one.
LEMMA FromIs ==
  ASSUME NEW a \in Places
  PROVE  From(a) \in Readers /\ From(a).at = a /\ From(a).data = <<>>
<1>1. <<>> \in Seq(Byte)
  OBVIOUS
<1>2. QED
  BY <1>1 DEF From, Readers

\* What a reader makes of the bytes does not depend on the data before them.
LEMMA ReadShift ==
  ASSUME NEW c \in Readers, NEW s \in Seq(Byte)
  PROVE  /\ ReadBytes(c, s).at = ReadBytes(From(c.at), s).at
         /\ ReadBytes(c, s).data = c.data \o ReadBytes(From(c.at), s).data
<1>1. PICK F : F = From(c.at)
  OBVIOUS
<1>2. /\ F \in Readers /\ F.at = c.at /\ F.data = <<>>
      /\ c.at \in Places /\ c.data \in Seq(Byte)
  BY <1>1, FromIs DEF Readers
<1>3. PICK S : S = {r \in Seq(Byte) :
                      /\ ReadBytes(c, r).at = ReadBytes(F, r).at
                      /\ ReadBytes(c, r).data = c.data \o ReadBytes(F, r).data}
  OBVIOUS
<1>4. <<>> \in S
  <2>1. ReadBytes(c, <<>>) = c /\ ReadBytes(F, <<>>) = F
    BY ReadNothing, Zenon
  <2>2. c.data \o <<>> = c.data
    BY <1>2, ConcatEmptySeq, Zenon
  <2>3. <<>> \in Seq(Byte)
    OBVIOUS
  <2>4. QED
    BY <1>2, <1>3, <2>1, <2>2, <2>3, Zenon
<1>5. ASSUME NEW r \in Seq(Byte), NEW b \in Byte, r \in S PROVE Append(r, b) \in S
  <2>1. PICK x, y : x = ReadBytes(c, r) /\ y = ReadBytes(F, r)
    OBVIOUS
  <2>2. x.at = y.at /\ x.data = c.data \o y.data
    BY <1>3, <1>5, <2>1, Zenon
  <2>3. x \in Readers /\ y \in Readers
    BY <1>2, <2>1, ReadTyped
  <2>4. ReadBytes(c, Append(r, b)) = ReadByte(x, b)
    BY <2>1, ReadAppend, Zenon
  <2>5. ReadBytes(F, Append(r, b)) = ReadByte(y, b)
    BY <2>1, ReadAppend, Zenon
  <2>6. ReadByte(x, b).at = ReadByte(y, b).at
    BY <2>2, <2>3, ReadByteIs
  <2>7. ReadByte(x, b).data = c.data \o ReadByte(y, b).data
    <3>1. y.data \in Seq(Byte)
      BY <2>3 DEF Readers
    <3>2. c.data \o Append(y.data, b) = Append(c.data \o y.data, b)
      <4>1. \A u, v \in Seq(Byte) : u \o Append(v, b) = Append(u \o v, b)
        OBVIOUS
      <4>2. QED
        BY <1>2, <3>1, <4>1, Zenon
    <3>3. /\ ReadByte(x, b).data = IF IsData(x.at, b) THEN Append(x.data, b) ELSE x.data
          /\ ReadByte(y, b).data = IF IsData(y.at, b) THEN Append(y.data, b) ELSE y.data
      BY <2>3, ReadByteIs
    <3>4. QED
      BY <2>2, <3>2, <3>3, Zenon
  <2>8. Append(r, b) \in Seq(Byte)
    OBVIOUS
  <2>9. QED
    BY <1>3, <2>4, <2>5, <2>6, <2>7, <2>8, Zenon
<1>6. \A r \in Seq(Byte) : r \in S
  BY <1>4, <1>5, SeqInduction
<1>7. QED
  BY <1>1, <1>3, <1>6

\* From the place a, the bytes are complete commands, with no data among them.
Harmless(a, s) == ReadBytes(From(a), s) = FreshReader

\* No byte at all
LEMMA HarmlessNothing ==
  ASSUME NEW a \in Places
  PROVE  Harmless(a, <<>>) <=> a = "data"
<1>1. ReadBytes(From(a), <<>>) = From(a)
  BY ReadNothing, Zenon
<1>2. From(a) = FreshReader <=> a = "data"
  BY FromIs DEF From, FreshReader
<1>3. QED
  BY <1>1, <1>2 DEF Harmless

\* A reader of harmless bytes has the data it had.
LEMMA HarmlessRead ==
  ASSUME NEW c \in Readers, NEW s \in Seq(Byte), Harmless(c.at, s)
  PROVE  ReadBytes(c, s) = [at |-> "data", data |-> c.data]
<1>1. PICK r : r = ReadBytes(c, s)
  OBVIOUS
<1>2. r \in Readers
  BY <1>1, ReadTyped
<1>3. ReadBytes(From(c.at), s).at = "data" /\ ReadBytes(From(c.at), s).data = <<>>
  BY DEF Harmless, FreshReader
<1>4. r.at = "data" /\ r.data = c.data \o <<>>
  BY <1>1, <1>3, ReadShift, Zenon
<1>5. c.data \o <<>> = c.data
  <2>1. c.data \in Seq(Byte)
    BY DEF Readers
  <2>2. QED
    BY <2>1, ConcatEmptySeq, Zenon
<1>6. QED
  BY <1>1, <1>2, <1>4, <1>5 DEF Readers

\* Commands behind commands
LEMMA HarmlessConcat ==
  ASSUME NEW a \in Places, NEW s \in Seq(Byte), NEW t \in Seq(Byte),
         Harmless(a, s), Harmless("data", t)
  PROVE  Harmless(a, s \o t)
<1>1. ReadBytes(From(a), s \o t) = ReadBytes(ReadBytes(From(a), s), t)
  BY ReadConcat, Zenon
<1>2. From("data") = FreshReader
  BY DEF From, FreshReader
<1>3. QED
  BY <1>1, <1>2, Zenon DEF Harmless

\* Part of the commands is read: no data so far, and the rest is harmless there.
LEMMA HarmlessSplit ==
  ASSUME NEW c \in Readers, NEW s \in Seq(Byte), NEW t \in Seq(Byte),
         Harmless(c.at, s \o t)
  PROVE  ReadBytes(c, s).data = c.data /\ Harmless(ReadBytes(c, s).at, t)
<1>1. PICK a, F : a = c.at /\ F = From(a)
  OBVIOUS
<1>2. a \in Places /\ F \in Readers /\ c.data \in Seq(Byte)
  BY <1>1, FromIs DEF Readers
<1>3. PICK x : x = ReadBytes(F, s)
  OBVIOUS
<1>4. x \in Readers
  BY <1>2, <1>3, ReadTyped
<1>5. ReadBytes(x, t) = FreshReader
  <2>1. ReadBytes(F, s \o t) = ReadBytes(x, t)
    BY <1>3, ReadConcat, Zenon
  <2>2. QED
    BY <1>1, <2>1, Zenon DEF Harmless
<1>6. PICK y : y = ReadBytes(From(x.at), t)
  OBVIOUS
<1>7. y \in Readers
  <2>1. From(x.at) \in Readers
    BY <1>4, FromIs DEF Readers
  <2>2. QED
    BY <1>6, <2>1, ReadTyped
<1>8. FreshReader.at = y.at /\ FreshReader.data = x.data \o y.data
  BY <1>4, <1>5, <1>6, ReadShift, Zenon
<1>9. y.at = "data" /\ x.data = <<>> /\ y.data = <<>>
  <2>1. \A u, v \in Seq(Byte) : u \o v = <<>> => u = <<>> /\ v = <<>>
    BY ConcatEmptySeq
  <2>2. x.data \in Seq(Byte) /\ y.data \in Seq(Byte) /\ x.data \o y.data = <<>>
    BY <1>4, <1>7, <1>8 DEF Readers, FreshReader
  <2>3. y.at = "data"
    BY <1>8 DEF FreshReader
  <2>4. QED
    BY <2>1, <2>2, <2>3, Zenon
<1>10. y = FreshReader
  BY <1>7, <1>9 DEF Readers, FreshReader
<1>11. ReadBytes(c, s).at = x.at /\ ReadBytes(c, s).data = c.data \o x.data
  BY <1>1, <1>3, ReadShift, Zenon
<1>12. c.data \o <<>> = c.data
  BY <1>2, ConcatEmptySeq, Zenon
<1>13. QED
  BY <1>6, <1>9, <1>10, <1>11, <1>12, Zenon DEF Harmless

\* The bytes of a suboption, doubled, leave a reader in the suboption.
LEMMA DoubledInside ==
  ASSUME NEW s \in Seq(Byte)
  PROVE  ReadBytes(From("sub"), Doubled(s)) = From("sub")
<1>1. PICK F : F = From("sub")
  OBVIOUS
<1>2. F \in Readers /\ F.at = "sub" /\ F.data = <<>>
  BY <1>1, FromIs DEF Places
<1>3. PICK S : S = {r \in Seq(Byte) : ReadBytes(F, Doubled(r)) = F}
  OBVIOUS
<1>4. <<>> \in S
  <2>1. <<>> \in Seq(Byte)
    OBVIOUS
  <2>2. QED
    BY <1>3, <2>1, DoubledEmpty, ReadNothing, Zenon
<1>5. ASSUME NEW r \in Seq(Byte), NEW b \in Byte, r \in S PROVE Append(r, b) \in S
  <2>1. PICK d, w : d = Doubled(r) /\ w = Twice(b)
    OBVIOUS
  <2>2. d \in Seq(Byte) /\ w \in Seq(Byte)
    BY <2>1, DoubledIs, TwiceIs
  <2>3. Doubled(Append(r, b)) = d \o w
    BY <2>1, DoubledAppend, Zenon
  <2>4. ReadBytes(F, d) = F
    BY <1>3, <1>5, <2>1, Zenon
  <2>5. ReadBytes(F, d \o w) = ReadBytes(F, w)
    <3>1. ReadBytes(F, d \o w) = ReadBytes(ReadBytes(F, d), w)
      BY <2>2, ReadConcat, Zenon
    <3>2. QED
      BY <2>4, <3>1, Zenon
  <2>6. ReadBytes(F, w) = F
    <3>1. PICK e : e = <<>>
      OBVIOUS
    <3>2. e \in Seq(Byte) /\ IAC \in Byte
      BY <3>1 DEF Byte, IAC
    <3>3. ReadBytes(F, e) = F
      BY <3>1, ReadNothing, Zenon
    <3>4. CASE b # IAC
      <4>1. w = Append(e, b)
        BY <2>1, <3>1, <3>4 DEF Twice
      <4>2. ReadBytes(F, w) = ReadByte(F, b)
        BY <3>2, <3>3, <4>1, ReadAppend, Zenon
      <4>3. ReadByte(F, b) = F
        <5>1. NextAt("sub", b) = "sub" /\ ~IsData("sub", b)
          BY <3>4 DEF NextAt, IsData
        <5>2. QED
          BY <1>1, <1>2, <5>1 DEF ReadByte, From
      <4>4. QED
        BY <4>2, <4>3
    <3>5. CASE b = IAC
      <4>1. PICK v : v = Append(e, b)
        OBVIOUS
      <4>2. v \in Seq(Byte) /\ w = Append(v, b)
        BY <2>1, <3>1, <3>2, <3>5, <4>1 DEF Twice
      <4>3. ReadBytes(F, w) = ReadByte(ReadByte(F, b), b)
        <5>1. ReadBytes(F, v) = ReadByte(ReadBytes(F, e), b)
          BY <3>2, <4>1, ReadAppend, Zenon
        <5>2. ReadBytes(F, w) = ReadByte(ReadBytes(F, v), b)
          BY <4>2, ReadAppend, Zenon
        <5>3. QED
          BY <3>3, <5>1, <5>2, Zenon
      <4>4. PICK G : G = ReadByte(F, b)
        OBVIOUS
      <4>5. G.at = "subiac" /\ G.data = <<>>
        BY <1>2, <3>5, <4>4 DEF ReadByte, NextAt, IsData
      <4>6. ReadByte(G, b) = F
        <5>1. NextAt("subiac", b) = "sub" /\ ~IsData("subiac", b)
          BY <3>5 DEF NextAt, IsData, IAC, SE
        <5>2. QED
          BY <1>1, <4>5, <5>1 DEF ReadByte, From
      <4>7. QED
        BY <4>3, <4>4, <4>6
    <3>6. QED
      BY <3>4, <3>5
  <2>7. Append(r, b) \in Seq(Byte)
    OBVIOUS
  <2>8. QED
    BY <1>3, <2>3, <2>5, <2>6, <2>7, Zenon
<1>6. \A r \in Seq(Byte) : r \in S
  BY <1>4, <1>5, SeqInduction
<1>7. QED
  BY <1>1, <1>3, <1>6

\* One byte and two
LEMMA ReadFew ==
  ASSUME NEW c, NEW x \in Byte, NEW y \in Byte
  PROVE  /\ ReadBytes(c, <<x>>) = ReadByte(c, x)
         /\ ReadBytes(c, <<x, y>>) = ReadByte(ReadByte(c, x), y)
<1>1. <<>> \in Seq(Byte) /\ <<x>> \in Seq(Byte)
  OBVIOUS
<1>2. <<x>> = Append(<<>>, x) /\ <<x, y>> = Append(<<x>>, y)
  OBVIOUS
<1>3. ReadBytes(c, <<>>) = c
  BY ReadNothing, Zenon
<1>4. ReadBytes(c, Append(<<>>, x)) = ReadByte(ReadBytes(c, <<>>), x)
  BY <1>1, ReadAppend, Zenon
<1>5. ReadBytes(c, Append(<<x>>, y)) = ReadByte(ReadBytes(c, <<x>>), y)
  BY <1>1, ReadAppend, Zenon
<1>6. ReadBytes(c, <<x>>) = ReadByte(c, x)
  BY <1>2, <1>3, <1>4, Zenon
<1>7. ReadBytes(c, <<x, y>>) = ReadByte(ReadByte(c, x), y)
  BY <1>2, <1>5, <1>6, Zenon
<1>8. QED
  BY <1>6, <1>7

\* Two bytes
LEMMA ReadTwo ==
  ASSUME NEW c, NEW x \in Byte, NEW y \in Byte
  PROVE  ReadBytes(c, <<x, y>>) = ReadByte(ReadByte(c, x), y)
BY ReadFew, Zenon

\* Three bytes of an offer or of its answer
LEMMA OfferHarmless ==
  ASSUME NEW type \in WILL .. DONT, NEW option \in Byte
  PROVE  Harmless("data", <<IAC, type, option>>)
<1>1. PICK F : F = From("data")
  OBVIOUS
<1>2. F.at = "data" /\ F.data = <<>>
  BY <1>1 DEF From
<1>3. IAC \in Byte /\ type \in Byte /\ type # IAC /\ type # SB /\ ~(type < SB)
  BY DEF IAC, Byte, WILL, DONT, SB
<1>4. PICK x, y, z : /\ x = ReadByte(F, IAC) /\ y = ReadByte(x, type)
                     /\ z = ReadByte(y, option)
  OBVIOUS
<1>5. ReadBytes(F, <<IAC, type, option>>) = z
  <2>1. PICK v : v = <<IAC, type>>
    OBVIOUS
  <2>2. v \in Seq(Byte) /\ <<IAC, type, option>> = Append(v, option)
    BY <1>3, <2>1
  <2>3. ReadBytes(F, <<IAC, type>>) = ReadByte(ReadByte(F, IAC), type)
    BY <1>3, ReadTwo, Zenon
  <2>4. ReadBytes(F, Append(v, option)) = ReadByte(ReadBytes(F, v), option)
    BY <2>2, ReadAppend, Zenon
  <2>5. QED
    BY <1>4, <2>1, <2>2, <2>3, <2>4, Zenon
<1>6. x.at = "iac" /\ x.data = <<>>
  BY <1>2, <1>4 DEF ReadByte, NextAt, IsData
<1>7. y.at = "option" /\ y.data = <<>>
  BY <1>3, <1>4, <1>6 DEF ReadByte, NextAt, IsData
<1>8. z = FreshReader
  BY <1>4, <1>7 DEF ReadByte, NextAt, IsData, FreshReader
<1>9. QED
  BY <1>1, <1>5, <1>8, Zenon DEF Harmless

\* A suboption: its option's code is not doubled, the rest is.
LEMMA SuboptionHarmless ==
  ASSUME NEW h \in Byte, h # IAC, NEW t \in Seq(Byte)
  PROVE  Harmless("data", <<IAC, SB>> \o Doubled(<<h>> \o t) \o <<IAC, SE>>)
<1>1. IAC \in Byte /\ SB \in Byte /\ SE \in Byte
  BY DEF IAC, Byte, SB, SE
<1>2. PICK b, k, x, z : b = <<IAC, SB>> /\ k = <<h>> /\ x = Doubled(t) /\ z = <<IAC, SE>>
  OBVIOUS
<1>3. b \in Seq(Byte) /\ k \in Seq(Byte) /\ z \in Seq(Byte)
  BY <1>1, <1>2
<1>4. x \in Seq(Byte)
  BY <1>2, DoubledIs
<1>5. k \o x \in Seq(Byte)
  BY <1>3, <1>4, ConcatProperties, Zenon
<1>6. b \o (k \o x) \in Seq(Byte)
  BY <1>3, <1>5, ConcatProperties, Zenon
<1>7. Doubled(k \o t) = k \o x
  <2>1. PICK e : e = <<>>
    OBVIOUS
  <2>2. e \in Seq(Byte) /\ k = Append(e, h) /\ e \o k = k
    BY <1>2, <2>1
  <2>3. Doubled(k) = Doubled(e) \o Twice(h)
    BY <2>2, DoubledAppend, Zenon
  <2>4. Doubled(e) = e /\ Twice(h) = k
    BY <1>2, <2>1, DoubledEmpty DEF Twice
  <2>5. Doubled(k) = k
    BY <2>2, <2>3, <2>4, Zenon
  <2>6. Doubled(k \o t) = Doubled(k) \o Doubled(t)
    BY <1>3, DoubledConcat, Zenon
  <2>7. QED
    BY <1>2, <2>5, <2>6, Zenon
<1>8. PICK F, G : F = From("data") /\ G = From("sub")
  OBVIOUS
<1>9. F.at = "data" /\ F.data = <<>> /\ G.at = "sub" /\ G.data = <<>>
  BY <1>8 DEF From
<1>10. PICK p, q : p = ReadByte(F, IAC) /\ q = ReadByte(p, SB)
  OBVIOUS
<1>11. p.at = "iac" /\ p.data = <<>>
  BY <1>9, <1>10 DEF ReadByte, NextAt, IsData
<1>12. q.at = "sb" /\ q.data = <<>>
  <2>1. SB # IAC /\ ~(SB < SB)
    BY DEF SB, IAC
  <2>2. QED
    BY <1>10, <1>11, <2>1 DEF ReadByte, NextAt, IsData
<1>13. ReadBytes(F, b) = q
  <2>1. ReadBytes(F, <<IAC, SB>>) = ReadByte(ReadByte(F, IAC), SB)
    BY <1>1, ReadTwo, Zenon
  <2>2. QED
    BY <1>2, <1>10, <2>1, Zenon
<1>14. ReadBytes(q, k) = G
  <2>1. ReadBytes(q, k) = ReadByte(q, h)
    BY <1>2, ReadFew, Zenon
  <2>2. ReadByte(q, h) = G
    BY <1>8, <1>12 DEF ReadByte, NextAt, IsData, From
  <2>3. QED
    BY <2>1, <2>2
<1>15. ReadBytes(G, x) = G
  BY <1>2, <1>8, DoubledInside, Zenon
<1>16. ReadBytes(G, z) = FreshReader
  <2>1. PICK r : r = ReadByte(G, IAC)
    OBVIOUS
  <2>2. r.at = "subiac" /\ r.data = <<>>
    BY <1>9, <2>1 DEF ReadByte, NextAt, IsData
  <2>3. ReadByte(r, SE) = FreshReader
    BY <2>2 DEF ReadByte, NextAt, IsData, FreshReader
  <2>4. ReadBytes(G, z) = ReadByte(r, SE)
    <3>1. ReadBytes(G, <<IAC, SE>>) = ReadByte(ReadByte(G, IAC), SE)
      BY <1>1, ReadTwo, Zenon
    <3>2. QED
      BY <1>2, <2>1, <3>1, Zenon
  <2>5. QED
    BY <2>3, <2>4
<1>17. ReadBytes(q, k \o x) = G
  <2>1. ReadBytes(q, k \o x) = ReadBytes(ReadBytes(q, k), x)
    BY <1>3, <1>4, ReadConcat, Zenon
  <2>2. QED
    BY <1>14, <1>15, <2>1, Zenon
<1>18. ReadBytes(F, b \o (k \o x)) = G
  <2>1. ReadBytes(F, b \o (k \o x)) = ReadBytes(ReadBytes(F, b), k \o x)
    BY <1>3, <1>5, ReadConcat, Zenon
  <2>2. QED
    BY <1>13, <1>17, <2>1, Zenon
<1>19. ReadBytes(F, (b \o (k \o x)) \o z) = FreshReader
  <2>1. ReadBytes(F, (b \o (k \o x)) \o z) = ReadBytes(ReadBytes(F, b \o (k \o x)), z)
    BY <1>3, <1>6, ReadConcat, Zenon
  <2>2. QED
    BY <1>16, <1>18, <2>1, Zenon
<1>20. QED
  BY <1>2, <1>7, <1>8, <1>19, Zenon DEF Harmless
-----------------------------------------------------------------------------
(***************************************************************************)
(* The telnet layer sends whole commands, and reads as the protocol says.  *)
(***************************************************************************)
\* Whole commands were queued behind what waits to be sent.
Grown(old, new) == \E x \in Seq(Byte) : new = old \o x /\ Harmless("data", x)

\* The command that is being received stays as it is.
Queues(d, e) ==
  e.cmd = d.cmd /\ e.suboption_iac = d.suboption_iac /\ Grown(d.out, e.out)

\* Nothing is queued, or more and then more.
LEMMA GrownSame ==
  ASSUME NEW s \in Seq(Byte)
  PROVE  Grown(s, s)
<1>1. PICK e : e = <<>>
  OBVIOUS
<1>2. e \in Seq(Byte)
  BY <1>1
<1>3. s = s \o e
  BY <1>1, ConcatEmptySeq, Zenon
<1>4. Harmless("data", e)
  BY <1>1, HarmlessNothing DEF Places
<1>5. QED
  BY <1>2, <1>3, <1>4 DEF Grown

\* More, and then more
LEMMA GrownTwice ==
  ASSUME NEW r \in Seq(Byte), NEW s, NEW t, Grown(r, s), Grown(s, t)
  PROVE  Grown(r, t)
<1>1. PICK x \in Seq(Byte) : s = r \o x /\ Harmless("data", x)
  BY DEF Grown
<1>2. PICK y \in Seq(Byte) : t = s \o y /\ Harmless("data", y)
  BY DEF Grown
<1>3. t = r \o (x \o y)
  BY <1>1, <1>2, Assoc, Zenon
<1>4. x \o y \in Seq(Byte)
  BY ConcatProperties, Zenon
<1>5. Harmless("data", x \o y)
  BY <1>1, <1>2, HarmlessConcat DEF Places
<1>6. QED
  BY <1>3, <1>4, <1>5, Zenon DEF Grown

\* telnet_cmd_send
LEMMA CmdSendQueues ==
  ASSUME NEW d, Fits(d), NEW bytes \in Seq(Byte), Harmless("data", bytes)
  PROVE  Queues(d, CmdSend(d, bytes))
<1>1. d \in TnData /\ d.out \in Seq(Byte)
  BY DEF Fits, OutFits
<1>2. CASE Len(bytes) > MAX_TELNET_CMD_XMIT_BUF - Len(d.out)
  <2>1. PICK k : k = [d EXCEPT !.error = TRUE]
    OBVIOUS
  <2>2. k.cmd = d.cmd /\ k.out = d.out /\ k.suboption_iac = d.suboption_iac
    BY <1>1, <2>1 DEF TnData
  <2>3. CmdSend(d, bytes) = k
    BY <1>2, <2>1 DEF CmdSend
  <2>4. QED
    BY <1>1, <2>2, <2>3, GrownSame, Zenon DEF Queues
<1>3. CASE ~(Len(bytes) > MAX_TELNET_CMD_XMIT_BUF - Len(d.out))
  <2>1. PICK o : o = d.out \o bytes
    OBVIOUS
  <2>2. PICK k : k = [d EXCEPT !.out = o]
    OBVIOUS
  <2>3. k.cmd = d.cmd /\ k.out = o /\ k.suboption_iac = d.suboption_iac
    BY <1>1, <2>2 DEF TnData
  <2>4. CmdSend(d, bytes) = k
    BY <1>3, <2>1, <2>2 DEF CmdSend
  <2>5. Grown(d.out, o)
    BY <2>1, Zenon DEF Grown
  <2>6. QED
    BY <2>3, <2>4, <2>5, Zenon DEF Queues
<1>4. QED
  BY <1>2, <1>3

\* telnet_send_option
LEMMA SendOptionQueues ==
  ASSUME NEW d, Fits(d), NEW option \in Seq(Byte), Len(option) > 0, option[1] = COM_PORT
  PROVE  Queues(d, SendOption(d, option))
<1>1. PICK h, t : h = Head(option) /\ t = Tail(option)
  OBVIOUS
<1>2. t \in Seq(Byte) /\ h = COM_PORT
  BY <1>1
<1>3. option = <<h>> \o t
  BY <1>1
<1>4. h \in Byte /\ h # IAC
  BY <1>2 DEF COM_PORT, IAC, Byte
<1>5. PICK x, y, z : x = <<IAC, SB>> /\ y = Doubled(option) /\ z = <<IAC, SE>>
  OBVIOUS
<1>6. Harmless("data", x \o y \o z)
  BY <1>2, <1>3, <1>4, <1>5, SuboptionHarmless, Zenon
<1>7. x \o y \o z \in Seq(Byte)
  <2>1. IAC \in Byte /\ SB \in Byte /\ SE \in Byte
    BY DEF IAC, SB, SE, Byte
  <2>2. x \in Seq(Byte) /\ y \in Seq(Byte) /\ z \in Seq(Byte)
    BY <1>5, <2>1, DoubledIs
  <2>3. QED
    BY <2>2
<1>8. Queues(d, CmdSend(d, x \o y \o z))
  BY <1>6, <1>7, CmdSendQueues
<1>9. QED
  BY <1>5, <1>8 DEF SendOption

\* A telnet layer with the same commands
LEMMA QueuesSame ==
  ASSUME NEW d, Fits(d), NEW e,
         e.cmd = d.cmd, e.suboption_iac = d.suboption_iac, e.out = d.out
  PROVE  Queues(d, e)
<1>1. d.out \in Seq(Byte)
  BY DEF Fits, OutFits
<1>2. QED
  BY <1>1, GrownSame, Zenon DEF Queues

\* One operation after the other
LEMMA QueuesTwice ==
  ASSUME NEW d, Fits(d), NEW e, NEW f, Queues(d, e), Queues(e, f)
  PROVE  Queues(d, f)
<1>1. d.out \in Seq(Byte)
  BY DEF Fits, OutFits
<1>2. Grown(d.out, f.out)
  BY <1>1, GrownTwice, Zenon DEF Queues
<1>3. QED
  BY <1>2 DEF Queues

\* com_port_will
LEMMA ComPortWillQueues ==
  ASSUME NEW d, Fits(d), NEW modem \in Byte
  PROVE  Queues(d, ComPortWill(d, modem))
<1>1. PICK k : k = [d EXCEPT !.is_2217 = TRUE, !.modemstate = modem,
                             !.modemstate_mask = 255]
  OBVIOUS
<1>2. 255 \in Byte /\ COM_PORT \in Byte /\ 107 \in Byte
  BY DEF Byte, COM_PORT
<1>3. k \in TnData /\ k.cmd = d.cmd /\ k.out = d.out /\ k.suboption_iac = d.suboption_iac
  <2>1. PICK i : i = [d EXCEPT !.is_2217 = TRUE]
    OBVIOUS
  <2>2. i \in TnData /\ i.cmd = d.cmd /\ i.out = d.out /\ i.suboption_iac = d.suboption_iac
    BY <2>1 DEF Fits, TnData
  <2>3. PICK j : j = [i EXCEPT !.modemstate = modem]
    OBVIOUS
  <2>4. j \in TnData /\ j.cmd = d.cmd /\ j.out = d.out /\ j.suboption_iac = d.suboption_iac
    BY <2>2, <2>3 DEF TnData
  <2>5. k = [j EXCEPT !.modemstate_mask = 255]
    BY <1>1, <2>1, <2>3
  <2>6. QED
    BY <1>2, <2>4, <2>5, ZenonT(30) DEF TnData
<1>4. Fits(k)
  BY <1>3 DEF Fits
<1>5. PICK o : o = <<COM_PORT, 107, modem>>
  OBVIOUS
<1>6. o \in Seq(Byte) /\ Len(o) > 0 /\ o[1] = COM_PORT
  BY <1>2, <1>5
<1>7. Queues(d, k)
  BY <1>3, QueuesSame
<1>8. Queues(k, SendOption(k, o))
  BY <1>4, <1>6, SendOptionQueues
<1>9. Queues(d, SendOption(k, o))
  BY <1>7, <1>8, QueuesTwice
<1>10. QED
  BY <1>1, <1>5, <1>9 DEF ComPortWill

\* handle_telnet_cmd for WILL, WONT, DO and DONT
LEMMA NegotiateQueues ==
  ASSUME NEW d, Fits(d), NEW type \in WILL .. DONT, NEW option \in Byte,
         NEW modem \in Byte
  PROVE  Queues(d, Negotiate(d, type, option, modem))
<1>1. CASE type \in {WILL, WONT} /\ option \in d.sent_do
  <2>1. PICK k : k = [d EXCEPT !.sent_do = @ \ {option}]
    OBVIOUS
  <2>2. k.cmd = d.cmd /\ k.out = d.out /\ k.suboption_iac = d.suboption_iac
    BY <2>1 DEF Fits, TnData
  <2>3. Negotiate(d, type, option, modem) = k
    BY <1>1, <2>1 DEF Negotiate
  <2>4. QED
    BY <2>2, <2>3, QueuesSame
<1>2. CASE /\ ~(type \in {WILL, WONT} /\ option \in d.sent_do)
           /\ type \in {DO, DONT} /\ option \in d.sent_will
  <2>1. PICK k : k = [d EXCEPT !.sent_will = @ \ {option}]
    OBVIOUS
  <2>2. k.cmd = d.cmd /\ k.out = d.out /\ k.suboption_iac = d.suboption_iac
    BY <2>1 DEF Fits, TnData
  <2>3. Negotiate(d, type, option, modem) = k
    BY <1>2, <2>1 DEF Negotiate
  <2>4. QED
    BY <2>2, <2>3, QueuesSame
<1>3. CASE /\ ~(type \in {WILL, WONT} /\ option \in d.sent_do)
           /\ ~(type \in {DO, DONT} /\ option \in d.sent_will)
  <2>1. PICK a : a = Answer(type, option)
    OBVIOUS
  <2>2. a \in WILL .. DONT
    <3>1. type \in {WILL, WONT, DO, DONT}
      BY DEF WILL, WONT, DO, DONT
    <3>2. a \in {DO, DONT, WILL, WONT}
      BY <2>1, <3>1 DEF Answer, WILL, WONT, DO, DONT
    <3>3. QED
      BY <3>2 DEF DO, DONT, WILL, WONT
  <2>3. PICK k : k = IF <<type, option>> = <<WILL, COM_PORT>> /\ allow_2217
                     THEN ComPortWill(d, modem) ELSE d
    OBVIOUS
  <2>4. Fits(k) /\ Queues(d, k)
    BY <2>3, ComPortWillFits, ComPortWillQueues, QueuesSame
  <2>5. PICK o : o = <<IAC, a, option>>
    OBVIOUS
  <2>6. o \in Seq(Byte)
    <3>1. IAC \in Byte /\ a \in Byte
      BY <2>2 DEF IAC, Byte, WILL, DONT
    <3>2. QED
      BY <2>5, <3>1
  <2>7. Harmless("data", o)
    BY <2>2, <2>5, OfferHarmless, Zenon
  <2>8. Queues(k, CmdSend(k, o))
    BY <2>4, <2>6, <2>7, CmdSendQueues
  <2>9. Negotiate(d, type, option, modem) = CmdSend(k, o)
    <3>1. Negotiate(d, type, option, modem) = SendI(k, a, option)
      BY <1>3, <2>1, <2>3 DEF Negotiate
    <3>2. QED
      BY <2>5, <3>1 DEF SendI
  <2>10. Queues(d, CmdSend(k, o))
    BY <2>4, <2>8, QueuesTwice
  <2>11. QED
    BY <2>9, <2>10
<1>4. QED
  BY <1>1, <1>2, <1>3

\* com_port_handler
LEMMA ComPortHandlerQueues ==
  ASSUME NEW d, Fits(d), NEW option \in Seq(Byte)
  PROVE  Queues(d, ComPortHandler(d, option))
<1>1. PICK len, cmd : len = Len(option) /\ cmd = option[2]
  OBVIOUS
<1>2. /\ len \in Nat /\ COM_PORT \in Byte
      /\ \A i \in 1 .. len : option[i] \in Byte
  <2>1. COM_PORT \in Byte
    BY DEF COM_PORT, Byte
  <2>2. QED
    BY <1>1, <2>1
<1>3. ASSUME NEW bytes \in Seq(Byte), cmd \in 0 .. 12
      PROVE  Queues(d, SendOption(d, <<COM_PORT, 100 + cmd>> \o bytes))
  <2>1. 100 + cmd \in Byte
    BY <1>3 DEF Byte
  <2>2. PICK x : x = <<COM_PORT, 100 + cmd>>
    OBVIOUS
  <2>3. x \in Seq(Byte) /\ Len(x) = 2 /\ x[1] = COM_PORT
    BY <1>2, <2>1, <2>2
  <2>4. x \o bytes \in Seq(Byte) /\ Len(x \o bytes) > 0 /\ (x \o bytes)[1] = COM_PORT
    <3>1. PICK o : o = x \o bytes
      OBVIOUS
    <3>2. o \in Seq(Byte) /\ Len(o) = Len(x) + Len(bytes) /\ o[1] = x[1]
      <4>1. 1 \in 1 .. Len(x) + Len(bytes) /\ 1 <= Len(x)
        BY <2>3
      <4>2. QED
        BY <2>3, <3>1, <4>1, ConcatProperties
    <3>3. Len(o) > 0
      BY <2>3, <3>2
    <3>4. QED
      BY <2>3, <3>1, <3>2, <3>3
  <2>5. Queues(d, SendOption(d, x \o bytes))
    BY <2>4, SendOptionQueues
  <2>6. QED
    BY <2>2, <2>5
<1>4. CASE len >= 2 /\ cmd = 0
  <2>1. Signature \in Seq(Byte) /\ cmd \in 0 .. 12
    BY <1>4 DEF Signature, Byte
  <2>2. Queues(d, SendOption(d, <<COM_PORT, 100 + cmd>> \o Signature))
    BY <1>3, <2>1, Zenon
  <2>3. QED
    BY <1>1, <1>4, <2>2 DEF ComPortHandler
<1>5. CASE len >= 6 /\ cmd = 1
  <2>1. SubSeq(option, 3, 6) \in Seq(Byte) /\ cmd \in 0 .. 12
    BY <1>1, <1>5
  <2>2. Queues(d, SendOption(d, <<COM_PORT, 100 + cmd>> \o SubSeq(option, 3, 6)))
    BY <1>3, <2>1, Zenon
  <2>3. QED
    BY <1>1, <1>5, <2>2 DEF ComPortHandler
<1>6. CASE len >= 3 /\ cmd \in {2, 3, 4, 5, 10, 11, 12}
  <2>1. option[3] \in Byte
    BY <1>2, <1>6
  <2>2. <<option[3]>> \in Seq(Byte) /\ cmd \in 0 .. 12
    BY <1>6, <2>1
  <2>3. PICK k : k = SendOption(d, <<COM_PORT, 100 + cmd>> \o <<option[3]>>)
    OBVIOUS
  <2>4. Queues(d, k)
    BY <1>3, <2>2, <2>3, Zenon
  <2>5. PICK j : j = [k EXCEPT !.modemstate_mask = option[3]]
    OBVIOUS
  <2>6. k \in TnData
    <3>1. 100 + cmd \in Byte
      BY <1>6 DEF Byte
    <3>2. PICK x : x = <<COM_PORT, 100 + cmd>>
      OBVIOUS
    <3>3. x \in Seq(Byte)
      BY <1>2, <3>1, <3>2
    <3>4. x \o <<option[3]>> \in Seq(Byte)
      BY <2>2, <3>3, ConcatProperties, Zenon
    <3>5. QED
      BY <2>3, <3>2, <3>4, SendOptionFits DEF Fits
  <2>7. j.cmd = k.cmd /\ j.out = k.out /\ j.suboption_iac = k.suboption_iac
    BY <2>5, <2>6 DEF TnData
  <2>8. Queues(d, j)
    BY <2>4, <2>7, Zenon DEF Queues
  <2>9. Queues(d, d)
    BY QueuesSame
  <2>10. ComPortHandler(d, option) \in {d, j, k}
    BY <1>1, <1>2, <1>6, <2>3, <2>5 DEF ComPortHandler
  <2>11. QED
    BY <2>4, <2>8, <2>9, <2>10
<1>7. CASE len >= 2 /\ cmd \in {8, 9}
  <2>1. <<>> \in Seq(Byte) /\ cmd \in 0 .. 12
    BY <1>7
  <2>2. Queues(d, SendOption(d, <<COM_PORT, 100 + cmd>> \o <<>>))
    BY <1>3, <2>1, Zenon
  <2>3. QED
    BY <1>1, <1>7, <2>2 DEF ComPortHandler
<1>8. CASE /\ ~(len >= 2 /\ cmd = 0) /\ ~(len >= 6 /\ cmd = 1)
           /\ ~(len >= 3 /\ cmd \in {2, 3, 4, 5, 10, 11, 12})
           /\ ~(len >= 2 /\ cmd \in {8, 9})
  <2>1. ComPortHandler(d, option) = d
    BY <1>1, <1>8 DEF ComPortHandler
  <2>2. QED
    BY <2>1, QueuesSame
<1>9. QED
  BY <1>4, <1>5, <1>6, <1>7, <1>8

\* handle_telnet_cmd for a suboption
LEMMA HandleOptionQueues ==
  ASSUME NEW d, Fits(d), NEW option \in Seq(Byte)
  PROVE  Queues(d, HandleOption(d, option))
<1>1. PICK k : k = [d EXCEPT !.crash = TRUE]
  OBVIOUS
<1>2. k.cmd = d.cmd /\ k.out = d.out /\ k.suboption_iac = d.suboption_iac
  BY <1>1 DEF Fits, TnData
<1>3. Queues(d, k) /\ Queues(d, d)
  BY <1>2, QueuesSame
<1>4. HandleOption(d, option) \in {d, k, ComPortHandler(d, option)}
  BY <1>1 DEF HandleOption
<1>5. QED
  BY <1>3, <1>4, ComPortHandlerQueues

\* Where the telnet layer is in what it receives
PlaceOf(d) ==
  IF Len(d.cmd) = 0 THEN "data"
  ELSE IF Len(d.cmd) = 1 THEN "iac"
  ELSE IF Len(d.cmd) = 2 THEN IF d.cmd[2] = SB THEN "sb" ELSE "option"
  ELSE IF d.suboption_iac THEN "subiac" ELSE "sub"

\* suboption_iac is reset with a command's first byte, and set only for an IAC
\* that is the last byte in the array.
IacInside(d) ==
  /\ Len(d.cmd) \in {1, 2} => ~d.suboption_iac
  /\ Len(d.cmd) >= 3 /\ d.suboption_iac => Len(d.cmd) >= 4

\* Its cases
LEMMA PlaceIs ==
  ASSUME NEW d, Len(d.cmd) \in Nat
  PROVE  /\ Len(d.cmd) = 0 => PlaceOf(d) = "data"
         /\ Len(d.cmd) = 1 => PlaceOf(d) = "iac"
         /\ Len(d.cmd) = 2 /\ d.cmd[2] = SB => PlaceOf(d) = "sb"
         /\ Len(d.cmd) = 2 /\ d.cmd[2] # SB => PlaceOf(d) = "option"
         /\ Len(d.cmd) >= 3 /\ d.suboption_iac => PlaceOf(d) = "subiac"
         /\ Len(d.cmd) >= 3 /\ ~d.suboption_iac => PlaceOf(d) = "sub"
<1>1. PICK n \in Nat : n = Len(d.cmd)
  BY Zenon
<1>2. /\ n = 1 => n # 0
      /\ n = 2 => n # 0 /\ n # 1
      /\ n >= 3 => n # 0 /\ n # 1 /\ n # 2
  OBVIOUS
<1>3. QED
  BY <1>1, <1>2, Zenon DEF PlaceOf

\* A command is over.
LEMMA CommandOver ==
  ASSUME NEW d, d.cmd = <<>>
  PROVE  PlaceOf(d) = "data" /\ IacInside(d)
<1>1. Len(d.cmd) = 0
  OBVIOUS
<1>2. QED
  BY <1>1 DEF PlaceOf, IacInside

\* A byte of a suboption
LEMMA SuboptionReads ==
  ASSUME NEW d, Fits(d), Len(d.cmd) >= 3, IacInside(d), NEW b \in Byte, NEW e,
         e = SuboptionByte(d, b)
  PROVE  /\ IacInside(e) /\ PlaceOf(e) = NextAt(PlaceOf(d), b)
         /\ Grown(d.out, e.out)
<1>1. /\ d \in TnData /\ CmdFits(d.cmd) /\ d.cmd \in Seq(Byte) /\ Len(d.cmd) \in Nat
      /\ d.suboption_iac \in BOOLEAN /\ d.out \in Seq(Byte)
      /\ MAX_TELNET_CMD_SIZE \in Nat /\ MAX_TELNET_CMD_SIZE > 2
      /\ Len(d.cmd) <= MAX_TELNET_CMD_SIZE + 1
  BY TelnetAssumption DEF Fits, TnData, CmdFits
<1>2. PICK end : end = [d EXCEPT !.suboption_iac = FALSE]
  OBVIOUS
<1>3. Fits(end) /\ end.cmd = d.cmd /\ end.out = d.out /\ end.suboption_iac = FALSE
  <2>1. Fits(end)
    BY <1>2, IacSet
  <2>2. QED
    BY <1>1, <1>2, <2>1 DEF TnData
<1>4. Grown(d.out, d.out)
  BY <1>1, GrownSame
<1>5. CASE d.suboption_iac /\ b = SE
  <2>1. PICK k : k = [end EXCEPT !.cmd = <<>>]
    OBVIOUS
  <2>2. Fits(k)
    BY <1>3, <2>1, NoCmd, CmdSet, Zenon
  <2>3. k.cmd = <<>> /\ k.out = d.out
    BY <1>3, <2>1 DEF Fits, TnData
  <2>4. SubSeq(d.cmd, 3, Len(d.cmd) - 1) \in Seq(Byte)
    BY <1>1
  <2>5. e = HandleOption(k, SubSeq(d.cmd, 3, Len(d.cmd) - 1))
    BY <1>2, <1>5, <2>1 DEF SuboptionByte, SE, IAC
  <2>6. Queues(k, e)
    BY <2>2, <2>4, <2>5, HandleOptionQueues
  <2>7. e.cmd = <<>> /\ Grown(d.out, e.out)
    BY <2>3, <2>6, Zenon DEF Queues
  <2>8. PlaceOf(d) = "subiac"
    BY <1>1, <1>5, PlaceIs
  <2>9. NextAt("subiac", b) = "data"
    BY <1>5 DEF NextAt
  <2>10. QED
    BY <2>7, <2>8, <2>9, CommandOver
<1>6. CASE d.suboption_iac /\ b = IAC
  <2>1. e = end
    BY <1>2, <1>6 DEF SuboptionByte, IAC, SE
  <2>2. PlaceOf(d) = "subiac" /\ PlaceOf(e) = "sub" /\ IacInside(e)
    BY <1>1, <1>3, <1>6, <2>1, PlaceIs DEF IacInside
  <2>3. NextAt("subiac", b) = "sub"
    BY <1>6 DEF NextAt, IAC, SE
  <2>4. QED
    BY <1>3, <1>4, <2>1, <2>2, <2>3
<1>7. CASE d.suboption_iac /\ b \notin {SE, IAC}
  <2>1. PICK c : c = SubSeq(d.cmd, 1, Len(d.cmd) - 1)
    OBVIOUS
  <2>2. Len(d.cmd) >= 4
    BY <1>7 DEF IacInside
  <2>3. Len(c) = Len(d.cmd) - 1
    BY <1>1, <2>1
  <2>4. e = [end EXCEPT !.cmd = c]
    BY <1>2, <1>3, <1>7, <2>1 DEF SuboptionByte
  <2>5. e.cmd = c /\ e.suboption_iac = FALSE /\ e.out = d.out
    BY <1>3, <2>4 DEF Fits, TnData
  <2>6. Len(c) \in Nat /\ Len(c) >= 3
    BY <1>1, <2>2, <2>3
  <2>7. PlaceOf(d) = "subiac" /\ PlaceOf(e) = "sub" /\ IacInside(e)
    BY <1>1, <1>7, <2>5, <2>6, PlaceIs DEF IacInside
  <2>8. NextAt("subiac", b) = "sub"
    BY <1>7 DEF NextAt
  <2>9. QED
    BY <1>4, <2>5, <2>7, <2>8
<1>8. CASE ~d.suboption_iac
  <2>1. PICK iac \in BOOLEAN : iac = (b = IAC)
    BY Zenon
  <2>2. PICK c : c = Store(d.cmd, b)
    OBVIOUS
  <2>3. Len(c) \in Nat /\ Len(c) >= 4
    <3>1. CASE Len(d.cmd) > MAX_TELNET_CMD_SIZE
      <4>1. PICK s : s = SubSeq(d.cmd, 1, MAX_TELNET_CMD_SIZE)
        OBVIOUS
      <4>2. s \in Seq(Byte) /\ Len(s) = MAX_TELNET_CMD_SIZE
        BY <1>1, <3>1, <4>1
      <4>3. c = Append(s, b)
        BY <2>2, <3>1, <4>1 DEF Store
      <4>4. QED
        BY <1>1, <4>2, <4>3
    <3>2. CASE ~(Len(d.cmd) > MAX_TELNET_CMD_SIZE)
      <4>1. c = Append(d.cmd, b)
        BY <2>2, <3>2 DEF Store
      <4>2. QED
        BY <1>1, <4>1
    <3>3. QED
      BY <3>1, <3>2
  <2>4. PICK k : k = [d EXCEPT !.cmd = c]
    OBVIOUS
  <2>5. e = [k EXCEPT !.suboption_iac = iac]
    BY <1>8, <2>1, <2>2, <2>4 DEF SuboptionByte
  <2>6. e.cmd = c /\ e.suboption_iac = iac /\ e.out = d.out
    BY <1>1, <2>4, <2>5 DEF TnData
  <2>7. PlaceOf(d) = "sub"
    BY <1>1, <1>8, PlaceIs
  <2>8. PlaceOf(e) = (IF iac THEN "subiac" ELSE "sub") /\ IacInside(e)
    BY <2>3, <2>6, PlaceIs DEF IacInside
  <2>9. NextAt("sub", b) = IF iac THEN "subiac" ELSE "sub"
    BY <2>1 DEF NextAt
  <2>10. QED
    BY <1>4, <2>6, <2>7, <2>8, <2>9
<1>9. QED
  BY <1>1, <1>5, <1>6, <1>7, <1>8

\* One byte: the telnet layer reads it as the protocol says.
LEMMA ParseByteReads ==
  ASSUME NEW i \in Nat, NEW p, Parsed(p, i), IacInside(p.td), NEW b \in Byte,
         NEW modem \in Byte, NEW q, q = ParseByte(p, b, modem)
  PROVE  /\ IacInside(q.td) /\ PlaceOf(q.td) = NextAt(PlaceOf(p.td), b)
         /\ q.data = IF IsData(PlaceOf(p.td), b) THEN Append(p.data, b) ELSE p.data
         /\ Grown(p.td.out, q.td.out)
<1>1. PICK d, cmd, pos : d = p.td /\ cmd = d.cmd /\ pos = Len(cmd)
  OBVIOUS
<1>2. /\ Fits(d) /\ CmdFits(cmd) /\ cmd \in Seq(Byte) /\ pos \in Nat
      /\ pos >= 2 => cmd[2] \in SB .. DONT
      /\ p \in [td : TnData, data : Seq(Byte)] /\ d \in TnData /\ d.out \in Seq(Byte)
  BY <1>1 DEF Parsed, Fits, CmdFits, TnData
<1>3. b \in 0 .. 255
  BY DEF Byte
<1>4. PICK none : none = [d EXCEPT !.cmd = <<>>]
  OBVIOUS
<1>5. Fits(none) /\ none.cmd = <<>> /\ none.out = d.out
  <2>1. Fits(none)
    BY <1>2, <1>4, NoCmd, CmdSet, Zenon
  <2>2. QED
    BY <1>2, <1>4, <2>1 DEF TnData
<1>6. PlaceOf(none) = "data" /\ IacInside(none)
  BY <1>5, CommandOver
<1>7. Grown(d.out, d.out)
  BY <1>2, GrownSame
<1>8. CASE pos = 0 /\ b = IAC
  <2>1. q = [p EXCEPT !.td.cmd = <<b>>, !.td.suboption_iac = FALSE]
    BY <1>1, <1>8 DEF ParseByte
  <2>2. PICK c : c = <<b>>
    OBVIOUS
  <2>3. Len(c) = 1
    BY <2>2
  <2>4. /\ q.data = p.data /\ q.td.cmd = c /\ q.td.suboption_iac = FALSE
        /\ q.td.out = d.out
    BY <1>1, <1>2, <2>1, <2>2, ZenonT(30) DEF TnData
  <2>5. PlaceOf(q.td) = "iac" /\ IacInside(q.td)
    BY <2>3, <2>4, PlaceIs DEF IacInside
  <2>6. PlaceOf(d) = "data"
    BY <1>1, <1>8 DEF PlaceOf
  <2>7. NextAt("data", b) = "iac" /\ ~IsData("data", b)
    BY <1>8 DEF NextAt, IsData
  <2>8. QED
    BY <1>1, <1>7, <2>4, <2>5, <2>6, <2>7
<1>9. CASE pos = 0 /\ b # IAC
  <2>1. q = [p EXCEPT !.data = Append(@, b)]
    BY <1>1, <1>9 DEF ParseByte
  <2>2. q.data = Append(p.data, b) /\ q.td = d
    BY <1>1, <1>2, <2>1
  <2>3. PlaceOf(d) = "data"
    BY <1>1, <1>9 DEF PlaceOf
  <2>4. NextAt("data", b) = "data" /\ IsData("data", b)
    BY <1>9 DEF NextAt, IsData
  <2>5. QED
    BY <1>1, <1>7, <2>2, <2>3, <2>4
<1>10. CASE pos = 1 /\ b = IAC
  <2>1. q = [p EXCEPT !.data = Append(@, b), !.td.cmd = <<>>]
    BY <1>1, <1>10 DEF ParseByte, IAC, SB
  <2>2. q.data = Append(p.data, b) /\ q.td = none
    BY <1>1, <1>2, <1>4, <2>1
  <2>3. PlaceOf(d) = "iac"
    BY <1>1, <1>10 DEF PlaceOf
  <2>4. NextAt("iac", b) = "data" /\ IsData("iac", b)
    BY <1>10 DEF NextAt, IsData
  <2>5. QED
    BY <1>1, <1>5, <1>6, <1>7, <2>2, <2>3, <2>4
<1>11. CASE pos = 1 /\ b < SB
  <2>1. b # IAC /\ ~(b >= SB)
    BY <1>3, <1>11 DEF IAC, SB
  <2>2. q = [p EXCEPT !.td.cmd = <<>>]
    BY <1>1, <1>11, <2>1 DEF ParseByte
  <2>3. q.data = p.data /\ q.td = none
    BY <1>1, <1>2, <1>4, <2>2
  <2>4. PlaceOf(d) = "iac"
    BY <1>1, <1>11 DEF PlaceOf
  <2>5. NextAt("iac", b) = "data" /\ ~IsData("iac", b)
    BY <1>11, <2>1 DEF NextAt, IsData
  <2>6. QED
    BY <1>1, <1>5, <1>6, <1>7, <2>3, <2>4, <2>5
<1>12. CASE (pos = 1 /\ b >= SB /\ b # IAC) \/ (pos = 2 /\ cmd[2] = SB)
  <2>1. PICK c : c = Append(cmd, b)
    OBVIOUS
  <2>2. /\ Len(c) = pos + 1
        /\ pos = 1 => c[2] = b
    BY <1>1, <1>2, <1>12, <2>1
  <2>3. q = [p EXCEPT !.td.cmd = Append(@, b)]
    BY <1>1, <1>3, <1>12 DEF ParseByte, IAC, SB
  <2>4. /\ q.data = p.data /\ q.td.cmd = c /\ q.td.suboption_iac = d.suboption_iac
        /\ q.td.out = d.out
    BY <1>1, <1>2, <2>1, <2>3 DEF TnData
  <2>5. ~d.suboption_iac
    BY <1>1, <1>12 DEF IacInside
  <2>6. IacInside(q.td)
    BY <2>4, <2>5 DEF IacInside
  <2>7. CASE pos = 1
    <3>1. b # IAC /\ ~(b < SB)
      BY <1>3, <1>12, <2>7 DEF SB
    <3>2. PlaceOf(d) = "iac"
      BY <1>1, <2>7 DEF PlaceOf
    <3>3. PlaceOf(q.td) = IF b = SB THEN "sb" ELSE "option"
      BY <1>2, <2>2, <2>4, <2>7, PlaceIs
    <3>4. NextAt("iac", b) = (IF b = SB THEN "sb" ELSE "option") /\ ~IsData("iac", b)
      BY <3>1 DEF NextAt, IsData
    <3>5. QED
      BY <1>1, <1>7, <2>4, <2>6, <3>2, <3>3, <3>4
  <2>8. CASE pos = 2 /\ cmd[2] = SB
    <3>1. PlaceOf(d) = "sb"
      BY <1>1, <2>8 DEF PlaceOf
    <3>2. PlaceOf(q.td) = "sub"
      <4>1. Len(c) \in Nat /\ Len(c) >= 3
        BY <2>2, <2>8
      <4>2. QED
        BY <2>4, <2>5, <4>1, PlaceIs, Zenon
    <3>3. NextAt("sb", b) = "sub" /\ ~IsData("sb", b)
      BY DEF NextAt, IsData
    <3>4. QED
      BY <1>1, <1>7, <2>4, <2>6, <3>1, <3>2, <3>3
  <2>9. QED
    BY <1>12, <2>7, <2>8
<1>13. CASE pos = 2 /\ cmd[2] # SB
  <2>1. cmd[2] \in WILL .. DONT
    BY <1>2, <1>13 DEF SB, WILL, DONT
  <2>2. PICK e : e = Negotiate(none, cmd[2], b, modem)
    OBVIOUS
  <2>3. Queues(none, e)
    BY <1>5, <2>1, <2>2, NegotiateQueues
  <2>4. e.cmd = <<>> /\ Grown(d.out, e.out)
    BY <1>5, <2>3, Zenon DEF Queues
  <2>5. q = [p EXCEPT !.td = e]
    BY <1>1, <1>4, <1>13, <2>2 DEF ParseByte
  <2>6. q.data = p.data /\ q.td = e
    BY <1>2, <2>5
  <2>7. PlaceOf(e) = "data" /\ IacInside(e)
    BY <2>4, CommandOver
  <2>8. PlaceOf(d) = "option"
    BY <1>1, <1>13 DEF PlaceOf
  <2>9. NextAt("option", b) = "data" /\ ~IsData("option", b)
    BY DEF NextAt, IsData
  <2>10. QED
    BY <1>1, <2>4, <2>6, <2>7, <2>8, <2>9
<1>14. CASE pos >= 3
  <2>1. PICK e : e = SuboptionByte(d, b)
    OBVIOUS
  <2>2. q = [p EXCEPT !.td = e]
    <3>1. pos # 0 /\ pos # 1 /\ pos # 2
      BY <1>2, <1>14
    <3>2. QED
      BY <1>1, <2>1, <3>1 DEF ParseByte
  <2>3. q.data = p.data /\ q.td = e
    BY <1>2, <2>2
  <2>4. /\ IacInside(e) /\ PlaceOf(e) = NextAt(PlaceOf(d), b)
        /\ Grown(d.out, e.out)
    BY <1>1, <1>2, <1>14, <2>1, SuboptionReads
  <2>5. PlaceOf(d) \in {"sub", "subiac"}
    BY <1>1, <1>2, <1>14, PlaceIs
  <2>6. ~IsData(PlaceOf(d), b)
    BY <2>5 DEF IsData
  <2>7. QED
    BY <1>1, <2>3, <2>4, <2>6
<1>15. QED
  BY <1>2, <1>3, <1>8, <1>9, <1>10, <1>11, <1>12, <1>13, <1>14 DEF SB

\* process_telnet_data, whatever bytes come: what is left is what a reader of
\* the protocol takes for data, and the answers are whole commands.
LEMMA ProcessReads ==
  ASSUME NEW bytes \in Seq(Byte), NEW d, Fits(d), IacInside(d), NEW modem \in Byte,
         NEW c \in Readers, c.at = PlaceOf(d),
         NEW p, p = ProcessTelnetData(bytes, d, modem)
  PROVE  /\ IacInside(p.td) /\ PlaceOf(p.td) = ReadBytes(c, bytes).at
         /\ c.data \o p.data = ReadBytes(c, bytes).data
         /\ Grown(d.out, p.td.out)
<1>1. PICK n : n = Len(bytes)
  OBVIOUS
<1>2. n \in Nat /\ \A i \in 1 .. n : bytes[i] \in Byte
  BY <1>1
<1>3. \E g : Parses(g, bytes, d, modem, n)
  BY <1>2, ParsesExist
<1>4. PICK f : f = CHOOSE g : Parses(g, bytes, d, modem, n)
  OBVIOUS
<1>5. Parses(f, bytes, d, modem, n)
  BY <1>3, <1>4
<1>6. /\ p = f[n]
      /\ \A k \in 0 .. n : f[k] = IF k = 0 THEN [td |-> d, data |-> <<>>]
                                  ELSE ParseByte(f[k - 1], bytes[k], modem)
  <2>1. p = f[n]
    BY <1>1, <1>4 DEF ProcessTelnetData, Parses
  <2>2. ASSUME NEW k \in 0 .. n
        PROVE  f[k] = IF k = 0 THEN [td |-> d, data |-> <<>>]
                      ELSE ParseByte(f[k - 1], bytes[k], modem)
    BY <1>5, ParsesAt
  <2>3. QED
    BY <2>1, <2>2
<1>7. PICK r : Reads(r, c, bytes, n) /\ ReadBytes(c, bytes) = r[n]
  BY <1>1, <1>2, ReadBytesIs
<1>8. c.data \in Seq(Byte) /\ d.out \in Seq(Byte) /\ d \in TnData
  BY DEF Readers, Fits, OutFits
<1> DEFINE Together(i) == /\ Parsed(f[i], i) /\ r[i] \in Readers
                          /\ IacInside(f[i].td) /\ PlaceOf(f[i].td) = r[i].at
                          /\ c.data \o f[i].data = r[i].data
                          /\ Grown(d.out, f[i].td.out)
<1> HIDE DEF Together
<1>9. PICK S : S = {i \in Nat : i <= n => Together(i)}
  OBVIOUS
<1>10. 0 \in S
  <2>1. 0 \in 0 .. n
    BY <1>2
  <2>2. f[0] = [td |-> d, data |-> <<>>]
    BY <1>6, <2>1
  <2>3. r[0] = c
    BY <1>7, <2>1, ReadsAt
  <2>4. f[0].td = d /\ f[0].data = <<>>
    BY <2>2
  <2>5. Parsed(f[0], 0)
    <3>1. <<>> \in Seq(Byte) /\ Len(<<>>) = 0
      OBVIOUS
    <3>2. QED
      BY <1>8, <2>2, <3>1 DEF Parsed
  <2>6. c.data \o <<>> = c.data
    BY <1>8, ConcatEmptySeq, Zenon
  <2>7. Grown(d.out, d.out)
    BY <1>8, GrownSame
  <2>8. Together(0)
    BY <2>3, <2>4, <2>5, <2>6, <2>7, Zenon DEF Together
  <2>9. QED
    BY <1>9, <2>8
<1>11. ASSUME NEW i \in Nat, i \in S PROVE i + 1 \in S
  <2>1. SUFFICES ASSUME i + 1 <= n PROVE Together(i + 1)
    BY <1>9, <1>11
  <2>2. Together(i)
    BY <1>2, <1>9, <1>11, <2>1
  <2>3. i + 1 \in 0 .. n /\ i + 1 # 0 /\ i + 1 - 1 = i /\ i + 1 \in 1 .. n
    BY <1>2, <2>1
  <2>4. PICK b : b = bytes[i + 1]
    OBVIOUS
  <2>5. b \in Byte
    BY <1>2, <2>3, <2>4
  <2>6. f[i + 1] = ParseByte(f[i], b, modem)
    <3>1. PICK k \in 0 .. n : k = i + 1
      BY <2>3
    <3>2. f[k] = IF k = 0 THEN [td |-> d, data |-> <<>>]
                 ELSE ParseByte(f[k - 1], bytes[k], modem)
      BY <1>6, Zenon
    <3>3. QED
      BY <2>3, <2>4, <3>1, <3>2
  <2>7. r[i + 1] = ReadByte(r[i], b)
    <3>1. r[i + 1] = IF i + 1 = 0 THEN c ELSE ReadByte(r[i + 1 - 1], bytes[i + 1])
      BY <1>7, <2>3, ReadsAt
    <3>2. QED
      BY <2>3, <2>4, <3>1
  <2>8. PICK x, y, u, v : x = f[i] /\ y = f[i + 1] /\ u = r[i] /\ v = r[i + 1]
    OBVIOUS
  <2>9. /\ Parsed(x, i) /\ u \in Readers /\ IacInside(x.td) /\ PlaceOf(x.td) = u.at
        /\ c.data \o x.data = u.data /\ Grown(d.out, x.td.out)
    BY <2>2, <2>8 DEF Together
  <2>10. y = ParseByte(x, b, modem) /\ v = ReadByte(u, b)
    BY <2>6, <2>7, <2>8
  <2>11. /\ IacInside(y.td) /\ PlaceOf(y.td) = NextAt(u.at, b)
         /\ y.data = IF IsData(u.at, b) THEN Append(x.data, b) ELSE x.data
         /\ Grown(x.td.out, y.td.out)
    BY <2>5, <2>9, <2>10, ParseByteReads
  <2>12. Parsed(y, i + 1)
    BY <2>5, <2>9, <2>10, ParseByteFits
  <2>13. /\ v \in Readers /\ v.at = NextAt(u.at, b)
         /\ v.data = IF IsData(u.at, b) THEN Append(u.data, b) ELSE u.data
    BY <2>5, <2>9, <2>10, ReadByteIs
  <2>14. c.data \o y.data = v.data
    <3>1. x.data \in Seq(Byte)
      BY <2>9 DEF Parsed
    <3>2. c.data \o Append(x.data, b) = Append(c.data \o x.data, b)
      <4>1. \A s, t \in Seq(Byte) : s \o Append(t, b) = Append(s \o t, b)
        BY <2>5
      <4>2. QED
        BY <1>8, <3>1, <4>1, Zenon
    <3>3. QED
      BY <2>9, <2>11, <2>13, <3>2, Zenon
  <2>15. Grown(d.out, y.td.out)
    BY <1>8, <2>9, <2>11, GrownTwice
  <2>16. QED
    BY <2>8, <2>11, <2>12, <2>13, <2>14, <2>15, Zenon DEF Together
<1>12. \A i \in Nat : i \in S
  BY <1>10, <1>11, Induction
<1>13. Together(n)
  BY <1>2, <1>9, <1>12
<1>14. QED
  BY <1>6, <1>7, <1>13 DEF Together
-----------------------------------------------------------------------------
(***************************************************************************)
(* What the device and the client get                                      *)
(***************************************************************************)
\* The bytes and the two peers
PeersTyped == toDev \in Seq(Byte) /\ seen \in Readers

\* The client is read only when the device has taken all that came before.
ClientWaits ==
  port = "connected" =>
    /\ "tcpRead" \in enabled <=> "devWrite" \notin enabled
    /\ tcp_to_dev # <<>> => "devWrite" \in enabled
    /\ "tcpRead" \in pass => tcp_to_dev = <<>>

\* The telnet layer is where a reader of the same bytes is.
LayerReads ==
  port = "connected" /\ mode = "telnet" =>
    IacInside(td) /\ PlaceOf(td) = Meant(SubSeq(stream, 1, nread)).at

\* No command is under way: the client is where the data have left it.
Between == seen.at = Meant(dataSent).at /\ Harmless("data", td.out)

\* What waits to be sent completes the command the client is in, if any; a
\* command under way began in the data, and the device is not read meanwhile.
ClientFollows ==
  mode = "telnet" =>
    /\ "devRead" \in pass => "tcpWrite" \notin pass
    /\ ~torn /\ spurious = 0 =>
         /\ seen.data = Meant(dataSent).data
         /\ Between \/ (Meant(dataSent).at = "data" /\ Harmless(seen.at, td.out))
         /\ "devRead" \in pass => Between

PeersInv ==
  PeersTyped /\ ClientWaits /\ LayerReads /\ DeviceGetsClientData /\ ClientFollows

\* What a stream means
LEMMA MeantIs ==
  ASSUME NEW s \in Seq(Byte)
  PROVE  /\ Meant(s) \in Readers /\ Meant(s).at \in Places /\ Meant(s).data \in Seq(Byte)
         /\ \A t \in Seq(Byte) : Meant(s \o t) = ReadBytes(Meant(s), t)
<1>1. FreshReader \in Readers
  <2>1. FreshReader = From("data") /\ "data" \in Places
    BY DEF FreshReader, From, Places
  <2>2. QED
    BY <2>1, FromIs
<1>2. Meant(s) \in Readers
  BY <1>1, ReadTyped DEF Meant
<1>3. Meant(s).at \in Places /\ Meant(s).data \in Seq(Byte)
  BY <1>2 DEF Readers
<1>4. \A t \in Seq(Byte) : Meant(s \o t) = ReadBytes(Meant(s), t)
  BY ReadConcat, Zenon DEF Meant
<1>5. QED
  BY <1>2, <1>3, <1>4

\* Nothing has been sent.
LEMMA MeantNothing ==
  /\ Meant(<<>>) = FreshReader /\ FreshReader.at = "data" /\ FreshReader.data = <<>>
  /\ FreshReader \in Readers /\ Harmless("data", <<>>)
<1>1. Meant(<<>>) = FreshReader
  BY ReadNothing, Zenon DEF Meant
<1>2. FreshReader.at = "data" /\ FreshReader.data = <<>>
  BY DEF FreshReader
<1>3. <<>> \in Seq(Byte)
  OBVIOUS
<1>4. FreshReader \in Readers
  BY <1>1, <1>3, MeantIs, Zenon
<1>5. Harmless("data", <<>>)
  BY HarmlessNothing DEF Places
<1>6. QED
  BY <1>1, <1>2, <1>4, <1>5

\* Only the current command and suboption_iac say where the layer is.
LEMMA PlaceSame ==
  ASSUME NEW d, NEW e, e.cmd = d.cmd, e.suboption_iac = d.suboption_iac
  PROVE  PlaceOf(e) = PlaceOf(d) /\ (IacInside(e) <=> IacInside(d))
BY Zenon DEF PlaceOf, IacInside

\* More commands behind harmless bytes
LEMMA GrownHarmless ==
  ASSUME NEW a \in Places, NEW s \in Seq(Byte), NEW t, Harmless(a, s), Grown(s, t)
  PROVE  Harmless(a, t)
<1>1. PICK x \in Seq(Byte) : t = s \o x /\ Harmless("data", x)
  BY DEF Grown
<1>2. QED
  BY <1>1, HarmlessConcat, Zenon

\* The state outside a session
LEMMA NoSession ==
  ASSUME td = Nothing, seen = FreshReader, dataSent = <<>>, toDev = <<>>, pass = {},
         port # "connected"
  PROVE  PeersInv
<1>1. td.out = <<>>
  BY NothingFits
<1>2. <<>> \in Seq(Byte)
  OBVIOUS
<1>3. PeersTyped
  BY <1>2, MeantNothing DEF PeersTyped
<1>4. Between /\ seen.data = Meant(dataSent).data
  BY <1>1, MeantNothing, Zenon DEF Between
<1>5. ClientFollows
  BY <1>4 DEF ClientFollows
<1>6. QED
  BY <1>3, <1>5 DEF PeersInv, ClientWaits, LayerReads, DeviceGetsClientData

\* The initial states
LEMMA PeersInit == Init => PeersInv
<1> SUFFICES ASSUME Init PROVE PeersInv
  OBVIOUS
<1>1. /\ td = Nothing /\ seen = FreshReader /\ dataSent = <<>> /\ toDev = <<>> /\ pass = {}
      /\ port = "unconnected"
  BY DEF Init
<1>2. QED
  BY <1>1, NoSession

\* shutdown_port
LEMMA ShutdownPeers ==
  ASSUME NEW d, ShutdownPort(d)
  PROVE  PeersInv'
<1>1. /\ td' = Nothing /\ seen' = FreshReader /\ dataSent' = <<>> /\ toDev' = <<>>
      /\ pass' = {} /\ port' = "unconnected"
  BY DEF ShutdownPort
<1>2. td'.out = <<>>
  BY <1>1, NothingFits
<1>3. <<>> \in Seq(Byte)
  OBVIOUS
<1>4. PeersTyped'
  BY <1>1, <1>3, MeantNothing DEF PeersTyped
<1>5. Meant(dataSent') = FreshReader
  BY <1>1, MeantNothing, Zenon
<1>6. /\ seen'.at = Meant(dataSent').at /\ Harmless("data", td'.out)
      /\ seen'.data = Meant(dataSent').data
  BY <1>1, <1>2, <1>5, MeantNothing, Zenon
<1>7. Between'
  BY <1>6 DEF Between
<1>8. ClientFollows'
  BY <1>1, <1>6, <1>7 DEF ClientFollows
<1>9. QED
  BY <1>1, <1>4, <1>8 DEF PeersInv, ClientWaits, LayerReads, DeviceGetsClientData

\* setup_tcp_port
LEMMA ConnectPeers ==
  ASSUME SessionInv, SessionInv', Connect
  PROVE  PeersInv'
<1>1. /\ port' = "connected" /\ mode' = mode /\ pass' = {} /\ stream' \in Seq(Byte)
      /\ enabled' = {"tcpRead", IF mode = "telnet" THEN "tcpWrite" ELSE "devRead"}
      /\ tcp_to_dev' = <<>> /\ nread' = 0
      /\ toDev' = <<>> /\ seen' = FreshReader /\ dataSent' = <<>>
      /\ \E seq : td' = TelnetInit(seq, sent) /\ (mode = "telnet" => seq = telnet_init_seq)
  BY SessionAssumption DEF Connect
<1>2. td'.cmd = <<>> /\ (mode = "telnet" => td'.out = telnet_init_seq)
  BY <1>1 DEF TelnetInit
<1>3. SubSeq(stream', 1, nread') = <<>> /\ <<>> \in Seq(Byte) /\ <<>> \o <<>> = <<>>
  BY <1>1
<1>4. PeersTyped'
  BY <1>1, <1>3, MeantNothing DEF PeersTyped
<1>5. ClientWaits'
  BY <1>1 DEF ClientWaits
<1>6. Meant(SubSeq(stream', 1, nread')) = FreshReader /\ Meant(dataSent') = FreshReader
  BY <1>1, <1>3, MeantNothing, Zenon
<1>7. LayerReads'
  BY <1>2, <1>6, MeantNothing, CommandOver DEF LayerReads
<1>8. DeviceGetsClientData'
  BY <1>1, <1>3, <1>6, MeantNothing DEF DeviceGetsClientData
<1>9. CASE mode = "telnet"
  <2>1. Harmless("data", telnet_init_seq)
    <3>1. From("data") = FreshReader
      BY DEF From, FreshReader
    <3>2. QED
      BY <3>1, InitSeqAssumption, Zenon DEF Meant, Harmless
  <2>2. Between'
    BY <1>1, <1>2, <1>6, <1>9, <2>1 DEF Between
  <2>3. ClientFollows'
    BY <1>1, <1>6, <2>2 DEF ClientFollows
  <2>4. QED
    BY <1>4, <1>5, <1>7, <1>8, <2>3 DEF PeersInv
<1>10. CASE mode # "telnet"
  <2>1. ClientFollows'
    BY <1>1, <1>10 DEF ClientFollows
  <2>2. QED
    BY <1>4, <1>5, <1>7, <1>8, <2>1 DEF PeersInv
<1>11. QED
  BY <1>9, <1>10

\* select returns.
LEMMA SelectPeers ==
  ASSUME SessionInv, PeersInv, Select
  PROVE  PeersInv'
<1>1. /\ UNCHANGED <<port, mode, td, enabled, tcp_to_dev, stream, nread, toDev, seen,
                     dataSent, torn, spurious>>
      /\ pass' \subseteq enabled /\ port = "connected"
  BY DEF Select, tn, buffers, client, device, setup
<1>2. PeersTyped /\ ClientWaits /\ LayerReads /\ DeviceGetsClientData /\ ClientFollows
  BY DEF PeersInv
<1>3. PeersTyped' /\ LayerReads' /\ DeviceGetsClientData'
  BY <1>1, <1>2 DEF PeersTyped, LayerReads, DeviceGetsClientData
<1>4. ClientWaits'
  BY <1>1, <1>2 DEF ClientWaits
<1>5. CASE mode = "telnet"
  <2>1. "devRead" \in pass' => "tcpWrite" \notin pass' /\ (spurious = 0 => td.out = <<>>)
    BY <1>1, <1>5 DEF SessionInv, PendingOutputWatched
  <2>2. ASSUME "devRead" \in pass', ~torn, spurious = 0 PROVE Between
    <3>1. td.out = <<>> /\ seen.at \in Places
      BY <1>2, <2>1, <2>2 DEF PeersTyped, Readers
    <3>2. Between \/ (Meant(dataSent).at = "data" /\ Harmless(seen.at, td.out))
      BY <1>2, <1>5, <2>2 DEF ClientFollows
    <3>3. Harmless(seen.at, <<>>) => seen.at = "data"
      BY <3>1, HarmlessNothing
    <3>4. QED
      BY <3>1, <3>2, <3>3, MeantNothing, Zenon DEF Between
  <2>3. ClientFollows'
    <3>1. Between' <=> Between
      BY <1>1 DEF Between
    <3>2. /\ seen'.data = Meant(dataSent').data <=> seen.data = Meant(dataSent).data
          /\ (Meant(dataSent').at = "data" /\ Harmless(seen'.at, td'.out))
               <=> (Meant(dataSent).at = "data" /\ Harmless(seen.at, td.out))
      BY <1>1
    <3>3. QED
      BY <1>1, <1>2, <1>5, <2>1, <2>2, <3>1, <3>2 DEF ClientFollows
  <2>4. QED
    BY <1>3, <1>4, <2>3 DEF PeersInv
<1>6. CASE mode # "telnet"
  BY <1>1, <1>3, <1>4, <1>6 DEF PeersInv, ClientFollows
<1>7. QED
  BY <1>5, <1>6

\* Steps that send the client nothing, and may queue commands for it
LEMMA FollowsKept ==
  ASSUME ClientFollows, PeersTyped, td.out \in Seq(Byte), Grown(td.out, td'.out),
         UNCHANGED <<mode, seen, dataSent, torn>>, pass' \subseteq pass,
         spurious' = 0 => spurious = 0
  PROVE  ClientFollows'
<1>1. CASE mode = "telnet"
  <2>1. ASSUME ~torn', spurious' = 0
        PROVE  /\ seen'.data = Meant(dataSent').data
               /\ Between' \/ (Meant(dataSent').at = "data" /\ Harmless(seen'.at, td'.out))
               /\ "devRead" \in pass' => Between'
    <3>1. ~torn /\ spurious = 0
      BY <2>1
    <3>2. /\ seen.data = Meant(dataSent).data
          /\ Between \/ (Meant(dataSent).at = "data" /\ Harmless(seen.at, td.out))
          /\ "devRead" \in pass => Between
      BY <1>1, <3>1 DEF ClientFollows
    <3>3. seen.at \in Places /\ "data" \in Places
      BY DEF PeersTyped, Readers, Places
    <3>4. Harmless(seen.at, td.out) => Harmless(seen.at, td'.out)
      BY <3>3, GrownHarmless
    <3>5. Harmless("data", td.out) => Harmless("data", td'.out)
      BY <3>3, GrownHarmless
    <3>6. Between => Between'
      BY <3>5 DEF Between
    <3>7. QED
      BY <3>2, <3>4, <3>6
  <2>2. "devRead" \in pass' => "tcpWrite" \notin pass'
    BY <1>1 DEF ClientFollows
  <2>3. QED
    BY <2>1, <2>2 DEF ClientFollows
<1>2. CASE mode # "telnet"
  BY <1>2 DEF ClientFollows
<1>3. QED
  BY <1>1, <1>2

\* The client's bytes are read from the front.
LEMMA PrefixGrows ==
  ASSUME NEW s \in Seq(Byte), NEW k \in Nat, NEW n \in Nat, k + n <= Len(s)
  PROVE  /\ SubSeq(s, 1, k) \in Seq(Byte) /\ SubSeq(s, k + 1, k + n) \in Seq(Byte)
         /\ SubSeq(s, 1, k + n) = SubSeq(s, 1, k) \o SubSeq(s, k + 1, k + n)
<1>1. PICK m : m = k + n
  OBVIOUS
<1>2. m \in Nat /\ k <= m /\ m <= Len(s) /\ Len(s) \in Nat
  BY <1>1
<1>3. SubSeq(s, 1, k) \in Seq(Byte) /\ SubSeq(s, k + 1, m) \in Seq(Byte)
  BY <1>2
<1>4. SubSeq(s, 1, k) \o SubSeq(s, k + 1, m) = SubSeq(s, 1, m)
  <2>1. 1 \in 1 .. Len(s) + 1 /\ k \in 1 - 1 .. Len(s) /\ m \in k .. Len(s)
    BY <1>2
  <2>2. QED
    BY <2>1, ConcatAdjacentSubSeq, Zenon
<1>5. QED
  BY <1>1, <1>3, <1>4, Zenon

\* handle_tcp_fd_read
LEMMA TcpReadPeers ==
  ASSUME SessionInv, PeersInv, NEW n \in 1 .. PORT_BUFSIZE, NEW m \in ModemStates,
         HandleTcpFdRead(n, m)
  PROVE  PeersInv'
<1>1. Types /\ PeersTyped /\ ClientWaits /\ LayerReads /\ DeviceGetsClientData
      /\ ClientFollows
  BY DEF SessionInv, PeersInv
<1>2. /\ UNCHANGED <<port, mode, stream, seen, dataSent, torn, spurious>>
      /\ pass' = pass \ {"tcpRead"} /\ "tcpRead" \in pass /\ port = "connected"
      /\ nread' = nread + n /\ nread + n <= Len(stream)
  BY DEF HandleTcpFdRead, Called, Turn, setup
<1>3. PICK got : got = SubSeq(stream, nread + 1, nread + n)
  OBVIOUS
<1>4. PICK p : p = Processed(got, m)
  OBVIOUS
<1>5. Parsed(p, n) /\ (mode # "telnet" => p.td = td)
  BY <1>1, <1>2, <1>3, <1>4, ProcessedFits
<1>6. PICK ready : ready = OutputReady(p.td.out # td.out, enabled)
  OBVIOUS
<1>7. /\ td' = p.td
      /\ \E w \in 0 .. Len(p.data) :
           tcp_to_dev' = Rest(p.data, w) /\ toDev' = toDev \o SubSeq(p.data, 1, w)
      /\ enabled' = IF tcp_to_dev' = <<>> THEN ready
                    ELSE (ready \ {"tcpRead"}) \cup {"devWrite"}
  BY <1>3, <1>4, <1>6 DEF HandleTcpFdRead, Processed, LeftOver
<1>8. p.data \in Seq(Byte) /\ toDev \in Seq(Byte) /\ tcp_to_dev = <<>>
  BY <1>1, <1>2, <1>5 DEF Parsed, PeersTyped, ClientWaits
<1>9. toDev' \in Seq(Byte) /\ toDev' \o tcp_to_dev' = toDev \o p.data
  BY <1>7, <1>8, SplitIs, ZenonT(30)
<1>10. PICK old : old = SubSeq(stream, 1, nread)
  OBVIOUS
<1>11. /\ old \in Seq(Byte) /\ got \in Seq(Byte)
       /\ SubSeq(stream, 1, nread + n) = old \o got
       /\ Fits(td) /\ m \in Byte /\ td.out \in Seq(Byte)
  <2>1. stream \in Seq(Byte) /\ nread \in Nat /\ n \in Nat /\ nread + n <= Len(stream)
    BY <1>1, <1>2 DEF Types
  <2>2. /\ old \in Seq(Byte) /\ got \in Seq(Byte)
        /\ SubSeq(stream, 1, nread + n) = old \o got
    BY <1>3, <1>10, <2>1, PrefixGrows
  <2>3. QED
    BY <1>1, <2>2, SessionAssumption DEF Types, Fits, OutFits
<1>12. toDev \o tcp_to_dev = toDev
  BY <1>8, ConcatEmptySeq, Zenon
<1>13. PeersTyped'
  BY <1>1, <1>2, <1>9 DEF PeersTyped
<1>14. ClientWaits'
  <2>1. /\ "tcpRead" \in ready <=> "tcpRead" \in enabled
        /\ "devWrite" \in ready <=> "devWrite" \in enabled
    BY <1>6 DEF OutputReady
  <2>2. CASE tcp_to_dev' = <<>>
    BY <1>1, <1>2, <1>7, <2>1, <2>2 DEF ClientWaits
  <2>3. CASE tcp_to_dev' # <<>>
    BY <1>1, <1>2, <1>7, <2>1, <2>3 DEF ClientWaits
  <2>4. QED
    BY <2>2, <2>3
<1>15. CASE mode = "telnet"
  <2>1. p = ProcessTelnetData(got, td, m)
    BY <1>4, <1>15 DEF Processed
  <2>2. PICK c : c = Meant(old)
    OBVIOUS
  <2>3. /\ c \in Readers /\ IacInside(td) /\ c.at = PlaceOf(td)
        /\ toDev = c.data
    <3>1. c \in Readers
      BY <1>11, <2>2, MeantIs
    <3>2. IacInside(td) /\ c.at = PlaceOf(td)
      BY <1>1, <1>2, <1>10, <1>15, <2>2 DEF LayerReads
    <3>3. toDev \o tcp_to_dev = c.data
      BY <1>1, <1>2, <1>10, <1>15, <2>2 DEF DeviceGetsClientData
    <3>4. QED
      BY <1>12, <3>1, <3>2, <3>3
  <2>4. /\ IacInside(p.td) /\ PlaceOf(p.td) = ReadBytes(c, got).at
        /\ c.data \o p.data = ReadBytes(c, got).data
        /\ Grown(td.out, p.td.out)
    <3>1. got \in Seq(Byte) /\ Fits(td) /\ m \in Byte
      BY <1>11
    <3>2. c \in Readers /\ IacInside(td) /\ c.at = PlaceOf(td)
      BY <2>3
    <3>3. QED
      BY <2>1, <3>1, <3>2, ProcessReads, ZenonT(30)
  <2>5. Meant(SubSeq(stream', 1, nread')) = ReadBytes(c, got)
    <3>1. Meant(old \o got) = ReadBytes(Meant(old), got)
      BY <1>11, MeantIs, Zenon
    <3>2. SubSeq(stream', 1, nread') = old \o got
      BY <1>2, <1>11
    <3>3. QED
      BY <2>2, <3>1, <3>2, Zenon
  <2>6. LayerReads'
    BY <1>7, <2>4, <2>5 DEF LayerReads
  <2>7. DeviceGetsClientData'
    <3>1. toDev' \o tcp_to_dev' = Meant(SubSeq(stream', 1, nread')).data
      BY <1>9, <2>3, <2>4, <2>5, Zenon
    <3>2. QED
      BY <1>2, <1>15, <3>1 DEF DeviceGetsClientData
  <2>8. ClientFollows'
    <3>1. Grown(td.out, td'.out) /\ pass' \subseteq pass
      BY <1>2, <1>7, <2>4
    <3>2. QED
      BY <1>1, <1>2, <1>11, <3>1, FollowsKept
  <2>9. QED
    BY <1>13, <1>14, <2>6, <2>7, <2>8 DEF PeersInv
<1>16. CASE mode # "telnet"
  <2>1. p.data = got
    BY <1>4, <1>16 DEF Processed
  <2>2. toDev = old
    BY <1>1, <1>2, <1>10, <1>12, <1>16 DEF DeviceGetsClientData
  <2>3. toDev' \o tcp_to_dev' = SubSeq(stream', 1, nread')
    BY <1>2, <1>9, <1>11, <2>1, <2>2
  <2>4. LayerReads' /\ DeviceGetsClientData' /\ ClientFollows'
    BY <1>2, <1>16, <2>3 DEF LayerReads, DeviceGetsClientData, ClientFollows
  <2>5. QED
    BY <1>13, <1>14, <2>4 DEF PeersInv
<1>17. QED
  BY <1>15, <1>16

\* The telnet layer fails: the program crashes or the session ends.
LEMMA TelnetFailsPeers ==
  ASSUME SessionInv, PeersInv, NEW n, NEW m, TelnetFails(n, m)
  PROVE  PeersInv'
<1>1. PICK p : p = ProcessTelnetData(SubSeq(stream, nread + 1, nread + n), td, m)
  OBVIOUS
<1>2. CASE ShutdownPort(p.td)
  BY <1>2, ShutdownPeers
<1>3. CASE /\ port' = "crashed"
           /\ UNCHANGED <<pass, tn, buffers, client, device, mode, banner, sessions,
                          enabled, notified, spurious>>
  <2>1. UNCHANGED <<pass, td, toDev, seen, dataSent, torn, mode, spurious>>
    BY <1>3 DEF tn, buffers, client, device
  <2>2. PeersTyped' /\ ClientFollows'
    BY <2>1 DEF PeersInv, PeersTyped, ClientFollows, Between
  <2>3. QED
    BY <1>3, <2>2 DEF PeersInv, ClientWaits, LayerReads, DeviceGetsClientData
<1>4. QED
  BY <1>1, <1>2, <1>3 DEF TelnetFails

\* handle_dev_fd_write
LEMMA DevWritePeers ==
  ASSUME SessionInv, PeersInv, NEW n \in 0 .. Len(tcp_to_dev), HandleDevFdWrite(n)
  PROVE  PeersInv'
<1>1. Types /\ PeersTyped /\ ClientWaits /\ LayerReads /\ DeviceGetsClientData
      /\ ClientFollows
  BY DEF SessionInv, PeersInv
<1>2. /\ UNCHANGED <<port, mode, td, stream, nread, seen, dataSent, torn>>
      /\ pass' = pass \ {"devWrite"} /\ port = "connected" /\ "devWrite" \in pass
      /\ \A g \in pass : Order["devWrite"] <= Order[g]
      /\ tcp_to_dev' = Rest(tcp_to_dev, n)
      /\ toDev' = toDev \o SubSeq(tcp_to_dev, 1, n)
      /\ spurious' = IF n = 0 THEN spurious + 1 ELSE spurious
      /\ enabled' = IF n < Len(tcp_to_dev) THEN enabled
                    ELSE (enabled \ {"devWrite"}) \cup {"tcpRead"}
  BY DEF HandleDevFdWrite, Called, Turn, setup, tn, client
<1>3. /\ tcp_to_dev \in Seq(Byte) /\ toDev \in Seq(Byte) /\ td.out \in Seq(Byte)
      /\ spurious \in Nat
  BY <1>1 DEF Types, PeersTyped, Fits, OutFits
<1>4. /\ toDev' \in Seq(Byte) /\ tcp_to_dev' \in Seq(Byte)
      /\ toDev' \o tcp_to_dev' = toDev \o tcp_to_dev
      /\ n = Len(tcp_to_dev) => tcp_to_dev' = <<>>
  BY <1>2, <1>3, SplitIs
<1>5. PeersTyped' /\ LayerReads' /\ DeviceGetsClientData'
  BY <1>1, <1>2, <1>4 DEF PeersTyped, LayerReads, DeviceGetsClientData
<1>6. ClientWaits'
  <2>1. "tcpRead" \notin pass
    BY <1>2 DEF Order
  <2>2. CASE n < Len(tcp_to_dev)
    <3>1. tcp_to_dev # <<>>
      BY <2>2
    <3>2. QED
      BY <1>1, <1>2, <2>1, <2>2, <3>1 DEF ClientWaits
  <2>3. CASE ~(n < Len(tcp_to_dev))
    <3>1. tcp_to_dev' = <<>>
      BY <1>3, <1>4, <2>3
    <3>2. QED
      BY <1>1, <1>2, <2>1, <2>3, <3>1 DEF ClientWaits
  <2>4. QED
    BY <2>2, <2>3
<1>7. ClientFollows'
  <2>1. Grown(td.out, td'.out)
    BY <1>2, <1>3, GrownSame
  <2>2. pass' \subseteq pass /\ (spurious' = 0 => spurious = 0)
    BY <1>2, <1>3
  <2>3. QED
    BY <1>1, <1>2, <1>3, <2>1, <2>2, FollowsKept
<1>8. QED
  BY <1>5, <1>6, <1>7 DEF PeersInv

\* A reader is known by its place and its data.
LEMMA SameReader ==
  ASSUME NEW c \in Readers, NEW d \in Readers, c.at = d.at, c.data = d.data
  PROVE  c = d
BY DEF Readers

\* What the client makes of bytes that are written to it
LEMMA SeeIs ==
  ASSUME seen \in Readers, NEW x \in Seq(Byte)
  PROVE  See(x) \in Readers /\ (mode = "telnet" => See(x) = ReadBytes(seen, x))
<1>1. CASE mode = "telnet"
  BY <1>1, ReadTyped DEF See
<1>2. CASE mode # "telnet"
  <2>1. seen.data \in Seq(Byte)
    BY DEF Readers
  <2>2. seen.data \o x \in Seq(Byte)
    BY <2>1
  <2>3. QED
    BY <1>2, <2>2 DEF See, Readers
<1>3. QED
  BY <1>1, <1>2

\* handle_dev_fd_read: no command is under way then, and the data go on where
\* they have left the client.
LEMMA DevReadPeers ==
  ASSUME SessionInv, PeersInv, NEW n \in 1 .. PORT_BUFSIZE, HandleDevFdRead(n)
  PROVE  PeersInv'
<1>1. Types /\ PeersTyped /\ ClientWaits /\ LayerReads /\ DeviceGetsClientData
      /\ ClientFollows
  BY DEF SessionInv, PeersInv
<1>2. /\ UNCHANGED <<port, mode, td, tcp_to_dev, stream, nread, toDev, torn, spurious>>
      /\ pass' = pass \ {"devRead"} /\ "devRead" \in pass /\ port = "connected"
      /\ n <= ReadSize /\ ndev + n <= Len(devStream)
      /\ enabled' = IF dev_to_tcp' = <<>> THEN enabled
                    ELSE (enabled \ {"devRead"}) \cup {"tcpWrite"}
  BY DEF HandleDevFdRead, Called, Turn, setup, tn
<1>3. PICK got : got = SubSeq(devStream, ndev + 1, ndev + n)
  OBVIOUS
<1>4. PICK data : data = IF mode = "telnet" THEN Doubled(got) ELSE got
  OBVIOUS
<1>5. PICK w \in 0 .. Len(data) :
        /\ seen' = See(SubSeq(data, 1, w))
        /\ dataSent' = dataSent \o SubSeq(data, 1, w)
  BY <1>3, <1>4 DEF HandleDevFdRead
<1>6. data \in Seq(Byte)
  BY <1>1, <1>2, <1>3, <1>4, ReadFits
<1>7. PICK x : x = SubSeq(data, 1, w)
  OBVIOUS
<1>8. x \in Seq(Byte) /\ seen \in Readers /\ dataSent \in Seq(Byte)
  BY <1>1, <1>5, <1>6, <1>7 DEF Types, PeersTyped
<1>9. seen' \in Readers /\ (mode = "telnet" => seen' = ReadBytes(seen, x))
  BY <1>5, <1>7, <1>8, SeeIs
<1>10. PeersTyped'
  BY <1>1, <1>2, <1>9 DEF PeersTyped
<1>11. ClientWaits' /\ LayerReads' /\ DeviceGetsClientData'
  BY <1>1, <1>2 DEF ClientWaits, LayerReads, DeviceGetsClientData
<1>12. ClientFollows'
  <2>1. SUFFICES ASSUME mode = "telnet", ~torn, spurious = 0
                 PROVE  Between' /\ seen'.data = Meant(dataSent').data
    BY <1>2 DEF ClientFollows
  <2>2. Between /\ seen.data = Meant(dataSent).data
    BY <1>1, <1>2, <2>1 DEF ClientFollows
  <2>3. seen = Meant(dataSent)
    BY <1>8, <2>2, MeantIs, SameReader DEF Between
  <2>4. Meant(dataSent \o x) = ReadBytes(Meant(dataSent), x)
    BY <1>8, MeantIs, Zenon
  <2>5. seen' = Meant(dataSent')
    BY <1>5, <1>7, <1>9, <2>1, <2>3, <2>4
  <2>6. Harmless("data", td'.out)
    BY <1>2, <2>2 DEF Between
  <2>7. QED
    BY <2>5, <2>6 DEF Between
<1>13. QED
  BY <1>10, <1>11, <1>12 DEF PeersInv

\* The select loop drops the reader of a rawlp port.
LEMMA NoReaderPeers ==
  ASSUME PeersInv, NoDevReader
  PROVE  PeersInv'
<1>1. /\ UNCHANGED <<port, mode, td, tcp_to_dev, stream, nread, toDev, seen>>
      /\ pass' \subseteq pass /\ mode = "rawlp" /\ enabled' = enabled \ {"devRead"}
  BY DEF NoDevReader, Called, Turn, setup, tn, client, device, buffers
<1>2. PeersTyped' /\ ClientWaits'
  BY <1>1 DEF PeersInv, PeersTyped, ClientWaits
<1>3. LayerReads' /\ DeviceGetsClientData' /\ ClientFollows'
  BY <1>1 DEF PeersInv, LayerReads, DeviceGetsClientData, ClientFollows
<1>4. QED
  BY <1>2, <1>3 DEF PeersInv

\* handle_tcp_fd_write: a command is sent whole before data follow, unless its
\* write failed although select promised room.
LEMMA TcpWritePeers ==
  ASSUME SessionInv, PeersInv, NEW c \in 0 .. Len(td.out), NEW n \in 0 .. Len(dev_to_tcp),
         HandleTcpFdWrite(c, n)
  PROVE  PeersInv'
<1>1. Types /\ PeersTyped /\ ClientWaits /\ LayerReads /\ DeviceGetsClientData
      /\ ClientFollows
  BY DEF SessionInv, PeersInv
<1>2. /\ UNCHANGED <<port, mode, tcp_to_dev, stream, nread, toDev>>
      /\ pass' = pass \ {"tcpWrite"} /\ "tcpWrite" \in pass /\ port = "connected"
      /\ td' = [td EXCEPT !.out = Rest(@, c)]
      /\ dataSent' = dataSent \o SubSeq(dev_to_tcp, 1, n)
      /\ seen' = See(SubSeq(td.out, 1, c) \o SubSeq(dev_to_tcp, 1, n))
      /\ ~(c = Len(td.out) \/ c = 0) => n = 0
      /\ "tcpRead" \in enabled' <=> "tcpRead" \in enabled
      /\ "devWrite" \in enabled' <=> "devWrite" \in enabled
  BY DEF HandleTcpFdWrite, Called, Turn, MayWriteData, setup, device
<1>3. /\ spurious' \in {spurious, spurious + 1}
      /\ td.out # <<>> /\ c = 0 => spurious' = spurious + 1
      /\ torn' = (torn \/ (c > 0 /\ mode = "telnet" /\ Meant(dataSent).at # "data"))
  BY DEF HandleTcpFdWrite
<1>4. /\ td \in TnData /\ td.out \in Seq(Byte) /\ dev_to_tcp \in Seq(Byte)
      /\ dataSent \in Seq(Byte) /\ spurious \in Nat
      /\ seen \in Readers /\ seen.at \in Places /\ toDev \in Seq(Byte)
  BY <1>1 DEF Types, Fits, OutFits, PeersTyped, Readers
<1>5. PICK o, u, v, x : /\ o = td.out /\ u = SubSeq(td.out, 1, c) /\ v = Rest(td.out, c)
                        /\ x = SubSeq(dev_to_tcp, 1, n)
  OBVIOUS
<1>6. /\ o \in Seq(Byte) /\ u \in Seq(Byte) /\ v \in Seq(Byte) /\ x \in Seq(Byte)
      /\ o = u \o v
      /\ c = Len(o) => v = <<>>
      /\ n = 0 => x = <<>>
      /\ c = 0 => u = <<>>
  <2>1. PICK e : e = <<>>
    OBVIOUS
  <2>2. e \in Seq(Byte) /\ e \o u = u /\ e \o td.out = td.out
    <3>1. u \in Seq(Byte)
      BY <1>4, <1>5
    <3>2. QED
      BY <1>4, <2>1, <3>1, ConcatEmptySeq
  <2>3. /\ v \in Seq(Byte) /\ (e \o u) \o v = e \o td.out
        /\ c = Len(td.out) => v = <<>>
    BY <1>4, <1>5, <2>2, SplitIs, ZenonT(30)
  <2>4. u \in Seq(Byte) /\ x \in Seq(Byte) /\ (n = 0 => x = <<>>) /\ (c = 0 => u = <<>>)
    BY <1>4, <1>5
  <2>5. QED
    BY <1>4, <1>5, <2>2, <2>3, <2>4
<1>7. td'.cmd = td.cmd /\ td'.out = v /\ td'.suboption_iac = td.suboption_iac
  BY <1>2, <1>4, <1>5 DEF TnData
<1>8. PICK mid : mid = ReadBytes(seen, u)
  OBVIOUS
<1>9. /\ mid \in Readers /\ seen' \in Readers
      /\ mode = "telnet" => seen' = ReadBytes(mid, x)
  <2>1. mid \in Readers
    BY <1>4, <1>6, <1>8, ReadTyped
  <2>2. ReadBytes(seen, u \o x) = ReadBytes(mid, x)
    BY <1>6, <1>8, ReadConcat, Zenon
  <2>3. u \o x \in Seq(Byte) /\ seen' = See(u \o x)
    <3>1. seen' = See(u \o x)
      BY <1>2, <1>5, Zenon
    <3>2. QED
      BY <1>6, <3>1
  <2>4. seen' \in Readers /\ (mode = "telnet" => seen' = ReadBytes(seen, u \o x))
    BY <1>4, <2>3, SeeIs
  <2>5. QED
    BY <2>1, <2>2, <2>4
<1>10. PICK d : d = Meant(dataSent)
  OBVIOUS
<1>11. d \in Readers /\ Meant(dataSent') = ReadBytes(d, x)
  <2>1. Meant(dataSent \o x) = ReadBytes(Meant(dataSent), x)
    BY <1>4, <1>6, MeantIs, Zenon
  <2>2. d \in Readers
    BY <1>4, <1>10, MeantIs
  <2>3. QED
    BY <1>2, <1>5, <1>10, <2>1, <2>2
<1>12. PeersTyped' /\ ClientWaits' /\ DeviceGetsClientData'
  BY <1>1, <1>2, <1>9 DEF PeersTyped, ClientWaits, DeviceGetsClientData
<1>13. LayerReads'
  <2>1. PlaceOf(td') = PlaceOf(td) /\ (IacInside(td') <=> IacInside(td))
    BY <1>7, PlaceSame
  <2>2. QED
    BY <1>1, <1>2, <2>1 DEF LayerReads
<1>14. ClientFollows'
  <2>1. SUFFICES ASSUME mode = "telnet", ~torn', spurious' = 0
                 PROVE  /\ seen'.data = Meant(dataSent').data
                        /\ \/ seen'.at = Meant(dataSent').at /\ Harmless("data", td'.out)
                           \/ Meant(dataSent').at = "data" /\ Harmless(seen'.at, td'.out)
    <3>1. mode = "telnet" => "devRead" \notin pass'
      BY <1>1, <1>2 DEF ClientFollows
    <3>2. QED
      BY <1>2, <3>1 DEF ClientFollows, Between
  <2>2. ~torn /\ spurious = 0 /\ (o # <<>> => c # 0) /\ (c > 0 => d.at = "data")
    <3>1. ~torn /\ (c > 0 => d.at = "data")
      BY <1>3, <1>10, <2>1, Zenon
    <3>2. spurious = 0 /\ (o # <<>> => c # 0)
      BY <1>3, <1>4, <1>5, <2>1
    <3>3. QED
      BY <3>1, <3>2
  <2>3. /\ seen.data = d.data
        /\ \/ seen.at = d.at /\ Harmless("data", o)
           \/ d.at = "data" /\ Harmless(seen.at, o)
    BY <1>1, <1>5, <1>10, <2>1, <2>2 DEF ClientFollows, Between
  <2>4. ASSUME mid = d, v = <<>>
        PROVE  /\ seen'.data = Meant(dataSent').data
               /\ seen'.at = Meant(dataSent').at /\ Harmless("data", td'.out)
    BY <1>7, <1>9, <1>11, <2>1, <2>4, MeantNothing
  <2>5. CASE o = <<>>
    <3>1. c = 0 /\ v = <<>> /\ u = <<>>
      BY <1>5, <1>6, <2>5
    <3>2. seen.at = d.at
      BY <1>4, <2>3, <2>5, HarmlessNothing
    <3>3. seen = d
      BY <1>4, <1>11, <2>3, <3>2, SameReader
    <3>4. mid = seen
      BY <1>8, <3>1, ReadNothing, Zenon
    <3>5. QED
      BY <2>4, <3>1, <3>3, <3>4
  <2>6. CASE o # <<>>
    <3>1. c > 0 /\ d.at = "data"
      BY <2>2, <2>6
    <3>2. Harmless(seen.at, u \o v)
      BY <1>6, <2>3, <3>1, Zenon
    <3>3. mid.data = seen.data /\ Harmless(mid.at, v)
      BY <1>4, <1>6, <1>8, <3>2, HarmlessSplit
    <3>4. CASE c = Len(o)
      <4>1. v = <<>> /\ mid.at \in Places
        BY <1>6, <1>9, <3>4 DEF Readers
      <4>2. mid.at = "data"
        BY <3>3, <4>1, HarmlessNothing
      <4>3. mid = d
        BY <1>9, <1>11, <2>3, <3>1, <3>3, <4>2, SameReader
      <4>4. QED
        BY <2>4, <4>1, <4>3
    <3>5. CASE c # Len(o)
      <4>1. x = <<>>
        BY <1>2, <1>5, <1>6, <3>1, <3>5, SMTT(30)
      <4>2. seen' = mid /\ Meant(dataSent') = d
        BY <1>9, <1>11, <2>1, <4>1, ReadNothing, Zenon
      <4>3. QED
        BY <1>7, <2>3, <3>1, <3>3, <4>2
    <3>6. QED
      BY <3>4, <3>5
  <2>7. QED
    BY <2>5, <2>6
<1>15. QED
  BY <1>12, <1>13, <1>14 DEF PeersInv

\* got_timeout
LEMMA NotifyPeers ==
  ASSUME SessionInv, PeersInv, NEW m \in ModemStates, NotifyModemstate(m)
  PROVE  PeersInv'
<1>1. Types /\ PeersTyped /\ ClientWaits /\ LayerReads /\ DeviceGetsClientData
      /\ ClientFollows
  BY DEF SessionInv, PeersInv
<1>2. PICK state : state = Masked(m, td.modemstate_mask)
  OBVIOUS
<1>3. /\ UNCHANGED <<port, mode, tcp_to_dev, stream, nread, toDev, seen, dataSent, torn,
                     spurious, pass>>
      /\ td' = SendOption([td EXCEPT !.modemstate = state], <<COM_PORT, 107, state>>)
      /\ enabled' = OutputReady(td'.out # td.out, enabled)
  BY <1>2 DEF NotifyModemstate, setup, client, device, buffers
<1>4. state \in Byte
  BY <1>2, MaskedIs
<1>5. Fits(td) /\ td.out \in Seq(Byte)
  BY <1>1 DEF Types, Fits, OutFits
<1>6. Queues(td, td')
  <2>1. PICK k : k = [td EXCEPT !.modemstate = state]
    OBVIOUS
  <2>2. /\ k \in TnData /\ k.cmd = td.cmd /\ k.out = td.out
        /\ k.suboption_iac = td.suboption_iac
    BY <1>4, <1>5, <2>1 DEF Fits, TnData
  <2>3. Fits(k)
    BY <1>5, <2>2 DEF Fits
  <2>4. PICK o : o = <<COM_PORT, 107, state>>
    OBVIOUS
  <2>5. COM_PORT \in Byte /\ 107 \in Byte
    BY DEF COM_PORT, Byte
  <2>6. o \in Seq(Byte) /\ Len(o) > 0 /\ o[1] = COM_PORT
    BY <1>4, <2>4, <2>5
  <2>7. Queues(k, SendOption(k, o))
    BY <2>3, <2>6, SendOptionQueues
  <2>8. Queues(td, k)
    BY <1>5, <2>2, QueuesSame
  <2>9. Queues(td, SendOption(k, o))
    BY <1>5, <2>7, <2>8, QueuesTwice
  <2>10. QED
    BY <1>3, <2>1, <2>4, <2>9
<1>7. PeersTyped' /\ DeviceGetsClientData'
  BY <1>1, <1>3 DEF PeersTyped, DeviceGetsClientData
<1>8. ClientWaits'
  <2>1. /\ "tcpRead" \in enabled' <=> "tcpRead" \in enabled
        /\ "devWrite" \in enabled' <=> "devWrite" \in enabled
    BY <1>3 DEF OutputReady
  <2>2. QED
    BY <1>1, <1>3, <2>1 DEF ClientWaits
<1>9. LayerReads'
  <2>1. PlaceOf(td') = PlaceOf(td) /\ (IacInside(td') <=> IacInside(td))
    BY <1>6, PlaceSame DEF Queues
  <2>2. QED
    BY <1>1, <1>3, <2>1 DEF LayerReads
<1>10. ClientFollows'
  <2>1. Grown(td.out, td'.out)
    BY <1>6 DEF Queues
  <2>2. QED
    BY <1>1, <1>3, <1>5, <2>1, FollowsKept
<1>11. QED
  BY <1>7, <1>8, <1>9, <1>10 DEF PeersInv

\* Every step keeps what the peers get.
LEMMA PeersStep ==
  ASSUME SessionInv, SessionInv', PeersInv, [Next]_vars
  PROVE  PeersInv'
<1>1. CASE Connect
  BY <1>1, ConnectPeers
<1>2. CASE Select
  BY <1>2, SelectPeers
<1>3. CASE Handle
  BY <1>3, TcpReadPeers, TelnetFailsPeers, DevWritePeers, DevReadPeers, NoReaderPeers,
     TcpWritePeers DEF Handle
<1>4. ASSUME NEW m \in ModemStates, NotifyModemstate(m) PROVE PeersInv'
  BY <1>4, NotifyPeers
<1>5. CASE Fail
  BY <1>5, ShutdownPeers DEF Fail
<1>6. CASE UNCHANGED vars
  <2>1. UNCHANGED <<port, mode, td, enabled, pass, tcp_to_dev, stream, nread, toDev, seen,
                    dataSent, torn, spurious>>
    BY <1>6 DEF vars, tn, buffers, client, device, setup
  <2>2. QED
    BY <2>1 DEF PeersInv, PeersTyped, ClientWaits, LayerReads, DeviceGetsClientData,
                ClientFollows, Between
<1>7. QED
  BY <1>1, <1>2, <1>3, <1>4, <1>5, <1>6 DEF Next, Done

\* The invariant of what the peers get
THEOREM PeersCorrect == Spec => [](SessionInv /\ PeersInv)
<1>1. Init => SessionInv /\ PeersInv
  BY SessionInit, PeersInit
<1>2. SessionInv /\ PeersInv /\ [Next]_vars => (SessionInv /\ PeersInv)'
  BY SessionStep, PeersStep
<1>3. QED
  BY <1>1, <1>2, PTL DEF Spec

\* Whatever a client sends and however it is cut into reads, the device gets
\* exactly the data in it, in order: the parser of process_telnet_data agrees
\* with the protocol on every sequence of bytes, and no byte is lost between
\* the two buffers (handle_tcp_fd_read, handle_dev_fd_write).
THEOREM DeviceGetsData == Spec => []DeviceGetsClientData
<1>1. PeersInv => DeviceGetsClientData
  BY DEF PeersInv
<1>2. QED
  BY <1>1, PeersCorrect, PTL

\* A telnet client finds among all bytes it gets the data that were sent and no
\* others, however the writes are cut and whatever commands are answered
\* between them, unless a command's write failed although select promised room
\* or a command went between the halves of a doubled IAC (handle_tcp_fd_write).
THEOREM ClientFindsData == Spec => []ClientDecodes
<1>1. PeersInv => ClientDecodes
  BY DEF PeersInv, ClientFollows, ClientDecodes
<1>2. QED
  BY <1>1, PeersCorrect, PTL
=============================================================================
