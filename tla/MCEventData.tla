---------------------------- MODULE MCEventData ----------------------------
(* Small instances of EventData. *)
EXTENDS EventData

\* The scan's marker, and a name that differs from it in the NUL only
EOM == <<69, 79, 77, 0>>
EOMB == <<69, 79, 77, 66>>
MCNames == {EOM, EOMB}

\* Empty, odd, padded and whole banks of 1, 2, 4 and 8 byte elements, and of a
\* type without a size
Contents == {<<1, 0>>, <<1, 3>>, <<4, 6>>, <<6, 4>>, <<10, 16>>, <<12, 5>>}
Banks(n, gaps) ==
  {[name |-> n, type |-> c[1], size |-> c[2], gap |-> g] : c \in Contents, g \in gaps}
BankSeqs(gaps) ==
  {<<a>> : a \in Banks(EOMB, gaps)}
    \cup {<<a, b>> : a \in Banks(EOM, gaps), b \in Banks(EOMB, gaps)}
    \cup {<<a, b>> : a \in Banks(EOM, {FALSE}), b \in Banks(EOM, {FALSE})}
EventOf(i, w, f, s) == [id |-> i, wide |-> w, foreign |-> f, banks |-> s]

BankOf(n, t, s) == [name |-> n, type |-> t, size |-> s, gap |-> FALSE]
MCStreams ==
  {EventOf(1, TRUE, FALSE, <<>>),
   EventOf(1, FALSE, TRUE, <<BankOf(EOMB, 4, 2)>>),
   EventOf(0, TRUE, TRUE, <<BankOf(EOM, 10, 8)>>)}

MCEvents ==
  {EventOf(1, w, f, s) : w \in BOOLEAN, f \in BOOLEAN, s \in BankSeqs({FALSE})}
    \cup {EventOf(1, TRUE, FALSE, s) : s \in BankSeqs(BOOLEAN)}
    \cup {EventOf(1, FALSE, f, <<>>) : f \in BOOLEAN} \cup MCStreams

Memories == {[a \in 0 .. MemSize - 1 |-> 90]}
MCStale == Memories \cup
  {Store(m, Encode(EventOf(1, FALSE, FALSE, <<BankOf(EOM, 6, 4), BankOf(EOMB, 1, 3)>>))) :
     m \in Memories}
=============================================================================
