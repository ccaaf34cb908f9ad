-------------------------- MODULE TimerHeapProofs --------------------------
(***************************************************************************)
(* The linked heap of timers stays a complete heap of exactly the running  *)
(* timers, so that the first of them is on top: select never sleeps past   *)
(* it, and the timers are called in order.  For any number of timers, any  *)
(* times, and any order in which they are started and stopped.             *)
(***************************************************************************)
EXTENDS TimerHeap, FiniteSetTheorems, TLAPS

Links == Timers \cup {Null}

Heaps == [top : Links, last : Links, left : [Timers -> Links],
          right : [Timers -> Links], up : [Timers -> Links]]

\* The heap h holds n timers, the one at place i being f[i]: the children of
\* place i are at 2 * i and 2 * i + 1.
Lays(h, f, n) ==
  /\ h \in Heaps
  /\ n \in Nat /\ f \in [Nat -> Links]
  /\ \A i \in Nat : f[i] \in Timers <=> (1 <= i /\ i <= n)
  /\ \A i, j \in Nat : f[i] \in Timers /\ f[i] = f[j] => i = j
  /\ h.top = f[1] /\ h.last = f[n]
  /\ \A i \in Nat : f[i] \in Timers => h.left[f[i]] = f[2 * i]
  /\ \A i \in Nat : f[i] \in Timers => h.right[f[i]] = f[2 * i + 1]
  /\ \A i \in Nat : f[i] \in Timers /\ f[2 * i] \in Timers => h.up[f[2 * i]] = f[i]
  /\ \A i \in Nat : f[i] \in Timers /\ f[2 * i + 1] \in Timers =>
                      h.up[f[2 * i + 1]] = f[i]
  /\ f[1] \in Timers => h.up[f[1]] = Null
-----------------------------------------------------------------------------
(***************************************************************************)
(* Single links.                                                           *)
(***************************************************************************)
LEMMA NullApart == Null \notin Timers
BY TimerAssumption

\* g is h with t's up link leading to p.
UpSet(g, h, t, p) ==
  /\ g \in Heaps
  /\ g.top = h.top /\ g.last = h.last /\ g.left = h.left /\ g.right = h.right
  /\ \A x \in Timers : g.up[x] = IF x = t THEN p ELSE h.up[x]

\* g is h with s in the place of p's child t.
ChildSet(g, h, p, t, s) ==
  /\ g \in Heaps
  /\ g.last = h.last /\ g.up = h.up
  /\ g.top = IF p = Null THEN s ELSE h.top
  /\ \A x \in Timers :
       /\ g.left[x] = IF x = p /\ h.left[p] = t THEN s ELSE h.left[x]
       /\ g.right[x] = IF x = p /\ h.left[p] # t THEN s ELSE h.right[x]

LEMMA SetUpIs ==
  ASSUME NEW h \in Heaps, NEW t \in Links, NEW p \in Links
  PROVE  UpSet(SetUp(h, t, p), h, t, p)
BY NullApart DEF UpSet, SetUp, Heaps, Links

LEMMA SetChildIs ==
  ASSUME NEW h \in Heaps, NEW p \in Links, NEW t \in Timers, NEW s \in Links
  PROVE  ChildSet(SetChild(h, p, t, s), h, p, t, s)
BY NullApart DEF ChildSet, SetChild, Heaps, Links

\* g is h with p and its child t exchanged, link by link: o is t's sibling, a
\* and b are its children, and q is p's parent.
Exchanged(g, h, p, t, o, a, b, q) ==
  /\ g \in Heaps
  /\ g.top = IF q = Null THEN t ELSE h.top
  /\ g.last = IF h.last = t THEN p ELSE h.last
  /\ \A x \in Timers :
       /\ g.left[x] = IF x = t THEN IF h.left[p] = t THEN p ELSE o
                      ELSE IF x = p THEN a
                      ELSE IF x = q /\ h.left[q] = p THEN t ELSE h.left[x]
       /\ g.right[x] = IF x = t THEN IF h.left[p] = t THEN o ELSE p
                       ELSE IF x = p THEN b
                       ELSE IF x = q /\ h.left[q] # p THEN t ELSE h.right[x]
       /\ g.up[x] = IF x = t THEN q ELSE IF x = p THEN t
                    ELSE IF x = b \/ x = a THEN p
                    ELSE IF x = o THEN t ELSE h.up[x]

LEMMA ExchangeIs ==
  ASSUME NEW h \in Heaps, NEW p \in Timers, NEW t \in Timers, NEW o \in Links,
         NEW a \in Links, NEW b \in Links, NEW q \in Links,
         a = h.left[t], b = h.right[t], q = h.up[p],
         o = IF h.left[p] = t THEN h.right[p] ELSE h.left[p],
         p # t, q # p, q # t, o # p, o # t, a # p, b # p, a # t, b # t
  PROVE  Exchanged(Exchange(h, p, t), h, p, t, o, a, b, q)
<1> PICK g : g = Exchange(h, p, t)
  OBVIOUS
<1>1. PICK h1 : h1 = [h EXCEPT !.left[t] = IF h.left[p] = t THEN p ELSE o,
                        !.right[t] = IF h.left[p] = t THEN o ELSE p,
                        !.up[t] = h.up[p], !.up[p] = t,
                        !.left[p] = h.left[t], !.right[p] = h.right[t],
                        !.last = IF h.last = t THEN p ELSE h.last]
  OBVIOUS
<1>2. PICK h2 : h2 = SetUp(h1, o, t)
  OBVIOUS
<1>3. PICK h3 : h3 = SetUp(h2, a, p)
  OBVIOUS
<1>4. PICK h4 : h4 = SetUp(h3, b, p)
  OBVIOUS
<1>0. p \in Links /\ t \in Links
  BY DEF Links
<1>5. g = SetChild(h4, q, p, t)
  BY <1>1, <1>2, <1>3, <1>4, Zenon DEF Exchange
<1>6. /\ h1 \in Heaps /\ h1.top = h.top
      /\ h1.last = IF h.last = t THEN p ELSE h.last
      /\ \A x \in Timers :
           /\ h1.left[x] = IF x = p THEN a ELSE IF x = t
                           THEN IF h.left[p] = t THEN p ELSE o ELSE h.left[x]
           /\ h1.right[x] = IF x = p THEN b ELSE IF x = t
                            THEN IF h.left[p] = t THEN o ELSE p ELSE h.right[x]
           /\ h1.up[x] = IF x = p THEN t ELSE IF x = t THEN q ELSE h.up[x]
  <2>1. PICK l, r : /\ l = IF h.left[p] = t THEN p ELSE o
                    /\ r = IF h.left[p] = t THEN o ELSE p
    OBVIOUS
  <2>2. l \in Links /\ r \in Links
    BY <1>0, <2>1
  <2>3. PICK e : e = IF h.last = t THEN p ELSE h.last
    OBVIOUS
  <2>4. e \in Links
    BY <1>0, <2>3 DEF Heaps
  <2>5. h1 = [h EXCEPT !.left[t] = l, !.right[t] = r, !.up[t] = q, !.up[p] = t,
                       !.left[p] = a, !.right[p] = b, !.last = e]
    BY <1>1, <2>1, <2>3, Zenon
  <2>6. h1.top = h.top /\ h1.last = e
    BY <2>5 DEF Heaps
  <2>7. /\ h1.left = [h.left EXCEPT ![t] = l, ![p] = a]
        /\ h1.right = [h.right EXCEPT ![t] = r, ![p] = b]
        /\ h1.up = [h.up EXCEPT ![t] = q, ![p] = t]
    BY <2>5 DEF Heaps
  <2>8. h1 \in Heaps
    BY <1>0, <2>2, <2>4, <2>5 DEF Heaps
  <2>9. \A x \in Timers :
          /\ h1.left[x] = IF x = p THEN a ELSE IF x = t THEN l ELSE h.left[x]
          /\ h1.right[x] = IF x = p THEN b ELSE IF x = t THEN r ELSE h.right[x]
          /\ h1.up[x] = IF x = p THEN t ELSE IF x = t THEN q ELSE h.up[x]
    BY <2>7 DEF Heaps
  <2>10. QED
    BY <2>1, <2>3, <2>6, <2>8, <2>9
<1>7. UpSet(h2, h1, o, t)
  BY <1>0, <1>2, <1>6, SetUpIs
<1>8. UpSet(h3, h2, a, p)
  <2>1. h2 \in Heaps
    BY <1>7 DEF UpSet
  <2>2. QED
    BY <1>0, <1>3, <2>1, SetUpIs
<1>9. UpSet(h4, h3, b, p)
  <2>1. h3 \in Heaps
    BY <1>8 DEF UpSet
  <2>2. QED
    BY <1>0, <1>4, <2>1, SetUpIs
<1>10. ChildSet(g, h4, q, p, t)
  <2>1. h4 \in Heaps
    BY <1>9 DEF UpSet
  <2>2. QED
    BY <1>0, <1>5, <2>1, SetChildIs
<1>11. QED
  BY <1>6, <1>7, <1>8, <1>9, <1>10 DEF UpSet, ChildSet, Exchanged
-----------------------------------------------------------------------------
(***************************************************************************)
(* Places.                                                                 *)
(***************************************************************************)
\* Every place but the first is below another.
LEMMA Halves ==
  ASSUME NEW i \in Nat, i >= 2
  PROVE  \E m \in Nat : m >= 1 /\ m < i /\ (i = 2 * m \/ i = 2 * m + 1)
<1>1. PICK m : m = i \div 2
  OBVIOUS
<1>2. m \in Nat /\ m >= 1 /\ m < i /\ (i = 2 * m \/ i = 2 * m + 1)
  BY <1>1
<1>3. QED
  BY <1>2

\* What is known of one place.
LEMMA PlaceFacts ==
  ASSUME NEW h, NEW f, NEW n, Lays(h, f, n), NEW i \in Nat, f[i] \in Timers
  PROVE  /\ 1 <= i /\ i <= n
         /\ h.left[f[i]] = f[2 * i] /\ h.right[f[i]] = f[2 * i + 1]
         /\ \A j \in Nat : f[j] = f[i] => j = i
         /\ i = 1 => h.up[f[i]] = Null
         /\ \A m \in Nat : m >= 1 /\ (i = 2 * m \/ i = 2 * m + 1) =>
              f[m] \in Timers /\ h.up[f[i]] = f[m]
<1>1. 1 <= i /\ i <= n /\ n \in Nat
  BY DEF Lays
<1>2. h.left[f[i]] = f[2 * i] /\ h.right[f[i]] = f[2 * i + 1]
  BY DEF Lays
<1>3. \A j \in Nat : f[j] = f[i] => j = i
  BY DEF Lays
<1>4. i = 1 => h.up[f[i]] = Null
  BY DEF Lays
<1>5. ASSUME NEW m \in Nat, m >= 1, i = 2 * m \/ i = 2 * m + 1
      PROVE  f[m] \in Timers /\ h.up[f[i]] = f[m]
  <2>1. 1 <= m /\ m <= n
    BY <1>1, <1>5
  <2>2. f[m] \in Timers
    BY <2>1 DEF Lays
  <2>3. QED
    BY <1>5, <2>2 DEF Lays
<1>6. QED
  BY <1>1, <1>2, <1>3, <1>4, <1>5

\* The parent of a place.
LEMMA ParentIs ==
  ASSUME NEW h, NEW f, NEW n, Lays(h, f, n), NEW i \in Nat, f[i] \in Timers
  PROVE  \/ i = 1 /\ h.up[f[i]] = Null
         \/ \E m \in Nat : /\ m >= 1 /\ m < i /\ (i = 2 * m \/ i = 2 * m + 1)
                           /\ f[m] \in Timers /\ h.up[f[i]] = f[m]
<1>1. 1 <= i
  BY PlaceFacts
<1>2. CASE i = 1
  BY <1>2, PlaceFacts
<1>3. CASE i >= 2
  <2>1. PICK m \in Nat : m >= 1 /\ m < i /\ (i = 2 * m \/ i = 2 * m + 1)
    BY <1>3, Halves
  <2>2. f[m] \in Timers /\ h.up[f[i]] = f[m]
    BY <2>1, PlaceFacts
  <2>3. QED
    BY <2>1, <2>2
<1>4. QED
  BY <1>1, <1>2, <1>3
-----------------------------------------------------------------------------
(***************************************************************************)
(* The exchange of an element with its parent.                             *)
(***************************************************************************)
Swap(f, i, j) == [f EXCEPT ![i] = f[j], ![j] = f[i]]

LEMMA SwapIs ==
  ASSUME NEW f \in [Nat -> Links], NEW i \in Nat, NEW j \in Nat
  PROVE  /\ Swap(f, i, j) \in [Nat -> Links]
         /\ \A k \in Nat : Swap(f, i, j)[k] =
                             IF k = j THEN f[i] ELSE IF k = i THEN f[j] ELSE f[k]
BY DEF Swap

\* After the exchange the heap holds the same timers, two places exchanged.
LEMMA ExchangeLays ==
  ASSUME NEW h, NEW f, NEW n, Lays(h, f, n), NEW i \in Nat, NEW j \in Nat,
         j = 2 * i \/ j = 2 * i + 1, f[i] \in Timers, f[j] \in Timers
  PROVE  Lays(Exchange(h, f[i], f[j]), Swap(f, i, j), n)
<1>1. /\ h \in Heaps /\ n \in Nat /\ f \in [Nat -> Links]
      /\ \A k \in Nat : f[k] \in Timers <=> (1 <= k /\ k <= n)
      /\ \A k, l \in Nat : f[k] \in Timers /\ f[k] = f[l] => k = l
  BY DEF Lays
<1>2. i >= 1 /\ i <= n /\ j >= 2 /\ j <= n /\ i < j
  BY <1>1
<1>3. PICK p, t : p = f[i] /\ t = f[j]
  OBVIOUS
<1>4. PICK o, a, b, q : /\ o = IF j = 2 * i THEN f[2 * i + 1] ELSE f[2 * i]
                        /\ a = f[2 * j] /\ b = f[2 * j + 1] /\ q = h.up[p]
  OBVIOUS
<1>5. /\ h.left[p] = f[2 * i] /\ h.right[p] = f[2 * i + 1]
      /\ h.left[t] = a /\ h.right[t] = b
  BY <1>3, <1>4, PlaceFacts
<1>6. h.left[p] = t <=> j = 2 * i
  <2>1. h.left[p] = t => j = 2 * i
    <3>1. 2 * i \in Nat
      OBVIOUS
    <3>2. QED
      BY <1>1, <1>3, <1>5, <3>1
  <2>2. QED
    BY <1>3, <1>5, <2>1
<1>7. o = IF h.left[p] = t THEN h.right[p] ELSE h.left[p]
  BY <1>4, <1>5, <1>6
<1>8. PICK m \in Nat : \/ m = 0 /\ i = 1 /\ q = Null
                       \/ m >= 1 /\ m < i /\ (i = 2 * m \/ i = 2 * m + 1)
                          /\ f[m] \in Timers /\ q = f[m]
  <2>1. \/ i = 1 /\ h.up[f[i]] = Null
        \/ \E m \in Nat : /\ m >= 1 /\ m < i /\ (i = 2 * m \/ i = 2 * m + 1)
                          /\ f[m] \in Timers /\ h.up[f[i]] = f[m]
    BY ParentIs
  <2>2. QED
    BY <1>3, <1>4, <2>1
<1>9. /\ p \in Timers /\ t \in Timers
      /\ o \in Links /\ a \in Links /\ b \in Links /\ q \in Links
  BY <1>1, <1>3, <1>4, <1>8 DEF Links
<1>10. /\ p # t /\ q # p /\ q # t /\ o # p /\ o # t
       /\ a # p /\ b # p /\ a # t /\ b # t
  <2>1. p # t
    BY <1>1, <1>2, <1>3
  <2>2. q # p /\ q # t
    BY <1>1, <1>2, <1>3, <1>8, NullApart
  <2>3. o # p /\ o # t
    <3>1. CASE j = 2 * i
      BY <1>1, <1>2, <1>3, <1>4, <3>1
    <3>2. CASE j = 2 * i + 1
      BY <1>1, <1>2, <1>3, <1>4, <3>2
    <3>3. QED
      BY <3>1, <3>2
  <2>4. a # p /\ b # p /\ a # t /\ b # t
    BY <1>1, <1>2, <1>3, <1>4
  <2>5. QED
    BY <2>1, <2>2, <2>3, <2>4
<1>11. PICK g : g = Exchange(h, p, t)
  OBVIOUS
<1>12. Exchanged(g, h, p, t, o, a, b, q)
  BY <1>1, <1>5, <1>4, <1>7, <1>9, <1>10, <1>11, ExchangeIs
<1>13. PICK e : e = Swap(f, i, j)
  OBVIOUS
<1>14. /\ e \in [Nat -> Links] /\ e[i] = t /\ e[j] = p
       /\ \A k \in Nat : k # i /\ k # j => e[k] = f[k]
  BY <1>1, <1>2, <1>3, <1>13, SwapIs
<1>15. \A k \in Nat : e[k] \in Timers <=> (1 <= k /\ k <= n)
  BY <1>1, <1>2, <1>9, <1>14
<1>16. \A k, l \in Nat : e[k] \in Timers /\ e[k] = e[l] => k = l
  BY <1>1, <1>2, <1>3, <1>9, <1>14
<1>17. g.top = e[1]
  <2>1. h.top = f[1]
    BY DEF Lays
  <2>2. g.top = IF q = Null THEN t ELSE h.top
    BY <1>12 DEF Exchanged
  <2>3. CASE i = 1
    BY <1>8, <1>14, <2>2, <2>3
  <2>4. CASE i # 1
    BY <1>2, <1>8, <1>14, <2>1, <2>2, <2>4, NullApart
  <2>5. QED
    BY <2>3, <2>4
<1>18. g.last = e[n]
  <2>1. h.last = f[n]
    BY DEF Lays
  <2>2. g.last = IF h.last = t THEN p ELSE h.last
    BY <1>12 DEF Exchanged
  <2>3. QED
    BY <1>1, <1>2, <1>3, <1>14, <2>1, <2>2
<1>19. ASSUME NEW k \in Nat, e[k] \in Timers
       PROVE  /\ g.left[e[k]] = e[2 * k] /\ g.right[e[k]] = e[2 * k + 1]
  <2>1. CASE k = i
    <3>1. g.left[t] = IF j = 2 * i THEN p ELSE o
      BY <1>6, <1>9, <1>12 DEF Exchanged
    <3>2. g.right[t] = IF j = 2 * i THEN o ELSE p
      BY <1>6, <1>9, <1>12 DEF Exchanged
    <3>3. CASE j = 2 * i
      <4>1. e[2 * i + 1] = f[2 * i + 1]
        BY <1>2, <1>14, <3>3
      <4>2. QED
        BY <1>4, <1>14, <2>1, <3>1, <3>2, <3>3, <4>1
    <3>4. CASE j = 2 * i + 1
      <4>1. e[2 * i] = f[2 * i]
        BY <1>2, <1>14, <3>4
      <4>2. QED
        BY <1>4, <1>14, <2>1, <3>1, <3>2, <3>4, <4>1
    <3>5. QED
      BY <3>3, <3>4
  <2>2. CASE k = j
    <3>1. g.left[p] = a /\ g.right[p] = b
      BY <1>9, <1>10, <1>12 DEF Exchanged
    <3>2. e[2 * j] = f[2 * j] /\ e[2 * j + 1] = f[2 * j + 1]
      BY <1>2, <1>14
    <3>3. QED
      BY <1>4, <1>14, <2>2, <3>1, <3>2
  <2>3. CASE k # i /\ k # j
    <3>1. PICK x : x = f[k]
      OBVIOUS
    <3>2. x \in Timers /\ e[k] = x /\ x # p /\ x # t
      BY <1>1, <1>3, <1>9, <1>14, <1>19, <2>3, <3>1
    <3>3. h.left[x] = f[2 * k] /\ h.right[x] = f[2 * k + 1]
      BY <3>1, <3>2, PlaceFacts
    <3>4. /\ g.left[x] = IF x = q /\ h.left[q] = p THEN t ELSE f[2 * k]
          /\ g.right[x] = IF x = q /\ h.left[q] # p THEN t ELSE f[2 * k + 1]
      BY <1>12, <3>2, <3>3 DEF Exchanged
    <3>5. PICK l, r \in Nat : l = 2 * k /\ r = 2 * k + 1
      OBVIOUS
    <3>6. l # j /\ r # j
      BY <2>3, <3>5
    <3>7. x = q => k = m
      BY <1>1, <1>8, <3>1, <3>2, NullApart
    <3>8. CASE l = i
      <4>1. k = m /\ x = q
        BY <1>2, <1>8, <3>1, <3>5, <3>8
      <4>2. h.left[q] = p /\ e[l] = t /\ e[r] = f[r]
        BY <1>3, <1>14, <3>3, <3>5, <3>6, <3>8, <4>1
      <4>3. QED
        BY <3>2, <3>4, <3>5, <4>1, <4>2
    <3>9. CASE r = i
      <4>0. k >= 1
        BY <1>1, <3>1, <3>2
      <4>1. k = m /\ x = q
        BY <1>2, <1>8, <3>1, <3>5, <3>9, <4>0
      <4>2. h.left[q] # p /\ e[r] = t /\ e[l] = f[l]
        BY <1>1, <1>3, <1>9, <1>14, <3>3, <3>5, <3>6, <3>9, <4>1
      <4>3. QED
        BY <3>2, <3>4, <3>5, <4>1, <4>2
    <3>10. CASE l # i /\ r # i
      <4>1. e[l] = f[l] /\ e[r] = f[r]
        BY <1>14, <3>6, <3>10
      <4>2. x # q
        BY <1>8, <3>2, <3>5, <3>7, <3>10, NullApart
      <4>3. QED
        BY <3>2, <3>4, <3>5, <4>1, <4>2
    <3>11. QED
      BY <3>8, <3>9, <3>10
  <2>4. QED
    BY <2>1, <2>2, <2>3
<1>20. ASSUME NEW k \in Nat, NEW c \in Nat, c = 2 * k \/ c = 2 * k + 1,
              e[k] \in Timers, e[c] \in Timers
       PROVE  g.up[e[c]] = e[k]
  <2>1. k >= 1
    BY <1>15, <1>20
  <2>2. CASE c = i
    <3>1. k = m
      BY <1>2, <1>8, <1>20, <2>1, <2>2
    <3>2. e[k] = q
      BY <1>2, <1>8, <1>14, <2>1, <3>1
    <3>3. g.up[t] = q
      BY <1>9, <1>12 DEF Exchanged
    <3>4. QED
      BY <1>14, <2>2, <3>2, <3>3
  <2>3. CASE c = j
    <3>1. k = i
      BY <1>20, <2>3
    <3>2. g.up[p] = t
      BY <1>9, <1>10, <1>12 DEF Exchanged
    <3>3. QED
      BY <1>14, <2>3, <3>1, <3>2
  <2>4. CASE c # i /\ c # j
    <3>1. PICK y : y = f[c]
      OBVIOUS
    <3>2. y \in Timers /\ e[c] = y /\ y # p /\ y # t
      BY <1>1, <1>3, <1>9, <1>14, <1>20, <2>4, <3>1
    <3>3. g.up[y] = IF y = b \/ y = a THEN p ELSE IF y = o THEN t ELSE h.up[y]
      BY <1>12, <3>2 DEF Exchanged
    <3>4. \A l \in Nat : f[l] = y => l = c
      BY <1>1, <3>1, <3>2
    <3>5. PICK u, v, w, z \in Nat : u = 2 * j /\ v = 2 * j + 1 /\ w = 2 * i /\ z = 2 * i + 1
      OBVIOUS
    <3>6. /\ y = a => u = c
          /\ y = b => v = c
          /\ y = o => w = c \/ z = c
      BY <1>4, <3>4, <3>5
    <3>7. CASE k = i
      <4>1. y = o
        BY <1>4, <1>20, <2>4, <3>1, <3>7
      <4>2. y # a /\ y # b
        BY <1>2, <1>20, <3>5, <3>6, <3>7
      <4>3. QED
        BY <1>14, <3>2, <3>3, <3>7, <4>1, <4>2
    <3>8. CASE k = j
      <4>1. y = a \/ y = b
        BY <1>4, <1>20, <3>1, <3>8
      <4>2. QED
        BY <1>14, <3>2, <3>3, <3>8, <4>1
    <3>9. CASE k # i /\ k # j
      <4>1. y # a /\ y # b /\ y # o
        BY <1>20, <3>5, <3>6, <3>9
      <4>2. e[k] = f[k]
        BY <1>14, <3>9
      <4>3. h.up[y] = f[k]
        BY <1>20, <2>1, <3>1, <3>2, PlaceFacts
      <4>4. QED
        BY <3>2, <3>3, <4>1, <4>2, <4>3
    <3>10. QED
      BY <3>7, <3>8, <3>9
  <2>5. QED
    BY <2>2, <2>3, <2>4
<1>21. e[1] \in Timers => g.up[e[1]] = Null
  <2>1. CASE i = 1
    <3>1. g.up[t] = q
      BY <1>9, <1>12 DEF Exchanged
    <3>2. QED
      BY <1>8, <1>14, <2>1, <3>1
  <2>2. CASE i # 1
    <3>1. PICK y : y = f[1]
      OBVIOUS
    <3>2. y \in Timers /\ e[1] = y /\ y # p /\ y # t
      BY <1>1, <1>2, <1>3, <1>14, <2>2, <3>1
    <3>3. y # a /\ y # b /\ y # o
      BY <1>1, <1>2, <1>4, <3>1, <3>2
    <3>4. g.up[y] = h.up[y]
      BY <1>12, <3>2, <3>3 DEF Exchanged
    <3>5. h.up[y] = Null
      BY <3>1, <3>2, PlaceFacts
    <3>6. QED
      BY <3>2, <3>4, <3>5
  <2>3. QED
    BY <2>1, <2>2
<1>22. Lays(g, e, n)
  <2>1. g \in Heaps
    BY <1>12 DEF Exchanged
  <2>2. \A k \in Nat : e[k] \in Timers /\ e[2 * k] \in Timers => g.up[e[2 * k]] = e[k]
    BY <1>20
  <2>3. \A k \in Nat : e[k] \in Timers /\ e[2 * k + 1] \in Timers =>
                        g.up[e[2 * k + 1]] = e[k]
    BY <1>20
  <2>4. QED
    BY <1>1, <1>14, <1>15, <1>16, <1>17, <1>18, <1>19, <1>21, <2>1, <2>2, <2>3 DEF Lays
<1>23. QED
  BY <1>3, <1>11, <1>13, <1>22
-----------------------------------------------------------------------------
(***************************************************************************)
(* The loops.  Each is a function from the number of steps to what they    *)
(* lead to, and such functions exist for any number of steps.              *)
(***************************************************************************)
LEMMA DeepestType == Deepest \in Nat
BY TimerAssumption, FS_CardinalityType DEF Deepest

\* Induction over the natural numbers, with a set for the predicate.
LEMMA Induction ==
  ASSUME NEW S, 0 \in S, \A k \in Nat : k \in S => k + 1 \in S
  PROVE  \A k \in Nat : k \in S
<1>1. SUFFICES ASSUME NEW k \in Nat, k \notin S PROVE FALSE
  OBVIOUS
<1>2. PICK R, T : R = OpToRel(<, Nat) /\ T = {i \in Nat : i \notin S}
  OBVIOUS
<1>3. IsWellFoundedOn(R, Nat)
  BY <1>2, NatLessThanWellFounded, Zenon
<1>4. T \subseteq Nat /\ T # {}
  BY <1>1, <1>2
<1>5. PICK x \in T : \A y \in T : ~ (<<y, x>> \in R)
  BY <1>3, <1>4, WFMin, Zenon
<1>6. x \in Nat /\ x \notin S /\ x # 0
  BY <1>2, <1>5
<1>7. PICK y : y = x - 1
  OBVIOUS
<1>8. y \in Nat /\ y + 1 = x /\ y < x
  BY <1>6, <1>7
<1>9. y \in T
  BY <1>2, <1>6, <1>8
<1>10. <<y, x>> \in R
  BY <1>2, <1>6, <1>8 DEF OpToRel
<1>11. QED
  BY <1>5, <1>9, <1>10

\* f are the nodes on the way of n steps from t along link.
Walks(f, link, t, n) ==
  f = [i \in 0 .. n |-> IF i = 0 THEN t ELSE link[f[i - 1]]]

LEMMA WalksAt ==
  ASSUME NEW f, NEW link, NEW t, NEW n, Walks(f, link, t, n), NEW i \in 0 .. n
  PROVE  f[i] = IF i = 0 THEN t ELSE link[f[i - 1]]
<1>1. PICK e : e = [j \in 0 .. n |-> IF j = 0 THEN t ELSE link[f[j - 1]]]
  OBVIOUS
<1>2. f = e
  BY <1>1 DEF Walks
<1>3. e[i] = IF i = 0 THEN t ELSE link[f[i - 1]]
  BY <1>1
<1>4. QED
  BY <1>2, <1>3

LEMMA WalksExist ==
  ASSUME NEW link, NEW t
  PROVE  \A n \in Nat : \E f : Walks(f, link, t, n)
<1>1. PICK S : S = {n \in Nat : \E f : Walks(f, link, t, n)}
  OBVIOUS
<1>2. 0 \in S
  <2>1. PICK f : f = [i \in 0 .. 0 |-> t]
    OBVIOUS
  <2>2. Walks(f, link, t, 0)
    BY <2>1 DEF Walks
  <2>3. QED
    BY <1>1, <2>2
<1>3. ASSUME NEW n \in Nat, n \in S PROVE n + 1 \in S
  <2>1. PICK f : Walks(f, link, t, n)
    BY <1>1, <1>3
  <2>2. PICK x : x = link[f[n]]
    OBVIOUS
  <2>3. PICK g : g = [i \in 0 .. n + 1 |-> IF i = n + 1 THEN x ELSE f[i]]
    OBVIOUS
  <2>4. ASSUME NEW i \in 0 .. n + 1
        PROVE  g[i] = IF i = 0 THEN t ELSE link[g[i - 1]]
    <3>1. CASE i = n + 1
      <4>1. i # 0 /\ i - 1 = n /\ g[n] = f[n] /\ g[i] = x
        BY <1>3, <2>3, <3>1
      <4>2. QED
        BY <2>2, <3>1, <4>1
    <3>2. CASE i # n + 1
      <4>1. i \in 0 .. n /\ g[i] = f[i] /\ (i # 0 => g[i - 1] = f[i - 1])
        BY <1>3, <2>3, <2>4, <3>2
      <4>2. f[i] = IF i = 0 THEN t ELSE link[f[i - 1]]
        BY <2>1, <4>1, WalksAt
      <4>3. QED
        BY <4>1, <4>2
    <3>3. QED
      BY <3>1, <3>2
  <2>5. Walks(g, link, t, n + 1)
    BY <2>3, <2>4 DEF Walks
  <2>6. QED
    BY <1>1, <1>3, <2>5
<1>4. \A n \in Nat : n \in S
  BY <1>2, <1>3, Induction
<1>5. QED
  BY <1>1, <1>4

LEMMA DownIs ==
  ASSUME NEW link, NEW t, NEW n \in Nat
  PROVE  \E f : Walks(f, link, t, n) /\ Down(link, t, n) = f[n]
<1>1. \E f : Walks(f, link, t, n)
  BY WalksExist
<1>2. PICK f : f = CHOOSE g : Walks(g, link, t, n)
  OBVIOUS
<1>3. Walks(f, link, t, n)
  BY <1>1, <1>2
<1>4. Down(link, t, n) = f[n]
  BY <1>2 DEF Down, Walks
<1>5. QED
  BY <1>3, <1>4

\* f are the nodes on the way up from t, with the steps to them.
Climbs(f, h, link, t, n) ==
  f = [i \in 0 .. n |-> IF i = 0 THEN [node |-> t, steps |-> 0]
                        ELSE ClimbOne(h, link, f[i - 1])]

LEMMA ClimbsAt ==
  ASSUME NEW f, NEW h, NEW link, NEW t, NEW n, Climbs(f, h, link, t, n), NEW i \in 0 .. n
  PROVE  f[i] = IF i = 0 THEN [node |-> t, steps |-> 0] ELSE ClimbOne(h, link, f[i - 1])
<1>1. PICK e : e = [j \in 0 .. n |-> IF j = 0 THEN [node |-> t, steps |-> 0]
                                     ELSE ClimbOne(h, link, f[j - 1])]
  OBVIOUS
<1>2. f = e
  BY <1>1 DEF Climbs
<1>3. e[i] = IF i = 0 THEN [node |-> t, steps |-> 0] ELSE ClimbOne(h, link, f[i - 1])
  BY <1>1
<1>4. QED
  BY <1>2, <1>3

LEMMA ClimbsExist ==
  ASSUME NEW h, NEW link, NEW t
  PROVE  \A n \in Nat : \E f : Climbs(f, h, link, t, n)
<1>1. PICK S : S = {n \in Nat : \E f : Climbs(f, h, link, t, n)}
  OBVIOUS
<1>2. 0 \in S
  <2>1. PICK f : f = [i \in 0 .. 0 |-> [node |-> t, steps |-> 0]]
    OBVIOUS
  <2>2. Climbs(f, h, link, t, 0)
    BY <2>1 DEF Climbs
  <2>3. QED
    BY <1>1, <2>2
<1>3. ASSUME NEW n \in Nat, n \in S PROVE n + 1 \in S
  <2>1. PICK f : Climbs(f, h, link, t, n)
    BY <1>1, <1>3
  <2>2. PICK x : x = ClimbOne(h, link, f[n])
    OBVIOUS
  <2>3. PICK g : g = [i \in 0 .. n + 1 |-> IF i = n + 1 THEN x ELSE f[i]]
    OBVIOUS
  <2>4. ASSUME NEW i \in 0 .. n + 1
        PROVE  g[i] = IF i = 0 THEN [node |-> t, steps |-> 0]
                      ELSE ClimbOne(h, link, g[i - 1])
    <3>1. CASE i = n + 1
      <4>1. i # 0 /\ i - 1 = n /\ g[n] = f[n] /\ g[i] = x
        BY <1>3, <2>3, <3>1
      <4>2. QED
        BY <2>2, <3>1, <4>1
    <3>2. CASE i # n + 1
      <4>1. i \in 0 .. n /\ g[i] = f[i] /\ (i # 0 => g[i - 1] = f[i - 1])
        BY <1>3, <2>3, <2>4, <3>2
      <4>2. f[i] = IF i = 0 THEN [node |-> t, steps |-> 0] ELSE ClimbOne(h, link, f[i - 1])
        BY <2>1, <4>1 DEF Climbs
      <4>3. QED
        BY <4>1, <4>2
    <3>3. QED
      BY <3>1, <3>2
  <2>5. Climbs(g, h, link, t, n + 1)
    BY <2>3, <2>4 DEF Climbs
  <2>6. QED
    BY <1>1, <1>3, <2>5
<1>4. \A n \in Nat : n \in S
  BY <1>2, <1>3, Induction
<1>5. QED
  BY <1>1, <1>4

LEMMA UpIs ==
  ASSUME NEW h, NEW link, NEW t
  PROVE  \E f : Climbs(f, h, link, t, Deepest) /\ Up(h, link, t) = f[Deepest]
<1>1. \E f : Climbs(f, h, link, t, Deepest)
  BY ClimbsExist, DeepestType
<1>2. PICK f : f = CHOOSE g : Climbs(g, h, link, t, Deepest)
  OBVIOUS
<1>3. Climbs(f, h, link, t, Deepest)
  BY <1>1, <1>2
<1>4. Up(h, link, t) = f[Deepest]
  BY <1>2 DEF Up, Climbs
<1>5. QED
  BY <1>3, <1>4

\* f are the heaps while elem moves up.
Raises(f, h, elem, at, n) ==
  f = [i \in 0 .. n |-> IF i = 0 THEN h ELSE RaiseOne(f[i - 1], elem, at)]

LEMMA RaisesAt ==
  ASSUME NEW f, NEW h, NEW elem, NEW at, NEW n, Raises(f, h, elem, at, n), NEW i \in 0 .. n
  PROVE  f[i] = IF i = 0 THEN h ELSE RaiseOne(f[i - 1], elem, at)
<1>1. PICK e : e = [j \in 0 .. n |-> IF j = 0 THEN h ELSE RaiseOne(f[j - 1], elem, at)]
  OBVIOUS
<1>2. f = e
  BY <1>1 DEF Raises
<1>3. e[i] = IF i = 0 THEN h ELSE RaiseOne(f[i - 1], elem, at)
  BY <1>1
<1>4. QED
  BY <1>2, <1>3

LEMMA RaisesExist ==
  ASSUME NEW h, NEW elem, NEW at
  PROVE  \A n \in Nat : \E f : Raises(f, h, elem, at, n)
<1>1. PICK S : S = {n \in Nat : \E f : Raises(f, h, elem, at, n)}
  OBVIOUS
<1>2. 0 \in S
  <2>1. PICK f : f = [i \in 0 .. 0 |-> h]
    OBVIOUS
  <2>2. Raises(f, h, elem, at, 0)
    BY <2>1 DEF Raises
  <2>3. QED
    BY <1>1, <2>2
<1>3. ASSUME NEW n \in Nat, n \in S PROVE n + 1 \in S
  <2>1. PICK f : Raises(f, h, elem, at, n)
    BY <1>1, <1>3
  <2>2. PICK x : x = RaiseOne(f[n], elem, at)
    OBVIOUS
  <2>3. PICK g : g = [i \in 0 .. n + 1 |-> IF i = n + 1 THEN x ELSE f[i]]
    OBVIOUS
  <2>4. ASSUME NEW i \in 0 .. n + 1
        PROVE  g[i] = IF i = 0 THEN h ELSE RaiseOne(g[i - 1], elem, at)
    <3>1. CASE i = n + 1
      <4>1. i # 0 /\ i - 1 = n /\ g[n] = f[n] /\ g[i] = x
        BY <1>3, <2>3, <3>1
      <4>2. QED
        BY <2>2, <3>1, <4>1
    <3>2. CASE i # n + 1
      <4>1. i \in 0 .. n /\ g[i] = f[i] /\ (i # 0 => g[i - 1] = f[i - 1])
        BY <1>3, <2>3, <2>4, <3>2
      <4>2. f[i] = IF i = 0 THEN h ELSE RaiseOne(f[i - 1], elem, at)
        BY <2>1, <4>1, RaisesAt
      <4>3. QED
        BY <4>1, <4>2
    <3>3. QED
      BY <3>1, <3>2
  <2>5. Raises(g, h, elem, at, n + 1)
    BY <2>3, <2>4 DEF Raises
  <2>6. QED
    BY <1>1, <1>3, <2>5
<1>4. \A n \in Nat : n \in S
  BY <1>2, <1>3, Induction
<1>5. QED
  BY <1>1, <1>4

LEMMA SendUpIs ==
  ASSUME NEW h, NEW elem, NEW at
  PROVE  \E f : Raises(f, h, elem, at, Deepest) /\ SendUp(h, elem, at) = f[Deepest]
<1>1. \E f : Raises(f, h, elem, at, Deepest)
  BY RaisesExist, DeepestType
<1>2. PICK f : f = CHOOSE g : Raises(g, h, elem, at, Deepest)
  OBVIOUS
<1>3. Raises(f, h, elem, at, Deepest)
  BY <1>1, <1>2
<1>4. SendUp(h, elem, at) = f[Deepest]
  BY <1>2 DEF SendUp, Raises
<1>5. QED
  BY <1>3, <1>4

\* f are the heaps while elem moves down.
Lowers(f, h, elem, at, n) ==
  f = [i \in 0 .. n |-> IF i = 0 THEN h ELSE LowerOne(f[i - 1], elem, at)]

LEMMA LowersAt ==
  ASSUME NEW f, NEW h, NEW elem, NEW at, NEW n, Lowers(f, h, elem, at, n), NEW i \in 0 .. n
  PROVE  f[i] = IF i = 0 THEN h ELSE LowerOne(f[i - 1], elem, at)
<1>1. PICK e : e = [j \in 0 .. n |-> IF j = 0 THEN h ELSE LowerOne(f[j - 1], elem, at)]
  OBVIOUS
<1>2. f = e
  BY <1>1 DEF Lowers
<1>3. e[i] = IF i = 0 THEN h ELSE LowerOne(f[i - 1], elem, at)
  BY <1>1
<1>4. QED
  BY <1>2, <1>3

LEMMA LowersExist ==
  ASSUME NEW h, NEW elem, NEW at
  PROVE  \A n \in Nat : \E f : Lowers(f, h, elem, at, n)
<1>1. PICK S : S = {n \in Nat : \E f : Lowers(f, h, elem, at, n)}
  OBVIOUS
<1>2. 0 \in S
  <2>1. PICK f : f = [i \in 0 .. 0 |-> h]
    OBVIOUS
  <2>2. Lowers(f, h, elem, at, 0)
    BY <2>1 DEF Lowers
  <2>3. QED
    BY <1>1, <2>2
<1>3. ASSUME NEW n \in Nat, n \in S PROVE n + 1 \in S
  <2>1. PICK f : Lowers(f, h, elem, at, n)
    BY <1>1, <1>3
  <2>2. PICK x : x = LowerOne(f[n], elem, at)
    OBVIOUS
  <2>3. PICK g : g = [i \in 0 .. n + 1 |-> IF i = n + 1 THEN x ELSE f[i]]
    OBVIOUS
  <2>4. ASSUME NEW i \in 0 .. n + 1
        PROVE  g[i] = IF i = 0 THEN h ELSE LowerOne(g[i - 1], elem, at)
    <3>1. CASE i = n + 1
      <4>1. i # 0 /\ i - 1 = n /\ g[n] = f[n] /\ g[i] = x
        BY <1>3, <2>3, <3>1
      <4>2. QED
        BY <2>2, <3>1, <4>1
    <3>2. CASE i # n + 1
      <4>1. i \in 0 .. n /\ g[i] = f[i] /\ (i # 0 => g[i - 1] = f[i - 1])
        BY <1>3, <2>3, <2>4, <3>2
      <4>2. f[i] = IF i = 0 THEN h ELSE LowerOne(f[i - 1], elem, at)
        BY <2>1, <4>1, LowersAt
      <4>3. QED
        BY <4>1, <4>2
    <3>3. QED
      BY <3>1, <3>2
  <2>5. Lowers(g, h, elem, at, n + 1)
    BY <2>3, <2>4 DEF Lowers
  <2>6. QED
    BY <1>1, <1>3, <2>5
<1>4. \A n \in Nat : n \in S
  BY <1>2, <1>3, Induction
<1>5. QED
  BY <1>1, <1>4

LEMMA SendDownIs ==
  ASSUME NEW h, NEW elem, NEW at
  PROVE  \E f : Lowers(f, h, elem, at, Deepest) /\ SendDown(h, elem, at) = f[Deepest]
<1>1. \E f : Lowers(f, h, elem, at, Deepest)
  BY LowersExist, DeepestType
<1>2. PICK f : f = CHOOSE g : Lowers(g, h, elem, at, Deepest)
  OBVIOUS
<1>3. Lowers(f, h, elem, at, Deepest)
  BY <1>1, <1>2
<1>4. SendDown(h, elem, at) = f[Deepest]
  BY <1>2 DEF SendDown, Lowers
<1>5. QED
  BY <1>3, <1>4
LEMMA DownNone ==
  ASSUME NEW link, NEW t
  PROVE  Down(link, t, 0) = t
<1>1. PICK f : Walks(f, link, t, 0) /\ Down(link, t, 0) = f[0]
  BY DownIs
<1>2. f[0] = t
  BY <1>1, WalksAt
<1>3. QED
  BY <1>1, <1>2

\* The first step of a walk.
LEMMA DownFirst ==
  ASSUME NEW link, NEW t, NEW n \in Nat
  PROVE  Down(link, t, n + 1) = Down(link, link[t], n)
<1>1. PICK d : Walks(d, link, t, n + 1) /\ Down(link, t, n + 1) = d[n + 1]
  BY DownIs
<1>2. PICK e : Walks(e, link, link[t], n) /\ Down(link, link[t], n) = e[n]
  BY DownIs
<1>3. PICK S : S = {k \in Nat : k <= n => e[k] = d[k + 1]}
  OBVIOUS
<1>4. 0 \in S
  <2>1. e[0] = link[t]
    BY <1>2, WalksAt
  <2>2. d[0] = t
    BY <1>1, WalksAt
  <2>3. 1 \in 0 .. n + 1
    OBVIOUS
  <2>4. d[1] = link[d[1 - 1]]
    BY <1>1, <2>3, WalksAt
  <2>5. QED
    BY <1>3, <2>1, <2>2, <2>4
<1>5. ASSUME NEW k \in Nat, k \in S PROVE k + 1 \in S
  <2>1. CASE k + 1 <= n
    <3>1. e[k] = d[k + 1]
      BY <1>3, <1>5, <2>1
    <3>2. e[k + 1] = link[e[(k + 1) - 1]]
      BY <1>2, <2>1, WalksAt
    <3>3. k + 2 \in 0 .. n + 1 /\ k + 2 # 0
      BY <2>1
    <3>4. d[k + 2] = link[d[(k + 2) - 1]]
      BY <1>1, <3>3, WalksAt
    <3>5. QED
      BY <1>3, <3>1, <3>2, <3>4
  <2>2. CASE ~ (k + 1 <= n)
    BY <1>3, <2>2
  <2>3. QED
    BY <2>1, <2>2
<1>6. n \in S
  BY <1>4, <1>5, Induction
<1>7. QED
  BY <1>1, <1>2, <1>3, <1>6

\* The loop up starts at t and climbs one step after the other.
LEMMA UpWay ==
  ASSUME NEW h, NEW link, NEW t
  PROVE  \E f : /\ f[0] = [node |-> t, steps |-> 0]
                /\ \A k \in Nat : k + 1 <= Deepest => f[k + 1] = ClimbOne(h, link, f[k])
                /\ Up(h, link, t) = f[Deepest]
<1>1. PICK f : Climbs(f, h, link, t, Deepest) /\ Up(h, link, t) = f[Deepest]
  BY UpIs
<1>2. f[0] = [node |-> t, steps |-> 0]
  BY <1>1, DeepestType DEF Climbs
<1>3. ASSUME NEW k \in Nat, k + 1 <= Deepest
      PROVE  f[k + 1] = ClimbOne(h, link, f[k])
  <2>1. k + 1 \in 0 .. Deepest /\ k + 1 # 0 /\ (k + 1) - 1 = k
    BY <1>3, DeepestType
  <2>2. f[k + 1] = ClimbOne(h, link, f[(k + 1) - 1])
    BY <1>1, <2>1 DEF Climbs
  <2>3. QED
    BY <2>1, <2>2
<1>4. QED
  BY <1>1, <1>2, <1>3
-----------------------------------------------------------------------------
(***************************************************************************)
(* The end of the heap.                                                    *)
(***************************************************************************)
Held(f, n) == {f[i] : i \in 1 .. n}

LEMMA HeldCount ==
  ASSUME NEW h, NEW f, NEW n, Lays(h, f, n)
  PROVE  /\ Held(f, n) \subseteq Timers /\ IsFiniteSet(Held(f, n))
         /\ Cardinality(Held(f, n)) = n
         /\ n <= Deepest
<1>1. /\ n \in Nat /\ f \in [Nat -> Links]
      /\ \A i \in 1 .. n : f[i] \in Timers
      /\ \A i, j \in 1 .. n : f[i] = f[j] => i = j
  BY DEF Lays
<1>2. PICK H : H = Held(f, n)
  OBVIOUS
<1>3. H \subseteq Timers /\ IsFiniteSet(H)
  <2>1. H \subseteq Timers
    BY <1>1, <1>2 DEF Held
  <2>2. QED
    BY <2>1, TimerAssumption, FS_Subset
<1>4. ExistsBijection(1 .. n, H)
  <2>1. PICK e : e = [i \in 1 .. n |-> f[i]]
    OBVIOUS
  <2>2. e \in Bijection(1 .. n, H)
    BY <1>1, <1>2, <2>1 DEF Held, Bijection, Injection, Surjection, IsInjective
  <2>3. QED
    BY <2>2 DEF ExistsBijection
<1>5. Cardinality(H) = n
  BY <1>1, <1>4, FS_CountingElements
<1>6. n <= Deepest
  BY <1>3, <1>5, TimerAssumption, FS_Subset DEF Deepest
<1>7. QED
  BY <1>2, <1>3, <1>5, <1>6

LEMMA LeftIs ==
  ASSUME NEW h, NEW f, NEW n, Lays(h, f, n), NEW i \in Nat, f[i] \in Timers
  PROVE  IsLeft(h, f[i]) <=> \E m \in Nat : m >= 1 /\ i = 2 * m
<1>1. CASE i = 1
  <2>1. h.up[f[i]] = Null
    BY <1>1, PlaceFacts
  <2>2. QED
    BY <1>1, <2>1 DEF IsLeft
<1>2. ASSUME NEW m \in Nat, m >= 1, i = 2 * m \/ i = 2 * m + 1
      PROVE  IsLeft(h, f[i]) <=> i = 2 * m
  <2>1. f[m] \in Timers /\ h.up[f[i]] = f[m]
    BY <1>2, PlaceFacts
  <2>2. h.left[f[m]] = f[2 * m]
    BY <2>1, PlaceFacts
  <2>3. f[2 * m] = f[i] => 2 * m = i
    <3>1. 2 * m \in Nat /\ \A j \in Nat : f[j] = f[i] => j = i
      BY PlaceFacts
    <3>2. QED
      BY <3>1
  <2>4. QED
    BY <2>1, <2>2, <2>3, NullApart DEF IsLeft
<1>3. CASE i # 1
  <2>0. i >= 2
    BY <1>3, PlaceFacts
  <2>1. PICK m \in Nat : m >= 1 /\ (i = 2 * m \/ i = 2 * m + 1)
    BY <2>0, Halves
  <2>2. IsLeft(h, f[i]) <=> i = 2 * m
    BY <1>2, <2>1
  <2>3. QED
    BY <2>1, <2>2
<1>4. QED
  BY <1>1, <1>3

LEMMA RightIs ==
  ASSUME NEW h, NEW f, NEW n, Lays(h, f, n), NEW i \in Nat, f[i] \in Timers
  PROVE  IsRight(h, f[i]) <=> \E m \in Nat : m >= 1 /\ i = 2 * m + 1
<1>1. CASE i = 1
  <2>1. h.up[f[i]] = Null
    BY <1>1, PlaceFacts
  <2>2. QED
    BY <1>1, <2>1 DEF IsRight
<1>2. ASSUME NEW m \in Nat, m >= 1, i = 2 * m \/ i = 2 * m + 1
      PROVE  IsRight(h, f[i]) <=> i = 2 * m + 1
  <2>1. f[m] \in Timers /\ h.up[f[i]] = f[m]
    BY <1>2, PlaceFacts
  <2>2. h.right[f[m]] = f[2 * m + 1]
    BY <2>1, PlaceFacts
  <2>3. f[2 * m + 1] = f[i] => 2 * m + 1 = i
    BY PlaceFacts
  <2>4. QED
    BY <2>1, <2>2, <2>3, NullApart DEF IsRight
<1>3. CASE i # 1
  <2>0. i >= 2
    BY <1>3, PlaceFacts
  <2>1. PICK m \in Nat : m >= 1 /\ (i = 2 * m \/ i = 2 * m + 1)
    BY <2>0, Halves
  <2>2. IsRight(h, f[i]) <=> i = 2 * m + 1
    BY <1>2, <2>1
  <2>3. QED
    BY <2>1, <2>2
<1>4. QED
  BY <1>1, <1>3

\* find_next_pos goes up while it is on the right, and down the left again:
\* to the parent of the place behind the last.
LEMMA NextPosOdd ==
  ASSUME NEW h, NEW f, NEW n, Lays(h, f, n), NEW c \in Nat, n = 2 * c + 1
  PROVE  FindNextPos(h, f[n]) = [parent |-> f[c + 1], left |-> TRUE]
<1>1. /\ n \in Nat /\ n >= 1 /\ f[n] \in Timers /\ n <= Deepest
      /\ \A i \in Nat : f[i] \in Timers <=> (1 <= i /\ i <= n)
  <2>1. n \in Nat /\ \A i \in Nat : f[i] \in Timers <=> (1 <= i /\ i <= n)
    BY DEF Lays
  <2>2. QED
    BY <2>1, HeldCount
<1>2. PICK go : /\ go[0] = [node |-> f[n], steps |-> 0]
                /\ \A k \in Nat : k + 1 <= Deepest =>
                     go[k + 1] = ClimbOne(h, h.right, go[k])
                /\ Up(h, h.right, f[n]) = go[Deepest]
  BY UpWay
<1> DEFINE At(k, j, s) ==
      /\ go[k] = [node |-> f[j], steps |-> s]
      /\ 1 <= j /\ j <= n
      /\ (s = k /\ j + k <= n) \/ ~ IsRight(h, f[j])
      /\ s = 0 => j = n
      /\ s >= 1 => Down(h.left, f[j + 1], s - 1) = f[c + 1]
<1>3. PICK S : S = {k \in Nat : k <= Deepest => \E j, s \in Nat : At(k, j, s)}
  OBVIOUS
<1>4. 0 \in S
  <2>1. At(0, n, 0)
    BY <1>1, <1>2
  <2>2. QED
    BY <1>1, <1>3, <2>1
<1>5. ASSUME NEW k \in Nat, k \in S PROVE k + 1 \in S
  <2>1. CASE k + 1 <= Deepest
    <3>1. PICK j, s \in Nat : At(k, j, s)
      BY <1>3, <1>5, <2>1, DeepestType
    <3>2. f[j] \in Timers
      BY <1>1, <3>1
    <3>3. go[k + 1] = ClimbOne(h, h.right, go[k])
      BY <1>2, <2>1
    <3>4. CASE IsRight(h, f[j])
      <4>1. PICK m \in Nat : m >= 1 /\ j = 2 * m + 1
        BY <3>2, <3>4, RightIs
      <4>2. f[m] \in Timers /\ h.up[f[j]] = f[m]
        BY <3>2, <4>1, PlaceFacts
      <4>3. go[k + 1] = [node |-> f[m], steps |-> s + 1]
        <5>1. PICK u : u = go[k]
          OBVIOUS
        <5>2. u.node = f[j] /\ u.steps = s
          BY <3>1, <5>1
        <5>3. h.up[u.node] = f[m] /\ f[m] # Null /\ h.right[f[m]] = u.node
          BY <3>4, <4>2, <5>2, NullApart DEF IsRight
        <5>4. QED
          BY <3>3, <5>1, <5>2, <5>3 DEF ClimbOne
      <4>4. s + 1 = k + 1 /\ m + (k + 1) <= n /\ 1 <= m /\ m <= n
        BY <1>1, <3>1, <3>4, <4>1
      <4>5. Down(h.left, f[m + 1], s) = f[c + 1]
        <5>1. CASE s = 0
          <6>1. m = c
            BY <1>1, <3>1, <4>1, <5>1
          <6>2. QED
            BY <5>1, <6>1, DownNone
        <5>2. CASE s >= 1
          <6>1. PICK r \in Nat : s = r + 1
            BY <5>2
          <6>2. Down(h.left, f[j + 1], r) = f[c + 1]
            BY <3>1, <5>2, <6>1
          <6>3. m + 1 \in Nat /\ f[m + 1] \in Timers /\ 2 * (m + 1) = j + 1
            BY <1>1, <3>1, <4>1
          <6>4. h.left[f[m + 1]] = f[j + 1]
            BY <6>3, PlaceFacts
          <6>5. Down(h.left, f[m + 1], r + 1) = Down(h.left, h.left[f[m + 1]], r)
            BY DownFirst
          <6>6. QED
            BY <6>1, <6>2, <6>4, <6>5
        <5>3. QED
          BY <5>1, <5>2
      <4>6. At(k + 1, m, s + 1)
        BY <4>3, <4>4, <4>5
      <4>7. s + 1 \in Nat /\ k + 1 \in Nat
        OBVIOUS
      <4>8. QED
        BY <1>3, <4>6, <4>7, Zenon
    <3>5. CASE ~ IsRight(h, f[j])
      <4>1. go[k + 1] = go[k]
        <5>1. PICK u : u = go[k]
          OBVIOUS
        <5>2. u.node = f[j]
          BY <3>1, <5>1
        <5>3. ~ (h.up[u.node] # Null /\ h.right[h.up[u.node]] = u.node)
          BY <3>5, <5>2 DEF IsRight
        <5>4. QED
          BY <3>3, <5>1, <5>3 DEF ClimbOne
      <4>2. At(k + 1, j, s)
        BY <3>1, <3>5, <4>1
      <4>3. QED
        BY <1>3, <4>2
    <3>6. QED
      BY <3>4, <3>5
  <2>2. CASE ~ (k + 1 <= Deepest)
    BY <1>3, <2>2
  <2>3. QED
    BY <2>1, <2>2
<1>6. Deepest \in S
  BY <1>4, <1>5, Induction, DeepestType
<1>7. PICK j, s \in Nat : At(Deepest, j, s)
  <2>1. Deepest <= Deepest
    BY DeepestType
  <2>2. QED
    BY <1>3, <1>6, <2>1, Zenon
<1>8. f[j] \in Timers /\ ~ IsRight(h, f[j])
  BY <1>1, <1>7, DeepestType
<1>9. PICK u : u = Up(h, h.right, f[n])
  OBVIOUS
<1>10. u.node = f[j] /\ u.steps = s
  BY <1>2, <1>7, <1>9
<1>11. ~ IsLeft(h, f[n])
  BY <1>1, LeftIs
<1>12. PICK p : p = IF h.up[u.node] # Null
                    THEN Down(h.left, h.right[h.up[u.node]], u.steps - 1)
                    ELSE Down(h.left, u.node, u.steps)
  OBVIOUS
<1>13. FindNextPos(h, f[n]) = [parent |-> p, left |-> TRUE]
  BY <1>9, <1>11, <1>12 DEF FindNextPos
<1>14. CASE j = 1
  <2>1. h.up[f[j]] = Null
    BY <1>8, <1>14, PlaceFacts
  <2>2. p = Down(h.left, f[1], s)
    BY <1>10, <1>12, <1>14, <2>1
  <2>3. CASE s = 0
    <3>1. c = 0 /\ c + 1 = 1
      BY <1>1, <1>7, <1>14, <2>3
    <3>2. QED
      BY <1>13, <2>2, <2>3, <3>1, DownNone
  <2>4. CASE s >= 1
    <3>1. PICK r \in Nat : s = r + 1
      BY <2>4
    <3>2. Down(h.left, f[2], r) = f[c + 1]
      BY <1>7, <1>14, <2>4, <3>1
    <3>3. h.left[f[1]] = f[2]
      BY <1>8, <1>14, PlaceFacts
    <3>4. Down(h.left, f[1], r + 1) = Down(h.left, h.left[f[1]], r)
      BY DownFirst
    <3>5. QED
      BY <1>13, <2>2, <3>1, <3>2, <3>3, <3>4
  <2>5. QED
    BY <2>3, <2>4
<1>15. CASE j # 1
  <2>1. PICK m \in Nat : /\ m >= 1 /\ m < j /\ (j = 2 * m \/ j = 2 * m + 1)
                         /\ f[m] \in Timers /\ h.up[f[j]] = f[m]
    BY <1>8, <1>15, ParentIs
  <2>2. j = 2 * m
    BY <1>8, <2>1, RightIs
  <2>3. h.right[f[m]] = f[j + 1]
    BY <2>1, <2>2, PlaceFacts
  <2>4. s >= 1
    BY <1>7, <2>2
  <2>5. p = Down(h.left, f[j + 1], s - 1)
    BY <1>10, <1>12, <2>1, <2>3, NullApart
  <2>6. QED
    BY <1>7, <1>13, <2>4, <2>5
<1>16. QED
  BY <1>14, <1>15

\* The place behind the last is free, below the parent found and on the side
\* found.
LEMMA NextPosIs ==
  ASSUME NEW h, NEW f, NEW n, Lays(h, f, n), n >= 1
  PROVE  \E c \in Nat : /\ 1 <= c /\ c <= n /\ f[c] \in Timers
                        /\ \/ /\ n + 1 = 2 * c
                              /\ FindNextPos(h, f[n]) = [parent |-> f[c], left |-> TRUE]
                           \/ /\ n + 1 = 2 * c + 1
                              /\ FindNextPos(h, f[n]) = [parent |-> f[c], left |-> FALSE]
<1>1. /\ n \in Nat /\ f[n] \in Timers
      /\ \A i \in Nat : f[i] \in Timers <=> (1 <= i /\ i <= n)
  BY DEF Lays
<1>2. PICK c \in Nat : n = 2 * c \/ n = 2 * c + 1
  <2>1. n = 1 => n = 2 * 0 + 1
    OBVIOUS
  <2>2. n # 1 => \E c \in Nat : n = 2 * c \/ n = 2 * c + 1
    BY <1>1, Halves
  <2>3. QED
    BY <1>1, <2>1, <2>2
<1>3. CASE n = 2 * c
  <2>1. c >= 1 /\ c <= n
    BY <1>1, <1>3
  <2>2. f[c] \in Timers /\ h.up[f[n]] = f[c]
    BY <1>1, <1>3, <2>1, PlaceFacts
  <2>3. IsLeft(h, f[n])
    BY <1>1, <1>3, <2>1, LeftIs
  <2>4. FindNextPos(h, f[n]) = [parent |-> f[c], left |-> FALSE]
    BY <2>2, <2>3 DEF FindNextPos
  <2>5. QED
    BY <1>3, <2>1, <2>2, <2>4
<1>4. CASE n = 2 * c + 1
  <2>1. FindNextPos(h, f[n]) = [parent |-> f[c + 1], left |-> TRUE]
    BY <1>4, NextPosOdd
  <2>2. c + 1 \in Nat /\ 1 <= c + 1 /\ c + 1 <= n /\ n + 1 = 2 * (c + 1)
    BY <1>4
  <2>3. f[c + 1] \in Timers
    BY <1>1, <2>2
  <2>4. QED
    BY <2>1, <2>2, <2>3
<1>5. QED
  BY <1>2, <1>3, <1>4

\* find_prev_elem goes up while it is on the left, and down the right again:
\* to the element before the last.
LEMMA PrevElemEven ==
  ASSUME NEW h, NEW f, NEW n, Lays(h, f, n), NEW c \in Nat, c >= 1, n = 2 * c
  PROVE  FindPrevElem(h, f[n]) = f[n - 1]
<1>1. /\ n \in Nat /\ n >= 2 /\ f[n] \in Timers /\ n <= Deepest
      /\ \A i \in Nat : f[i] \in Timers <=> (1 <= i /\ i <= n)
  <2>1. n \in Nat /\ \A i \in Nat : f[i] \in Timers <=> (1 <= i /\ i <= n)
    BY DEF Lays
  <2>2. QED
    BY <2>1, HeldCount
<1>2. PICK go : /\ go[0] = [node |-> f[n], steps |-> 0]
                /\ \A k \in Nat : k + 1 <= Deepest =>
                     go[k + 1] = ClimbOne(h, h.left, go[k])
                /\ Up(h, h.left, f[n]) = go[Deepest]
  BY UpWay
<1> DEFINE At(k, j, s) ==
      /\ go[k] = [node |-> f[j], steps |-> s]
      /\ 1 <= j /\ j <= n
      /\ (s = k /\ j + k <= n) \/ ~ IsLeft(h, f[j])
      /\ j >= 2 => Down(h.right, f[j - 1], s) = f[n - 1]
      /\ j = 1 => s >= 1 /\ Down(h.right, f[1], s - 1) = f[n - 1]
<1>3. PICK S : S = {k \in Nat : k <= Deepest => \E j, s \in Nat : At(k, j, s)}
  OBVIOUS
<1>4. 0 \in S
  <2>1. Down(h.right, f[n - 1], 0) = f[n - 1]
    BY DownNone
  <2>2. At(0, n, 0)
    BY <1>1, <1>2, <2>1
  <2>3. QED
    BY <1>1, <1>3, <2>2
<1>5. ASSUME NEW k \in Nat, k \in S PROVE k + 1 \in S
  <2>1. CASE k + 1 <= Deepest
    <3>1. PICK j, s \in Nat : At(k, j, s)
      BY <1>3, <1>5, <2>1, DeepestType
    <3>2. f[j] \in Timers
      BY <1>1, <3>1
    <3>3. go[k + 1] = ClimbOne(h, h.left, go[k])
      BY <1>2, <2>1
    <3>4. CASE IsLeft(h, f[j])
      <4>1. PICK m \in Nat : m >= 1 /\ j = 2 * m
        BY <3>2, <3>4, LeftIs
      <4>2. f[m] \in Timers /\ h.up[f[j]] = f[m]
        BY <3>2, <4>1, PlaceFacts
      <4>3. go[k + 1] = [node |-> f[m], steps |-> s + 1]
        <5>1. PICK u : u = go[k]
          OBVIOUS
        <5>2. u.node = f[j] /\ u.steps = s
          BY <3>1, <5>1
        <5>3. h.up[u.node] = f[m] /\ f[m] # Null /\ h.left[f[m]] = u.node
          BY <3>4, <4>2, <5>2, NullApart DEF IsLeft
        <5>4. QED
          BY <3>3, <5>1, <5>2, <5>3 DEF ClimbOne
      <4>4. s + 1 = k + 1 /\ m + (k + 1) <= n /\ 1 <= m /\ m <= n
        BY <1>1, <3>1, <3>4, <4>1
      <4>5. Down(h.right, f[j - 1], s) = f[n - 1]
        BY <3>1, <4>1
      <4>6. m >= 2 => Down(h.right, f[m - 1], s + 1) = f[n - 1]
        <5>1. SUFFICES ASSUME m >= 2 PROVE Down(h.right, f[m - 1], s + 1) = f[n - 1]
          OBVIOUS
        <5>2. m - 1 \in Nat /\ f[m - 1] \in Timers /\ 2 * (m - 1) + 1 = j - 1
          BY <1>1, <4>1, <4>4, <5>1
        <5>3. h.right[f[m - 1]] = f[j - 1]
          BY <5>2, PlaceFacts
        <5>4. Down(h.right, f[m - 1], s + 1) = Down(h.right, h.right[f[m - 1]], s)
          BY DownFirst
        <5>5. QED
          BY <4>5, <5>3, <5>4
      <4>7. m = 1 => Down(h.right, f[1], (s + 1) - 1) = f[n - 1]
        BY <4>1, <4>5
      <4>8. At(k + 1, m, s + 1)
        BY <4>3, <4>4, <4>6, <4>7
      <4>9. s + 1 \in Nat /\ k + 1 \in Nat
        OBVIOUS
      <4>10. QED
        BY <1>3, <4>8, <4>9, Zenon
    <3>5. CASE ~ IsLeft(h, f[j])
      <4>1. go[k + 1] = go[k]
        <5>1. PICK u : u = go[k]
          OBVIOUS
        <5>2. u.node = f[j]
          BY <3>1, <5>1
        <5>3. ~ (h.up[u.node] # Null /\ h.left[h.up[u.node]] = u.node)
          BY <3>5, <5>2 DEF IsLeft
        <5>4. QED
          BY <3>3, <5>1, <5>3 DEF ClimbOne
      <4>2. At(k + 1, j, s)
        BY <3>1, <3>5, <4>1
      <4>3. QED
        BY <1>3, <4>2
    <3>6. QED
      BY <3>4, <3>5
  <2>2. CASE ~ (k + 1 <= Deepest)
    BY <1>3, <2>2
  <2>3. QED
    BY <2>1, <2>2
<1>6. Deepest \in S
  BY <1>4, <1>5, Induction, DeepestType
<1>7. PICK j, s \in Nat : At(Deepest, j, s)
  <2>1. Deepest <= Deepest
    BY DeepestType
  <2>2. QED
    BY <1>3, <1>6, <2>1, Zenon
<1>8. f[j] \in Timers /\ ~ IsLeft(h, f[j])
  BY <1>1, <1>7, DeepestType
<1>9. PICK u : u = Up(h, h.left, f[n])
  OBVIOUS
<1>10. u.node = f[j] /\ u.steps = s
  BY <1>2, <1>7, <1>9
<1>11. ~ IsRight(h, f[n])
  BY <1>1, RightIs
<1>12. FindPrevElem(h, f[n]) = IF h.up[u.node] # Null
                               THEN Down(h.right, h.left[h.up[u.node]], u.steps)
                               ELSE Down(h.right, u.node, u.steps - 1)
  BY <1>9, <1>11 DEF FindPrevElem
<1>13. CASE j = 1
  <2>1. h.up[f[j]] = Null
    BY <1>8, <1>13, PlaceFacts
  <2>2. QED
    BY <1>7, <1>10, <1>12, <1>13, <2>1
<1>14. CASE j # 1
  <2>1. PICK m \in Nat : /\ m >= 1 /\ m < j /\ (j = 2 * m \/ j = 2 * m + 1)
                         /\ f[m] \in Timers /\ h.up[f[j]] = f[m]
    BY <1>8, <1>14, ParentIs
  <2>2. j = 2 * m + 1
    BY <1>8, <2>1, LeftIs
  <2>3. h.left[f[m]] = f[j - 1]
    BY <2>1, <2>2, PlaceFacts
  <2>4. QED
    BY <1>7, <1>10, <1>12, <2>1, <2>3, NullApart
<1>15. QED
  BY <1>13, <1>14

LEMMA PrevElemIs ==
  ASSUME NEW h, NEW f, NEW n, Lays(h, f, n), n >= 2
  PROVE  FindPrevElem(h, f[n]) = f[n - 1]
<1>1. n \in Nat /\ f[n] \in Timers
  BY DEF Lays
<1>2. PICK m \in Nat : /\ m >= 1 /\ m < n /\ (n = 2 * m \/ n = 2 * m + 1)
                       /\ f[m] \in Timers /\ h.up[f[n]] = f[m]
  BY <1>1, ParentIs
<1>3. CASE n = 2 * m
  BY <1>2, <1>3, PrevElemEven
<1>4. CASE n = 2 * m + 1
  <2>1. IsRight(h, f[n])
    BY <1>1, <1>2, <1>4, RightIs
  <2>2. h.left[f[m]] = f[n - 1]
    BY <1>2, <1>4, PlaceFacts
  <2>3. QED
    BY <1>2, <2>1, <2>2 DEF FindPrevElem
<1>5. QED
  BY <1>2, <1>3, <1>4
-----------------------------------------------------------------------------
(***************************************************************************)
(* The order of the heap, and how an element finds its place in it.        *)
(***************************************************************************)
\* Place c is one of the two under place i.
Under(i, c) == c = 2 * i \/ c = 2 * i + 1

\* No element goes off before the one above it.
InOrder(f, n, at) ==
  \A i, c \in Nat : 1 <= i /\ c <= n /\ Under(i, c) => at[f[i]] <= at[f[c]]

\* The elements under place e do not go off before the one above it.
OrderAround(f, n, at, e) ==
  \A m, c \in Nat : 1 <= m /\ c <= n /\ Under(m, e) /\ Under(e, c) =>
                      at[f[m]] <= at[f[c]]

\* In order, but for the element at e, which may belong further up (down).
OrderUp(f, n, at, e) ==
  /\ \A i, c \in Nat : 1 <= i /\ c <= n /\ Under(i, c) /\ c # e => at[f[i]] <= at[f[c]]
  /\ OrderAround(f, n, at, e)

OrderDown(f, n, at, e) ==
  /\ \A i, c \in Nat : 1 <= i /\ c <= n /\ Under(i, c) /\ i # e => at[f[i]] <= at[f[c]]
  /\ OrderAround(f, n, at, e)

\* f gives each of the places 1 to n a timer.
Filled(f, n) ==
  /\ n \in Nat /\ f \in [Nat -> Links]
  /\ \A i \in Nat : 1 <= i /\ i <= n => f[i] \in Timers

Times == [Timers -> Nat]

LEMMA LaysFilled ==
  ASSUME NEW h, NEW f, NEW n, Lays(h, f, n)
  PROVE  /\ Filled(f, n)
         /\ \A i \in Nat : f[i] \in Timers => 1 <= i /\ i <= n
BY DEF Lays, Filled

LEMMA UnderFacts ==
  ASSUME NEW i \in Nat, NEW c \in Nat, Under(i, c), 1 <= i
  PROVE  i < c /\ \A k \in Nat : Under(k, c) => k = i
BY DEF Under

LEMMA OrderUpSwap ==
  ASSUME NEW f, NEW n, NEW at \in Times, NEW m \in Nat, NEW j \in Nat,
         Filled(f, n), OrderUp(f, n, at, j), 1 <= m, j <= n, Under(m, j),
         at[f[j]] < at[f[m]]
  PROVE  OrderUp(Swap(f, m, j), n, at, m)
<1>1. PICK e : e = Swap(f, m, j)
  OBVIOUS
<1>2. m < j /\ \A k \in Nat : Under(k, j) => k = m
  BY UnderFacts
<1>3. e[m] = f[j] /\ e[j] = f[m] /\ \A k \in Nat : k # m /\ k # j => e[k] = f[k]
  BY <1>1, <1>2, SwapIs DEF Filled
<1>4. \A i \in Nat : 1 <= i /\ i <= n => at[f[i]] \in Nat
  BY DEF Filled, Times
<1>5. n \in Nat
  BY DEF Filled
<1>6. ASSUME NEW i \in Nat, NEW c \in Nat, 1 <= i, c <= n, Under(i, c), c # m
      PROVE  at[e[i]] <= at[e[c]]
  <2>1. i < c /\ i <= n /\ m <= n
    BY <1>2, <1>5, <1>6, UnderFacts
  <2>2. /\ at[f[i]] \in Nat /\ at[f[c]] \in Nat /\ at[f[m]] \in Nat /\ at[f[j]] \in Nat
        /\ c # j => at[f[i]] <= at[f[c]]
    BY <1>2, <1>4, <1>5, <1>6, <2>1 DEF OrderUp
  <2>3. CASE c = j
    <3>1. i = m
      BY <1>2, <1>6, <2>3
    <3>2. QED
      BY <1>3, <2>2, <2>3, <3>1
  <2>4. CASE c # j /\ i = m
    BY <1>3, <1>6, <2>2, <2>4
  <2>5. CASE c # j /\ i = j
    <3>1. at[f[m]] <= at[f[c]]
      BY <1>6, <2>5 DEF OrderUp, OrderAround
    <3>2. QED
      BY <1>3, <1>6, <2>5, <3>1
  <2>6. CASE c # j /\ i # m /\ i # j
    BY <1>3, <1>6, <2>2, <2>6
  <2>7. QED
    BY <2>3, <2>4, <2>5, <2>6
<1>7. ASSUME NEW g \in Nat, NEW c \in Nat, 1 <= g, c <= n, Under(g, m), Under(m, c)
      PROVE  at[e[g]] <= at[e[c]]
  <2>1. g < m /\ m < c
    BY <1>7, UnderFacts
  <2>2. /\ at[f[g]] \in Nat /\ at[f[c]] \in Nat /\ at[f[m]] \in Nat
        /\ at[f[g]] <= at[f[m]]
        /\ c # j => at[f[m]] <= at[f[c]]
    <3>1. m <= n /\ g <= n /\ 1 <= c /\ m # j
      BY <1>2, <1>5, <1>7, <2>1
    <3>2. QED
      BY <1>4, <1>7, <3>1 DEF OrderUp
  <2>3. e[g] = f[g]
    BY <1>2, <1>3, <2>1
  <2>4. CASE c = j
    BY <1>3, <2>2, <2>3, <2>4
  <2>5. CASE c # j
    BY <1>3, <2>1, <2>2, <2>3, <2>5
  <2>6. QED
    BY <2>4, <2>5
<1>8. OrderUp(e, n, at, m)
  BY <1>6, <1>7 DEF OrderUp, OrderAround
<1>9. QED
  BY <1>1, <1>8

LEMMA OrderDownSwap ==
  ASSUME NEW f, NEW n, NEW at \in Times, NEW j \in Nat, NEW d \in Nat,
         Filled(f, n), OrderDown(f, n, at, j), 1 <= j, d <= n, Under(j, d),
         at[f[d]] < at[f[j]],
         \A c \in Nat : Under(j, c) /\ c <= n => at[f[d]] <= at[f[c]]
  PROVE  OrderDown(Swap(f, j, d), n, at, d)
<1>1. PICK e : e = Swap(f, j, d)
  OBVIOUS
<1>2. j < d /\ \A k \in Nat : Under(k, d) => k = j
  BY UnderFacts
<1>3. e[j] = f[d] /\ e[d] = f[j] /\ \A k \in Nat : k # j /\ k # d => e[k] = f[k]
  BY <1>1, <1>2, SwapIs DEF Filled
<1>4. \A i \in Nat : 1 <= i /\ i <= n => at[f[i]] \in Nat
  BY DEF Filled, Times
<1>5. n \in Nat
  BY DEF Filled
<1>6. ASSUME NEW i \in Nat, NEW c \in Nat, 1 <= i, c <= n, Under(i, c), i # d
      PROVE  at[e[i]] <= at[e[c]]
  <2>1. i < c /\ i <= n /\ j <= n /\ 1 <= c
    BY <1>2, <1>5, <1>6, UnderFacts
  <2>2. /\ at[f[i]] \in Nat /\ at[f[c]] \in Nat /\ at[f[d]] \in Nat /\ at[f[j]] \in Nat
        /\ i # j => at[f[i]] <= at[f[c]]
    BY <1>2, <1>4, <1>5, <1>6, <2>1 DEF OrderDown
  <2>3. CASE i = j /\ c = d
    BY <1>3, <2>2, <2>3
  <2>4. CASE i = j /\ c # d
    <3>1. at[f[d]] <= at[f[c]]
      BY <1>6, <2>4
    <3>2. QED
      BY <1>3, <2>1, <2>4, <3>1
  <2>5. CASE i # j /\ c = j
    <3>1. at[f[i]] <= at[f[d]]
      BY <1>6, <2>5 DEF OrderDown, OrderAround
    <3>2. QED
      BY <1>3, <1>6, <2>5, <3>1
  <2>6. CASE i # j /\ c # j
    <3>1. c # d
      BY <1>2, <1>6, <2>6
    <3>2. QED
      BY <1>3, <1>6, <2>2, <2>6, <3>1
  <2>7. QED
    BY <2>3, <2>4, <2>5, <2>6
<1>7. ASSUME NEW g \in Nat, NEW c \in Nat, 1 <= g, c <= n, Under(g, d), Under(d, c)
      PROVE  at[e[g]] <= at[e[c]]
  <2>1. g = j /\ d < c
    BY <1>2, <1>7, UnderFacts
  <2>2. at[f[d]] <= at[f[c]]
    BY <1>2, <1>7 DEF OrderDown
  <2>3. QED
    BY <1>2, <1>3, <2>1, <2>2
<1>8. OrderDown(e, n, at, d)
  BY <1>6, <1>7 DEF OrderDown, OrderAround
<1>9. QED
  BY <1>1, <1>8

LEMMA SwapHeld ==
  ASSUME NEW f \in [Nat -> Links], NEW n \in Nat, NEW i \in 1 .. n, NEW j \in 1 .. n
  PROVE  Held(Swap(f, i, j), n) = Held(f, n)
<1>1. PICK e : e = Swap(f, i, j)
  OBVIOUS
<1>2. e[j] = f[i] /\ e[i] = f[j] /\ \A k \in Nat : k # i /\ k # j => e[k] = f[k]
  BY <1>1, SwapIs
<1>3. ASSUME NEW k \in 1 .. n PROVE e[k] \in Held(f, n) /\ f[k] \in Held(e, n)
  BY <1>2 DEF Held
<1>4. Held(e, n) \subseteq Held(f, n)
  <2>1. \A x \in Held(e, n) : \E k \in 1 .. n : x = e[k]
    BY DEF Held
  <2>2. QED
    BY <1>3, <2>1
<1>5. Held(f, n) \subseteq Held(e, n)
  <2>1. \A x \in Held(f, n) : \E k \in 1 .. n : x = f[k]
    BY DEF Held
  <2>2. QED
    BY <1>3, <2>1
<1>6. QED
  BY <1>1, <1>4, <1>5

\* send_up brings the heap into order.
LEMMA SendUpOrders ==
  ASSUME NEW h, NEW f, NEW n, Lays(h, f, n), NEW at \in Times, NEW e \in Nat,
         f[e] \in Timers, OrderUp(f, n, at, e)
  PROVE  \E w : /\ Lays(SendUp(h, f[e], at), w, n)
                /\ Held(w, n) = Held(f, n) /\ InOrder(w, n, at)
<1>1. PICK elem : elem = f[e]
  OBVIOUS
<1>2. PICK go : Raises(go, h, elem, at, Deepest) /\ SendUp(h, elem, at) = go[Deepest]
  BY SendUpIs
<1>3. go[0] = h
  BY <1>2, DeepestType, RaisesAt
<1>4. \A k \in Nat : k + 1 <= Deepest => go[k + 1] = RaiseOne(go[k], elem, at)
  <2>1. SUFFICES ASSUME NEW k \in Nat, k + 1 <= Deepest
                 PROVE  go[k + 1] = RaiseOne(go[k], elem, at)
    OBVIOUS
  <2>2. k + 1 \in 0 .. Deepest /\ k + 1 # 0 /\ (k + 1) - 1 = k
    BY <2>1, DeepestType
  <2>3. QED
    BY <1>2, <2>2, RaisesAt
<1>5. n \in Nat /\ n <= Deepest /\ 1 <= e /\ e <= n /\ elem \in Timers
  BY <1>1, HeldCount, LaysFilled DEF Filled
<1> DEFINE At(k, w, j) ==
      /\ Lays(go[k], w, n) /\ w[j] = elem /\ 1 <= j /\ j <= n
      /\ Held(w, n) = Held(f, n) /\ OrderUp(w, n, at, j)
      /\ j + k <= n \/ ~ TooLow(go[k], elem, at)
<1>6. PICK S : S = {k \in Nat : k <= Deepest => \E w : \E j \in Nat : At(k, w, j)}
  OBVIOUS
<1>7. 0 \in S
  <2>1. At(0, f, e)
    BY <1>1, <1>3, <1>5
  <2>2. QED
    BY <1>6, <2>1
<1>8. ASSUME NEW k \in Nat, k \in S PROVE k + 1 \in S
  <2>1. CASE k + 1 <= Deepest
    <3>1. PICK w : \E j \in Nat : At(k, w, j)
      BY <1>6, <1>8, <2>1, DeepestType
    <3>2. PICK j \in Nat : At(k, w, j)
      BY <3>1
    <3>3. PICK g : g = go[k]
      OBVIOUS
    <3>4. go[k + 1] = RaiseOne(g, elem, at)
      BY <1>4, <2>1, <3>3
    <3>5. Lays(g, w, n) /\ w[j] \in Timers /\ Filled(w, n) /\ w \in [Nat -> Links]
      <4>1. Lays(g, w, n) /\ w[j] \in Timers
        BY <1>5, <3>2, <3>3
      <4>2. QED
        BY <4>1, LaysFilled DEF Filled
    <3>6. CASE TooLow(g, elem, at)
      <4>1. g.up[w[j]] # Null /\ at[elem] < at[g.up[w[j]]] /\ j + k <= n
        BY <3>2, <3>3, <3>6 DEF TooLow
      <4>2. PICK m \in Nat : /\ m >= 1 /\ m < j /\ (j = 2 * m \/ j = 2 * m + 1)
                             /\ w[m] \in Timers /\ g.up[w[j]] = w[m]
        BY <3>5, <4>1, ParentIs
      <4>3. go[k + 1] = Exchange(g, w[m], w[j])
        BY <3>2, <3>4, <3>6, <4>2 DEF RaiseOne
      <4>4. PICK v : v = Swap(w, m, j)
        OBVIOUS
      <4>5. Lays(go[k + 1], v, n)
        BY <3>5, <4>2, <4>3, <4>4, ExchangeLays
      <4>6. OrderUp(v, n, at, m)
        BY <3>2, <3>5, <4>1, <4>2, <4>4, OrderUpSwap DEF Under
      <4>7. Held(v, n) = Held(f, n)
        <5>1. m \in 1 .. n /\ j \in 1 .. n
          BY <1>5, <3>2, <4>2
        <5>2. QED
          BY <1>5, <3>2, <3>5, <4>4, <5>1, SwapHeld
      <4>8. v[m] = elem
        BY <3>2, <3>5, <4>2, <4>4, SwapIs
      <4>9. At(k + 1, v, m)
        BY <1>5, <3>2, <4>1, <4>2, <4>5, <4>6, <4>7, <4>8
      <4>10. k + 1 \in Nat
        OBVIOUS
      <4>11. QED
        BY <1>6, <4>9, <4>10, Zenon
    <3>7. CASE ~ TooLow(g, elem, at)
      <4>1. go[k + 1] = go[k]
        BY <3>3, <3>4, <3>7 DEF RaiseOne
      <4>2. At(k + 1, w, j)
        BY <3>2, <3>3, <3>7, <4>1
      <4>3. k + 1 \in Nat
        OBVIOUS
      <4>4. QED
        BY <1>6, <4>2, <4>3, Zenon
    <3>8. QED
      BY <3>6, <3>7
  <2>2. CASE ~ (k + 1 <= Deepest)
    BY <1>6, <2>2
  <2>3. QED
    BY <2>1, <2>2
<1>9. Deepest \in S
  BY <1>7, <1>8, Induction, DeepestType
<1>10. PICK w : \E j \in Nat : At(Deepest, w, j)
  <2>1. Deepest <= Deepest
    BY DeepestType
  <2>2. QED
    BY <1>6, <1>9, <2>1, Zenon
<1>11. PICK j \in Nat : At(Deepest, w, j)
  BY <1>10
<1>12. PICK g : g = go[Deepest]
  OBVIOUS
<1>13. Lays(g, w, n) /\ w[j] \in Timers /\ ~ TooLow(g, elem, at) /\ Filled(w, n)
  <2>1. Lays(g, w, n) /\ w[j] \in Timers /\ ~ TooLow(g, elem, at)
    BY <1>5, <1>11, <1>12, DeepestType
  <2>2. QED
    BY <2>1, LaysFilled
<1>14. ASSUME NEW i \in Nat, NEW c \in Nat, 1 <= i, c <= n, Under(i, c)
       PROVE  at[w[i]] <= at[w[c]]
  <2>1. CASE c # j
    BY <1>11, <1>14, <2>1 DEF OrderUp
  <2>2. CASE c = j
    <3>1. w[i] \in Timers /\ g.up[w[j]] = w[i]
      BY <1>13, <1>14, <2>2, PlaceFacts DEF Under
    <3>2. ~ (at[elem] < at[w[i]])
      BY <1>11, <1>13, <3>1, NullApart DEF TooLow
    <3>3. at[elem] \in Nat /\ at[w[i]] \in Nat
      BY <1>5, <3>1 DEF Times
    <3>4. QED
      BY <1>11, <2>2, <3>2, <3>3
  <2>3. QED
    BY <2>1, <2>2
<1>15. InOrder(w, n, at)
  BY <1>14 DEF InOrder
<1>16. QED
  BY <1>1, <1>2, <1>11, <1>12, <1>13, <1>15

\* The smaller of the two elements under a place.
LEMMA BelowIs ==
  ASSUME NEW h, NEW f, NEW n, Lays(h, f, n), NEW at \in Times, NEW j \in Nat,
         f[j] \in Timers, h.left[f[j]] # Null
  PROVE  \E d \in Nat : /\ Under(j, d) /\ 1 <= j /\ j < d /\ d <= n
                        /\ f[d] \in Timers /\ Below(h, f[j], at) = f[d]
                        /\ \A c \in Nat : Under(j, c) /\ c <= n => at[f[d]] <= at[f[c]]
<1>1. /\ n \in Nat /\ f \in [Nat -> Links]
      /\ \A i \in Nat : f[i] \in Timers <=> (1 <= i /\ i <= n)
  BY DEF Lays
<1>2. 1 <= j /\ h.left[f[j]] = f[2 * j] /\ h.right[f[j]] = f[2 * j + 1]
  BY PlaceFacts
<1>3. PICK l, r \in Nat : l = 2 * j /\ r = 2 * j + 1
  OBVIOUS
<1>4. f[l] \in Timers /\ l <= n
  BY <1>1, <1>2, <1>3 DEF Links
<1>5. f[r] # Null <=> r <= n
  BY <1>1, <1>2, <1>3, NullApart DEF Links
<1>6. Below(h, f[j], at) = IF f[r] # Null /\ at[f[l]] > at[f[r]] THEN f[r] ELSE f[l]
  BY <1>2, <1>3 DEF Below
<1>7. at[f[l]] \in Nat /\ (r <= n => f[r] \in Timers /\ at[f[r]] \in Nat)
  BY <1>1, <1>2, <1>3, <1>4 DEF Times
<1>8. Under(j, l) /\ Under(j, r) /\ j < l /\ j < r
  BY <1>2, <1>3 DEF Under
<1>9. \A c \in Nat : Under(j, c) => c = l \/ c = r
  BY <1>3 DEF Under
<1>10. CASE r <= n /\ at[f[l]] > at[f[r]]
  BY <1>2, <1>5, <1>6, <1>7, <1>8, <1>9, <1>10
<1>11. CASE ~ (r <= n /\ at[f[l]] > at[f[r]])
  BY <1>2, <1>4, <1>5, <1>6, <1>7, <1>8, <1>9, <1>11
<1>12. QED
  BY <1>10, <1>11

\* send_down brings the heap into order.
LEMMA SendDownOrders ==
  ASSUME NEW h, NEW f, NEW n, Lays(h, f, n), NEW at \in Times, NEW e \in Nat,
         f[e] \in Timers, OrderDown(f, n, at, e)
  PROVE  \E w : /\ Lays(SendDown(h, f[e], at), w, n)
                /\ Held(w, n) = Held(f, n) /\ InOrder(w, n, at)
<1>1. PICK elem : elem = f[e]
  OBVIOUS
<1>2. PICK go : Lowers(go, h, elem, at, Deepest) /\ SendDown(h, elem, at) = go[Deepest]
  BY SendDownIs
<1>3. go[0] = h
  BY <1>2, DeepestType, LowersAt
<1>4. \A k \in Nat : k + 1 <= Deepest => go[k + 1] = LowerOne(go[k], elem, at)
  <2>1. SUFFICES ASSUME NEW k \in Nat, k + 1 <= Deepest
                 PROVE  go[k + 1] = LowerOne(go[k], elem, at)
    OBVIOUS
  <2>2. k + 1 \in 0 .. Deepest /\ k + 1 # 0 /\ (k + 1) - 1 = k
    BY <2>1, DeepestType
  <2>3. QED
    BY <1>2, <2>2, LowersAt
<1>5. n \in Nat /\ n <= Deepest /\ 1 <= e /\ e <= n /\ elem \in Timers
  BY <1>1, HeldCount, LaysFilled DEF Filled
<1> DEFINE At(k, w, j) ==
      /\ Lays(go[k], w, n) /\ w[j] = elem /\ 1 <= j /\ j <= n
      /\ Held(w, n) = Held(f, n) /\ OrderDown(w, n, at, j)
      /\ k + 1 <= j \/ ~ TooHigh(go[k], elem, at)
<1>6. PICK S : S = {k \in Nat : k <= Deepest => \E w : \E j \in Nat : At(k, w, j)}
  OBVIOUS
<1>7. 0 \in S
  <2>1. At(0, f, e)
    BY <1>1, <1>3, <1>5
  <2>2. QED
    BY <1>6, <2>1
<1>8. ASSUME NEW k \in Nat, k \in S PROVE k + 1 \in S
  <2>1. CASE k + 1 <= Deepest
    <3>1. PICK w : \E j \in Nat : At(k, w, j)
      BY <1>6, <1>8, <2>1, DeepestType
    <3>2. PICK j \in Nat : At(k, w, j)
      BY <3>1
    <3>3. PICK g : g = go[k]
      OBVIOUS
    <3>4. go[k + 1] = LowerOne(g, elem, at)
      BY <1>4, <2>1, <3>3
    <3>5. Lays(g, w, n) /\ w[j] \in Timers /\ Filled(w, n) /\ w \in [Nat -> Links]
      <4>1. Lays(g, w, n) /\ w[j] \in Timers
        BY <1>5, <3>2, <3>3
      <4>2. QED
        BY <4>1, LaysFilled DEF Filled
    <3>6. CASE TooHigh(g, elem, at)
      <4>1. g.left[w[j]] # Null /\ at[w[j]] > at[Below(g, w[j], at)] /\ k + 1 <= j
        BY <3>2, <3>3, <3>6 DEF TooHigh
      <4>2. PICK d \in Nat :
              /\ Under(j, d) /\ 1 <= j /\ j < d /\ d <= n
              /\ w[d] \in Timers /\ Below(g, w[j], at) = w[d]
              /\ \A c \in Nat : Under(j, c) /\ c <= n => at[w[d]] <= at[w[c]]
        BY <3>5, <4>1, BelowIs
      <4>3. go[k + 1] = Exchange(g, w[j], w[d])
        BY <3>2, <3>4, <3>6, <4>2 DEF LowerOne
      <4>4. PICK v : v = Swap(w, j, d)
        OBVIOUS
      <4>5. Lays(go[k + 1], v, n)
        <5>1. d = 2 * j \/ d = 2 * j + 1
          BY <4>2 DEF Under
        <5>2. QED
          BY <3>5, <4>2, <4>3, <4>4, <5>1, ExchangeLays
      <4>6. OrderDown(v, n, at, d)
        <5>1. at[w[d]] < at[w[j]]
          BY <3>5, <4>1, <4>2 DEF Times
        <5>2. QED
          BY <3>2, <3>5, <4>2, <4>4, <5>1, OrderDownSwap
      <4>7. Held(v, n) = Held(f, n)
        <5>1. d \in 1 .. n /\ j \in 1 .. n
          BY <1>5, <3>2, <4>2
        <5>2. QED
          BY <1>5, <3>2, <3>5, <4>4, <5>1, SwapHeld
      <4>8. v[d] = elem
        BY <3>2, <3>5, <4>2, <4>4, SwapIs
      <4>9. At(k + 1, v, d)
        BY <1>5, <3>2, <4>1, <4>2, <4>5, <4>6, <4>7, <4>8
      <4>10. k + 1 \in Nat
        OBVIOUS
      <4>11. QED
        BY <1>6, <4>9, <4>10, Zenon
    <3>7. CASE ~ TooHigh(g, elem, at)
      <4>1. go[k + 1] = go[k]
        BY <3>3, <3>4, <3>7 DEF LowerOne
      <4>2. At(k + 1, w, j)
        BY <3>2, <3>3, <3>7, <4>1
      <4>3. k + 1 \in Nat
        OBVIOUS
      <4>4. QED
        BY <1>6, <4>2, <4>3, Zenon
    <3>8. QED
      BY <3>6, <3>7
  <2>2. CASE ~ (k + 1 <= Deepest)
    BY <1>6, <2>2
  <2>3. QED
    BY <2>1, <2>2
<1>9. Deepest \in S
  BY <1>7, <1>8, Induction, DeepestType
<1>10. PICK w : \E j \in Nat : At(Deepest, w, j)
  <2>1. Deepest <= Deepest
    BY DeepestType
  <2>2. QED
    BY <1>6, <1>9, <2>1, Zenon
<1>11. PICK j \in Nat : At(Deepest, w, j)
  BY <1>10
<1>12. PICK g : g = go[Deepest]
  OBVIOUS
<1>13. Lays(g, w, n) /\ w[j] \in Timers /\ ~ TooHigh(g, elem, at) /\ Filled(w, n)
  <2>1. Lays(g, w, n) /\ w[j] \in Timers /\ ~ TooHigh(g, elem, at)
    BY <1>5, <1>11, <1>12, DeepestType
  <2>2. QED
    BY <2>1, LaysFilled
<1>14. ASSUME NEW i \in Nat, NEW c \in Nat, 1 <= i, c <= n, Under(i, c)
       PROVE  at[w[i]] <= at[w[c]]
  <2>1. CASE i # j
    BY <1>11, <1>14, <2>1 DEF OrderDown
  <2>2. CASE i = j
    <3>1. g.left[w[j]] # Null
      <4>1. g.left[w[j]] = w[2 * j]
        BY <1>13, PlaceFacts
      <4>2. 2 * j \in Nat /\ 1 <= 2 * j /\ 2 * j <= n
        BY <1>5, <1>14, <2>2 DEF Under
      <4>3. w[2 * j] \in Timers
        BY <1>13, <4>2 DEF Filled
      <4>4. QED
        BY <4>1, <4>3, NullApart
    <3>2. PICK d \in Nat :
            /\ Under(j, d) /\ 1 <= j /\ j < d /\ d <= n
            /\ w[d] \in Timers /\ Below(g, w[j], at) = w[d]
            /\ \A k \in Nat : Under(j, k) /\ k <= n => at[w[d]] <= at[w[k]]
      BY <1>13, <3>1, BelowIs
    <3>3. ~ (at[w[j]] > at[w[d]])
      BY <1>11, <1>13, <3>1, <3>2 DEF TooHigh
    <3>4. at[w[d]] <= at[w[c]]
      BY <1>14, <2>2, <3>2
    <3>5. 1 <= c /\ w[c] \in Timers
      <4>1. 1 <= c
        BY <1>14, UnderFacts
      <4>2. QED
        BY <1>13, <1>14, <4>1 DEF Filled
    <3>6. at[w[j]] \in Nat /\ at[w[d]] \in Nat /\ at[w[c]] \in Nat
      BY <1>13, <3>2, <3>5 DEF Times
    <3>7. QED
      BY <2>2, <3>3, <3>4, <3>6
  <2>3. QED
    BY <2>1, <2>2
<1>15. InOrder(w, n, at)
  BY <1>14 DEF InOrder
<1>16. QED
  BY <1>1, <1>2, <1>11, <1>12, <1>13, <1>15
-----------------------------------------------------------------------------
(***************************************************************************)
(* A timer is added at the end, taken from the end, put in another's place.*)
(***************************************************************************)
\* g is h with t at the end, below p on the side left (or right).
Appended(g, h, t, p, left) ==
  /\ g \in Heaps /\ g.top = h.top /\ g.last = t
  /\ \A x \in Timers :
       /\ g.left[x] = IF x = t THEN Null ELSE IF left /\ x = p THEN t ELSE h.left[x]
       /\ g.right[x] = IF x = t THEN Null ELSE IF ~left /\ x = p THEN t ELSE h.right[x]
       /\ g.up[x] = IF x = t THEN p ELSE h.up[x]

LEMMA AppendLays ==
  ASSUME NEW h, NEW f, NEW n, Lays(h, f, n), NEW t \in Timers, t \notin Held(f, n),
         NEW c \in Nat, f[c] \in Timers, NEW left \in BOOLEAN,
         n + 1 = IF left THEN 2 * c ELSE 2 * c + 1,
         NEW g, Appended(g, h, t, f[c], left)
  PROVE  Lays(g, [f EXCEPT ![n + 1] = t], n + 1)
<1>1. /\ n \in Nat /\ f \in [Nat -> Links]
      /\ \A i \in Nat : f[i] \in Timers <=> (1 <= i /\ i <= n)
      /\ \A i, j \in Nat : f[i] \in Timers /\ f[i] = f[j] => i = j
      /\ h.top = f[1]
  BY DEF Lays
<1>2. PICK w, k : w = [f EXCEPT ![n + 1] = t] /\ k = n + 1
  OBVIOUS
<1>3. \A i \in Nat : f[i] \in Timers => f[i] # t
  BY <1>1 DEF Held
<1>4. \A i \in Nat : f[i] \notin Timers => f[i] = Null
  BY <1>1 DEF Links
<1>5. 1 <= c /\ c <= n /\ c < k /\ k \in Nat
  BY <1>1, <1>2
<1>6. w \in [Nat -> Links] /\ w[k] = t /\ \A i \in Nat : i # k => w[i] = f[i]
  BY <1>1, <1>2, <1>5 DEF Links
<1>7. \A i \in Nat : w[i] \in Timers <=> (1 <= i /\ i <= k)
  BY <1>1, <1>2, <1>5, <1>6
<1>8. \A i, j \in Nat : w[i] \in Timers /\ w[i] = w[j] => i = j
  BY <1>1, <1>3, <1>6
<1>9. g \in Heaps /\ g.top = w[1] /\ g.last = w[k]
  BY <1>1, <1>5, <1>6 DEF Appended
<1>10. ASSUME NEW i \in Nat, w[i] \in Timers
       PROVE  g.left[w[i]] = w[2 * i] /\ g.right[w[i]] = w[2 * i + 1]
  <2>1. PICK l, r \in Nat : l = 2 * i /\ r = 2 * i + 1
    OBVIOUS
  <2>2. CASE i = k
    <3>1. l > k /\ r > k
      BY <1>5, <2>1, <2>2
    <3>2. w[l] = Null /\ w[r] = Null
      BY <1>1, <1>2, <1>4, <1>6, <3>1
    <3>3. g.left[t] = Null /\ g.right[t] = Null
      BY DEF Appended
    <3>4. QED
      BY <1>6, <2>1, <2>2, <3>2, <3>3
  <2>3. CASE i # k
    <3>1. PICK x : x = f[i]
      OBVIOUS
    <3>2. w[i] = x /\ x \in Timers /\ x # t /\ (x = f[c] <=> i = c)
      BY <1>1, <1>3, <1>6, <1>10, <2>3, <3>1
    <3>3. h.left[x] = f[l] /\ h.right[x] = f[r]
      BY <2>1, <3>1, <3>2, PlaceFacts
    <3>4. /\ g.left[x] = IF left /\ i = c THEN t ELSE f[l]
          /\ g.right[x] = IF ~left /\ i = c THEN t ELSE f[r]
      BY <3>2, <3>3 DEF Appended
    <3>5. (left /\ i = c <=> l = k) /\ (~left /\ i = c <=> r = k)
      BY <1>2, <2>1
    <3>6. QED
      BY <1>6, <2>1, <3>2, <3>4, <3>5
  <2>4. QED
    BY <2>2, <2>3
<1>11. ASSUME NEW i \in Nat, NEW d \in Nat, d = 2 * i \/ d = 2 * i + 1,
              w[i] \in Timers, w[d] \in Timers
       PROVE  g.up[w[d]] = w[i]
  <2>1. 1 <= i /\ i < d /\ d <= k
    BY <1>7, <1>11
  <2>2. i # k /\ w[i] = f[i] /\ f[i] \in Timers
    BY <1>5, <1>6, <1>11, <2>1
  <2>3. CASE d = k
    <3>1. i = c
      BY <1>2, <1>11, <2>3
    <3>2. g.up[t] = f[c]
      BY DEF Appended
    <3>3. QED
      BY <1>6, <2>2, <2>3, <3>1, <3>2
  <2>4. CASE d # k
    <3>1. PICK x : x = f[d]
      OBVIOUS
    <3>2. w[d] = x /\ x \in Timers /\ x # t
      BY <1>3, <1>6, <1>11, <2>4, <3>1
    <3>3. h.up[x] = f[i]
      BY <1>11, <2>1, <3>1, <3>2, PlaceFacts
    <3>4. g.up[x] = h.up[x]
      BY <3>2 DEF Appended
    <3>5. QED
      BY <2>2, <3>2, <3>3, <3>4
  <2>5. QED
    BY <2>3, <2>4
<1>12. g.up[w[1]] = Null
  <2>1. PICK x : x = f[1]
    OBVIOUS
  <2>2. w[1] = x /\ x \in Timers /\ x # t
    BY <1>1, <1>3, <1>5, <1>6, <2>1
  <2>3. h.up[x] = Null
    BY <2>1, <2>2, PlaceFacts
  <2>4. g.up[x] = h.up[x]
    BY <2>2 DEF Appended
  <2>5. QED
    BY <2>2, <2>3, <2>4
<1>13. Lays(g, w, k)
  <2>1. \A i \in Nat : w[i] \in Timers /\ w[2 * i] \in Timers => g.up[w[2 * i]] = w[i]
    BY <1>11
  <2>2. \A i \in Nat : w[i] \in Timers /\ w[2 * i + 1] \in Timers =>
                        g.up[w[2 * i + 1]] = w[i]
    BY <1>11
  <2>3. QED
    BY <1>5, <1>6, <1>7, <1>8, <1>9, <1>10, <1>12, <2>1, <2>2 DEF Lays
<1>14. QED
  BY <1>2, <1>13

\* Without its last element the heap holds the others where they were.
LEMMA TakenLays ==
  ASSUME NEW h, NEW f, NEW n, Lays(h, f, n), n >= 2,
         NEW g, g = SetChild([h EXCEPT !.last = f[n - 1]], h.up[f[n]], f[n], Null)
  PROVE  Lays(g, [f EXCEPT ![n] = Null], n - 1)
<1>1. /\ h \in Heaps /\ n \in Nat /\ f \in [Nat -> Links]
      /\ \A i \in Nat : f[i] \in Timers <=> (1 <= i /\ i <= n)
      /\ \A i, j \in Nat : f[i] \in Timers /\ f[i] = f[j] => i = j
      /\ h.top = f[1]
  BY DEF Lays
<1>2. PICK w, k, t : w = [f EXCEPT ![n] = Null] /\ k = n - 1 /\ t = f[n]
  OBVIOUS
<1>3. t \in Timers /\ k \in Nat /\ k + 1 = n /\ 1 <= k
  BY <1>1, <1>2
<1>4. PICK m \in Nat : /\ m >= 1 /\ m < n /\ (n = 2 * m \/ n = 2 * m + 1)
                       /\ f[m] \in Timers /\ h.up[t] = f[m]
  BY <1>1, <1>2, <1>3, ParentIs
<1>5. PICK h0 : h0 = [h EXCEPT !.last = f[n - 1]]
  OBVIOUS
<1>6. /\ h0 \in Heaps /\ h0.top = h.top /\ h0.last = f[k]
      /\ h0.left = h.left /\ h0.right = h.right /\ h0.up = h.up
  BY <1>1, <1>2, <1>3, <1>5 DEF Heaps
<1>7. ChildSet(g, h0, f[m], t, Null)
  <2>1. f[m] \in Links /\ Null \in Links
    BY <1>1 DEF Links
  <2>2. QED
    BY <1>2, <1>3, <1>4, <1>5, <1>6, <2>1, SetChildIs
<1>8. w \in [Nat -> Links] /\ w[n] = Null /\ \A i \in Nat : i # n => w[i] = f[i]
  BY <1>1, <1>2 DEF Links
<1>9. \A i \in Nat : w[i] \in Timers <=> (1 <= i /\ i <= k)
  BY <1>1, <1>3, <1>8, NullApart
<1>10. \A i, j \in Nat : w[i] \in Timers /\ w[i] = w[j] => i = j
  BY <1>1, <1>8, NullApart
<1>11. g \in Heaps /\ g.top = w[1] /\ g.last = w[k] /\ g.up = h.up
  <2>1. g \in Heaps /\ g.top = h.top /\ g.last = f[k] /\ g.up = h.up
    BY <1>4, <1>6, <1>7, NullApart DEF ChildSet
  <2>2. QED
    BY <1>1, <1>3, <1>8, <2>1
<1>12. h.left[f[m]] = t <=> n = 2 * m
  <2>1. h.left[f[m]] = f[2 * m] /\ 2 * m \in Nat
    BY <1>4, PlaceFacts
  <2>2. \A j \in Nat : f[j] = t => j = n
    BY <1>1, <1>2, <1>3
  <2>3. QED
    BY <1>2, <2>1, <2>2
<1>13. ASSUME NEW i \in Nat, w[i] \in Timers
       PROVE  g.left[w[i]] = w[2 * i] /\ g.right[w[i]] = w[2 * i + 1]
  <2>1. PICK l, r \in Nat : l = 2 * i /\ r = 2 * i + 1
    OBVIOUS
  <2>2. PICK x : x = f[i]
    OBVIOUS
  <2>3. w[i] = x /\ x \in Timers /\ (x = f[m] <=> i = m)
    BY <1>1, <1>8, <1>13, <2>2, NullApart
  <2>4. h.left[x] = f[l] /\ h.right[x] = f[r]
    BY <2>1, <2>2, <2>3, PlaceFacts
  <2>5. /\ g.left[x] = IF i = m /\ n = 2 * m THEN Null ELSE f[l]
        /\ g.right[x] = IF i = m /\ n # 2 * m THEN Null ELSE f[r]
    BY <1>6, <1>7, <1>12, <2>3, <2>4 DEF ChildSet
  <2>6. (i = m /\ n = 2 * m <=> l = n) /\ (i = m /\ n # 2 * m <=> r = n)
    BY <1>4, <2>1
  <2>7. QED
    BY <1>8, <2>1, <2>3, <2>5, <2>6
<1>14. ASSUME NEW i \in Nat, NEW d \in Nat, d = 2 * i \/ d = 2 * i + 1,
              w[i] \in Timers, w[d] \in Timers
       PROVE  g.up[w[d]] = w[i]
  <2>1. w[i] = f[i] /\ w[d] = f[d] /\ f[d] \in Timers /\ i >= 1
    BY <1>8, <1>9, <1>14, NullApart
  <2>2. h.up[f[d]] = f[i]
    BY <1>14, <2>1, PlaceFacts
  <2>3. QED
    BY <1>11, <2>1, <2>2
<1>15. g.up[w[1]] = Null
  <2>1. w[1] = f[1] /\ f[1] \in Timers
    BY <1>1, <1>3, <1>8
  <2>2. QED
    BY <1>11, <2>1, PlaceFacts
<1>16. Lays(g, w, k)
  <2>1. \A i \in Nat : w[i] \in Timers /\ w[2 * i] \in Timers => g.up[w[2 * i]] = w[i]
    BY <1>14
  <2>2. \A i \in Nat : w[i] \in Timers /\ w[2 * i + 1] \in Timers =>
                        g.up[w[2 * i + 1]] = w[i]
    BY <1>14
  <2>3. QED
    BY <1>3, <1>8, <1>9, <1>10, <1>11, <1>13, <1>15, <2>1, <2>2 DEF Lays
<1>17. QED
  BY <1>2, <1>16

\* g is h with x in elem's place: a and b are under it and q is above.
Replaced(g, h, elem, x, a, b, q) ==
  /\ g \in Heaps
  /\ g.top = IF q = Null THEN x ELSE h.top
  /\ g.last = IF h.last = elem THEN x ELSE h.last
  /\ \A y \in Timers :
       /\ g.left[y] = IF y = x THEN a
                      ELSE IF y = q /\ h.left[q] = elem THEN x ELSE h.left[y]
       /\ g.right[y] = IF y = x THEN b
                       ELSE IF y = q /\ h.left[q] # elem THEN x ELSE h.right[y]
       /\ g.up[y] = IF y = x THEN q ELSE IF y = b \/ y = a THEN x ELSE h.up[y]

\* The links remove_from_heap sets when it fills the hole.
Filling(h, elem, x) ==
  LET h2 == SetChild(h, h.up[elem], elem, x)
      h3 == SetUp(SetUp(h2, h.left[elem], x), h.right[elem], x) IN
  [h3 EXCEPT !.up[x] = h.up[elem], !.left[x] = h.left[elem],
             !.right[x] = h.right[elem], !.last = IF @ = elem THEN x ELSE @]

LEMMA FillingIs ==
  ASSUME NEW h \in Heaps, NEW elem \in Timers, NEW x \in Timers,
         NEW a, NEW b, NEW q,
         a = h.left[elem], b = h.right[elem], q = h.up[elem], q # x
  PROVE  Replaced(Filling(h, elem, x), h, elem, x, a, b, q)
<1>1. a \in Links /\ b \in Links /\ q \in Links /\ x \in Links
  BY DEF Heaps, Links
<1>2. PICK h2 : h2 = SetChild(h, q, elem, x)
  OBVIOUS
<1>3. PICK h3 : h3 = SetUp(h2, a, x)
  OBVIOUS
<1>4. PICK h4 : h4 = SetUp(h3, b, x)
  OBVIOUS
<1>5. ChildSet(h2, h, q, elem, x)
  BY <1>1, <1>2, SetChildIs
<1>6. UpSet(h3, h2, a, x)
  <2>1. h2 \in Heaps
    BY <1>5 DEF ChildSet
  <2>2. QED
    BY <1>1, <1>3, <2>1, SetUpIs
<1>7. UpSet(h4, h3, b, x)
  <2>1. h3 \in Heaps
    BY <1>6 DEF UpSet
  <2>2. QED
    BY <1>1, <1>4, <2>1, SetUpIs
<1>8. PICK g : g = [h4 EXCEPT !.up[x] = q, !.left[x] = a, !.right[x] = b,
                             !.last = IF @ = elem THEN x ELSE @]
  OBVIOUS
<1>9. g = Filling(h, elem, x)
  BY <1>2, <1>3, <1>4, <1>8, Zenon DEF Filling
<1>10. h4 \in Heaps
  BY <1>7 DEF UpSet
<1>11. /\ g \in Heaps /\ g.top = h4.top
       /\ g.last = IF h4.last = elem THEN x ELSE h4.last
       /\ \A y \in Timers : /\ g.left[y] = IF y = x THEN a ELSE h4.left[y]
                            /\ g.right[y] = IF y = x THEN b ELSE h4.right[y]
                            /\ g.up[y] = IF y = x THEN q ELSE h4.up[y]
  BY <1>1, <1>8, <1>10 DEF Heaps
<1>12. Replaced(g, h, elem, x, a, b, q)
  BY <1>5, <1>6, <1>7, <1>11 DEF UpSet, ChildSet, Replaced
<1>13. QED
  BY <1>9, <1>12

LEMMA FillingLays ==
  ASSUME NEW h, NEW f, NEW n, Lays(h, f, n), NEW e \in Nat, f[e] \in Timers,
         NEW x \in Timers, x \notin Held(f, n)
  PROVE  Lays(Filling(h, f[e], x), [f EXCEPT ![e] = x], n)
<1>1. /\ h \in Heaps /\ n \in Nat /\ f \in [Nat -> Links]
      /\ \A i \in Nat : f[i] \in Timers <=> (1 <= i /\ i <= n)
      /\ \A i, j \in Nat : f[i] \in Timers /\ f[i] = f[j] => i = j
      /\ h.top = f[1] /\ h.last = f[n]
  BY DEF Lays
<1>2. PICK g, w, p : g = Filling(h, f[e], x) /\ w = [f EXCEPT ![e] = x] /\ p = f[e]
  OBVIOUS
<1>3. PICK a, b, q : a = f[2 * e] /\ b = f[2 * e + 1] /\ q = h.up[p]
  OBVIOUS
<1>4. 1 <= e /\ e <= n /\ h.left[p] = a /\ h.right[p] = b
  BY <1>2, <1>3, PlaceFacts
<1>5. \A i \in Nat : f[i] # x
  BY <1>1 DEF Held
<1>6. PICK m \in Nat : \/ m = 0 /\ e = 1 /\ q = Null
                       \/ m >= 1 /\ m < e /\ (e = 2 * m \/ e = 2 * m + 1)
                          /\ f[m] \in Timers /\ q = f[m]
  <2>1. \/ e = 1 /\ h.up[f[e]] = Null
        \/ \E m \in Nat : /\ m >= 1 /\ m < e /\ (e = 2 * m \/ e = 2 * m + 1)
                          /\ f[m] \in Timers /\ h.up[f[e]] = f[m]
    BY ParentIs
  <2>2. QED
    BY <1>2, <1>3, <2>1
<1>7. Replaced(g, h, p, x, a, b, q)
  <2>1. q # x
    BY <1>5, <1>6, NullApart
  <2>2. QED
    BY <1>1, <1>2, <1>3, <1>4, <2>1, FillingIs
<1>8. w \in [Nat -> Links] /\ w[e] = x /\ \A i \in Nat : i # e => w[i] = f[i]
  BY <1>1, <1>2 DEF Links
<1>9. \A i \in Nat : w[i] \in Timers <=> (1 <= i /\ i <= n)
  BY <1>1, <1>4, <1>8
<1>10. \A i, j \in Nat : w[i] \in Timers /\ w[i] = w[j] => i = j
  BY <1>1, <1>5, <1>8
<1>11. g \in Heaps /\ g.top = w[1]
  <2>1. g \in Heaps /\ g.top = IF q = Null THEN x ELSE h.top
    BY <1>7 DEF Replaced
  <2>2. QED
    BY <1>1, <1>6, <1>8, <2>1, NullApart
<1>12. g.last = w[n]
  <2>1. g.last = IF h.last = p THEN x ELSE h.last
    BY <1>7 DEF Replaced
  <2>2. QED
    BY <1>1, <1>2, <1>8, <2>1
<1>13. ASSUME NEW i \in Nat, w[i] \in Timers
       PROVE  g.left[w[i]] = w[2 * i] /\ g.right[w[i]] = w[2 * i + 1]
  <2>1. PICK l, r \in Nat : l = 2 * i /\ r = 2 * i + 1
    OBVIOUS
  <2>2. 1 <= i
    BY <1>9, <1>13
  <2>3. CASE i = e
    <3>1. g.left[x] = a /\ g.right[x] = b
      BY <1>7 DEF Replaced
    <3>2. w[l] = f[l] /\ w[r] = f[r]
      BY <1>8, <2>1, <2>2, <2>3
    <3>3. QED
      BY <1>3, <1>8, <2>1, <2>3, <3>1, <3>2
  <2>4. CASE i # e
    <3>1. PICK y : y = f[i]
      OBVIOUS
    <3>2. w[i] = y /\ y \in Timers /\ y # x
      BY <1>5, <1>8, <1>13, <2>4, <3>1
    <3>3. h.left[y] = f[l] /\ h.right[y] = f[r]
      BY <2>1, <3>1, <3>2, PlaceFacts
    <3>4. /\ g.left[y] = IF y = q /\ h.left[q] = p THEN x ELSE f[l]
          /\ g.right[y] = IF y = q /\ h.left[q] # p THEN x ELSE f[r]
      BY <1>7, <3>2, <3>3 DEF Replaced
    <3>5. y = q => i = m
      BY <1>1, <1>6, <3>1, <3>2, NullApart
    <3>6. CASE l = e
      <4>1. i = m /\ y = q
        BY <1>4, <1>6, <2>1, <2>2, <3>1, <3>6
      <4>2. h.left[q] = p /\ w[l] = x /\ w[r] = f[r]
        BY <1>2, <1>8, <2>1, <3>3, <3>6, <4>1
      <4>3. QED
        BY <2>1, <3>2, <3>4, <4>1, <4>2
    <3>7. CASE r = e
      <4>1. i = m /\ y = q
        BY <1>4, <1>6, <2>1, <2>2, <3>1, <3>7
      <4>2. h.left[q] # p /\ w[r] = x /\ w[l] = f[l]
        BY <1>1, <1>2, <1>8, <2>1, <3>3, <3>7, <4>1
      <4>3. QED
        BY <2>1, <3>2, <3>4, <4>1, <4>2
    <3>8. CASE l # e /\ r # e
      <4>1. w[l] = f[l] /\ w[r] = f[r]
        BY <1>8, <3>8
      <4>2. y # q
        BY <1>6, <2>1, <3>2, <3>5, <3>8, NullApart
      <4>3. QED
        BY <2>1, <3>2, <3>4, <4>1, <4>2
    <3>9. QED
      BY <3>6, <3>7, <3>8
  <2>5. QED
    BY <2>3, <2>4
<1>14. ASSUME NEW i \in Nat, NEW d \in Nat, d = 2 * i \/ d = 2 * i + 1,
              w[i] \in Timers, w[d] \in Timers
       PROVE  g.up[w[d]] = w[i]
  <2>1. 1 <= i
    BY <1>9, <1>14
  <2>2. CASE d = e
    <3>1. i = m /\ w[i] = q
      BY <1>4, <1>6, <1>8, <1>14, <2>1, <2>2
    <3>2. g.up[x] = q
      BY <1>7 DEF Replaced
    <3>3. QED
      BY <1>8, <2>2, <3>1, <3>2
  <2>3. CASE d # e
    <3>1. PICK y : y = f[d]
      OBVIOUS
    <3>2. w[d] = y /\ y \in Timers /\ y # x
      BY <1>5, <1>8, <1>14, <2>3, <3>1
    <3>3. g.up[y] = IF y = b \/ y = a THEN x ELSE h.up[y]
      BY <1>7, <3>2 DEF Replaced
    <3>4. CASE i = e
      <4>1. y = a \/ y = b
        BY <1>3, <1>14, <3>1, <3>4
      <4>2. QED
        BY <1>8, <3>2, <3>3, <3>4, <4>1
    <3>5. CASE i # e
      <4>1. PICK u, v \in Nat : u = 2 * e /\ v = 2 * e + 1
        OBVIOUS
      <4>2. (y = a => u = d) /\ (y = b => v = d)
        BY <1>1, <1>3, <3>1, <3>2, <4>1
      <4>3. y # a /\ y # b
        BY <1>14, <3>5, <4>1, <4>2
      <4>4. h.up[y] = f[i]
        BY <1>14, <2>1, <3>1, <3>2, PlaceFacts
      <4>5. QED
        BY <1>8, <3>2, <3>3, <3>5, <4>3, <4>4
    <3>6. QED
      BY <3>4, <3>5
  <2>4. QED
    BY <2>2, <2>3
<1>15. g.up[w[1]] = Null
  <2>1. CASE e = 1
    <3>1. g.up[x] = q
      BY <1>7 DEF Replaced
    <3>2. QED
      BY <1>6, <1>8, <2>1, <3>1
  <2>2. CASE e # 1
    <3>1. PICK y : y = f[1]
      OBVIOUS
    <3>2. w[1] = y /\ y \in Timers /\ y # x
      BY <1>1, <1>4, <1>5, <1>8, <2>2, <3>1
    <3>3. y # a /\ y # b
      BY <1>1, <1>3, <1>4, <3>1, <3>2
    <3>4. g.up[y] = h.up[y]
      BY <1>7, <3>2, <3>3 DEF Replaced
    <3>5. h.up[y] = Null
      BY <3>1, <3>2, PlaceFacts
    <3>6. QED
      BY <3>2, <3>4, <3>5
  <2>3. QED
    BY <2>1, <2>2
<1>16. Lays(g, w, n)
  <2>1. \A i \in Nat : w[i] \in Timers /\ w[2 * i] \in Timers => g.up[w[2 * i]] = w[i]
    BY <1>14
  <2>2. \A i \in Nat : w[i] \in Timers /\ w[2 * i + 1] \in Timers =>
                        g.up[w[2 * i + 1]] = w[i]
    BY <1>14
  <2>3. QED
    BY <1>1, <1>8, <1>9, <1>10, <1>11, <1>12, <1>13, <1>15, <2>1, <2>2 DEF Lays
<1>17. QED
  BY <1>2, <1>16

\* The links of a timer that is not in the heap do not matter.
LEMMA UnlinkedLays ==
  ASSUME NEW h, NEW f, NEW n, Lays(h, f, n), NEW t \in Timers, t \notin Held(f, n)
  PROVE  Lays(Unlinked(h, t), f, n)
<1>1. /\ n \in Nat /\ \A i \in Nat : f[i] \in Timers <=> (1 <= i /\ i <= n)
  BY DEF Lays
<1>2. \A i \in Nat : f[i] # t
  BY <1>1 DEF Held
<1>3. PICK g : g = Unlinked(h, t)
  OBVIOUS
<1>4. /\ g \in Heaps /\ g.top = h.top /\ g.last = h.last
      /\ \A y \in Timers : y # t =>
           g.left[y] = h.left[y] /\ g.right[y] = h.right[y] /\ g.up[y] = h.up[y]
  BY <1>3 DEF Unlinked, Lays, Heaps, Links
<1>5. \A i \in Nat : f[i] \in Timers =>
        /\ g.left[f[i]] = h.left[f[i]] /\ g.right[f[i]] = h.right[f[i]]
        /\ g.up[f[i]] = h.up[f[i]]
  BY <1>2, <1>4
<1>6. Lays(g, f, n)
  BY <1>4, <1>5 DEF Lays
<1>7. QED
  BY <1>3, <1>6
-----------------------------------------------------------------------------
(***************************************************************************)
(* Adding and removing a timer.                                            *)
(***************************************************************************)
\* The heap h holds exactly the timers R, in the order of their times.
Holds(h, R, at) ==
  \E f : \E n \in Nat : Lays(h, f, n) /\ Held(f, n) = R /\ InOrder(f, n, at)

\* Only the times of the timers in the heap matter.
LEMMA HoldsTimes ==
  ASSUME NEW h, NEW R, NEW at, NEW at2, Holds(h, R, at), \A t \in R : at[t] = at2[t]
  PROVE  Holds(h, R, at2)
<1>1. PICK f : \E n \in Nat : Lays(h, f, n) /\ Held(f, n) = R /\ InOrder(f, n, at)
  BY DEF Holds
<1>2. PICK n \in Nat : Lays(h, f, n) /\ Held(f, n) = R /\ InOrder(f, n, at)
  BY <1>1
<1>3. ASSUME NEW i \in Nat, NEW c \in Nat, 1 <= i, c <= n, Under(i, c)
      PROVE  at2[f[i]] <= at2[f[c]]
  <2>1. i < c
    BY <1>3, UnderFacts
  <2>2. i \in 1 .. n /\ c \in 1 .. n
    BY <1>3, <2>1
  <2>3. f[i] \in R /\ f[c] \in R
    BY <1>2, <2>2 DEF Held
  <2>4. at[f[i]] <= at[f[c]]
    BY <1>2, <1>3 DEF InOrder
  <2>5. QED
    BY <2>3, <2>4
<1>4. InOrder(f, n, at2)
  BY <1>3 DEF InOrder
<1>5. QED
  BY <1>2, <1>4 DEF Holds

LEMMA AddHolds ==
  ASSUME NEW h, NEW R, NEW at \in Times, Holds(h, R, at), NEW t \in Timers, t \notin R
  PROVE  Holds(AddToHeap(h, t, at), R \cup {t}, at)
<1>1. PICK f : \E n \in Nat : Lays(h, f, n) /\ Held(f, n) = R /\ InOrder(f, n, at)
  BY DEF Holds
<1>2. PICK n \in Nat : Lays(h, f, n) /\ Held(f, n) = R /\ InOrder(f, n, at)
  BY <1>1
<1>3. /\ h \in Heaps /\ f \in [Nat -> Links] /\ h.top = f[1] /\ h.last = f[n]
      /\ \A i \in Nat : f[i] \in Timers <=> (1 <= i /\ i <= n)
  BY <1>2 DEF Lays
<1>4. PICK h1 : h1 = [h EXCEPT !.left[t] = Null, !.right[t] = Null, !.up[t] = Null,
                               !.last = t]
  OBVIOUS
<1>5. /\ h1 \in Heaps /\ h1.top = h.top /\ h1.last = t
      /\ \A x \in Timers : /\ h1.left[x] = IF x = t THEN Null ELSE h.left[x]
                           /\ h1.right[x] = IF x = t THEN Null ELSE h.right[x]
                           /\ h1.up[x] = IF x = t THEN Null ELSE h.up[x]
  BY <1>3, <1>4 DEF Heaps, Links
<1>6. PICK k, w : k = n + 1 /\ w = [f EXCEPT ![n + 1] = t]
  OBVIOUS
<1>7. /\ k \in Nat /\ w \in [Nat -> Links] /\ w[k] = t
      /\ \A i \in Nat : i # k => w[i] = f[i]
  BY <1>3, <1>6 DEF Links
<1>8. Held(w, k) = R \cup {t}
  <2>1. \A i \in 1 .. k : i = k \/ i \in 1 .. n
    BY <1>6
  <2>2. \A i \in 1 .. n : w[i] = f[i] /\ i \in 1 .. k
    BY <1>6, <1>7
  <2>3. k \in 1 .. k
    BY <1>6
  <2>4. Held(w, k) \subseteq R \cup {t}
    BY <1>2, <1>7, <2>1, <2>2 DEF Held
  <2>5. R \cup {t} \subseteq Held(w, k)
    BY <1>2, <1>7, <2>2, <2>3 DEF Held
  <2>6. QED
    BY <2>4, <2>5
<1>9. CASE n = 0
  <2>1. h.top = Null
    BY <1>3, <1>9 DEF Links
  <2>2. PICK g : g = [h1 EXCEPT !.top = t]
    OBVIOUS
  <2>3. AddToHeap(h, t, at) = g
    BY <1>4, <2>1, <2>2 DEF AddToHeap
  <2>4. /\ g \in Heaps /\ g.top = t /\ g.last = t
        /\ g.left[t] = Null /\ g.right[t] = Null /\ g.up[t] = Null
    BY <1>5, <2>2 DEF Heaps, Links
  <2>5. k = 1 /\ w[1] = t /\ \A i \in Nat : i # 1 => w[i] = Null
    BY <1>3, <1>6, <1>7, <1>9 DEF Links
  <2>6. \A i \in Nat : w[i] \in Timers <=> i = 1
    BY <2>5, NullApart
  <2>7. Lays(g, w, k)
    BY <1>7, <2>4, <2>5, <2>6 DEF Lays
  <2>8. InOrder(w, k, at)
    BY <2>5 DEF InOrder, Under
  <2>9. QED
    BY <1>7, <1>8, <2>3, <2>7, <2>8 DEF Holds
<1>10. CASE n >= 1
  <2>1. PICK c \in Nat : /\ 1 <= c /\ c <= n /\ f[c] \in Timers
                         /\ \/ /\ n + 1 = 2 * c
                               /\ FindNextPos(h, f[n]) = [parent |-> f[c], left |-> TRUE]
                            \/ /\ n + 1 = 2 * c + 1
                               /\ FindNextPos(h, f[n]) = [parent |-> f[c], left |-> FALSE]
    BY <1>2, <1>10, NextPosIs
  <2>2. PICK left \in BOOLEAN :
             /\ n + 1 = IF left THEN 2 * c ELSE 2 * c + 1
             /\ FindNextPos(h, h.last) = [parent |-> f[c], left |-> left]
    BY <1>3, <2>1
  <2>3. PICK g : g = IF left THEN [h1 EXCEPT !.left[f[c]] = t, !.up[t] = f[c]]
                             ELSE [h1 EXCEPT !.right[f[c]] = t, !.up[t] = f[c]]
    OBVIOUS
  <2>4. AddToHeap(h, t, at) = SendUp(g, t, at)
    <3>1. h.top # Null
      BY <1>3, <1>10, NullApart
    <3>2. PICK p : p = FindNextPos(h, h.last)
      OBVIOUS
    <3>3. p.left = left /\ p.parent = f[c]
      BY <2>2, <3>2
    <3>4. QED
      BY <1>4, <2>3, <3>1, <3>2, <3>3 DEF AddToHeap
  <2>5. f[c] # t
    BY <1>2, <2>1 DEF Held
  <2>6. Appended(g, h, t, f[c], left)
    <3>1. CASE left
      BY <1>5, <2>1, <2>3, <2>5, <3>1 DEF Appended, Heaps, Links
    <3>2. CASE ~ left
      BY <1>5, <2>1, <2>3, <2>5, <3>2 DEF Appended, Heaps, Links
    <3>3. QED
      BY <3>1, <3>2
  <2>7. Lays(g, w, k)
    <3>1. t \notin Held(f, n)
      BY <1>2
    <3>2. Lays(g, [f EXCEPT ![n + 1] = t], n + 1)
      BY <1>2, <2>1, <2>2, <2>6, <3>1, AppendLays
    <3>3. QED
      BY <1>6, <3>2
  <2>8. OrderUp(w, k, at, k)
    <3>1. ASSUME NEW i \in Nat, NEW d \in Nat, 1 <= i, d <= k, Under(i, d), d # k
          PROVE  at[w[i]] <= at[w[d]]
      <4>1. i < d /\ d <= n
        BY <1>6, <3>1, UnderFacts
      <4>2. at[f[i]] <= at[f[d]]
        BY <1>2, <3>1, <4>1 DEF InOrder
      <4>3. w[i] = f[i] /\ w[d] = f[d]
        BY <1>6, <1>7, <4>1
      <4>4. QED
        BY <4>2, <4>3
    <3>2. \A d \in Nat : d <= k => ~ Under(k, d)
      BY <1>6 DEF Under
    <3>3. QED
      BY <3>1, <3>2 DEF OrderUp, OrderAround
  <2>9. PICK v : /\ Lays(SendUp(g, w[k], at), v, k)
                 /\ Held(v, k) = Held(w, k) /\ InOrder(v, k, at)
    BY <1>7, <2>7, <2>8, SendUpOrders
  <2>10. QED
    BY <1>7, <1>8, <2>4, <2>9 DEF Holds
<1>11. QED
  BY <1>9, <1>10

\* Wherever the element at e belongs, up or down, it is brought there.
LEMMA SettleHolds ==
  ASSUME NEW h, NEW f, NEW n \in Nat, Lays(h, f, n), NEW at \in Times, NEW e \in Nat,
         f[e] \in Timers, OrderAround(f, n, at, e),
         \A i, c \in Nat : 1 <= i /\ c <= n /\ Under(i, c) /\ i # e /\ c # e =>
                             at[f[i]] <= at[f[c]]
  PROVE  Holds(Settle(h, f[e], at), Held(f, n), at)
<1>1. Filled(f, n) /\ 1 <= e /\ e <= n
  BY LaysFilled
<1>2. \A i \in Nat : 1 <= i /\ i <= n => at[f[i]] \in Nat
  BY <1>1 DEF Filled, Times
<1>3. ASSUME NEW i \in Nat, 1 <= i, Under(i, e)
      PROVE  f[i] \in Timers /\ h.up[f[e]] = f[i]
  BY <1>3, PlaceFacts DEF Under
<1>4. CASE TooLow(h, f[e], at)
  <2>1. PICK m \in Nat : m >= 1 /\ m < e /\ Under(m, e) /\ at[f[e]] < at[f[m]]
    <3>1. h.up[f[e]] # Null /\ at[f[e]] < at[h.up[f[e]]]
      BY <1>4 DEF TooLow
    <3>2. QED
      BY <3>1, ParentIs DEF Under
  <2>2. ASSUME NEW i \in Nat, NEW c \in Nat, 1 <= i, c <= n, Under(i, c), c # e
        PROVE  at[f[i]] <= at[f[c]]
    <3>1. CASE i = e
      <4>1. at[f[m]] <= at[f[c]]
        BY <2>1, <2>2, <3>1 DEF OrderAround
      <4>2. 1 <= c /\ m <= n
        BY <1>1, <2>1, <2>2, UnderFacts
      <4>3. at[f[m]] \in Nat /\ at[f[c]] \in Nat /\ at[f[e]] \in Nat
        BY <1>1, <1>2, <2>1, <2>2, <4>2
      <4>4. QED
        BY <2>1, <3>1, <4>1, <4>3
    <3>2. CASE i # e
      BY <2>2, <3>2
    <3>3. QED
      BY <3>1, <3>2
  <2>3. OrderUp(f, n, at, e)
    BY <2>2 DEF OrderUp
  <2>4. PICK w : /\ Lays(SendUp(h, f[e], at), w, n)
                 /\ Held(w, n) = Held(f, n) /\ InOrder(w, n, at)
    BY <2>3, SendUpOrders
  <2>5. QED
    BY <1>4, <2>4 DEF Settle, Holds
<1>5. CASE ~ TooLow(h, f[e], at)
  <2>1. ASSUME NEW i \in Nat, NEW c \in Nat, 1 <= i, c <= n, Under(i, c), i # e
        PROVE  at[f[i]] <= at[f[c]]
    <3>1. CASE c = e
      <4>1. f[i] \in Timers /\ h.up[f[e]] = f[i]
        BY <1>3, <2>1, <3>1
      <4>2. ~ (at[f[e]] < at[f[i]])
        BY <1>5, <4>1, NullApart DEF TooLow
      <4>3. at[f[e]] \in Nat /\ at[f[i]] \in Nat
        BY <4>1 DEF Times
      <4>4. QED
        BY <3>1, <4>2, <4>3
    <3>2. CASE c # e
      BY <2>1, <3>2
    <3>3. QED
      BY <3>1, <3>2
  <2>2. OrderDown(f, n, at, e)
    BY <2>1 DEF OrderDown
  <2>3. PICK w : /\ Lays(SendDown(h, f[e], at), w, n)
                 /\ Held(w, n) = Held(f, n) /\ InOrder(w, n, at)
    BY <2>2, SendDownOrders
  <2>4. QED
    BY <1>5, <2>3 DEF Settle, Holds
<1>6. QED
  BY <1>4, <1>5

LEMMA UnlinkedHolds ==
  ASSUME NEW h, NEW R, NEW at, Holds(h, R, at), NEW t \in Timers, t \notin R
  PROVE  Holds(Unlinked(h, t), R, at)
<1>1. PICK f : \E n \in Nat : Lays(h, f, n) /\ Held(f, n) = R /\ InOrder(f, n, at)
  BY DEF Holds
<1>2. PICK n \in Nat : Lays(h, f, n) /\ Held(f, n) = R /\ InOrder(f, n, at)
  BY <1>1
<1>3. Lays(Unlinked(h, t), f, n)
  BY <1>2, UnlinkedLays
<1>4. QED
  BY <1>2, <1>3 DEF Holds

\* What remove_from_heap does, unless the heap becomes empty.
LEMMA RemoveIs ==
  ASSUME NEW h, NEW t, NEW at, h.up[h.last] # Null,
         NEW h1, h1 = SetChild([h EXCEPT !.last = FindPrevElem(h, h.last)],
                               h.up[h.last], h.last, Null)
  PROVE  RemoveFromHeap(h, t, at) =
           IF t = h.last THEN Unlinked(h1, t)
           ELSE Unlinked(Settle(Filling(h1, t, h.last), h.last, at), t)
<1>1. RemoveFromHeap(h, t, at) =
        LET g == SetChild([h EXCEPT !.last = FindPrevElem(h, h.last)],
                          h.up[h.last], h.last, Null) IN
        IF h.up[h.last] = Null THEN Unlinked([h EXCEPT !.top = Null, !.last = Null], t)
        ELSE IF t = h.last THEN Unlinked(g, t)
        ELSE Unlinked(Settle(Filling(g, t, h.last), h.last, at), t)
  BY DEF RemoveFromHeap, Filling
<1>2. QED
  BY <1>1

LEMMA RemoveHolds ==
  ASSUME NEW h, NEW R, NEW at \in Times, Holds(h, R, at), NEW t \in R
  PROVE  Holds(RemoveFromHeap(h, t, at), R \ {t}, at)
<1>1. PICK f : \E n \in Nat : Lays(h, f, n) /\ Held(f, n) = R /\ InOrder(f, n, at)
  BY DEF Holds
<1>2. PICK n \in Nat : Lays(h, f, n) /\ Held(f, n) = R /\ InOrder(f, n, at)
  BY <1>1
<1>3. /\ h \in Heaps /\ f \in [Nat -> Links] /\ h.top = f[1] /\ h.last = f[n]
      /\ \A i \in Nat : f[i] \in Timers <=> (1 <= i /\ i <= n)
      /\ \A i, j \in Nat : f[i] \in Timers /\ f[i] = f[j] => i = j
  BY <1>2 DEF Lays
<1>4. PICK e \in 1 .. n : t = f[e]
  BY <1>2 DEF Held
<1>5. e \in Nat /\ 1 <= e /\ e <= n /\ n >= 1 /\ f[e] \in Timers /\ t \in Timers
  BY <1>3, <1>4
<1>6. PICK x : x = f[n]
  OBVIOUS
<1>7. x \in Timers
  BY <1>3, <1>5, <1>6
<1>8. CASE n = 1
  <2>1. e = 1 /\ x = t /\ h.up[x] = Null
    BY <1>2, <1>4, <1>5, <1>6, <1>7, <1>8, PlaceFacts
  <2>2. PICK g : g = [h EXCEPT !.top = Null, !.last = Null]
    OBVIOUS
  <2>3. RemoveFromHeap(h, t, at) = Unlinked(g, t)
    BY <1>3, <1>6, <2>1, <2>2 DEF RemoveFromHeap
  <2>4. PICK w : w = [i \in Nat |-> Null]
    OBVIOUS
  <2>5. g \in Heaps /\ g.top = Null /\ g.last = Null
    BY <1>3, <2>2 DEF Heaps, Links
  <2>6. Lays(g, w, 0)
    <3>1. w \in [Nat -> Links] /\ \A i \in Nat : w[i] = Null /\ w[i] \notin Timers
      BY <2>4, NullApart DEF Links
    <3>2. QED
      BY <2>5, <3>1 DEF Lays
  <2>7. Held(w, 0) = {}
    BY DEF Held
  <2>8. R \ {t} = {}
    BY <1>2, <1>4, <1>8, <2>1 DEF Held
  <2>9. InOrder(w, 0, at)
    BY DEF InOrder, Under
  <2>10. Holds(g, R \ {t}, at)
    BY <2>6, <2>7, <2>8, <2>9 DEF Holds
  <2>11. QED
    BY <1>5, <2>3, <2>10, UnlinkedHolds
<1>9. CASE n >= 2
  <2>1. h.up[x] # Null
    BY <1>2, <1>6, <1>7, <1>9, ParentIs, NullApart
  <2>2. PICK h1 : h1 = SetChild([h EXCEPT !.last = f[n - 1]], h.up[x], x, Null)
    OBVIOUS
  <2>3. FindPrevElem(h, x) = f[n - 1]
    BY <1>2, <1>6, <1>9, PrevElemIs
  <2>4. RemoveFromHeap(h, t, at) =
          IF t = x THEN Unlinked(h1, t)
          ELSE Unlinked(Settle(Filling(h1, t, x), x, at), t)
    <3>1. h1 = SetChild([h EXCEPT !.last = FindPrevElem(h, h.last)], h.up[h.last],
                        h.last, Null)
      BY <1>3, <1>6, <2>2, <2>3
    <3>2. h.up[h.last] # Null
      BY <1>3, <1>6, <2>1
    <3>3. RemoveFromHeap(h, t, at) =
            IF t = h.last THEN Unlinked(h1, t)
            ELSE Unlinked(Settle(Filling(h1, t, h.last), h.last, at), t)
      BY <3>1, <3>2, RemoveIs
    <3>4. QED
      BY <1>3, <1>6, <3>3
  <2>5. PICK k, w : k = n - 1 /\ w = [f EXCEPT ![n] = Null]
    OBVIOUS
  <2>6. k \in Nat /\ n = k + 1 /\ w[n] = Null /\ \A i \in Nat : i # n => w[i] = f[i]
    BY <1>3, <1>9, <2>5
  <2>7. Lays(h1, w, k)
    BY <1>2, <1>6, <1>9, <2>2, <2>5, TakenLays
  <2>8. Held(w, k) = R \ {x}
    <3>1. \A i \in 1 .. n : f[i] # x => i \in 1 .. k
      BY <1>6, <2>6
    <3>2. \A i \in 1 .. k : w[i] = f[i] /\ f[i] # x /\ i \in 1 .. n
      BY <1>3, <1>6, <1>7, <2>6
    <3>3. Held(w, k) \subseteq R \ {x}
      BY <1>2, <3>2 DEF Held
    <3>4. R \ {x} \subseteq Held(w, k)
      BY <1>2, <3>1, <3>2 DEF Held
    <3>5. QED
      BY <3>3, <3>4
  <2>9. InOrder(w, k, at)
    <3>1. SUFFICES ASSUME NEW i \in Nat, NEW c \in Nat, 1 <= i, c <= k, Under(i, c)
                   PROVE  at[w[i]] <= at[w[c]]
      BY DEF InOrder
    <3>2. i < c /\ c <= n /\ i # n /\ c # n
      BY <2>6, <3>1, UnderFacts
    <3>3. QED
      BY <1>2, <2>6, <3>1, <3>2 DEF InOrder
  <2>10. CASE t = x
    <3>1. Holds(h1, R \ {t}, at)
      BY <2>6, <2>7, <2>8, <2>9, <2>10 DEF Holds
    <3>2. QED
      BY <1>5, <2>4, <2>10, <3>1, UnlinkedHolds
  <2>11. CASE t # x
    <3>1. e # n /\ e <= k /\ w[e] = t
      BY <1>4, <1>5, <1>6, <2>6, <2>11
    <3>2. PICK v : v = [w EXCEPT ![e] = x]
      OBVIOUS
    <3>3. PICK g : g = Filling(h1, t, x)
      OBVIOUS
    <3>4. Lays(g, v, k)
      <4>1. x \notin Held(w, k)
        BY <2>8
      <4>2. Lays(Filling(h1, w[e], x), [w EXCEPT ![e] = x], k)
        BY <1>5, <1>7, <2>7, <3>1, <4>1, FillingLays
      <4>3. QED
        BY <3>1, <3>2, <3>3, <4>2
    <3>5. v[e] = x /\ \A i \in Nat : i # e => v[i] = w[i]
      BY <1>5, <2>7, <3>2 DEF Lays
    <3>6. Held(v, k) = R \ {t}
      <4>1. e \in 1 .. k /\ \A i \in 1 .. k : i # e => v[i] = w[i] /\ w[i] # t
        <5>1. e \in 1 .. k
          BY <1>5, <3>1
        <5>2. \A i \in 1 .. k : i # e => w[i] # t
          BY <1>5, <2>7, <3>1 DEF Lays
        <5>3. QED
          BY <3>5, <5>1, <5>2
      <4>2. Held(v, k) \subseteq (Held(w, k) \ {t}) \cup {x}
        BY <2>11, <3>5, <4>1 DEF Held
      <4>3. (Held(w, k) \ {t}) \cup {x} \subseteq Held(v, k)
        BY <3>1, <3>5, <4>1 DEF Held
      <4>4. x \in R
        <5>1. n \in 1 .. n
          BY <1>5
        <5>2. QED
          BY <1>2, <1>6, <5>1 DEF Held
      <4>5. QED
        BY <2>8, <2>11, <4>2, <4>3, <4>4
    <3>7. ASSUME NEW i \in Nat, NEW c \in Nat, 1 <= i, c <= k, Under(i, c), i # e, c # e
          PROVE  at[v[i]] <= at[v[c]]
      BY <2>9, <3>5, <3>7 DEF InOrder
    <3>8. ASSUME NEW m \in Nat, NEW c \in Nat, 1 <= m, c <= k, Under(m, e), Under(e, c)
          PROVE  at[v[m]] <= at[v[c]]
      <4>1. m < e /\ e < c
        BY <1>5, <3>8, UnderFacts
      <4>2. at[w[m]] <= at[w[e]] /\ at[w[e]] <= at[w[c]]
        BY <1>5, <2>9, <3>1, <3>8 DEF InOrder
      <4>3. w[m] \in Timers /\ w[e] \in Timers /\ w[c] \in Timers
        <5>1. m <= k /\ 1 <= c
          BY <2>6, <3>1, <3>8, <4>1
        <5>2. Filled(w, k)
          BY <2>7, LaysFilled
        <5>3. QED
          BY <1>5, <3>1, <3>8, <5>1, <5>2 DEF Filled
      <4>4. at[w[m]] \in Nat /\ at[w[e]] \in Nat /\ at[w[c]] \in Nat
        BY <4>3 DEF Times
      <4>5. v[m] = w[m] /\ v[c] = w[c]
        BY <1>5, <3>5, <4>1
      <4>6. QED
        BY <4>2, <4>4, <4>5
    <3>9. Holds(Settle(g, v[e], at), Held(v, k), at)
      <4>1. OrderAround(v, k, at, e)
        BY <3>8 DEF OrderAround
      <4>2. v[e] \in Timers
        BY <1>7, <3>5
      <4>3. QED
        BY <1>5, <2>6, <3>4, <3>7, <4>1, <4>2, SettleHolds
    <3>10. QED
      <4>1. PICK u : u = Settle(g, x, at)
        OBVIOUS
      <4>2. Holds(u, R \ {t}, at)
        BY <3>5, <3>6, <3>9, <4>1
      <4>3. Holds(Unlinked(u, t), R \ {t}, at)
        BY <1>5, <4>2, UnlinkedHolds
      <4>4. QED
        BY <2>4, <2>11, <3>3, <4>1, <4>3
  <2>12. QED
    BY <2>10, <2>11
<1>10. QED
  BY <1>5, <1>8, <1>9

LEMMA EmptyHolds ==
  ASSUME NEW h \in Heaps, h.top = Null, h.last = Null, NEW at
  PROVE  Holds(h, {}, at)
<1>1. PICK w : w = [i \in Nat |-> Null]
  OBVIOUS
<1>2. w \in [Nat -> Links] /\ \A i \in Nat : w[i] = Null /\ w[i] \notin Timers
  BY <1>1, NullApart DEF Links
<1>3. Lays(h, w, 0)
  BY <1>2 DEF Lays
<1>4. Held(w, 0) = {}
  BY DEF Held
<1>5. InOrder(w, 0, at)
  BY DEF InOrder, Under
<1>6. QED
  BY <1>3, <1>4, <1>5 DEF Holds

\* On top is the first of the timers in the heap.
LEMMA TopIsFirst ==
  ASSUME NEW h, NEW R, NEW at \in Times, Holds(h, R, at)
  PROVE  /\ R \subseteq Timers
         /\ h.top = Null => R = {}
         /\ h.top # Null => h.top \in R
         /\ \A t \in R : at[h.top] <= at[t]
<1>1. PICK f : \E n \in Nat : Lays(h, f, n) /\ Held(f, n) = R /\ InOrder(f, n, at)
  BY DEF Holds
<1>2. PICK n \in Nat : Lays(h, f, n) /\ Held(f, n) = R /\ InOrder(f, n, at)
  BY <1>1
<1>3. /\ f \in [Nat -> Links] /\ h.top = f[1]
      /\ \A i \in Nat : f[i] \in Timers <=> (1 <= i /\ i <= n)
  BY <1>2 DEF Lays
<1>4. \A i \in Nat : 1 <= i /\ i <= n => at[f[i]] \in Nat
  BY <1>3 DEF Times
<1>5. PICK S : S = {k \in Nat : \A i \in Nat : 1 <= i /\ i <= k /\ i <= n =>
                                                 at[f[1]] <= at[f[i]]}
  OBVIOUS
<1>6. 0 \in S
  BY <1>5
<1>7. ASSUME NEW k \in Nat, k \in S PROVE k + 1 \in S
  <2>1. ASSUME NEW i \in Nat, 1 <= i, i <= k + 1, i <= n
        PROVE  at[f[1]] <= at[f[i]]
    <3>1. CASE i = 1
      BY <1>4, <2>1, <3>1
    <3>2. CASE i >= 2
      <4>1. PICK m \in Nat : m >= 1 /\ m < i /\ (i = 2 * m \/ i = 2 * m + 1)
        BY <3>2, Halves
      <4>2. at[f[1]] <= at[f[m]]
        BY <1>5, <1>7, <2>1, <4>1
      <4>3. at[f[m]] <= at[f[i]]
        BY <1>2, <2>1, <4>1 DEF InOrder, Under
      <4>4. at[f[1]] \in Nat /\ at[f[m]] \in Nat /\ at[f[i]] \in Nat
        BY <1>4, <2>1, <4>1
      <4>5. QED
        BY <4>2, <4>3, <4>4
    <3>3. QED
      BY <2>1, <3>1, <3>2
  <2>2. QED
    BY <1>5, <2>1
<1>8. n \in S
  BY <1>6, <1>7, Induction
<1>9. \A t \in R : at[h.top] <= at[t]
  <2>1. SUFFICES ASSUME NEW t \in R PROVE at[h.top] <= at[t]
    OBVIOUS
  <2>2. PICK i \in 1 .. n : t = f[i]
    BY <1>2 DEF Held
  <2>3. QED
    BY <1>3, <1>5, <1>8, <2>2
<1>10. R \subseteq Timers
  BY <1>2, <1>3 DEF Held
<1>11. h.top = Null => R = {}
  <2>1. SUFFICES ASSUME h.top = Null PROVE R = {}
    OBVIOUS
  <2>2. n = 0
    <3>1. n >= 1 => f[1] \in Timers
      BY <1>3
    <3>2. QED
      BY <1>3, <2>1, <3>1, NullApart
  <2>3. QED
    BY <1>2, <2>2 DEF Held
<1>12. h.top # Null => h.top \in R
  <2>1. SUFFICES ASSUME h.top # Null PROVE h.top \in R
    OBVIOUS
  <2>2. 1 \in 1 .. n
    BY <1>3, <2>1 DEF Links
  <2>3. QED
    BY <1>2, <1>3, <2>2 DEF Held
<1>13. QED
  BY <1>9, <1>10, <1>11, <1>12
-----------------------------------------------------------------------------
(***************************************************************************)
(* The timers of the select loop.                                          *)
(***************************************************************************)
TimerTypes ==
  /\ timeout \in Times /\ in_heap \in [Timers -> BOOLEAN]
  /\ now \in Nat /\ to_time \in Nat

\* The inductive invariant: the heap holds the running timers in order.
TimersInv ==
  /\ TimerTypes
  /\ Holds(heap, Running, timeout)
  /\ SleepsUntilFirst

LEMMA TimersInit ==
  ASSUME Init
  PROVE  TimersInv
<1>1. TimerTypes
  BY TimerAssumption DEF Init, TimerTypes, Times, For_ever
<1>2. Running = {}
  BY DEF Init, Running
<1>3. heap \in Heaps /\ heap.top = Null /\ heap.last = Null
  BY DEF Init, Heaps, Links
<1>4. Holds(heap, Running, timeout)
  BY <1>2, <1>3, EmptyHolds
<1>5. SleepsUntilFirst
  BY DEF Init, SleepsUntilFirst
<1>6. QED
  BY <1>1, <1>4, <1>5 DEF TimersInv

LEMMA StartHolds ==
  ASSUME TimerTypes, Holds(heap, Running, timeout), NEW t \in Timers, NEW when \in Nat,
         StartTimer(t, when)
  PROVE  /\ timeout' \in Times /\ in_heap' \in [Timers -> BOOLEAN]
         /\ Holds(heap', Running', timeout')
<1>1. /\ ~ in_heap[t] /\ timeout' = [timeout EXCEPT ![t] = when]
      /\ heap' = AddToHeap(heap, t, timeout') /\ in_heap' = [in_heap EXCEPT ![t] = TRUE]
  BY DEF StartTimer
<1>2. timeout' \in Times /\ in_heap' \in [Timers -> BOOLEAN]
  BY <1>1 DEF TimerTypes, Times
<1>3. t \notin Running /\ Running' = Running \cup {t}
  BY <1>1 DEF Running, TimerTypes
<1>4. \A u \in Running : timeout[u] = timeout'[u]
  BY <1>1, <1>3 DEF TimerTypes, Times, Running
<1>5. Holds(heap, Running, timeout')
  BY <1>4, HoldsTimes
<1>6. QED
  BY <1>1, <1>2, <1>3, <1>5, AddHolds

LEMMA StopHolds ==
  ASSUME TimerTypes, Holds(heap, Running, timeout), NEW t \in Timers, StopTimer(t)
  PROVE  /\ timeout' \in Times /\ in_heap' \in [Timers -> BOOLEAN]
         /\ Holds(heap', Running', timeout')
<1>1. /\ in_heap[t] /\ timeout' = [timeout EXCEPT ![t] = 0]
      /\ heap' = RemoveFromHeap(heap, t, timeout)
      /\ in_heap' = [in_heap EXCEPT ![t] = FALSE]
  BY DEF StopTimer
<1>2. timeout' \in Times /\ in_heap' \in [Timers -> BOOLEAN]
  BY <1>1 DEF TimerTypes, Times
<1>3. t \in Running /\ Running' = Running \ {t}
  BY <1>1 DEF Running, TimerTypes
<1>4. Holds(heap', Running', timeout)
  BY <1>1, <1>3, RemoveHolds DEF TimerTypes
<1>5. \A u \in Running' : timeout[u] = timeout'[u]
  BY <1>1, <1>3 DEF TimerTypes, Times, Running
<1>6. QED
  BY <1>2, <1>4, <1>5, HoldsTimes

\* What is on top when a timer is due is the first of all, and is called.
LEMMA FireHolds ==
  ASSUME TimerTypes, Holds(heap, Running, timeout), FireTimer
  PROVE  /\ timeout' \in Times /\ in_heap' \in [Timers -> BOOLEAN]
         /\ Holds(heap', Running', timeout')
<1>1. PICK t : t = heap.top
  OBVIOUS
<1>2. t # Null
  BY <1>1 DEF FireTimer
<1>3. t \in Running /\ t \in Timers
  BY <1>1, <1>2, TopIsFirst DEF TimerTypes
<1>4. PICK h : h = RemoveFromHeap(heap, t, timeout)
  OBVIOUS
<1>5. Holds(h, Running \ {t}, timeout)
  BY <1>3, <1>4, RemoveHolds DEF TimerTypes
<1>6. \/ /\ heap' = h /\ in_heap' = [in_heap EXCEPT ![t] = FALSE]
         /\ timeout' = [timeout EXCEPT ![t] = 0]
      \/ /\ timeout' = [timeout EXCEPT ![t] = now + 1]
         /\ heap' = AddToHeap(h, t, timeout') /\ in_heap' = in_heap
  BY <1>1, <1>4 DEF FireTimer
<1>7. timeout' \in Times /\ in_heap' \in [Timers -> BOOLEAN]
  <2>1. now + 1 \in Nat /\ timeout \in Times /\ in_heap \in [Timers -> BOOLEAN]
    BY DEF TimerTypes
  <2>2. timeout' \in Times
    BY <1>6, <2>1 DEF Times
  <2>3. in_heap' \in [Timers -> BOOLEAN]
    BY <1>6, <2>1
  <2>4. QED
    BY <2>2, <2>3
<1>8. \A u \in Running \ {t} : timeout[u] = timeout'[u]
  BY <1>3, <1>6 DEF TimerTypes, Times, Running
<1>9. Holds(h, Running \ {t}, timeout')
  BY <1>5, <1>8, HoldsTimes
<1>10. CASE heap' = h /\ in_heap' = [in_heap EXCEPT ![t] = FALSE]
  <2>1. Running' = Running \ {t}
    BY <1>3, <1>10 DEF Running, TimerTypes
  <2>2. QED
    BY <1>7, <1>9, <1>10, <2>1
<1>11. CASE heap' = AddToHeap(h, t, timeout') /\ in_heap' = in_heap
  <2>1. Running' = (Running \ {t}) \cup {t}
    BY <1>3, <1>11 DEF Running
  <2>2. t \notin Running \ {t}
    OBVIOUS
  <2>3. Holds(AddToHeap(h, t, timeout'), (Running \ {t}) \cup {t}, timeout')
    BY <1>3, <1>7, <1>9, <2>2, AddHolds
  <2>4. QED
    BY <1>7, <1>11, <2>1, <2>3
<1>12. QED
  BY <1>6, <1>10, <1>11

LEMMA TimersStep ==
  ASSUME TimersInv, [Next]_vars
  PROVE  TimersInv'
<1>1. TimerTypes /\ Holds(heap, Running, timeout) /\ SleepsUntilFirst
  BY DEF TimersInv
<1>2. CASE HandleFile
  <2>1. PICK t \in Timers :
          StopTimer(t) \/ \E when \in now .. MaxTime + 1 : StartTimer(t, when)
    BY <1>2 DEF HandleFile
  <2>2. /\ timeout' \in Times /\ in_heap' \in [Timers -> BOOLEAN]
        /\ Holds(heap', Running', timeout')
    <3>1. CASE StopTimer(t)
      BY <1>1, <3>1, StopHolds
    <3>2. CASE \E when \in now .. MaxTime + 1 : StartTimer(t, when)
      <4>1. PICK when \in now .. MaxTime + 1 : StartTimer(t, when)
        BY <3>2
      <4>2. when \in Nat
        BY <1>1, TimerAssumption DEF TimerTypes
      <4>3. QED
        BY <1>1, <4>1, <4>2, StartHolds
    <3>3. QED
      BY <2>1, <3>1, <3>2
  <2>3. now' = now /\ to_time' = to_time /\ loop' = "io"
    BY <1>2 DEF HandleFile
  <2>4. QED
    BY <1>1, <2>2, <2>3 DEF TimersInv, TimerTypes, SleepsUntilFirst
<1>3. CASE FireTimer
  <2>1. /\ timeout' \in Times /\ in_heap' \in [Timers -> BOOLEAN]
        /\ Holds(heap', Running', timeout')
    BY <1>1, <1>3, FireHolds
  <2>2. now' = now /\ to_time' = to_time /\ loop' = "timers"
    BY <1>3 DEF FireTimer
  <2>3. QED
    BY <1>1, <2>1, <2>2 DEF TimersInv, TimerTypes, SleepsUntilFirst
<1>4. CASE Select
  <2>1. /\ heap' = heap /\ timeout' = timeout /\ in_heap' = in_heap /\ now' = now
        /\ heap.top # Null => ~ (now >= timeout[heap.top])
        /\ to_time' = IF heap.top = Null THEN For_ever ELSE timeout[heap.top]
    BY <1>4 DEF Select, Due
  <2>2. Running' = Running
    BY <2>1 DEF Running
  <2>3. /\ Running \subseteq Timers
        /\ heap.top = Null => Running = {}
        /\ heap.top # Null => heap.top \in Running
        /\ \A t \in Running : timeout[heap.top] <= timeout[t]
    BY <1>1, TopIsFirst DEF TimerTypes
  <2>4. TimerTypes'
    <3>1. to_time' \in Nat
      BY <1>1, <2>1, <2>3, TimerAssumption DEF TimerTypes, Times, For_ever
    <3>2. QED
      BY <1>1, <2>1, <3>1 DEF TimerTypes
  <2>5. \A t \in Running : now <= to_time' /\ to_time' <= timeout[t]
    <3>1. SUFFICES ASSUME NEW t \in Running
                   PROVE  now <= to_time' /\ to_time' <= timeout[t]
      OBVIOUS
    <3>2. heap.top \in Timers /\ to_time' = timeout[heap.top]
      BY <2>1, <2>3
    <3>3. timeout[heap.top] \in Nat /\ now \in Nat
      BY <1>1, <3>2 DEF TimerTypes, Times
    <3>4. QED
      BY <2>1, <2>3, <3>2, <3>3, NullApart
  <2>6. SleepsUntilFirst'
    BY <2>1, <2>2, <2>5 DEF SleepsUntilFirst
  <2>7. QED
    BY <1>1, <2>1, <2>2, <2>4, <2>6 DEF TimersInv
<1>5. CASE SelectReturns \/ LoopAgain
  <2>1. /\ heap' = heap /\ timeout' = timeout /\ in_heap' = in_heap /\ now' = now
        /\ loop' # "select" /\ to_time' \in Nat
    BY <1>1, <1>5, TimerAssumption DEF SelectReturns, LoopAgain, TimerTypes, For_ever
  <2>2. Running' = Running
    BY <2>1 DEF Running
  <2>3. QED
    BY <1>1, <2>1, <2>2 DEF TimersInv, TimerTypes, SleepsUntilFirst
<1>6. CASE Tick
  <2>1. /\ heap' = heap /\ timeout' = timeout /\ in_heap' = in_heap
        /\ loop' = "select" /\ loop = "select" /\ to_time' = to_time
        /\ now' = now + 1 /\ now < to_time
    BY <1>6 DEF Tick
  <2>2. Running' = Running
    BY <2>1 DEF Running
  <2>3. SleepsUntilFirst'
    BY <1>1, <2>1, <2>2 DEF SleepsUntilFirst, TimerTypes
  <2>4. QED
    BY <1>1, <2>1, <2>2, <2>3 DEF TimersInv, TimerTypes
<1>7. CASE UNCHANGED vars
  <2>1. /\ heap' = heap /\ timeout' = timeout /\ in_heap' = in_heap
        /\ now' = now /\ loop' = loop /\ to_time' = to_time
    BY <1>7 DEF vars
  <2>2. Running' = Running
    BY <2>1 DEF Running
  <2>3. QED
    BY <1>1, <2>1, <2>2 DEF TimersInv, TimerTypes, SleepsUntilFirst
<1>8. QED
  BY <1>2, <1>3, <1>4, <1>5, <1>6, <1>7 DEF Next

\* However timers are started, stopped and called (sel_start_timer,
\* sel_stop_timer, sel_select_loop), the links of the heap always hold exactly
\* the running timers, row by row and in the order of their times.
THEOREM TimersCorrect == Spec => []TimersInv
<1>1. Init => TimersInv
  BY TimersInit
<1>2. TimersInv /\ [Next]_vars => TimersInv'
  BY TimersStep
<1>3. QED
  BY <1>1, <1>2, PTL DEF Spec

\* select never sleeps past a timer, and not for ever while one is running.
THEOREM SleepCorrect == Spec => []SleepsUntilFirst
<1>1. TimersInv => SleepsUntilFirst
  BY DEF TimersInv
<1>2. QED
  BY <1>1, TimersCorrect, PTL

\* sel_select_loop calls the timers in the order of their times, never early.
THEOREM OrderCorrect == Spec => CalledInOrder
<1> DEFINE Called ==
      \A t \in Timers :
        loop = "timers" /\ heap.top = t /\ heap' # heap =>
          /\ now >= timeout[t]
          /\ \A u \in Running : timeout[t] <= timeout[u]
<1>1. TimersInv /\ [Next]_vars => [Called]_vars
  <2>1. SUFFICES ASSUME TimersInv, Next, NEW t \in Timers,
                        loop = "timers", heap.top = t, heap' # heap
                 PROVE  /\ now >= timeout[t]
                        /\ \A u \in Running : timeout[t] <= timeout[u]
    OBVIOUS
  <2>2. FireTimer
    BY <2>1 DEF Next, HandleFile, Select, SelectReturns, LoopAgain, Tick
  <2>3. now >= timeout[t]
    BY <2>1, <2>2 DEF FireTimer, Due
  <2>4. \A u \in Running : timeout[t] <= timeout[u]
    BY <2>1, TopIsFirst DEF TimersInv, TimerTypes
  <2>5. QED
    BY <2>3, <2>4
<1>2. QED
  BY <1>1, TimersCorrect, PTL DEF Spec, CalledInOrder

\* The places as the links lead are those of the layout.
LEMMA PlacedIs ==
  ASSUME NEW f, NEW n \in Nat, Lays(heap, f, n), n = Cardinality(Running)
  PROVE  \A i \in 1 .. 2 * n + 1 : Placed[i] = f[i]
<1>1. /\ f \in [Nat -> Links] /\ heap.top = f[1]
      /\ \A i \in Nat : f[i] \in Timers <=> (1 <= i /\ i <= n)
  BY DEF Lays
<1>2. \A i \in Nat : f[i] = Null <=> ~ (1 <= i /\ i <= n)
  BY <1>1, NullApart DEF Links
<1> DEFINE D == 1 .. 2 * n + 1
           Next1(g, i) == IF i = 1 THEN heap.top
                          ELSE IF g[i \div 2] = Null THEN Null
                          ELSE IF i % 2 = 0 THEN heap.left[g[i \div 2]]
                          ELSE heap.right[g[i \div 2]]
<1>3. ASSUME NEW i \in D, i # 1
      PROVE  \E m \in Nat : /\ m = i \div 2 /\ m >= 1 /\ m < i /\ m \in D
                            /\ i = IF i % 2 = 0 THEN 2 * m ELSE 2 * m + 1
  <2>1. PICK m : m = i \div 2
    OBVIOUS
  <2>2. /\ m \in Nat /\ m >= 1 /\ m < i /\ m \in D
        /\ i = IF i % 2 = 0 THEN 2 * m ELSE 2 * m + 1
    BY <1>3, <2>1
  <2>3. QED
    BY <2>1, <2>2
<1>4. ASSUME NEW g, NEW i \in D, i # 1 => g[i \div 2] = f[i \div 2]
      PROVE  Next1(g, i) = f[i]
  <2>1. CASE i = 1
    BY <1>1, <2>1
  <2>2. CASE i # 1
    <3>1. PICK m \in Nat : /\ m = i \div 2 /\ m >= 1 /\ m < i /\ m \in D
                           /\ i = IF i % 2 = 0 THEN 2 * m ELSE 2 * m + 1
      BY <1>3, <2>2
    <3>2. g[i \div 2] = f[m]
      BY <1>4, <2>2, <3>1
    <3>3. CASE f[m] = Null
      <4>1. f[i] = Null
        BY <1>2, <3>1, <3>3
      <4>2. QED
        BY <2>2, <3>2, <3>3, <4>1
    <3>4. CASE f[m] # Null
      <4>1. f[m] \in Timers
        BY <1>1, <1>2, <3>4
      <4>2. heap.left[f[m]] = f[2 * m] /\ heap.right[f[m]] = f[2 * m + 1]
        BY <4>1, PlaceFacts
      <4>3. QED
        BY <2>2, <3>1, <3>2, <3>4, <4>2
    <3>5. QED
      BY <3>3, <3>4
  <2>3. QED
    BY <2>1, <2>2
<1>5. PICK e : e = [i \in D |-> f[i]]
  OBVIOUS
<1>6. e = [i \in D |-> Next1(e, i)]
  <2>1. ASSUME NEW i \in D PROVE Next1(e, i) = f[i]
    <3>1. i # 1 => e[i \div 2] = f[i \div 2]
      BY <1>3, <1>5, <2>1
    <3>2. QED
      BY <1>4, <2>1, <3>1
  <2>2. QED
    BY <1>5, <2>1
<1>7. PICK p : p = CHOOSE g : g = [i \in D |-> Next1(g, i)]
  OBVIOUS
<1>8. p = [i \in D |-> Next1(p, i)]
  BY <1>6, <1>7
<1>9. Placed = p
  BY <1>7 DEF Placed
<1>10. \A i \in D : p[i] = Next1(p, i)
  <2>1. PICK r : r = [i \in D |-> Next1(p, i)]
    OBVIOUS
  <2>2. p = r /\ \A i \in D : r[i] = Next1(p, i)
    BY <1>8, <2>1
  <2>3. QED
    BY <2>2
<1>11. PICK S : S = {k \in Nat : \A i \in D : i <= k => p[i] = f[i]}
  OBVIOUS
<1>12. 0 \in S
  BY <1>11
<1>13. ASSUME NEW k \in Nat, k \in S PROVE k + 1 \in S
  <2>1. ASSUME NEW i \in D, i <= k + 1 PROVE p[i] = f[i]
    <3>1. i # 1 => p[i \div 2] = f[i \div 2]
      <4>1. SUFFICES ASSUME i # 1 PROVE p[i \div 2] = f[i \div 2]
        OBVIOUS
      <4>2. PICK m \in Nat : m = i \div 2 /\ m < i /\ m \in D
        BY <1>3, <4>1
      <4>3. m <= k
        BY <2>1, <4>2
      <4>4. QED
        BY <1>11, <1>13, <4>2, <4>3
    <3>2. Next1(p, i) = f[i]
      BY <1>4, <3>1
    <3>3. QED
      BY <1>10, <3>2
  <2>2. QED
    BY <1>11, <2>1
<1>14. 2 * n + 1 \in S
  BY <1>12, <1>13, Induction
<1>15. QED
  BY <1>9, <1>11, <1>14

LEMMA IntactFromHolds ==
  ASSUME TimerTypes, Holds(heap, Running, timeout)
  PROVE  HeapIntact
<1>1. PICK f : \E n \in Nat : /\ Lays(heap, f, n) /\ Held(f, n) = Running
                              /\ InOrder(f, n, timeout)
  BY DEF Holds
<1>2. PICK n \in Nat : /\ Lays(heap, f, n) /\ Held(f, n) = Running
                       /\ InOrder(f, n, timeout)
  BY <1>1
<1>3. n = Cardinality(Running)
  BY <1>2, HeldCount
<1>4. \A i \in 1 .. 2 * n + 1 : Placed[i] = f[i]
  BY <1>2, <1>3, PlacedIs
<1>5. /\ f \in [Nat -> Links] /\ heap.top = f[1] /\ heap.last = f[n]
      /\ \A i \in Nat : f[i] \in Timers <=> (1 <= i /\ i <= n)
  BY <1>2 DEF Lays
<1>6. \A i \in Nat : f[i] = Null <=> ~ (1 <= i /\ i <= n)
  BY <1>5, NullApart DEF Links
<1>7. NoTimerLost
  <2>1. \A i \in 1 .. n : Placed[i] = f[i]
    BY <1>4
  <2>2. {Placed[i] : i \in 1 .. n} = Held(f, n)
    BY <2>1 DEF Held
  <2>3. \A i \in n + 1 .. 2 * n + 1 : Placed[i] = Null
    BY <1>4, <1>6
  <2>4. QED
    BY <1>2, <1>3, <2>2, <2>3 DEF NoTimerLost
<1>8. LinksAgree
  <2>1. heap.top # Null => heap.up[heap.top] = Null
    <3>1. heap.top # Null => f[1] \in Timers
      BY <1>5 DEF Links
    <3>2. QED
      BY <1>2, <1>5, <3>1, PlaceFacts
  <2>2. ASSUME NEW i \in 2 .. n
        PROVE  /\ heap.up[Placed[i]] = Placed[i \div 2]
               /\ timeout[Placed[i \div 2]] <= timeout[Placed[i]]
    <3>1. PICK m : m = i \div 2
      OBVIOUS
    <3>2. m \in Nat /\ m >= 1 /\ m < i /\ (i = 2 * m \/ i = 2 * m + 1)
      BY <2>2, <3>1
    <3>3. Placed[i] = f[i] /\ Placed[m] = f[m] /\ f[i] \in Timers
      BY <1>4, <1>5, <2>2, <3>2
    <3>4. heap.up[f[i]] = f[m]
      BY <1>2, <3>2, <3>3, PlaceFacts
    <3>5. timeout[f[m]] <= timeout[f[i]]
      BY <1>2, <2>2, <3>2 DEF InOrder, Under
    <3>6. QED
      BY <3>1, <3>3, <3>4, <3>5
  <2>3. QED
    BY <1>3, <2>1, <2>2 DEF LinksAgree
<1>9. LastIsLast
  <2>1. CASE n = 0
    <3>1. Running = {}
      BY <1>2, <2>1 DEF Held
    <3>2. QED
      BY <1>5, <1>6, <2>1, <3>1 DEF LastIsLast
  <2>2. CASE n # 0
    <3>1. Running # {} /\ Placed[n] = f[n]
      BY <1>2, <1>4, <2>2 DEF Held
    <3>2. QED
      BY <1>3, <1>5, <3>1 DEF LastIsLast
  <2>3. QED
    BY <2>1, <2>2
<1>10. QED
  BY <1>7, <1>8, <1>9 DEF HeapIntact

\* The links and the two pointers into them are always a complete heap of
\* exactly the running timers, whatever add_to_heap and remove_from_heap did.
THEOREM HeapCorrect == Spec => []HeapIntact
<1>1. TimersInv => HeapIntact
  BY IntactFromHolds DEF TimersInv
<1>2. QED
  BY <1>1, TimersCorrect, PTL
=============================================================================
