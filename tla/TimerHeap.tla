------------------------------ MODULE TimerHeap ------------------------------
(***************************************************************************)
(* ser2net/selector.c: the timers of the select loop, a binary heap linked *)
(* with pointers (left, right, up) and kept complete with a pointer to its *)
(* last element, and the loop itself: it calls the handlers of the timers  *)
(* that are due, sleeps in select until the next one, handles the files    *)
(* that are ready, and starts over.                                        *)
(***************************************************************************)
EXTENDS Naturals, FiniteSets

CONSTANTS
  Timers,        \* allocated timers
  Null,          \* the null pointer
  MaxTime        \* bound: the last moment of the clock

ASSUME TimerAssumption ==
  /\ IsFiniteSet(Timers)
  /\ Null \notin Timers
  /\ MaxTime \in Nat

VARIABLES
  heap,          \* timer_top, timer_last and the timers' links
  timeout,       \* per timer, when it goes off
  in_heap,       \* per timer, whether it is running
  now,           \* the clock
  loop,          \* "timers", "select" or "io": where sel_select_loop is
  to_time        \* moment until which select sleeps, or For_ever

vars == <<heap, timeout, in_heap, now, loop, to_time>>

For_ever == MaxTime + 2
-----------------------------------------------------------------------------
(***************************************************************************)
(* The heap: pure functions on [top, last, left, right, up].               *)
(***************************************************************************)
IsLeft(h, t) == h.up[t] # Null /\ h.left[h.up[t]] = t
IsRight(h, t) == h.up[t] # Null /\ h.right[h.up[t]] = t

SetUp(h, t, p) == IF t = Null THEN h ELSE [h EXCEPT !.up[t] = p]

\* p's child t is replaced by s; without p the top of the heap is.
SetChild(h, p, t, s) ==
  IF p = Null THEN [h EXCEPT !.top = s]
  ELSE IF h.left[p] = t THEN [h EXCEPT !.left[p] = s]
  ELSE [h EXCEPT !.right[p] = s]

\* No way through the heap is longer than there are timers.  The loops below
\* take that many steps, and stay where they are from their ends on.
Deepest == Cardinality(Timers)

\* n steps down along the left, or along the right links
Down(link, t, n) ==
  LET down[i \in 0 .. n] == IF i = 0 THEN t ELSE link[down[i - 1]] IN down[n]

\* While the node is the left (right) child of its parent, go up: the node
\* reached, and the steps.
ClimbOne(h, link, u) ==
  LET p == h.up[u.node] IN
  IF p # Null /\ link[p] = u.node THEN [node |-> p, steps |-> u.steps + 1] ELSE u

Up(h, link, t) ==
  LET go[i \in 0 .. Deepest] ==
        IF i = 0 THEN [node |-> t, steps |-> 0] ELSE ClimbOne(h, link, go[i - 1]) IN
  go[Deepest]

\* find_next_pos: the parent of the place after curr, and whether it is its left
FindNextPos(h, curr) ==
  IF IsLeft(h, curr) THEN [parent |-> h.up[curr], left |-> FALSE]
  ELSE LET u == Up(h, h.right, curr)
           p == IF h.up[u.node] # Null
                THEN Down(h.left, h.right[h.up[u.node]], u.steps - 1)
                ELSE Down(h.left, u.node, u.steps) IN
       [parent |-> p, left |-> TRUE]

FindPrevElem(h, curr) ==
  IF IsRight(h, curr) THEN h.left[h.up[curr]]
  ELSE LET u == Up(h, h.left, curr) IN
       IF h.up[u.node] # Null THEN Down(h.right, h.left[h.up[u.node]], u.steps)
       ELSE Down(h.right, u.node, u.steps - 1)

\* Mutant: the pointer to the last element stays when that element moves up.
ExchangeKeepsLast(h, parent, t) ==
  LET left == h.left[parent] = t
      other == IF left THEN h.right[parent] ELSE h.left[parent]
      h1 == [h EXCEPT !.left[t] = IF left THEN parent ELSE other,
                      !.right[t] = IF left THEN other ELSE parent,
                      !.up[t] = h.up[parent], !.up[parent] = t,
                      !.left[parent] = h.left[t], !.right[parent] = h.right[t]]
      h2 == SetUp(SetUp(SetUp(h1, other, t), h.left[t], parent), h.right[t], parent) IN
  SetChild(h2, h.up[parent], parent, t)

\* The exchange of an element with its parent, in send_up and send_down
Exchange(h, parent, t) ==
  LET left == h.left[parent] = t
      other == IF left THEN h.right[parent] ELSE h.left[parent]
      h1 == [h EXCEPT !.left[t] = IF left THEN parent ELSE other,
                      !.right[t] = IF left THEN other ELSE parent,
                      !.up[t] = h.up[parent], !.up[parent] = t,
                      !.left[parent] = h.left[t], !.right[parent] = h.right[t],
                      !.last = IF h.last = t THEN parent ELSE h.last]
      h2 == SetUp(SetUp(SetUp(h1, other, t), h.left[t], parent), h.right[t], parent) IN
  SetChild(h2, h.up[parent], parent, t)

\* elem goes off before its parent.
TooLow(h, elem, at) == h.up[elem] # Null /\ at[elem] < at[h.up[elem]]

RaiseOne(h, elem, at) ==
  IF TooLow(h, elem, at) THEN Exchange(h, h.up[elem], elem) ELSE h

SendUp(h, elem, at) ==
  LET go[i \in 0 .. Deepest] == IF i = 0 THEN h ELSE RaiseOne(go[i - 1], elem, at) IN
  go[Deepest]

\* The smaller of the two below is chosen, the left one if they are equal.
Below(h, elem, at) ==
  LET l == h.left[elem]
      r == h.right[elem] IN
  IF r # Null /\ at[l] > at[r] THEN r ELSE l

TooHigh(h, elem, at) == h.left[elem] # Null /\ at[elem] > at[Below(h, elem, at)]

LowerOne(h, elem, at) ==
  IF TooHigh(h, elem, at) THEN Exchange(h, elem, Below(h, elem, at)) ELSE h

SendDown(h, elem, at) ==
  LET go[i \in 0 .. Deepest] == IF i = 0 THEN h ELSE LowerOne(go[i - 1], elem, at) IN
  go[Deepest]

AddToHeap(h, elem, at) ==
  LET h1 == [h EXCEPT !.left[elem] = Null, !.right[elem] = Null, !.up[elem] = Null,
                      !.last = elem] IN
  IF h.top = Null THEN [h1 EXCEPT !.top = elem]
  ELSE LET n == FindNextPos(h, h.last)
           h2 == IF n.left
                 THEN [h1 EXCEPT !.left[n.parent] = elem, !.up[elem] = n.parent]
                 ELSE [h1 EXCEPT !.right[n.parent] = elem, !.up[elem] = n.parent] IN
       SendUp(h2, elem, at)

\* The removed timer keeps its links in the code, and add_to_heap clears them
\* before they are read: here they are cleared at once.
Unlinked(h, elem) ==
  [h EXCEPT !.left[elem] = Null, !.right[elem] = Null, !.up[elem] = Null]

\* Mutant: a hole filled from below is not propagated upwards.
SettleDownOnly(h, elem, at) == SendDown(h, elem, at)

\* The former last element is propagated to the right place.
Settle(h, elem, at) ==
  IF TooLow(h, elem, at) THEN SendUp(h, elem, at) ELSE SendDown(h, elem, at)

RemoveFromHeap(h, elem, at) ==
  LET to_insert == h.last
      h1 == SetChild([h EXCEPT !.last = FindPrevElem(h, to_insert)],
                     h.up[to_insert], to_insert, Null)
      h2 == SetChild(h1, h1.up[elem], elem, to_insert)
      h3 == SetUp(SetUp(h2, h1.left[elem], to_insert), h1.right[elem], to_insert)
      h4 == [h3 EXCEPT !.up[to_insert] = h1.up[elem],
                       !.left[to_insert] = h1.left[elem],
                       !.right[to_insert] = h1.right[elem],
                       !.last = IF @ = elem THEN to_insert ELSE @] IN
  IF h.up[to_insert] = Null THEN Unlinked([h EXCEPT !.top = Null, !.last = Null], elem)
  ELSE IF elem = to_insert THEN Unlinked(h1, elem)
  ELSE Unlinked(Settle(h4, to_insert, at), elem)
-----------------------------------------------------------------------------
(***************************************************************************)
(* The timers' operations, called by the handlers of sel_select_loop.      *)
(***************************************************************************)
Init ==
  /\ heap = [top |-> Null, last |-> Null, left |-> [t \in Timers |-> Null],
             right |-> [t \in Timers |-> Null], up |-> [t \in Timers |-> Null]]
  /\ timeout = [t \in Timers |-> 0]
  /\ in_heap = [t \in Timers |-> FALSE]
  /\ now = 0 /\ loop = "timers" /\ to_time = For_ever

\* sel_start_timer; a running timer is left alone (EBUSY).
StartTimer(t, when) ==
  /\ ~in_heap[t]
  /\ timeout' = [timeout EXCEPT ![t] = when]
  /\ heap' = AddToHeap(heap, t, timeout')
  /\ in_heap' = [in_heap EXCEPT ![t] = TRUE]

\* sel_stop_timer, also in sel_free_timer; ETIMEDOUT if it is not running.  The
\* timeout of a timer that is not running is never read, so it is cleared here.
StopTimer(t) ==
  /\ in_heap[t]
  /\ heap' = RemoveFromHeap(heap, t, timeout)
  /\ in_heap' = [in_heap EXCEPT ![t] = FALSE]
  /\ timeout' = [timeout EXCEPT ![t] = 0]

\* A handler of a file starts or stops a timer; the next file's may, too.
HandleFile ==
  /\ loop = "io"
  /\ \E t \in Timers : StopTimer(t) \/ \E when \in now .. MaxTime + 1 : StartTimer(t, when)
  /\ UNCHANGED <<now, loop, to_time>>

\* Mutant: a timer is called a moment early.
DueSoon(t) == now + 1 >= timeout[t]

Due(t) == now >= timeout[t]

\* The timer on top is due: it is taken out and its handler called, which may
\* start it anew, as got_timeout does, and does not touch the others.
FireTimer ==
  /\ loop = "timers"
  /\ heap.top # Null
  /\ LET t == heap.top
         h == RemoveFromHeap(heap, t, timeout) IN
       /\ Due(t)
       /\ \/ /\ heap' = h
             /\ in_heap' = [in_heap EXCEPT ![t] = FALSE]
             /\ timeout' = [timeout EXCEPT ![t] = 0]
          \/ /\ timeout' = [timeout EXCEPT ![t] = now + 1]
             /\ heap' = AddToHeap(h, t, timeout')
             /\ UNCHANGED in_heap
  /\ UNCHANGED <<now, loop, to_time>>

\* No timer is due: select is called until the one on top is.
Select ==
  /\ loop = "timers"
  /\ heap.top # Null => ~Due(heap.top)
  /\ loop' = "select"
  /\ to_time' = IF heap.top = Null THEN For_ever ELSE timeout[heap.top]
  /\ UNCHANGED <<heap, timeout, in_heap, now>>

\* select returns, with files that are ready or because the time is over.
SelectReturns ==
  /\ loop = "select"
  /\ loop' = "io"
  /\ to_time' = For_ever
  /\ UNCHANGED <<heap, timeout, in_heap, now>>

LoopAgain ==
  /\ loop = "io"
  /\ loop' = "timers"
  /\ UNCHANGED <<heap, timeout, in_heap, now, to_time>>

\* Time passes in select: it sleeps no longer than it was told.
Tick ==
  /\ loop = "select"
  /\ now < MaxTime /\ now < to_time
  /\ now' = now + 1
  /\ UNCHANGED <<heap, timeout, in_heap, loop, to_time>>

Next == HandleFile \/ FireTimer \/ Select \/ SelectReturns \/ LoopAgain \/ Tick

Spec == Init /\ [][Next]_vars
-----------------------------------------------------------------------------
Running == {t \in Timers : in_heap[t]}

\* The element at each place, row by row from the top as the links lead, with
\* the places below the last row
Placed ==
  LET at[i \in 1 .. 2 * Cardinality(Running) + 1] ==
        IF i = 1 THEN heap.top
        ELSE LET p == at[i \div 2] IN
             IF p = Null THEN Null ELSE IF i % 2 = 0 THEN heap.left[p] ELSE heap.right[p] IN
  at

\* With n running timers the first n places hold them, so each is in the heap
\* once, the rows are full from the left, and nothing else is in it.
NoTimerLost ==
  LET n == Cardinality(Running) IN
  /\ {Placed[i] : i \in 1 .. n} = Running
  /\ \A i \in n + 1 .. 2 * n + 1 : Placed[i] = Null

\* An element's up link leads to its parent, which does not go off after it.
LinksAgree ==
  /\ heap.top # Null => heap.up[heap.top] = Null
  /\ \A i \in 2 .. Cardinality(Running) :
       /\ heap.up[Placed[i]] = Placed[i \div 2]
       /\ timeout[Placed[i \div 2]] <= timeout[Placed[i]]

LastIsLast ==
  heap.last = IF Running = {} THEN Null ELSE Placed[Cardinality(Running)]

\* Whatever is started, stopped and called, the links and the two pointers
\* into them are a complete heap of exactly the running timers: none is lost
\* or in it twice, and the next one is added at its end.  The source checks
\* links and order in check_tree_item and the end in check_tree.
HeapIntact == NoTimerLost /\ LinksAgree /\ LastIsLast

\* While select sleeps every timer is called in time: it sleeps until the
\* first of them and not for ever when there is one.
SleepsUntilFirst ==
  loop = "select" => \A t \in Running : now <= to_time /\ to_time <= timeout[t]

\* The timers are called in the order of their times and never early.
CalledInOrder ==
  [][\A t \in Timers :
       loop = "timers" /\ heap.top = t /\ heap' # heap =>
         /\ now >= timeout[t]
         /\ \A u \in Running : timeout[t] <= timeout[u]]_vars
=============================================================================
